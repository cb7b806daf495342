------------------------------ MODULE LiveProofs ------------------------------
(***************************************************************************)
(* Theorems about Live, for any channels, applications, keys and bounds.   *)
(***************************************************************************)
EXTENDS Live, TLAPS

-----------------------------------------------------------------------------
(* Pushes in a queue of frames.                                            *)

IsPush(f) == f.event = "presence"

NoPush(q) == \A i \in DOMAIN q : ~IsPush(q[i])

\* The pushes in q are those that follow the n-th, one by one, in order.
InLine(q, n) ==
    \A i \in DOMAIN q : IsPush(q[i]) =>
        /\ q[i].value > n
        /\ \/ q[i].value = n + 1
           \/ \E j \in DOMAIN q : j < i /\ IsPush(q[j]) /\ q[j].value + 1 = q[i].value
        /\ \A j \in DOMAIN q : j < i /\ IsPush(q[j]) => q[j].value < q[i].value

\* With the first n they are all of the first s.
UpTo(q, n, s) ==
    /\ \A i \in DOMAIN q : IsPush(q[i]) => q[i].value <= s
    /\ (NoPush(q) /\ n = s) \/ \E i \in DOMAIN q : IsPush(q[i]) /\ q[i].value = s

Pushes(s) == [i \in 1 .. s |-> Frame("presence", i)]

\* A frame that is no push, at the end of a queue, leaves its pushes as they are.
LEMMA OtherFrameAppended ==
    ASSUME NEW q \in Seq(UpFrames), NEW f \in UpFrames, ~IsPush(f), NEW n \in Nat, NEW s \in Nat
    PROVE  /\ InLine(q, n) => InLine(Append(q, f), n)
           /\ UpTo(q, n, s) => UpTo(Append(q, f), n, s)
           /\ NoPush(q) <=> NoPush(Append(q, f))
<1> DEFINE r == Append(q, f)
<1>1. /\ Len(r) = Len(q) + 1 /\ DOMAIN r = 1 .. Len(q) + 1 /\ DOMAIN q = 1 .. Len(q)
      /\ r[Len(q) + 1] = f /\ Len(q) \in Nat
      /\ \A i \in 1 .. Len(q) : r[i] = q[i]
    OBVIOUS
<1> HIDE DEF r
<1>2. InLine(q, n) => InLine(r, n)
    BY <1>1 DEF InLine
<1>3. NoPush(q) <=> NoPush(r)
    BY <1>1 DEF NoPush
<1>4. UpTo(q, n, s) => UpTo(r, n, s)
    BY <1>1, <1>3 DEF UpTo
<1> QED
    BY <1>2, <1>3, <1>4 DEF r

\* The next push at the end of a queue in line keeps it in line.
LEMMA PushAppended ==
    ASSUME NEW q \in Seq(UpFrames), NEW n \in Nat, NEW s \in Nat, InLine(q, n), UpTo(q, n, s)
    PROVE  LET r == Append(q, Frame("presence", s + 1))
           IN  InLine(r, n) /\ UpTo(r, n, s + 1)
<1> DEFINE f == Frame("presence", s + 1)
           r == Append(q, f)
<1>1. /\ Len(r) = Len(q) + 1 /\ DOMAIN r = 1 .. Len(q) + 1 /\ DOMAIN q = 1 .. Len(q)
      /\ r[Len(q) + 1] = f /\ Len(q) \in Nat
      /\ \A i \in 1 .. Len(q) : r[i] = q[i] /\ q[i] \in UpFrames
    OBVIOUS
<1>2. IsPush(f) /\ f.value = s + 1
    BY DEF IsPush, Frame
<1>3. \A i \in 1 .. Len(q) : q[i].value \in Nat
    BY <1>1 DEF UpFrames
<1> HIDE DEF r, f
<1>4. n <= s
    BY <1>1, <1>3 DEF InLine, UpTo
<1>5. InLine(r, n)
    <2> SUFFICES ASSUME NEW i \in 1 .. Len(q) + 1, IsPush(r[i])
                 PROVE  /\ r[i].value > n
                        /\ \/ r[i].value = n + 1
                           \/ \E j \in DOMAIN r : j < i /\ IsPush(r[j]) /\ r[j].value + 1 = r[i].value
                        /\ \A j \in DOMAIN r : j < i /\ IsPush(r[j]) => r[j].value < r[i].value
        BY <1>1 DEF InLine
    <2>1. CASE i \in 1 .. Len(q)
        BY <2>1, <1>1 DEF InLine
    <2>2. CASE i = Len(q) + 1
        BY <2>2, <1>1, <1>2, <1>3, <1>4 DEF UpTo, NoPush
    <2> QED
        BY <2>1, <2>2, <1>1
<1>6. UpTo(r, n, s + 1)
    BY <1>1, <1>2, <1>3 DEF UpTo
<1> QED
    BY <1>5, <1>6 DEF r, f

\* Taking the head of a queue in line: a push is the next to be heard.
LEMMA FrameTaken ==
    ASSUME NEW q \in Seq(UpFrames), q # <<>>, NEW n \in Nat, NEW s \in Nat, InLine(q, n)
    PROVE  /\ NoPush(q) => NoPush(Tail(q))
           /\ ~IsPush(Head(q)) => /\ InLine(Tail(q), n)
                                  /\ UpTo(q, n, s) => UpTo(Tail(q), n, s)
                                  /\ NoPush(q) <=> NoPush(Tail(q))
           /\ IsPush(Head(q)) => /\ Head(q).value = n + 1
                                 /\ InLine(Tail(q), n + 1)
                                 /\ UpTo(q, n, s) => UpTo(Tail(q), n + 1, s)
<1> DEFINE r == Tail(q)
<1>1. /\ Len(q) \in Nat \ {0} /\ DOMAIN q = 1 .. Len(q) /\ DOMAIN r = 1 .. Len(q) - 1
      /\ Head(q) = q[1]
      /\ \A i \in 1 .. Len(q) - 1 : r[i] = q[i + 1]
      /\ \A i \in 1 .. Len(q) : q[i] \in UpFrames
    OBVIOUS
<1>2. \A i \in 1 .. Len(q) : q[i].value \in Nat
    BY <1>1 DEF UpFrames
<1> HIDE DEF r
<1>3. NoPush(q) => NoPush(r)
    BY <1>1 DEF NoPush
<1>4. ASSUME ~IsPush(q[1])
      PROVE  InLine(r, n) /\ (UpTo(q, n, s) => UpTo(r, n, s)) /\ (NoPush(q) <=> NoPush(r))
    <2>1. \A i \in 1 .. Len(q) : IsPush(q[i]) => i - 1 \in 1 .. Len(q) - 1 /\ r[i - 1] = q[i]
        BY <1>1, <1>4
    <2>2. InLine(r, n)
        <3> SUFFICES ASSUME NEW i \in 1 .. Len(q) - 1, IsPush(r[i])
                     PROVE  /\ r[i].value > n
                            /\ \/ r[i].value = n + 1
                               \/ \E j \in DOMAIN r : j < i /\ IsPush(r[j]) /\ r[j].value + 1 = r[i].value
                            /\ \A j \in DOMAIN r : j < i /\ IsPush(r[j]) => r[j].value < r[i].value
            BY <1>1 DEF InLine
        <3>1. /\ i + 1 \in 1 .. Len(q) /\ r[i] = q[i + 1]
              /\ \A j \in DOMAIN r : j < i => j + 1 \in DOMAIN q /\ j + 1 < i + 1 /\ r[j] = q[j + 1]
            BY <1>1
        <3>2. \A j \in DOMAIN q : j < i + 1 /\ IsPush(q[j])
                => j - 1 \in DOMAIN r /\ j - 1 < i /\ r[j - 1] = q[j]
            BY <1>1, <2>1
        <3>3. r[i].value > n /\ \A j \in DOMAIN r : j < i /\ IsPush(r[j]) => r[j].value < r[i].value
            BY <3>1, <1>1 DEF InLine
        <3>4. \/ r[i].value = n + 1
              \/ \E j \in DOMAIN r : j < i /\ IsPush(r[j]) /\ r[j].value + 1 = r[i].value
            <4> SUFFICES ASSUME r[i].value # n + 1
                         PROVE  \E j \in DOMAIN r : j < i /\ IsPush(r[j]) /\ r[j].value + 1 = r[i].value
                OBVIOUS
            <4>1. PICK j \in DOMAIN q : j < i + 1 /\ IsPush(q[j]) /\ q[j].value + 1 = q[i + 1].value
                BY <3>1, <1>1 DEF InLine
            <4>2. j - 1 \in DOMAIN r /\ j - 1 < i /\ IsPush(r[j - 1]) /\ r[j - 1].value + 1 = r[i].value
                BY <4>1, <3>1, <3>2
            <4> QED
                BY <4>2
        <3> QED
            BY <3>3, <3>4
    <2>3. NoPush(q) <=> NoPush(r)
        BY <1>1, <2>1 DEF NoPush
    <2>4. ASSUME UpTo(q, n, s) PROVE UpTo(r, n, s)
        <3>1. \A i \in DOMAIN r : IsPush(r[i]) => r[i].value <= s
            BY <2>4, <1>1 DEF UpTo
        <3>2. CASE NoPush(q) /\ n = s
            BY <3>1, <3>2, <2>3 DEF UpTo
        <3>3. ASSUME NEW i \in DOMAIN q, IsPush(q[i]), q[i].value = s PROVE UpTo(r, n, s)
            <4>1. i - 1 \in DOMAIN r /\ r[i - 1] = q[i]
                BY <2>1, <3>3, <1>1
            <4> QED
                BY <3>1, <3>3, <4>1 DEF UpTo
        <3> QED
            BY <2>4, <3>2, <3>3 DEF UpTo
    <2> QED
        BY <2>2, <2>3, <2>4
<1>5. ASSUME IsPush(q[1])
      PROVE  q[1].value = n + 1 /\ InLine(r, n + 1) /\ (UpTo(q, n, s) => UpTo(r, n + 1, s))
    <2>1. q[1].value = n + 1
        BY <1>1, <1>5 DEF InLine
    <2>2. InLine(r, n + 1)
        <3> SUFFICES ASSUME NEW i \in 1 .. Len(q) - 1, IsPush(r[i])
                     PROVE  /\ r[i].value > n + 1
                            /\ \/ r[i].value = n + 2
                               \/ \E j \in DOMAIN r : j < i /\ IsPush(r[j]) /\ r[j].value + 1 = r[i].value
                            /\ \A j \in DOMAIN r : j < i /\ IsPush(r[j]) => r[j].value < r[i].value
            BY <1>1 DEF InLine
        <3>1. /\ i + 1 \in 1 .. Len(q) /\ 1 < i + 1 /\ r[i] = q[i + 1] /\ q[i + 1].value \in Nat
              /\ \A j \in DOMAIN r : j < i => j + 1 \in DOMAIN q /\ j + 1 < i + 1 /\ r[j] = q[j + 1]
            BY <1>1, <1>2
        <3>2. \A j \in DOMAIN q : j < i + 1 /\ j # 1
                => j - 1 \in DOMAIN r /\ j - 1 < i /\ r[j - 1] = q[j]
            BY <1>1
        <3>3. 1 \in DOMAIN q /\ q[1].value < q[i + 1].value
            BY <1>1, <1>5, <3>1 DEF InLine
        <3>4. r[i].value > n + 1 /\ \A j \in DOMAIN r : j < i /\ IsPush(r[j]) => r[j].value < r[i].value
            BY <2>1, <3>1, <3>3, <1>1 DEF InLine
        <3>5. PICK j \in DOMAIN q : j < i + 1 /\ IsPush(q[j]) /\ q[j].value + 1 = q[i + 1].value
            BY <2>1, <3>1, <3>3, <1>1 DEF InLine
        <3>6. CASE j = 1
            BY <3>1, <3>4, <3>5, <3>6, <2>1
        <3>7. CASE j # 1
            <4>1. j - 1 \in DOMAIN r /\ j - 1 < i /\ IsPush(r[j - 1]) /\ r[j - 1].value + 1 = r[i].value
                BY <3>1, <3>2, <3>5, <3>7
            <4> QED
                BY <3>4, <4>1
        <3> QED
            BY <3>6, <3>7
    <2>3. ASSUME UpTo(q, n, s) PROVE UpTo(r, n + 1, s)
        <3>1. \A i \in 1 .. Len(q) - 1 : IsPush(r[i]) => r[i].value <= s
            BY <1>1, <2>3 DEF UpTo
        <3>2. PICK i \in 1 .. Len(q) : IsPush(q[i]) /\ q[i].value = s
            BY <1>1, <1>5, <2>3 DEF UpTo, NoPush
        <3>3. CASE i = 1
            <4>1. n + 1 = s
                BY <2>1, <3>2, <3>3
            <4>2. \A k \in DOMAIN r : IsPush(r[k]) => r[k].value > n + 1 /\ r[k].value \in Nat
                BY <2>2, <1>1, <1>2 DEF InLine
            <4>3. NoPush(r)
                BY <4>1, <4>2, <3>1, <1>1 DEF NoPush
            <4> QED
                BY <4>1, <4>3, <1>1, <3>1 DEF UpTo
        <3>4. CASE i # 1
            <4>1. i - 1 \in 1 .. Len(q) - 1 /\ r[i - 1] = q[i]
                BY <3>4, <1>1
            <4> QED
                BY <4>1, <1>1, <3>1, <3>2 DEF UpTo
        <3> QED
            BY <3>3, <3>4
    <2> QED
        BY <2>1, <2>2, <2>3
<1> QED
    BY <1>1, <1>3, <1>4, <1>5 DEF r

\* What a client has pushed so far, after a queue without pushes, is in line.
LEMMA QueueFlushed ==
    ASSUME NEW q \in Seq(UpFrames), NoPush(q), NEW s \in Nat
    PROVE  /\ q \o Pushes(s) \in Seq(UpFrames)
           /\ InLine(q \o Pushes(s), 0) /\ UpTo(q \o Pushes(s), 0, s)
<1> DEFINE r == q \o Pushes(s)
<1>1. Pushes(s) \in Seq(UpFrames) /\ Len(Pushes(s)) = s
    BY DEF Pushes, Frame, UpFrames
<1>2. /\ r \in Seq(UpFrames) /\ Len(q) \in Nat /\ DOMAIN q = 1 .. Len(q)
      /\ DOMAIN r = 1 .. Len(q) + s
      /\ \A i \in 1 .. Len(q) : r[i] = q[i]
      /\ \A i \in Len(q) + 1 .. Len(q) + s : r[i] = Pushes(s)[i - Len(q)]
    BY <1>1
<1>3. \A i \in 1 .. s : IsPush(Pushes(s)[i]) /\ Pushes(s)[i].value = i
    BY DEF Pushes, Frame, IsPush
<1>4. \A i \in 1 .. Len(q) + s : IsPush(r[i]) => i > Len(q)
    BY <1>2 DEF NoPush
<1>5. \A i \in Len(q) + 1 .. Len(q) + s : IsPush(r[i]) /\ r[i].value = i - Len(q)
    <2> TAKE i \in Len(q) + 1 .. Len(q) + s
    <2>1. i - Len(q) \in 1 .. s
        BY <1>2
    <2> QED
        BY <2>1, <1>2, <1>3
<1> HIDE DEF r
<1>6. InLine(r, 0)
    <2> SUFFICES ASSUME NEW i \in Len(q) + 1 .. Len(q) + s
                 PROVE  /\ r[i].value > 0
                        /\ \/ r[i].value = 1
                           \/ \E j \in DOMAIN r : j < i /\ IsPush(r[j]) /\ r[j].value + 1 = r[i].value
                        /\ \A j \in DOMAIN r : j < i /\ IsPush(r[j]) => r[j].value < r[i].value
        BY <1>2, <1>4 DEF InLine
    <2>1. ASSUME NEW j \in DOMAIN r, j < i, IsPush(r[j])
          PROVE  r[j].value = j - Len(q)
        <3>1. j \in Len(q) + 1 .. Len(q) + s
            BY <2>1, <1>2, <1>4
        <3> QED
            BY <3>1, <1>5
    <2>2. /\ r[i].value = i - Len(q) /\ r[i].value > 0
          /\ \A j \in DOMAIN r : j < i /\ IsPush(r[j]) => r[j].value < r[i].value
        BY <2>1, <1>2, <1>5
    <2>3. CASE i = Len(q) + 1
        BY <2>2, <2>3, <1>2
    <2>4. CASE i # Len(q) + 1
        <3>1. i - 1 \in Len(q) + 1 .. Len(q) + s /\ i - 1 \in DOMAIN r /\ i - 1 < i
            BY <2>4, <1>2
        <3>2. IsPush(r[i - 1]) /\ r[i - 1].value = i - 1 - Len(q) /\ r[i].value = i - Len(q)
            BY <3>1, <1>5
        <3>3. r[i - 1].value + 1 = r[i].value
            BY <3>2, <1>2
        <3> QED
            BY <3>1, <3>2, <3>3, <2>2
    <2> QED
        BY <2>3, <2>4
<1>7. UpTo(r, 0, s)
    <2>1. \A i \in 1 .. Len(q) + s : IsPush(r[i]) => r[i].value <= s
        BY <1>2, <1>4, <1>5
    <2>2. CASE s = 0
        BY <2>1, <2>2, <1>2, <1>4 DEF UpTo, NoPush
    <2>3. CASE s # 0
        <3>1. Len(q) + s \in Len(q) + 1 .. Len(q) + s /\ Len(q) + s \in 1 .. Len(q) + s
            BY <2>3, <1>2
        <3>2. IsPush(r[Len(q) + s]) /\ r[Len(q) + s].value = s
            BY <3>1, <1>5, <1>2
        <3> QED
            BY <3>1, <3>2, <2>1, <1>2 DEF UpTo
    <2> QED
        BY <2>2, <2>3
<1> QED
    BY <1>2, <1>6, <1>7 DEF r

-----------------------------------------------------------------------------
(* The invariant.                                                          *)

Early == {"unused", "opening", "joining"}

\* Before the join nothing but the queue holds pushes, all of them.
Queued(c) ==
    /\ NoPush(up[c]) /\ heard[c] = <<>>
    /\ Len(pending[c]) = sent[c] /\ \A i \in DOMAIN pending[c] : pending[c][i] = i

\* After it the socket holds, in order, those the server has yet to take.
InOrder(c) ==
    /\ wire[c] = "open" => phase[c] \in {"joining", "joined"}
    /\ wire[c] = "connecting" => phase[c] = "opening"
    /\ InLine(up[c], Len(heard[c]))
    /\ \A i \in DOMAIN heard[c] : heard[c][i] = i
    /\ phase[c] \in Early => Queued(c)
    /\ phase[c] = "joined" => pending[c] = <<>> /\ c \in admitted
    /\ phase[c] = "joined" /\ wire[c] = "open" => UpTo(up[c], Len(heard[c]), sent[c])
    /\ NoPush(up[c]) \/ c \in admitted
    /\ \A i \in DOMAIN down[c] : down[c][i].event = "ok" => c \in admitted

LiveInv ==
    /\ TypeOK /\ RefreshAlive /\ NothingOutlivesStop
    /\ \A c \in Chans : InOrder(c)

-----------------------------------------------------------------------------
(* What keeps a channel in order.                                          *)

SameButUp(d) ==
    /\ phase'[d] = phase[d] /\ wire'[d] = wire[d] /\ pending'[d] = pending[d]
    /\ sent'[d] = sent[d] /\ heard'[d] = heard[d]
    /\ admitted \subseteq admitted'
    /\ \A i \in DOMAIN down'[d] : down'[d][i].event = "ok" => d \in admitted'

\* The pushes of a channel stay in order where its socket is as it was.
LEMMA OrderKept ==
    ASSUME LiveInv, NEW d \in Chans, SameButUp(d), up'[d] = up[d]
    PROVE  InOrder(d)'
BY DEF LiveInv, InOrder, SameButUp, Queued

\* They stay in order where a frame that is no push is sent.
LEMMA OrderKeptBySend ==
    ASSUME LiveInv, NEW d \in Chans, SameButUp(d),
           NEW f \in UpFrames, ~IsPush(f), up'[d] = Append(up[d], f)
    PROVE  InOrder(d)'
<1>1. up[d] \in Seq(UpFrames) /\ Len(heard[d]) \in Nat /\ sent[d] \in Nat
    BY DEF LiveInv, TypeOK
<1>2. /\ InLine(up[d], Len(heard[d])) => InLine(up'[d], Len(heard[d]))
      /\ UpTo(up[d], Len(heard[d]), sent[d]) => UpTo(up'[d], Len(heard[d]), sent[d])
      /\ NoPush(up[d]) <=> NoPush(up'[d])
    BY <1>1, OtherFrameAppended
<1> QED
    BY <1>2 DEF LiveInv, InOrder, SameButUp, Queued

\* They stay in order where a frame that is no push is taken.
LEMMA OrderKeptByTaking ==
    ASSUME LiveInv, NEW d \in Chans, SameButUp(d),
           up[d] # <<>>, ~IsPush(Head(up[d])), up'[d] = Tail(up[d])
    PROVE  InOrder(d)'
<1>1. up[d] \in Seq(UpFrames) /\ Len(heard[d]) \in Nat /\ sent[d] \in Nat
      /\ InLine(up[d], Len(heard[d]))
    BY DEF LiveInv, TypeOK, InOrder
<1>2. /\ InLine(up'[d], Len(heard[d]))
      /\ UpTo(up[d], Len(heard[d]), sent[d]) => UpTo(up'[d], Len(heard[d]), sent[d])
      /\ NoPush(up[d]) <=> NoPush(up'[d])
    BY <1>1, FrameTaken
<1> QED
    BY <1>2 DEF LiveInv, InOrder, SameButUp, Queued

\* Taking a frame from the service leaves the frames well typed.
LEMMA TailOfDown ==
    ASSUME LiveInv, NEW c \in Chans, down[c] # <<>>, down' = [down EXCEPT ![c] = Tail(@)]
    PROVE  /\ down' \in [Chans -> Seq(DownFrames)]
           /\ \A i \in DOMAIN down'[c] : down'[c][i].event = "ok" => c \in admitted
<1>1. down[c] \in Seq(DownFrames) /\ down'[c] = Tail(down[c])
    BY DEF LiveInv, TypeOK
<1>2. /\ Tail(down[c]) \in Seq(DownFrames)
      /\ \A i \in DOMAIN Tail(down[c]) : i + 1 \in DOMAIN down[c] /\ Tail(down[c])[i] = down[c][i + 1]
    BY <1>1
<1> QED
    BY <1>1, <1>2 DEF LiveInv, TypeOK, InOrder

\* So does sending one, the answer to a join that was admitted included.
LEMMA FrameDown ==
    ASSUME LiveInv, NEW c \in Chans, NEW f \in DownFrames,
           down' = [down EXCEPT ![c] = Append(@, f)],
           f.event = "ok" => c \in admitted', admitted \subseteq admitted'
    PROVE  /\ down' \in [Chans -> Seq(DownFrames)]
           /\ \A i \in DOMAIN down'[c] : down'[c][i].event = "ok" => c \in admitted'
<1>1. down[c] \in Seq(DownFrames) /\ down'[c] = Append(down[c], f)
    BY DEF LiveInv, TypeOK
<1>2. /\ Append(down[c], f) \in Seq(DownFrames)
      /\ \A i \in DOMAIN Append(down[c], f) :
            \/ i \in DOMAIN down[c] /\ Append(down[c], f)[i] = down[c][i]
            \/ Append(down[c], f)[i] = f
    BY <1>1
<1> QED
    BY <1>1, <1>2 DEF LiveInv, TypeOK, InOrder

-----------------------------------------------------------------------------
(* The refresh loop.                                                       *)

\* The invariant is kept where a token is given to the channels.
LEMMA setAuthStep ==
    ASSUME LiveInv, NEW t \in Nat, setAuth(t), fetches' \in Nat, issued' \in Nat,
           UNCHANGED <<app, getToken, phase, beating, pending, meta, channels>>,
           UNCHANGED <<wire, down, server, sent, changes>>
    PROVE  LiveInv'
<1> DEFINE f == Frame("access_token", t)
<1>1. f \in UpFrames /\ ~IsPush(f)
    BY DEF Frame, UpFrames, IsPush
<1>2. \A d \in Chans : up'[d] = up[d] \/ up'[d] = Append(up[d], f)
    BY DEF setAuth, Send
<1>3. up' \in [Chans -> Seq(UpFrames)]
    <2>1. \A d \in Chans : Append(up[d], f) \in Seq(UpFrames) /\ up[d] \in Seq(UpFrames)
        BY <1>1 DEF LiveInv, TypeOK
    <2>2. \A d \in Chans : up'[d] \in Seq(UpFrames)
        BY <1>2, <2>1
    <2> QED
        BY <2>2 DEF setAuth
<1>4. timer' = (timer \/ (getToken /\ channels # {})) /\ timer' \in BOOLEAN /\ token' = t
    BY DEF setAuth, scheduleRefresh
<1>5. TypeOK'
    BY <1>3, <1>4 DEF LiveInv, TypeOK, server
<1>6. RefreshAlive' /\ NothingOutlivesStop'
    BY <1>4 DEF LiveInv, RefreshAlive, NothingOutlivesStop
<1>7. ASSUME NEW d \in Chans PROVE InOrder(d)'
    <2>1. SameButUp(d)
        BY DEF SameButUp, LiveInv, InOrder, server
    <2> QED
        BY <1>1, <1>2, <2>1, OrderKept, OrderKeptBySend
<1> QED
    BY <1>5, <1>6, <1>7 DEF LiveInv

\* The invariant is kept by the steps of the refresh loop.
LEMMA LoopSteps ==
    ASSUME LiveInv, SetAuth \/ Fire \/ FetchOk \/ FetchFail
    PROVE  LiveInv'
<1>1. CASE SetAuth
    <2>1. issued' \in Nat /\ fetches' \in Nat
        BY <1>1 DEF SetAuth, LiveInv, TypeOK
    <2> QED
        BY <1>1, <2>1, setAuthStep DEF SetAuth
<1>2. CASE Fire
    <2>1. TypeOK'
        <3>1. timer' \in BOOLEAN
            BY <1>2 DEF Fire
        <3>2. fetches' \in Nat
            BY <1>2 DEF Fire, LiveInv, TypeOK
        <3> QED
            BY <1>2, <3>1, <3>2 DEF Fire, LiveInv, TypeOK, sockets, server, counters
    <2>2. RefreshAlive' /\ NothingOutlivesStop'
        BY <1>2 DEF Fire, LiveInv, TypeOK, RefreshAlive, NothingOutlivesStop
    <2>3. ASSUME NEW d \in Chans PROVE InOrder(d)'
        <3>1. SameButUp(d) /\ up'[d] = up[d]
            BY <1>2 DEF Fire, SameButUp, LiveInv, InOrder, sockets, server, counters
        <3> QED
            BY <3>1, OrderKept
    <2> QED
        BY <2>1, <2>2, <2>3 DEF LiveInv
<1>3. CASE FetchOk
    <2>1. fetches' \in Nat
        BY <1>3 DEF FetchOk, LiveInv, TypeOK
    <2>2. PICK t \in 1 .. issued + 1 : setAuth(t) /\ issued' = IF t > issued THEN t ELSE issued
        BY <1>3 DEF FetchOk
    <2>3. t \in Nat /\ issued' \in Nat
        BY <2>2 DEF LiveInv, TypeOK
    <2> QED
        BY <1>3, <2>1, <2>2, <2>3, setAuthStep DEF FetchOk
<1>4. CASE FetchFail
    <2>1. /\ timer' = (timer \/ (getToken /\ channels # {})) /\ timer' \in BOOLEAN
          /\ fetches' \in Nat
        BY <1>4 DEF FetchFail, scheduleRefresh, LiveInv, TypeOK
    <2>2. TypeOK'
        BY <1>4, <2>1 DEF FetchFail, LiveInv, TypeOK, sockets, server, counters
    <2>3. RefreshAlive' /\ NothingOutlivesStop'
        BY <1>4, <2>1 DEF FetchFail, LiveInv, RefreshAlive, NothingOutlivesStop
    <2>4. ASSUME NEW d \in Chans PROVE InOrder(d)'
        <3>1. SameButUp(d) /\ up'[d] = up[d]
            BY <1>4 DEF FetchFail, SameButUp, LiveInv, InOrder, sockets, server, counters
        <3> QED
            BY <3>1, OrderKept
    <2> QED
        BY <2>2, <2>3, <2>4 DEF LiveInv
<1> QED
    BY <1>1, <1>2, <1>3, <1>4

-----------------------------------------------------------------------------
(* A channel's callbacks.                                                  *)

\* The invariant is kept where a channel is opened.
LEMMA OpenStep ==
    ASSUME LiveInv, NEW c \in Chans, Open(c)
    PROVE  LiveInv'
<1>1. /\ phase[c] = "unused" /\ phase' = [phase EXCEPT ![c] = "opening"]
      /\ wire' = [wire EXCEPT ![c] = "connecting"]
      /\ UNCHANGED <<app, getToken, token, beating, pending, meta, channels, timer, fetches>>
      /\ UNCHANGED <<up, down, admitted, held, here, news, listed, heard, issued, sent, changes>>
    BY DEF Open, server, counters
<1>2. TypeOK'
    BY <1>1 DEF LiveInv, TypeOK, Phases, Wires
<1>3. RefreshAlive' /\ NothingOutlivesStop'
    BY <1>1 DEF LiveInv, TypeOK, RefreshAlive, NothingOutlivesStop
<1>4. ASSUME NEW d \in Chans PROVE InOrder(d)'
    <2>1. CASE d = c
        BY <1>1, <2>1 DEF LiveInv, TypeOK, InOrder, Queued, Early
    <2>2. CASE d # c
        <3>1. SameButUp(d) /\ up'[d] = up[d]
            BY <1>1, <2>2 DEF SameButUp, LiveInv, TypeOK, InOrder
        <3> QED
            BY <3>1, OrderKept
    <2> QED
        BY <2>1, <2>2
<1> QED
    BY <1>2, <1>3, <1>4 DEF LiveInv

\* The invariant is kept where a socket opens.
LEMMA OnOpenStep ==
    ASSUME LiveInv, NEW c \in Chans, OnOpen(c)
    PROVE  LiveInv'
<1> DEFINE f == Frame("phx_join", token)
<1>1. /\ wire[c] = "connecting" /\ phase' = [phase EXCEPT ![c] = "joining"]
      /\ wire' = [wire EXCEPT ![c] = "open"]
      /\ up' = [up EXCEPT ![c] = Append(@, f)]
      /\ beating' = [beating EXCEPT ![c] = TRUE]
      /\ UNCHANGED <<app, getToken, token, pending, meta, channels, timer, fetches>>
      /\ UNCHANGED <<down, admitted, held, here, news, listed, heard, issued, sent, changes>>
    BY DEF OnOpen, server, counters
<1>2. f \in UpFrames /\ ~IsPush(f)
    BY DEF Frame, UpFrames, IsPush, LiveInv, TypeOK
<1>3. phase[c] = "opening"
    BY <1>1 DEF LiveInv, InOrder
<1>4. TypeOK'
    <2>1. up' \in [Chans -> Seq(UpFrames)]
        BY <1>1, <1>2 DEF LiveInv, TypeOK
    <2> QED
        BY <1>1, <2>1 DEF LiveInv, TypeOK, Phases, Wires
<1>5. RefreshAlive' /\ NothingOutlivesStop'
    BY <1>1 DEF LiveInv, TypeOK, RefreshAlive, NothingOutlivesStop
<1>6. ASSUME NEW d \in Chans PROVE InOrder(d)'
    <2>1. CASE d = c
        <3>1. /\ InLine(up[c], Len(heard[c])) => InLine(up'[c], Len(heard[c]))
              /\ NoPush(up[c]) <=> NoPush(up'[c])
            <4>1. up[c] \in Seq(UpFrames) /\ Len(heard[c]) \in Nat
                BY DEF LiveInv, TypeOK
            <4>2. up'[c] = Append(up[c], f)
                BY <1>1 DEF LiveInv, TypeOK
            <4> HIDE DEF f
            <4> QED
                BY <4>1, <4>2, <1>2, OtherFrameAppended
        <3> QED
            BY <1>1, <1>3, <2>1, <3>1 DEF LiveInv, TypeOK, InOrder, Queued, Early
    <2>2. CASE d # c
        <3>1. SameButUp(d) /\ up'[d] = up[d]
            BY <1>1, <2>2 DEF SameButUp, LiveInv, TypeOK, InOrder
        <3> QED
            BY <3>1, OrderKept
    <2> QED
        BY <2>1, <2>2
<1> QED
    BY <1>4, <1>5, <1>6 DEF LiveInv

\* The invariant is kept by a push of presence.
LEMMA PushStep ==
    ASSUME LiveInv, NEW c \in Chans, Push(c)
    PROVE  LiveInv'
<1> DEFINE f == Frame("presence", sent[c] + 1)
<1>1. /\ phase[c] \in {"opening", "joining", "joined"}
      /\ sent' = [sent EXCEPT ![c] = @ + 1]
      /\ UNCHANGED <<app, getToken, token, phase, beating, meta, channels, timer, fetches>>
      /\ UNCHANGED <<wire, down, admitted, held, here, news, listed, heard, issued, changes>>
    BY DEF Push, server
<1>2. sent[c] \in Nat /\ f \in UpFrames /\ up[c] \in Seq(UpFrames) /\ pending[c] \in Seq(Nat)
    BY DEF Frame, UpFrames, LiveInv, TypeOK
<1>3. \/ /\ phase[c] = "joined" /\ pending' = pending
         /\ up' = [up EXCEPT ![c] = IF wire[c] = "open" THEN Append(up[c], f) ELSE up[c]]
      \/ /\ phase[c] # "joined" /\ up' = up
         /\ pending' = [pending EXCEPT ![c] = Append(@, sent[c] + 1)]
    BY DEF Push, Send
<1>4. TypeOK'
    <2>1. Append(up[c], f) \in Seq(UpFrames) /\ Append(pending[c], sent[c] + 1) \in Seq(Nat)
        BY <1>2
    <2>2. up' \in [Chans -> Seq(UpFrames)] /\ pending' \in [Chans -> Seq(Nat)]
        BY <1>2, <1>3, <2>1 DEF LiveInv, TypeOK
    <2>3. sent' \in [Chans -> Nat]
        BY <1>1 DEF LiveInv, TypeOK
    <2> QED
        BY <1>1, <2>2, <2>3 DEF LiveInv, TypeOK
<1>5. RefreshAlive' /\ NothingOutlivesStop'
    BY <1>1 DEF LiveInv, RefreshAlive, NothingOutlivesStop
<1>6. ASSUME NEW d \in Chans \ {c} PROVE InOrder(d)'
    <2>1. SameButUp(d) /\ up'[d] = up[d]
        BY <1>1, <1>3 DEF SameButUp, LiveInv, TypeOK, InOrder
    <2> QED
        BY <2>1, OrderKept
<1>7. CASE phase[c] = "joined" /\ wire[c] = "open"
    <2>1. /\ InLine(up[c], Len(heard[c])) /\ UpTo(up[c], Len(heard[c]), sent[c])
          /\ Len(heard[c]) \in Nat
        BY <1>7 DEF LiveInv, TypeOK, InOrder
    <2>2. up'[c] = Append(up[c], f) /\ pending' = pending
        BY <1>3, <1>7 DEF LiveInv, TypeOK
    <2>3. InLine(up'[c], Len(heard[c])) /\ UpTo(up'[c], Len(heard[c]), sent[c] + 1)
        BY <1>2, <2>1, <2>2, PushAppended
    <2>4. InOrder(c)'
        BY <1>1, <1>2, <1>7, <2>2, <2>3 DEF LiveInv, TypeOK, InOrder, Early
    <2> QED
        BY <1>4, <1>5, <1>6, <2>4 DEF LiveInv
<1>8. CASE phase[c] = "joined" /\ wire[c] # "open"
    <2>1. up'[c] = up[c] /\ pending' = pending
        BY <1>3, <1>8 DEF LiveInv, TypeOK
    <2>2. InOrder(c)'
        BY <1>1, <1>8, <2>1 DEF LiveInv, TypeOK, InOrder, Early
    <2> QED
        BY <1>4, <1>5, <1>6, <2>2 DEF LiveInv
<1>9. CASE phase[c] # "joined"
    <2>1. /\ up' = up /\ pending'[c] = Append(pending[c], sent[c] + 1) /\ sent'[c] = sent[c] + 1
          /\ phase[c] \in Early
        BY <1>1, <1>3, <1>9 DEF LiveInv, TypeOK, Early
    <2>2. Queued(c)
        BY <2>1 DEF LiveInv, InOrder
    <2>3. /\ Len(pending'[c]) = sent[c] + 1
          /\ \A i \in DOMAIN pending'[c] : pending'[c][i] = i
        BY <1>2, <2>1, <2>2 DEF Queued
    <2>4. Queued(c)'
        BY <1>1, <2>1, <2>2, <2>3 DEF Queued
    <2>5. InOrder(c)'
        BY <1>1, <1>9, <2>1, <2>4 DEF LiveInv, InOrder
    <2> QED
        BY <1>4, <1>5, <1>6, <2>5 DEF LiveInv
<1> QED
    BY <1>7, <1>8, <1>9

\* The queue that the acknowledgement puts on the socket.
LEMMA FlushedIs ==
    ASSUME LiveInv, NEW c \in Chans
    PROVE  /\ phase[c] \in Early => Flushed(c) = up[c] \o Pushes(sent[c])
           /\ pending[c] = <<>> => Flushed(c) = up[c]
<1>1. ASSUME phase[c] \in Early PROVE Flushed(c) = up[c] \o Pushes(sent[c])
    <2>1. DOMAIN pending[c] = 1 .. sent[c] /\ \A i \in DOMAIN pending[c] : pending[c][i] = i
        BY <1>1 DEF LiveInv, TypeOK, InOrder, Queued
    <2> QED
        BY <2>1 DEF Flushed, Pushes
<1>2. ASSUME pending[c] = <<>> PROVE Flushed(c) = up[c]
    <2>1. [i \in DOMAIN pending[c] |-> Frame("presence", pending[c][i])] = <<>>
        BY <1>2
    <2>2. up[c] \in Seq(UpFrames)
        BY DEF LiveInv, TypeOK
    <2>3. Flushed(c) = up[c] \o <<>>
        BY <2>1, Zenon DEF Flushed
    <2> QED
        BY <2>2, <2>3
<1> QED
    BY <1>1, <1>2

\* The invariant is kept by the answer to a join, which flushes the pushes.
LEMMA OnJoinedStep ==
    ASSUME LiveInv, NEW c \in Chans, OnJoined(c)
    PROVE  LiveInv'
<1>1. /\ wire[c] = "open" /\ down[c] # <<>> /\ Head(down[c]).event = "ok"
      /\ down' = [down EXCEPT ![c] = Tail(@)]
      /\ phase' = [phase EXCEPT ![c] = "joined"] /\ up' = [up EXCEPT ![c] = Flushed(c)]
      /\ pending' = [pending EXCEPT ![c] = <<>>] /\ channels' = channels \cup {c}
      /\ timer' = (timer \/ getToken)
      /\ UNCHANGED <<app, getToken, token, beating, fetches, wire, meta>>
      /\ UNCHANGED <<admitted, held, here, news, listed, heard, issued, sent, changes>>
    BY DEF OnJoined, Take, server, counters
<1>2. phase[c] \in {"joining", "joined"} /\ c \in admitted
    <2>1. 1 \in DOMAIN down[c] /\ Head(down[c]) = down[c][1]
        BY <1>1 DEF LiveInv, TypeOK
    <2> QED
        BY <1>1, <2>1 DEF LiveInv, InOrder
<1>3. up[c] \in Seq(UpFrames) /\ sent[c] \in Nat /\ Len(heard[c]) \in Nat
    BY DEF LiveInv, TypeOK
<1>4. /\ Flushed(c) \in Seq(UpFrames) /\ InLine(Flushed(c), Len(heard[c]))
      /\ UpTo(Flushed(c), Len(heard[c]), sent[c])
    <2>1. CASE phase[c] = "joining"
        <3>1. NoPush(up[c]) /\ Len(heard[c]) = 0
            BY <2>1 DEF LiveInv, InOrder, Queued, Early
        <3>2. Flushed(c) = up[c] \o Pushes(sent[c])
            BY <2>1, FlushedIs DEF Early
        <3> QED
            BY <1>3, <3>1, <3>2, QueueFlushed
    <2>2. CASE phase[c] = "joined"
        BY <1>1, <1>3, <2>2, FlushedIs DEF LiveInv, InOrder
    <2> QED
        BY <1>2, <2>1, <2>2
<1>5. /\ down' \in [Chans -> Seq(DownFrames)]
      /\ \A i \in DOMAIN down'[c] : down'[c][i].event = "ok" => c \in admitted
    BY <1>1, TailOfDown
<1>6. TypeOK'
    <2>1. up' \in [Chans -> Seq(UpFrames)] /\ pending' \in [Chans -> Seq(Nat)]
        BY <1>1, <1>4 DEF LiveInv, TypeOK
    <2>2. timer' \in BOOLEAN
        BY <1>1
    <2> QED
        BY <1>1, <1>5, <2>1, <2>2 DEF LiveInv, TypeOK, Phases
<1>7. RefreshAlive'
    BY <1>1 DEF LiveInv, RefreshAlive
<1>8. NothingOutlivesStop'
    BY <1>1 DEF LiveInv, TypeOK, NothingOutlivesStop
<1>9. ASSUME NEW d \in Chans \ {c} PROVE InOrder(d)'
    <2>1. SameButUp(d) /\ up'[d] = up[d]
        BY <1>1 DEF SameButUp, LiveInv, TypeOK, InOrder
    <2> QED
        BY <2>1, OrderKept
<1>10. InOrder(c)'
    <2>1. up'[c] = Flushed(c) /\ phase'[c] = "joined" /\ pending'[c] = <<>>
        BY <1>1 DEF LiveInv, TypeOK
    <2> QED
        BY <1>1, <1>2, <1>4, <1>5, <2>1 DEF LiveInv, InOrder, Early
<1> QED
    BY <1>6, <1>7, <1>8, <1>9, <1>10 DEF LiveInv

\* The counts that a frame leaves.
LEMMA MetaTyped ==
    ASSUME LiveInv, NEW c \in Chans, OnRefused(c) \/ OnPresence(c)
    PROVE  meta' \in [Chans -> [Keys -> [Refs -> Nat]]]
<1>1. meta \in [Chans -> [Keys -> [Refs -> Nat]]]
    BY DEF LiveInv, TypeOK
<1>2. \A S : Once(S) \in [Refs -> Nat]
    BY DEF Once
<1>3. CASE OnRefused(c)
    BY <1>1, <1>3 DEF OnRefused
<1>4. CASE meta' = [meta EXCEPT ![c] = applyState(Head(down[c]).value)]
    <2>1. applyState(Head(down[c]).value) \in [Keys -> [Refs -> Nat]]
        BY <1>2 DEF applyState
    <2> QED
        BY <1>1, <1>4, <2>1
<1>5. CASE meta' = [meta EXCEPT ![c] = applyDiff(@, Head(down[c]).value)]
    <2>1. ASSUME NEW d PROVE applyDiff(meta[c], d) \in [Keys -> [Refs -> Nat]]
        <3>1. CASE d.key \in Keys
            <4>1. Without(meta[c][d.key], d.leaves) \in [Refs -> Nat]
                BY <1>1, <3>1 DEF Without
            <4>2. [r \in Refs |-> IF Without(meta[c][d.key], d.leaves)[r] = 0
                                   THEN Once(d.joins)[r]
                                   ELSE Without(meta[c][d.key], d.leaves)[r]] \in [Refs -> Nat]
                BY <1>2, <4>1
            <4> QED
                BY <1>1, <3>1, <4>2 DEF applyDiff
        <3>2. CASE d.key \notin Keys
            BY <1>1, <3>2 DEF applyDiff
        <3> QED
            BY <3>1, <3>2
    <2>2. meta' = [meta EXCEPT ![c] = applyDiff(meta[c], Head(down[c]).value)]
        BY <1>5
    <2> QED
        BY <1>1, <2>1, <2>2
<1> QED
    BY <1>3, <1>4, <1>5 DEF OnPresence

\* The invariant is kept by a refusal and by a presence frame.
LEMMA OtherFrameSteps ==
    ASSUME LiveInv, NEW c \in Chans, OnRefused(c) \/ OnPresence(c)
    PROVE  LiveInv'
<1>1. /\ down[c] # <<>> /\ down' = [down EXCEPT ![c] = Tail(@)]
      /\ UNCHANGED <<app, getToken, token, beating, fetches, wire>>
      /\ UNCHANGED <<phase, up, pending, channels, timer>>
      /\ UNCHANGED <<admitted, held, here, news, listed, heard, issued, sent, changes>>
    BY DEF OnRefused, OnPresence, Take, server, counters
<1>2. /\ down' \in [Chans -> Seq(DownFrames)]
      /\ \A i \in DOMAIN down'[c] : down'[c][i].event = "ok" => c \in admitted
    BY <1>1, TailOfDown
<1>3. TypeOK'
    BY <1>1, <1>2, MetaTyped DEF LiveInv, TypeOK
<1>4. RefreshAlive' /\ NothingOutlivesStop'
    BY <1>1 DEF LiveInv, RefreshAlive, NothingOutlivesStop
<1>5. ASSUME NEW d \in Chans PROVE InOrder(d)'
    <2>1. SameButUp(d) /\ up'[d] = up[d]
        BY <1>1, <1>2 DEF SameButUp, LiveInv, TypeOK, InOrder
    <2> QED
        BY <2>1, OrderKept
<1> QED
    BY <1>3, <1>4, <1>5 DEF LiveInv

\* The invariant is kept by the stop of a channel.
LEMMA StopStep ==
    ASSUME LiveInv, NEW c \in Chans, Stop(c)
    PROVE  LiveInv'
<1>1. /\ phase' = [phase EXCEPT ![c] = "stopped"] /\ wire' = [wire EXCEPT ![c] = "closed"]
      /\ beating' = [beating EXCEPT ![c] = FALSE] /\ channels' = channels \ {c}
      /\ timer' = (timer /\ channels' # {})
      /\ UNCHANGED <<app, getToken, token, pending, meta, fetches>>
      /\ UNCHANGED <<up, down, admitted, held, here, news, listed, heard, issued, sent, changes>>
    BY DEF Stop, server, counters
<1>2. TypeOK'
    <2>1. timer' \in BOOLEAN
        BY <1>1
    <2> QED
        BY <1>1, <2>1 DEF LiveInv, TypeOK, Phases, Wires
<1>3. RefreshAlive'
    <2> SUFFICES ASSUME getToken, channels \ {c} # {} PROVE timer \/ fetches > 0
        BY <1>1 DEF RefreshAlive
    <2> QED
        BY DEF LiveInv, RefreshAlive
<1>4. NothingOutlivesStop'
    BY <1>1 DEF LiveInv, TypeOK, NothingOutlivesStop
<1>5. ASSUME NEW d \in Chans PROVE InOrder(d)'
    <2>1. CASE d = c
        BY <1>1, <2>1 DEF LiveInv, TypeOK, InOrder, Early
    <2>2. CASE d # c
        <3>1. SameButUp(d) /\ up'[d] = up[d]
            BY <1>1, <2>2 DEF SameButUp, LiveInv, TypeOK, InOrder
        <3> QED
            BY <3>1, OrderKept
    <2> QED
        BY <2>1, <2>2
<1> QED
    BY <1>2, <1>3, <1>4, <1>5 DEF LiveInv

\* The invariant is kept where a socket closes.
LEMMA OnCloseStep ==
    ASSUME LiveInv, NEW c \in Chans, OnClose(c)
    PROVE  LiveInv'
<1>1. /\ wire' = [wire EXCEPT ![c] = "closed"] /\ beating' = [beating EXCEPT ![c] = FALSE]
      /\ up' = [up EXCEPT ![c] = <<>>] /\ down' = [down EXCEPT ![c] = <<>>]
      /\ UNCHANGED <<app, getToken, token, phase, pending, meta, channels, timer, fetches>>
      /\ UNCHANGED <<admitted, held, here, news, listed, heard, issued, sent, changes>>
    BY DEF OnClose, server, counters
<1>2. TypeOK'
    <2>1. up' \in [Chans -> Seq(UpFrames)] /\ down' \in [Chans -> Seq(DownFrames)]
        BY <1>1 DEF LiveInv, TypeOK
    <2> QED
        BY <1>1, <2>1 DEF LiveInv, TypeOK, Wires
<1>3. RefreshAlive' /\ NothingOutlivesStop'
    BY <1>1 DEF LiveInv, TypeOK, RefreshAlive, NothingOutlivesStop
<1>4. ASSUME NEW d \in Chans PROVE InOrder(d)'
    <2>1. CASE d = c
        <3>1. up'[c] = <<>> /\ down'[c] = <<>> /\ wire'[c] = "closed"
            BY <1>1 DEF LiveInv, TypeOK
        <3>2. InLine(up'[c], Len(heard[c])) /\ NoPush(up'[c])
            BY <3>1 DEF InLine, NoPush
        <3> QED
            BY <1>1, <2>1, <3>1, <3>2 DEF LiveInv, InOrder, Queued
    <2>2. CASE d # c
        <3>1. SameButUp(d) /\ up'[d] = up[d]
            BY <1>1, <2>2 DEF SameButUp, LiveInv, TypeOK, InOrder
        <3> QED
            BY <3>1, OrderKept
    <2> QED
        BY <2>1, <2>2
<1> QED
    BY <1>2, <1>3, <1>4 DEF LiveInv

-----------------------------------------------------------------------------
(* The service.                                                            *)

\* What the head of a socket's frames is.
LEMMA HeadOfUp ==
    ASSUME LiveInv, NEW c \in Chans, up[c] # <<>>
    PROVE  /\ up[c] \in Seq(UpFrames) /\ Tail(up[c]) \in Seq(UpFrames)
           /\ Head(up[c]) \in UpFrames /\ Head(up[c]).value \in Nat
           /\ Head(up[c]) = up[c][1] /\ 1 \in DOMAIN up[c]
<1>1. up[c] \in Seq(UpFrames)
    BY DEF LiveInv, TypeOK
<1>2. Head(up[c]) \in UpFrames
    BY <1>1
<1>3. Head(up[c]).value \in Nat
    BY <1>2 DEF UpFrames
<1> QED
    BY <1>1, <1>2, <1>3

\* The invariant is kept where the service admits a join.
LEMMA AdmitStep ==
    ASSUME LiveInv, NEW c \in Chans, Admit(c)
    PROVE  LiveInv'
<1>1. /\ up[c] # <<>> /\ Head(up[c]).event = "phx_join" /\ up' = [up EXCEPT ![c] = Tail(@)]
      /\ UNCHANGED <<app, getToken, token, phase, beating, pending, meta, channels, timer, fetches>>
      /\ UNCHANGED <<wire, here, news, listed, heard, issued, sent, changes>>
    BY DEF Admit, Arrives, client, counters
<1>2. \/ /\ admitted' = admitted \cup {c} /\ held' = [held EXCEPT ![c] = Head(up[c]).value]
         /\ down' = [down EXCEPT ![c] = Append(@, Frame("ok", None))]
      \/ /\ down' = [down EXCEPT ![c] = Append(@, Frame("error", None))]
         /\ UNCHANGED <<admitted, held>>
    BY DEF Admit
<1>3. Frame("ok", None) \in DownFrames /\ Frame("error", None) \in DownFrames
    BY DEF Frame, DownFrames
<1>4. Frame("error", None).event # "ok" /\ admitted \subseteq admitted' /\ admitted' \in SUBSET Chans
    BY <1>2 DEF Frame, LiveInv, TypeOK
<1>5. /\ down' \in [Chans -> Seq(DownFrames)]
      /\ \A i \in DOMAIN down'[c] : down'[c][i].event = "ok" => c \in admitted'
    <2>1. CASE /\ admitted' = admitted \cup {c}
               /\ down' = [down EXCEPT ![c] = Append(@, Frame("ok", None))]
        BY <1>3, <1>4, <2>1, FrameDown
    <2>2. CASE down' = [down EXCEPT ![c] = Append(@, Frame("error", None))]
        BY <1>3, <1>4, <2>2, FrameDown
    <2> QED
        BY <1>2, <2>1, <2>2
<1>6. TypeOK'
    <2>1. up' \in [Chans -> Seq(UpFrames)] /\ held' \in [Chans -> Nat]
        BY <1>1, <1>2, HeadOfUp DEF LiveInv, TypeOK
    <2> QED
        BY <1>1, <1>4, <1>5, <2>1 DEF LiveInv, TypeOK
<1>7. RefreshAlive' /\ NothingOutlivesStop'
    BY <1>1 DEF LiveInv, RefreshAlive, NothingOutlivesStop
<1>8. ASSUME NEW d \in Chans PROVE InOrder(d)'
    <2>1. \A i \in DOMAIN down'[d] : down'[d][i].event = "ok" => d \in admitted'
        <3>1. CASE d = c
            BY <1>5, <3>1
        <3>2. CASE d # c
            BY <1>2, <1>4, <3>2 DEF LiveInv, TypeOK, InOrder
        <3> QED
            BY <3>1, <3>2
    <2>2. SameButUp(d)
        BY <1>1, <1>4, <2>1 DEF SameButUp
    <2>3. CASE d = c
        <3>1. up'[c] = Tail(up[c]) /\ ~IsPush(Head(up[c]))
            BY <1>1 DEF LiveInv, TypeOK, IsPush
        <3> QED
            BY <1>1, <2>2, <2>3, <3>1, OrderKeptByTaking
    <2>4. CASE d # c
        <3>1. up'[d] = up[d]
            BY <1>1, <2>4 DEF LiveInv, TypeOK
        <3> QED
            BY <2>2, <3>1, OrderKept
    <2> QED
        BY <2>3, <2>4
<1> QED
    BY <1>6, <1>7, <1>8 DEF LiveInv

\* The invariant is kept where the service takes a new token.
LEMMA ReauthorizeStep ==
    ASSUME LiveInv, NEW c \in Chans, Reauthorize(c)
    PROVE  LiveInv'
<1>1. /\ up[c] # <<>> /\ Head(up[c]).event = "access_token" /\ up' = [up EXCEPT ![c] = Tail(@)]
      /\ held' = [held EXCEPT ![c] = Head(up[c]).value]
      /\ UNCHANGED <<app, getToken, token, phase, beating, pending, meta, channels, timer, fetches>>
      /\ UNCHANGED <<wire, down, admitted, here, news, listed, heard, issued, sent, changes>>
    BY DEF Reauthorize, Arrives, client, counters
<1>2. TypeOK'
    <2>1. up' \in [Chans -> Seq(UpFrames)] /\ held' \in [Chans -> Nat]
        BY <1>1, HeadOfUp DEF LiveInv, TypeOK
    <2> QED
        BY <1>1, <2>1 DEF LiveInv, TypeOK
<1>3. RefreshAlive' /\ NothingOutlivesStop'
    BY <1>1 DEF LiveInv, RefreshAlive, NothingOutlivesStop
<1>4. ASSUME NEW d \in Chans PROVE InOrder(d)'
    <2>1. SameButUp(d)
        BY <1>1 DEF SameButUp, LiveInv, InOrder
    <2>2. CASE d = c
        <3>1. up'[c] = Tail(up[c]) /\ ~IsPush(Head(up[c]))
            BY <1>1 DEF LiveInv, TypeOK, IsPush
        <3> QED
            BY <1>1, <2>1, <2>2, <3>1, OrderKeptByTaking
    <2>3. CASE d # c
        <3>1. up'[d] = up[d]
            BY <1>1, <2>3 DEF LiveInv, TypeOK
        <3> QED
            BY <2>1, <3>1, OrderKept
    <2> QED
        BY <2>2, <2>3
<1> QED
    BY <1>2, <1>3, <1>4 DEF LiveInv

\* The invariant is kept where the service hears a push.
LEMMA HearStep ==
    ASSUME LiveInv, NEW c \in Chans, Hear(c)
    PROVE  LiveInv'
<1> DEFINE v == Head(up[c]).value
<1>1. /\ up[c] # <<>> /\ IsPush(Head(up[c])) /\ up' = [up EXCEPT ![c] = Tail(@)]
      /\ heard' = [heard EXCEPT ![c] = IF c \in admitted THEN Append(@, v) ELSE @]
      /\ UNCHANGED <<app, getToken, token, phase, beating, pending, meta, channels, timer, fetches>>
      /\ UNCHANGED <<wire, down, admitted, held, here, news, listed, issued, sent, changes>>
    BY DEF Hear, Arrives, client, counters, IsPush
<1>2. /\ up[c] \in Seq(UpFrames) /\ heard[c] \in Seq(Nat) /\ sent[c] \in Nat /\ Len(heard[c]) \in Nat
      /\ v \in Nat /\ InLine(up[c], Len(heard[c]))
    BY <1>1, HeadOfUp DEF LiveInv, TypeOK, InOrder
<1>3. ~NoPush(up[c]) /\ c \in admitted /\ phase[c] \notin Early
    BY <1>1, HeadOfUp DEF NoPush, LiveInv, InOrder, Queued
<1>4. /\ v = Len(heard[c]) + 1 /\ InLine(Tail(up[c]), Len(heard[c]) + 1)
      /\ UpTo(up[c], Len(heard[c]), sent[c]) => UpTo(Tail(up[c]), Len(heard[c]) + 1, sent[c])
    BY <1>1, <1>2, FrameTaken
<1>5. up'[c] = Tail(up[c]) /\ heard'[c] = Append(heard[c], v)
    BY <1>1, <1>3 DEF LiveInv, TypeOK
<1> HIDE DEF v
<1>6. /\ Append(heard[c], v) \in Seq(Nat) /\ Len(Append(heard[c], v)) = Len(heard[c]) + 1
      /\ \A i \in DOMAIN Append(heard[c], v) : Append(heard[c], v)[i] = i
    <2>1. \A i \in DOMAIN heard[c] : heard[c][i] = i
        BY DEF LiveInv, InOrder
    <2> QED
        BY <1>2, <1>4, <2>1
<1>7. TypeOK'
    <2>1. up' \in [Chans -> Seq(UpFrames)]
        BY <1>1, HeadOfUp DEF LiveInv, TypeOK
    <2>2. heard' \in [Chans -> Seq(Nat)]
        BY <1>1, <1>3, <1>6 DEF LiveInv, TypeOK
    <2> QED
        BY <1>1, <2>1, <2>2 DEF LiveInv, TypeOK
<1>8. RefreshAlive' /\ NothingOutlivesStop'
    BY <1>1 DEF LiveInv, RefreshAlive, NothingOutlivesStop
<1>9. ASSUME NEW d \in Chans \ {c} PROVE InOrder(d)'
    <2>1. SameButUp(d) /\ up'[d] = up[d]
        BY <1>1 DEF SameButUp, LiveInv, TypeOK, InOrder
    <2> QED
        BY <2>1, OrderKept
<1>10. InOrder(c)'
    BY <1>1, <1>3, <1>4, <1>5, <1>6 DEF LiveInv, InOrder
<1> QED
    BY <1>7, <1>8, <1>9, <1>10 DEF LiveInv

\* The invariant is kept where changes and the state of presence are sent.
LEMMA PresenceSteps ==
    ASSUME LiveInv, NEW c \in Chans, Broadcast(c) \/ ListState(c)
    PROVE  LiveInv'
<1>1. /\ UNCHANGED <<app, getToken, token, phase, beating, pending, meta, channels, timer, fetches>>
      /\ UNCHANGED <<wire, up, admitted, held, here, heard, issued, sent, changes>>
    BY DEF Broadcast, ListState, client, counters
<1>2. PICK f \in DownFrames : f.event # "ok" /\ down' = [down EXCEPT ![c] = Append(@, f)]
    <2>1. CASE Broadcast(c)
        <3>1. news[c] # <<>> /\ news[c] \in Seq(Diffs)
            BY <2>1 DEF Broadcast, LiveInv, TypeOK
        <3>2. Head(news[c]) \in Diffs
            BY <3>1
        <3>3. Frame("presence_diff", Head(news[c])) \in DownFrames
            BY <3>2 DEF Frame, DownFrames
        <3> QED
            BY <2>1, <3>3 DEF Broadcast, Frame
    <2>2. CASE ListState(c)
        <3>1. here[c] \in [Keys -> SUBSET Refs]
            BY DEF LiveInv, TypeOK
        <3>2. Frame("presence_state", here[c]) \in DownFrames
            BY <3>1 DEF Frame, DownFrames
        <3> QED
            BY <2>2, <3>2 DEF ListState, Frame
    <2> QED
        BY <2>1, <2>2
<1>3. /\ down' \in [Chans -> Seq(DownFrames)]
      /\ \A i \in DOMAIN down'[c] : down'[c][i].event = "ok" => c \in admitted'
    BY <1>1, <1>2, FrameDown
<1>4. TypeOK'
    <2>1. listed' \in [Chans -> BOOLEAN]
        <3>1. CASE Broadcast(c)
            BY <3>1 DEF Broadcast, LiveInv, TypeOK
        <3>2. CASE ListState(c)
            BY <3>2 DEF ListState, LiveInv, TypeOK
        <3> QED
            BY <3>1, <3>2
    <2>2. news' \in [Chans -> Seq(Diffs)]
        <3>1. CASE Broadcast(c)
            <4>1. Tail(news[c]) \in Seq(Diffs) /\ news' = [news EXCEPT ![c] = Tail(news[c])]
                BY <3>1 DEF Broadcast, LiveInv, TypeOK
            <4> QED
                BY <4>1 DEF LiveInv, TypeOK
        <3>2. CASE ListState(c)
            BY <3>2 DEF ListState, LiveInv, TypeOK
        <3> QED
            BY <3>1, <3>2
    <2> QED
        BY <1>1, <1>3, <2>1, <2>2 DEF LiveInv, TypeOK
<1>5. RefreshAlive' /\ NothingOutlivesStop'
    BY <1>1 DEF LiveInv, RefreshAlive, NothingOutlivesStop
<1>6. ASSUME NEW d \in Chans PROVE InOrder(d)'
    <2>1. SameButUp(d) /\ up'[d] = up[d]
        BY <1>1, <1>2, <1>3 DEF SameButUp, LiveInv, TypeOK, InOrder
    <2> QED
        BY <2>1, OrderKept
<1> QED
    BY <1>4, <1>5, <1>6 DEF LiveInv

\* The invariant is kept where presence changes.
LEMMA ChangeStep ==
    ASSUME LiveInv, NEW c \in Chans, NEW k \in Keys, Change(c, k)
    PROVE  LiveInv'
<1>1. /\ changes[c] < MaxChange /\ changes' = [changes EXCEPT ![c] = @ + 1]
      /\ UNCHANGED <<app, getToken, token, phase, beating, pending, meta, channels, timer, fetches>>
      /\ UNCHANGED <<wire, up, down, admitted, held, listed, heard, issued, sent>>
    BY DEF Change, client, sockets
<1>2. changes' \in [Chans -> Nat] /\ changes'[c] \in Refs
    BY <1>1, LiveAssumption DEF LiveInv, TypeOK, Refs
<1>3. PICK joins \in SUBSET {changes'[c]}, leaves \in SUBSET here[c][k] :
         /\ here' = [here EXCEPT ![c][k] = (@ \ leaves) \cup joins]
         /\ news' = [news EXCEPT ![c] = IF c \in admitted
                       THEN Append(@, [key |-> k, joins |-> joins, leaves |-> leaves])
                       ELSE @]
    BY DEF Change
<1>4. joins \in SUBSET Refs /\ leaves \in SUBSET Refs /\ here[c] \in [Keys -> SUBSET Refs]
    BY <1>2, <1>3 DEF LiveInv, TypeOK
<1>5. here' \in [Chans -> [Keys -> SUBSET Refs]]
    BY <1>3, <1>4 DEF LiveInv, TypeOK
<1>6. [key |-> k, joins |-> joins, leaves |-> leaves] \in Diffs
    BY <1>4 DEF Diffs
<1>7. news' \in [Chans -> Seq(Diffs)]
    BY <1>3, <1>6 DEF LiveInv, TypeOK
<1>8. TypeOK'
    BY <1>1, <1>2, <1>5, <1>7 DEF LiveInv, TypeOK
<1>9. RefreshAlive' /\ NothingOutlivesStop'
    BY <1>1 DEF LiveInv, RefreshAlive, NothingOutlivesStop
<1>10. ASSUME NEW d \in Chans PROVE InOrder(d)'
    <2>1. SameButUp(d) /\ up'[d] = up[d]
        BY <1>1 DEF SameButUp, LiveInv, InOrder
    <2> QED
        BY <2>1, OrderKept
<1> QED
    BY <1>8, <1>9, <1>10 DEF LiveInv

-----------------------------------------------------------------------------
(* Presence on its way to the client.                                      *)

IsDiff(f) == f.event = "presence_diff"
Lists(f)  == f.event = "presence_state"
NoDiff(q) == \A i \in DOMAIN q : ~IsDiff(q[i])
NoList(q) == \A i \in DOMAIN q : ~Lists(q[i])

Joins(f, k, r)   == IsDiff(f) /\ f.value.key = k /\ r \in f.value.joins
Leaves(f, k, r)  == IsDiff(f) /\ f.value.key = k /\ r \in f.value.leaves
Touches(f, k, r) == Joins(f, k, r) \/ Leaves(f, k, r)

\* The frames on the socket, then the changes to broadcast.
Waiting(ds) == [i \in DOMAIN ds |-> Frame("presence_diff", ds[i])]

Coming(c) == down[c] \o Waiting(news[c])

\* In the frames q a ref joins before it leaves, if at all, and only the last
\* of the two says whether it is here, among the members h after n changes.
Ordered(q, h, n) ==
    \A k \in Keys, r \in Refs :
        /\ r \in h[k] => r <= n
        /\ \A i \in DOMAIN q : Leaves(q[i], k, r) =>
              r <= n /\ r \notin h[k] /\ \A j \in DOMAIN q : i <= j => ~Joins(q[j], k, r)
        /\ \A i \in DOMAIN q : Joins(q[i], k, r) =>
              r <= n /\ (r \in h[k] \/ \E j \in DOMAIN q : i < j /\ Leaves(q[j], k, r))

\* A ref that no frame after a state touches is here if the state lists it.
Faithful(q, h) ==
    \A i \in DOMAIN q : Lists(q[i]) =>
        \A k \in Keys, r \in Refs :
            (\A j \in DOMAIN q : i < j => ~Touches(q[j], k, r))
            => (r \in q[i].value[k] <=> r \in h[k])

\* Without a state to come, one that no frame touches is as the list m has it.
Settled(q, m, h) ==
    NoList(q) =>
        \A k \in Keys, r \in Refs :
            (\A i \in DOMAIN q : ~Touches(q[i], k, r)) => m[k][r] = IF r \in h[k] THEN 1 ELSE 0

Single(m) == \A k \in Keys, r \in Refs : m[k][r] \in {0, 1}

Present(c) ==
    /\ Ordered(Coming(c), here[c], changes[c])
    /\ Faithful(Coming(c), here[c])
    /\ IF listed[c] THEN Settled(Coming(c), meta[c], here[c]) ELSE NoList(Coming(c))
    /\ c \notin admitted => ~listed[c] /\ NoDiff(Coming(c))
    /\ Single(meta[c])

\* Nothing is promised of a socket that has been cut.
PresenceInv ==
    \A c \in Chans : /\ phase[c] = "unused" => wire[c] # "closed"
                     /\ wire[c] # "closed" => Present(c)

\* Order and settlement when a frame that is not a diff is put in.
LEMMA FrameInserted ==
    ASSUME NEW a \in Seq(DownFrames), NEW b \in Seq(DownFrames), NEW f \in DownFrames, ~IsDiff(f),
           NEW h, NEW n \in Nat, NEW m, Lists(f) => f.value = h,
           Ordered(a \o b, h, n), Faithful(a \o b, h)
    PROVE  /\ Ordered(Append(a, f) \o b, h, n) /\ Faithful(Append(a, f) \o b, h)
           /\ Settled(a \o b, m, h) \/ Lists(f) => Settled(Append(a, f) \o b, m, h)
           /\ NoList(a \o b) /\ ~Lists(f) => NoList(Append(a, f) \o b)
           /\ NoDiff(a \o b) => NoDiff(Append(a, f) \o b)
<1> DEFINE q == a \o b
           p == Append(a, f) \o b
           x == Len(a) + 1
           S(i) == IF i < x THEN i ELSE i + 1
           U(i) == IF i < x THEN i ELSE i - 1
<1>1. /\ Len(a) \in Nat /\ Len(b) \in Nat
      /\ DOMAIN q = 1 .. Len(a) + Len(b) /\ DOMAIN p = 1 .. Len(a) + 1 + Len(b)
      /\ \A i \in 1 .. Len(a) : q[i] = a[i] /\ p[i] = a[i]
      /\ \A i \in Len(a) + 1 .. Len(a) + Len(b) : q[i] = b[i - Len(a)] /\ p[i + 1] = b[i - Len(a)]
      /\ p[x] = f
    <2>1. /\ Len(a) \in Nat /\ Len(b) \in Nat /\ Append(a, f) \in Seq(DownFrames)
          /\ Len(Append(a, f)) = Len(a) + 1 /\ Append(a, f)[x] = f
          /\ \A i \in 1 .. Len(a) : Append(a, f)[i] = a[i]
        OBVIOUS
    <2>2. /\ DOMAIN q = 1 .. Len(a) + Len(b)
          /\ \A i \in 1 .. Len(a) : q[i] = a[i]
          /\ \A i \in Len(a) + 1 .. Len(a) + Len(b) : q[i] = b[i - Len(a)]
        BY <2>1
    <2> DEFINE c == Append(a, f)
    <2> HIDE DEF c
    <2>3. /\ DOMAIN (c \o b) = 1 .. Len(c) + Len(b)
          /\ \A i \in 1 .. Len(c) : (c \o b)[i] = c[i]
          /\ \A i \in Len(c) + 1 .. Len(c) + Len(b) : (c \o b)[i] = b[i - Len(c)]
        BY <2>1 DEF c
    <2>4. ASSUME NEW i \in Len(a) + 1 .. Len(a) + Len(b) PROVE p[i + 1] = b[i - Len(a)]
        <3>1. i + 1 \in Len(c) + 1 .. Len(c) + Len(b) /\ i + 1 - Len(c) = i - Len(a)
            BY <2>1 DEF c
        <3> QED
            BY <2>3, <3>1 DEF c
    <2> QED
        BY <2>1, <2>2, <2>3, <2>4 DEF c
<1>2. \A i \in DOMAIN q : S(i) \in DOMAIN p /\ S(i) # x /\ p[S(i)] = q[i]
    BY <1>1
<1>3. \A i \in DOMAIN p : i # x => U(i) \in DOMAIN q /\ p[i] = q[U(i)]
    <2> TAKE i \in DOMAIN p
    <2> HAVE i # x
    <2>1. CASE i < x
        BY <2>1, <1>1
    <2>2. CASE i > x
        <3>1. i - 1 \in Len(a) + 1 .. Len(a) + Len(b) /\ (i - 1) + 1 = i
            BY <2>2, <1>1
        <3> QED
            BY <3>1, <2>2, <1>1
    <2> QED
        BY <2>1, <2>2, <1>1
<1>4. /\ \A i, j \in DOMAIN q : i < j => S(i) < S(j)
      /\ \A i, j \in DOMAIN p : i # x /\ j # x /\ i <= j => U(i) <= U(j)
      /\ \A i \in DOMAIN p, j \in DOMAIN q : i # x /\ U(i) < j => i < S(j)
      /\ \A i \in DOMAIN q : x <= i => x < S(i)
    BY <1>1
<1>5. x \in DOMAIN p
    BY <1>1
<1> HIDE DEF q, p, x, S, U
<1>6. Ordered(p, h, n)
    <2> SUFFICES ASSUME NEW k \in Keys, NEW r \in Refs
                 PROVE  /\ r \in h[k] => r <= n
                        /\ \A i \in DOMAIN p : Leaves(p[i], k, r) =>
                              r <= n /\ r \notin h[k] /\ \A j \in DOMAIN p : i <= j => ~Joins(p[j], k, r)
                        /\ \A i \in DOMAIN p : Joins(p[i], k, r) =>
                              r <= n /\ (r \in h[k] \/ \E j \in DOMAIN p : i < j /\ Leaves(p[j], k, r))
        BY DEF Ordered
    <2>1. /\ r \in h[k] => r <= n
          /\ \A i \in DOMAIN q : Leaves(q[i], k, r) =>
                r <= n /\ r \notin h[k] /\ \A j \in DOMAIN q : i <= j => ~Joins(q[j], k, r)
          /\ \A i \in DOMAIN q : Joins(q[i], k, r) =>
                r <= n /\ (r \in h[k] \/ \E j \in DOMAIN q : i < j /\ Leaves(q[j], k, r))
        BY DEF Ordered, q
    <2>2. ~Leaves(p[x], k, r) /\ ~Joins(p[x], k, r)
        BY <1>1 DEF Leaves, Joins, p, x
    <2>3. ASSUME NEW i \in DOMAIN p, Leaves(p[i], k, r)
          PROVE  r <= n /\ r \notin h[k] /\ \A j \in DOMAIN p : i <= j => ~Joins(p[j], k, r)
        <3>1. i # x /\ U(i) \in DOMAIN q /\ Leaves(q[U(i)], k, r)
            BY <1>3, <2>2, <2>3
        <3> QED
            BY <3>1, <2>1, <2>2, <1>3, <1>4
    <2>4. ASSUME NEW i \in DOMAIN p, Joins(p[i], k, r)
          PROVE  r <= n /\ (r \in h[k] \/ \E j \in DOMAIN p : i < j /\ Leaves(p[j], k, r))
        <3>1. i # x /\ U(i) \in DOMAIN q /\ Joins(q[U(i)], k, r)
            BY <1>3, <2>2, <2>4
        <3>2. ASSUME NEW j \in DOMAIN q, U(i) < j, Leaves(q[j], k, r)
              PROVE  \E jj \in DOMAIN p : i < jj /\ Leaves(p[jj], k, r)
            BY <3>1, <3>2, <1>2, <1>4
        <3> QED
            BY <3>1, <3>2, <2>1
    <2> QED
        BY <2>1, <2>3, <2>4
<1>7. \A k \in Keys, r \in Refs, i \in DOMAIN p : i # x /\ (\A j \in DOMAIN p : i < j => ~Touches(p[j], k, r))
         => \A j \in DOMAIN q : U(i) < j => ~Touches(q[j], k, r)
    BY <1>2, <1>4
<1>8. Faithful(p, h)
    <2> SUFFICES ASSUME NEW i \in DOMAIN p, Lists(p[i]), NEW k \in Keys, NEW r \in Refs,
                        \A j \in DOMAIN p : i < j => ~Touches(p[j], k, r)
                 PROVE  r \in p[i].value[k] <=> r \in h[k]
        BY DEF Faithful
    <2>1. CASE i = x
        BY <2>1, <1>1 DEF p, x
    <2>2. CASE i # x
        <3>1. U(i) \in DOMAIN q /\ p[i] = q[U(i)] /\ Lists(q[U(i)])
            BY <2>2, <1>3
        <3>2. (\A j \in DOMAIN q : U(i) < j => ~Touches(q[j], k, r))
              => (r \in q[U(i)].value[k] <=> r \in h[k])
            BY <3>1 DEF Faithful, q
        <3> QED
            BY <3>1, <3>2, <2>2, <1>7
    <2> QED
        BY <2>1, <2>2
<1>9. NoList(p) => NoList(q) /\ ~Lists(f)
    BY <1>1, <1>2, <1>5 DEF NoList, p, x
<1>10. Settled(q, m, h) \/ Lists(f) => Settled(p, m, h)
    <2>1. \A k \in Keys, r \in Refs :
             (\A i \in DOMAIN p : ~Touches(p[i], k, r)) => \A i \in DOMAIN q : ~Touches(q[i], k, r)
        BY <1>2
    <2> QED
        BY <2>1, <1>9 DEF Settled
<1>12. NoList(q) /\ ~Lists(f) => NoList(p)
    BY <1>1, <1>3 DEF NoList, p, x
<1>11. NoDiff(q) => NoDiff(p)
    BY <1>1, <1>3 DEF p, x, NoDiff
<1> QED
    BY <1>6, <1>8, <1>10, <1>11, <1>12 DEF p, q

\* The same when a change of the members is queued at the end.
LEMMA ChangeQueued ==
    ASSUME NEW q \in Seq(DownFrames), NEW h \in [Keys -> SUBSET Refs], NEW n \in Nat, NEW m,
           Ordered(q, h, n), Faithful(q, h),
           NEW k0 \in Keys, NEW J \in SUBSET {n + 1}, NEW L \in SUBSET h[k0], J \subseteq Refs,
           NEW h1, h1 = [h EXCEPT ![k0] = (@ \ L) \cup J],
           NEW f, f = Frame("presence_diff", [key |-> k0, joins |-> J, leaves |-> L])
    PROVE  /\ Ordered(Append(q, f), h1, n + 1) /\ Faithful(Append(q, f), h1)
           /\ Settled(q, m, h) => Settled(Append(q, f), m, h1)
<1> DEFINE p == Append(q, f)
           x == Len(q) + 1
<1>1. /\ Len(q) \in Nat /\ DOMAIN q = 1 .. Len(q) /\ DOMAIN p = 1 .. Len(q) + 1
      /\ \A i \in DOMAIN q : p[i] = q[i] /\ i \in DOMAIN p /\ i < x
      /\ p[x] = f /\ x \in DOMAIN p
      /\ \A i \in DOMAIN p : i \in DOMAIN q \/ i = x
    OBVIOUS
<1>2. /\ ~Lists(f)
      /\ \A k, r : /\ Joins(f, k, r) <=> k = k0 /\ r \in J
                   /\ Leaves(f, k, r) <=> k = k0 /\ r \in L
    BY DEF Lists, Joins, Leaves, IsDiff, Frame
<1>3. \A k \in Keys, r \in Refs :
         r \in h1[k] <=> \/ k # k0 /\ r \in h[k]
                         \/ k = k0 /\ (r \in J \/ (r \in h[k] /\ r \notin L))
    OBVIOUS
<1>4. \A k \in Keys, r \in Refs : ~Touches(f, k, r) => (r \in h1[k] <=> r \in h[k])
    BY <1>2, <1>3 DEF Touches
<1> HIDE DEF p, x
<1>5. Ordered(p, h1, n + 1)
    <2> SUFFICES ASSUME NEW k \in Keys, NEW r \in Refs
                 PROVE  /\ r \in h1[k] => r <= n + 1
                        /\ \A i \in DOMAIN p : Leaves(p[i], k, r) =>
                              r <= n + 1 /\ r \notin h1[k] /\ \A j \in DOMAIN p : i <= j => ~Joins(p[j], k, r)
                        /\ \A i \in DOMAIN p : Joins(p[i], k, r) =>
                              r <= n + 1 /\ (r \in h1[k] \/ \E j \in DOMAIN p : i < j /\ Leaves(p[j], k, r))
        BY DEF Ordered
    <2>1. /\ r \in h[k] => r <= n
          /\ \A i \in DOMAIN q : Leaves(q[i], k, r) =>
                r <= n /\ r \notin h[k] /\ \A j \in DOMAIN q : i <= j => ~Joins(q[j], k, r)
          /\ \A i \in DOMAIN q : Joins(q[i], k, r) =>
                r <= n /\ (r \in h[k] \/ \E j \in DOMAIN q : i < j /\ Leaves(q[j], k, r))
        BY DEF Ordered
    <2>2. r \in Nat /\ (r \in J => r = n + 1) /\ (r \in L => r \in h[k0])
        BY DEF Refs
    <2>3. r \in h1[k] => r <= n + 1
        BY <2>1, <2>2, <1>3
    <2>4. ASSUME NEW i \in DOMAIN p, Leaves(p[i], k, r)
          PROVE  r <= n + 1 /\ r \notin h1[k] /\ \A j \in DOMAIN p : i <= j => ~Joins(p[j], k, r)
        <3>1. CASE i \in DOMAIN q
            <4>1. r <= n /\ r \notin h[k] /\ \A j \in DOMAIN q : i <= j => ~Joins(q[j], k, r)
                BY <3>1, <2>1, <2>4, <1>1
            <4>2. r \notin J
                BY <4>1, <2>2
            <4>3. r \notin h1[k] /\ ~Joins(p[x], k, r)
                BY <4>1, <4>2, <1>1, <1>2, <1>3
            <4>4. \A j \in DOMAIN p : i <= j => ~Joins(p[j], k, r)
                BY <4>1, <4>3, <1>1
            <4> QED
                BY <4>1, <4>3, <4>4, <2>2
        <3>2. CASE i = x
            <4>1. k = k0 /\ r \in L /\ r \in h[k] /\ r <= n
                BY <3>2, <2>1, <2>2, <2>4, <1>1, <1>2
            <4>2. r \notin J
                BY <4>1, <2>2
            <4>3. \A j \in DOMAIN p : i <= j => j = x
                BY <3>2, <1>1 DEF x
            <4> QED
                BY <4>1, <4>2, <4>3, <2>2, <1>1, <1>2, <1>3
        <3> QED
            BY <3>1, <3>2, <1>1
    <2>5. ASSUME NEW i \in DOMAIN p, Joins(p[i], k, r)
          PROVE  r <= n + 1 /\ (r \in h1[k] \/ \E j \in DOMAIN p : i < j /\ Leaves(p[j], k, r))
        <3>1. CASE i \in DOMAIN q
            <4>1. r <= n /\ (r \in h[k] \/ \E j \in DOMAIN q : i < j /\ Leaves(q[j], k, r))
                BY <3>1, <2>1, <2>5, <1>1
            <4>2. r <= n + 1
                BY <4>1, <2>2
            <4>3. CASE r \in h[k]
                <5>1. CASE Leaves(f, k, r)
                    BY <5>1, <3>1, <4>2, <1>1
                <5>2. CASE ~Leaves(f, k, r)
                    BY <5>2, <4>2, <4>3, <1>2, <1>3
                <5> QED
                    BY <5>1, <5>2
            <4>4. CASE \E j \in DOMAIN q : i < j /\ Leaves(q[j], k, r)
                BY <4>2, <4>4, <1>1
            <4> QED
                BY <4>1, <4>3, <4>4
        <3>2. CASE i = x
            BY <3>2, <2>2, <2>5, <1>1, <1>2, <1>3
        <3> QED
            BY <3>1, <3>2, <1>1
    <2> QED
        BY <2>3, <2>4, <2>5
<1>6. Faithful(p, h1)
    <2> SUFFICES ASSUME NEW i \in DOMAIN p, Lists(p[i]), NEW k \in Keys, NEW r \in Refs,
                        \A j \in DOMAIN p : i < j => ~Touches(p[j], k, r)
                 PROVE  r \in p[i].value[k] <=> r \in h1[k]
        BY DEF Faithful
    <2>1. i \in DOMAIN q /\ p[i] = q[i]
        BY <1>1, <1>2
    <2>2. (\A j \in DOMAIN q : i < j => ~Touches(q[j], k, r)) => (r \in q[i].value[k] <=> r \in h[k])
        BY <2>1 DEF Faithful
    <2> QED
        BY <2>1, <2>2, <1>1, <1>4
<1>7. ASSUME Settled(q, m, h) PROVE Settled(p, m, h1)
    <2> SUFFICES ASSUME NoList(p), NEW k \in Keys, NEW r \in Refs,
                        \A i \in DOMAIN p : ~Touches(p[i], k, r)
                 PROVE  m[k][r] = IF r \in h1[k] THEN 1 ELSE 0
        BY DEF Settled
    <2>1. NoList(q) /\ \A i \in DOMAIN q : ~Touches(q[i], k, r)
        BY <1>1 DEF NoList
    <2>2. m[k][r] = IF r \in h[k] THEN 1 ELSE 0
        BY <2>1, <1>7 DEF Settled
    <2>3. r \in h1[k] <=> r \in h[k]
        BY <1>1, <1>4
    <2> QED
        BY <2>2, <2>3
<1> QED
    BY <1>5, <1>6, <1>7 DEF p

\* The next frame, the rest, and what the client makes of its list.
Heads(q, f, p) == q # <<>> /\ f = Head(q) /\ p = Tail(q)

Puts(f, m, m1) ==
    \/ ~Lists(f) /\ ~IsDiff(f) /\ m1 = m
    \/ Lists(f) /\ m1 = applyState(f.value)
    \/ IsDiff(f) /\ m1 = applyDiff(m, f.value)

\* The same when the client takes the next frame.
LEMMA FrameDelivered ==
    ASSUME NEW q \in Seq(DownFrames), NEW f, NEW p, Heads(q, f, p),
           NEW h \in [Keys -> SUBSET Refs], NEW n \in Nat, Ordered(q, h, n), Faithful(q, h),
           NEW m \in [Keys -> [Refs -> Nat]], Single(m), NEW m1, Puts(f, m, m1)
    PROVE  /\ Ordered(p, h, n) /\ Faithful(p, h)
           /\ Settled(q, m, h) => Settled(p, m1, h)
           /\ NoList(q) => NoList(p)
           /\ NoDiff(q) => NoDiff(p)
           /\ Single(m1)
<1>1. /\ Len(q) \in Nat \ {0} /\ DOMAIN q = 1 .. Len(q) /\ DOMAIN p = 1 .. Len(q) - 1
      /\ f = q[1] /\ 1 \in DOMAIN q /\ q[1] \in DownFrames
      /\ \A i \in DOMAIN p : i + 1 \in DOMAIN q /\ i + 1 # 1 /\ 1 < i + 1 /\ p[i] = q[i + 1]
      /\ \A i \in DOMAIN q : i # 1 => i - 1 \in DOMAIN p /\ p[i - 1] = q[i]
    BY DEF Heads
<1>9. NoDiff(q) => NoDiff(p)
    BY <1>1 DEF NoDiff
<1>2. /\ \A i, j \in DOMAIN p : i <= j => i + 1 <= j + 1
      /\ \A i \in DOMAIN p, j \in DOMAIN q : i + 1 < j => j # 1 /\ i < j - 1
    BY <1>1
<1>3. /\ Lists(q[1]) => q[1].value \in [Keys -> SUBSET Refs] /\ ~IsDiff(q[1])
      /\ IsDiff(q[1]) => q[1].value \in Diffs
    BY <1>1 DEF Lists, IsDiff, DownFrames
<1>4. Ordered(p, h, n)
    <2> SUFFICES ASSUME NEW k \in Keys, NEW r \in Refs
                 PROVE  /\ r \in h[k] => r <= n
                        /\ \A i \in DOMAIN p : Leaves(p[i], k, r) =>
                              r <= n /\ r \notin h[k] /\ \A j \in DOMAIN p : i <= j => ~Joins(p[j], k, r)
                        /\ \A i \in DOMAIN p : Joins(p[i], k, r) =>
                              r <= n /\ (r \in h[k] \/ \E j \in DOMAIN p : i < j /\ Leaves(p[j], k, r))
        BY DEF Ordered
    <2>1. /\ r \in h[k] => r <= n
          /\ \A i \in DOMAIN q : Leaves(q[i], k, r) =>
                r <= n /\ r \notin h[k] /\ \A j \in DOMAIN q : i <= j => ~Joins(q[j], k, r)
          /\ \A i \in DOMAIN q : Joins(q[i], k, r) =>
                r <= n /\ (r \in h[k] \/ \E j \in DOMAIN q : i < j /\ Leaves(q[j], k, r))
        BY DEF Ordered
    <2>2. ASSUME NEW i \in DOMAIN p, Leaves(p[i], k, r)
          PROVE  r <= n /\ r \notin h[k] /\ \A j \in DOMAIN p : i <= j => ~Joins(p[j], k, r)
        <3>1. i + 1 \in DOMAIN q /\ Leaves(q[i + 1], k, r)
            BY <2>2, <1>1
        <3> QED
            BY <3>1, <2>1, <1>1, <1>2
    <2>3. ASSUME NEW i \in DOMAIN p, Joins(p[i], k, r)
          PROVE  r <= n /\ (r \in h[k] \/ \E j \in DOMAIN p : i < j /\ Leaves(p[j], k, r))
        <3>1. i + 1 \in DOMAIN q /\ Joins(q[i + 1], k, r)
            BY <2>3, <1>1
        <3>2. ASSUME NEW j \in DOMAIN q, i + 1 < j, Leaves(q[j], k, r)
              PROVE  \E jj \in DOMAIN p : i < jj /\ Leaves(p[jj], k, r)
            <4>1. j - 1 \in DOMAIN p /\ i < j - 1 /\ Leaves(p[j - 1], k, r)
                BY <3>2, <1>1, <1>2
            <4> QED
                BY <4>1
        <3> QED
            BY <3>1, <3>2, <2>1
    <2> QED
        BY <2>1, <2>2, <2>3
<1>5. Faithful(p, h)
    <2> SUFFICES ASSUME NEW i \in DOMAIN p, Lists(p[i]), NEW k \in Keys, NEW r \in Refs,
                        \A j \in DOMAIN p : i < j => ~Touches(p[j], k, r)
                 PROVE  r \in p[i].value[k] <=> r \in h[k]
        BY DEF Faithful
    <2>1. i + 1 \in DOMAIN q /\ p[i] = q[i + 1]
        BY <1>1
    <2>2. (\A j \in DOMAIN q : i + 1 < j => ~Touches(q[j], k, r))
          => (r \in q[i + 1].value[k] <=> r \in h[k])
        BY <2>1 DEF Faithful
    <2> QED
        BY <2>1, <2>2, <1>1, <1>2
<1>10. (NoList(q) => NoList(p)) /\ (NoList(p) /\ ~Lists(q[1]) => NoList(q))
    BY <1>1 DEF NoList
\* What m1 holds of a ref.
<1>6. CASE ~Lists(q[1]) /\ ~IsDiff(q[1]) /\ m1 = m
    <2>1. ASSUME Settled(q, m, h), NoList(p), NEW k \in Keys, NEW r \in Refs,
                 \A i \in DOMAIN p : ~Touches(p[i], k, r)
          PROVE  m1[k][r] = IF r \in h[k] THEN 1 ELSE 0
        <3>1. ~Touches(q[1], k, r)
            BY <1>6 DEF Touches, Joins, Leaves
        <3>2. NoList(q) /\ \A i \in DOMAIN q : ~Touches(q[i], k, r)
            BY <3>1, <2>1, <1>1, <1>6, <1>10
        <3> QED
            BY <3>2, <2>1, <1>6 DEF Settled
    <2>2. Settled(q, m, h) => Settled(p, m1, h)
        BY <2>1 DEF Settled
    <2> QED
        BY <1>4, <1>5, <1>6, <1>9, <1>10, <2>2
<1>7. CASE Lists(q[1]) /\ m1 = applyState(q[1].value)
    <2>1. \A k \in Keys, r \in Refs : m1[k][r] = IF r \in q[1].value[k] THEN 1 ELSE 0
        BY <1>7 DEF applyState, Once
    <2>2. ASSUME Settled(q, m, h), NoList(p), NEW k \in Keys, NEW r \in Refs,
                 \A i \in DOMAIN p : ~Touches(p[i], k, r)
          PROVE  m1[k][r] = IF r \in h[k] THEN 1 ELSE 0
        <3>1. ASSUME NEW j \in DOMAIN q, 1 < j PROVE ~Touches(q[j], k, r)
            <4>1. j - 1 \in DOMAIN p /\ p[j - 1] = q[j]
                BY <3>1, <1>1
            <4> QED
                BY <4>1, <2>2
        <3>2. r \in q[1].value[k] <=> r \in h[k]
            BY <3>1, <1>1, <1>7 DEF Faithful
        <3> QED
            BY <2>1, <3>2
    <2>3. Settled(q, m, h) => Settled(p, m1, h)
        BY <2>2 DEF Settled
    <2> QED
        BY <1>4, <1>5, <1>9, <1>10, <2>1, <2>3 DEF Single
<1>8. CASE IsDiff(q[1]) /\ m1 = applyDiff(m, q[1].value)
    <2> DEFINE d == q[1].value
    <2>1. d \in Diffs /\ d.key \in Keys /\ ~Lists(q[1])
        BY <1>3, <1>8 DEF Diffs, IsDiff, Lists
    <2>2. \A k \in Keys, r \in Refs :
             m1[k][r] = IF k # d.key THEN m[k][r]
                        ELSE IF r \notin d.leaves /\ m[k][r] # 0 THEN m[k][r]
                        ELSE IF r \in d.joins THEN 1 ELSE 0
        BY <1>8, <2>1 DEF applyDiff, Without, Once
    <2>3. Single(m1)
        BY <2>2 DEF Single
    <2>4. \A k \in Keys, r \in Refs : /\ Joins(q[1], k, r) <=> k = d.key /\ r \in d.joins
                                      /\ Leaves(q[1], k, r) <=> k = d.key /\ r \in d.leaves
        BY <1>8 DEF Joins, Leaves
    <2> HIDE DEF d
    <2>5. ASSUME Settled(q, m, h), NoList(p), NEW k \in Keys, NEW r \in Refs,
                 \A i \in DOMAIN p : ~Touches(p[i], k, r)
          PROVE  m1[k][r] = IF r \in h[k] THEN 1 ELSE 0
        <3>1. ASSUME NEW j \in DOMAIN q, 1 < j PROVE ~Leaves(q[j], k, r)
            <4>1. j - 1 \in DOMAIN p /\ p[j - 1] = q[j]
                BY <3>1, <1>1
            <4> QED
                BY <4>1, <2>5 DEF Touches
        <3>2. CASE Leaves(q[1], k, r)
            <4>1. r \notin h[k] /\ ~Joins(q[1], k, r)
                <5>1. \A i \in DOMAIN q : Leaves(q[i], k, r)
                         => r \notin h[k] /\ \A j \in DOMAIN q : i <= j => ~Joins(q[j], k, r)
                    BY DEF Ordered
                <5>2. r \notin h[k] /\ \A j \in DOMAIN q : 1 <= j => ~Joins(q[j], k, r)
                    BY <5>1, <3>2, <1>1
                <5>3. 1 \in DOMAIN q /\ 1 <= 1
                    BY <1>1
                <5> QED
                    BY <5>2, <5>3, Zenon
            <4> QED
                BY <3>2, <4>1, <2>2, <2>4
        <3>3. CASE Joins(q[1], k, r) /\ ~Leaves(q[1], k, r)
            <4>1. r \in h[k]
                BY <3>1, <3>3, <1>1 DEF Ordered
            <4>2. m[k][r] \in {0, 1}
                BY DEF Single
            <4> QED
                BY <3>3, <4>1, <4>2, <2>2, <2>4
        <3>4. CASE ~Joins(q[1], k, r) /\ ~Leaves(q[1], k, r)
            <4>1. NoList(q) /\ \A i \in DOMAIN q : ~Touches(q[i], k, r)
                BY <3>4, <2>1, <2>5, <1>1, <1>10 DEF Touches
            <4>2. m[k][r] = IF r \in h[k] THEN 1 ELSE 0
                BY <4>1, <2>5, Zenon DEF Settled
            <4>3. m1[k][r] = m[k][r]
                <5>1. m[k][r] \in {0, 1}
                    BY DEF Single
                <5>2. k = d.key => r \notin d.joins /\ r \notin d.leaves
                    BY <3>4, <2>4
                <5> QED
                    BY <5>1, <5>2, <2>2
            <4> QED
                BY <4>2, <4>3
        <3> QED
            BY <3>2, <3>3, <3>4
    <2>6. Settled(q, m, h) => Settled(p, m1, h)
        BY <2>5 DEF Settled
    <2> QED
        BY <1>4, <1>5, <1>9, <1>10, <2>3, <2>6
<1> QED
    BY <1>1, <1>6, <1>7, <1>8 DEF Puts

-----------------------------------------------------------------------------
(* The steps of presence.                                                  *)

\* A frame appended to the second of two queues is appended to both.
LEMMA AppendedLast ==
    ASSUME NEW a \in Seq(DownFrames), NEW b \in Seq(DownFrames), NEW f \in DownFrames
    PROVE  a \o Append(b, f) = Append(a \o b, f)
OBVIOUS

\* A frame put in front of the second of two queues is appended to the first.
LEMMA AppendedBetween ==
    ASSUME NEW a \in Seq(DownFrames), NEW b \in Seq(DownFrames), NEW f \in DownFrames
    PROVE  a \o (<<f>> \o b) = Append(a, f) \o b
OBVIOUS

\* The head of the first of two queues is the head of both.
LEMMA TakenFirst ==
    ASSUME NEW a \in Seq(DownFrames), NEW b \in Seq(DownFrames), a # <<>>
    PROVE  a \o b # <<>> /\ Head(a \o b) = Head(a) /\ Tail(a \o b) = Tail(a) \o b
<1>1. a \o b # <<>> /\ Head(a \o b) = Head(a)
    OBVIOUS
<1>2. Tail(a \o b) = Tail(a) \o b
    OBVIOUS
<1> QED
    BY <1>1, <1>2

\* The changes to broadcast as the frames they will be.
LEMMA WaitingIs ==
    ASSUME NEW ds \in Seq(Diffs)
    PROVE  /\ Waiting(ds) \in Seq(DownFrames) /\ Len(Waiting(ds)) = Len(ds)
           /\ \A i \in DOMAIN ds : Waiting(ds)[i] = Frame("presence_diff", ds[i])
<1>1. \A i \in DOMAIN ds : Frame("presence_diff", ds[i]) \in DownFrames
    BY DEF Frame, DownFrames
<1> QED
    BY <1>1 DEF Waiting

\* The types of what is on its way to a client, and of what the service lists.
LEMMA ComingIs ==
    ASSUME LiveInv, NEW c \in Chans
    PROVE  /\ down[c] \in Seq(DownFrames) /\ Waiting(news[c]) \in Seq(DownFrames)
           /\ Coming(c) \in Seq(DownFrames)
           /\ news[c] \in Seq(Diffs) /\ here[c] \in [Keys -> SUBSET Refs]
           /\ meta[c] \in [Keys -> [Refs -> Nat]] /\ changes[c] \in Nat /\ listed[c] \in BOOLEAN
<1>1. /\ news[c] \in Seq(Diffs) /\ down[c] \in Seq(DownFrames)
      /\ here[c] \in [Keys -> SUBSET Refs] /\ meta[c] \in [Keys -> [Refs -> Nat]]
      /\ changes[c] \in Nat /\ listed[c] \in BOOLEAN
    BY DEF LiveInv, TypeOK
<1>2. Waiting(news[c]) \in Seq(DownFrames)
    BY <1>1, WaitingIs
<1> QED
    BY <1>1, <1>2 DEF Coming

\* Presence on a channel is right still where nothing of it changes.
LEMMA PresentKept ==
    ASSUME NEW c \in Chans, wire[c] # "closed" => Present(c),
           wire[c] = "closed" => wire'[c] = "closed",
           down'[c] = down[c], news'[c] = news[c], here'[c] = here[c], changes'[c] = changes[c],
           meta'[c] = meta[c], listed'[c] = listed[c], c \in admitted => c \in admitted'
    PROVE  wire'[c] # "closed" => Present(c)'
BY DEF Present, Coming

\* A frame at the end of the socket, before the changes to broadcast.
LEMMA FrameQueued ==
    ASSUME LiveInv, NEW c \in Chans, Present(c),
           NEW f \in DownFrames, ~IsDiff(f), down' = [down EXCEPT ![c] = Append(@, f)],
           UNCHANGED <<here, news, meta, changes>>, admitted \subseteq admitted',
           \/ ~Lists(f) /\ UNCHANGED listed
           \/ Lists(f) /\ f.value = here[c] /\ c \in admitted /\ listed' = [listed EXCEPT ![c] = TRUE]
    PROVE  Present(c)'
<1> DEFINE a == down[c]
           b == Waiting(news[c])
<1>1. a \in Seq(DownFrames) /\ b \in Seq(DownFrames) /\ changes[c] \in Nat /\ listed[c] \in BOOLEAN
    BY ComingIs
<1>2. Coming(c) = a \o b /\ Coming(c)' = Append(a, f) \o b
    BY DEF Coming, LiveInv, TypeOK
<1>3. /\ Lists(f) => f.value = here[c] /\ listed'[c] /\ c \in admitted
      /\ ~Lists(f) => listed'[c] = listed[c]
    BY DEF LiveInv, TypeOK
<1>4. Ordered(a \o b, here[c], changes[c]) /\ Faithful(a \o b, here[c])
    BY <1>2 DEF Present
<1> HIDE DEF a, b
<1>5. /\ Ordered(Append(a, f) \o b, here[c], changes[c]) /\ Faithful(Append(a, f) \o b, here[c])
      /\ Settled(a \o b, meta[c], here[c]) \/ Lists(f) => Settled(Append(a, f) \o b, meta[c], here[c])
      /\ NoList(a \o b) /\ ~Lists(f) => NoList(Append(a, f) \o b)
      /\ NoDiff(a \o b) => NoDiff(Append(a, f) \o b)
    BY <1>1, <1>3, <1>4, FrameInserted, Zenon
<1>6. /\ c \notin admitted' => ~listed'[c] /\ NoDiff(Append(a, f) \o b)
      /\ IF listed'[c] THEN Settled(Append(a, f) \o b, meta[c], here[c])
                       ELSE NoList(Append(a, f) \o b)
    BY <1>2, <1>3, <1>5 DEF Present
<1>7. here'[c] = here[c] /\ meta'[c] = meta[c] /\ changes'[c] = changes[c]
    OBVIOUS
<1>8. /\ Ordered(Coming(c)', here'[c], changes'[c]) /\ Faithful(Coming(c)', here'[c])
      /\ IF listed'[c] THEN Settled(Coming(c)', meta'[c], here'[c]) ELSE NoList(Coming(c)')
    BY <1>2, <1>5, <1>6, <1>7
<1>9. Single(meta'[c])
    BY <1>7 DEF Present
<1> QED
    BY <1>2, <1>6, <1>8, <1>9 DEF Present, Ordered, Faithful, Settled, Single, NoDiff, NoList, Joins, Leaves,
        Touches, Lists, IsDiff

\* Presence stays right when the client takes a frame.
LEMMA TakenPresent ==
    ASSUME LiveInv, NEW c \in Chans, Present(c), Takes(c)
    PROVE  Present(c)'
<1> DEFINE q == Coming(c)
           h == Head(down[c])
<1>1. /\ down[c] # <<>> /\ down' = [down EXCEPT ![c] = Tail(@)]
      /\ UNCHANGED <<admitted, here, news, listed, changes>>
      /\ \/ h.event \in {"ok", "error"} /\ meta' = meta
         \/ h.event = "presence_state" /\ meta' = [meta EXCEPT ![c] = applyState(h.value)]
         \/ h.event = "presence_diff" /\ meta' = [meta EXCEPT ![c] = applyDiff(@, h.value)]
    BY DEF Takes, OnJoined, OnRefused, OnPresence, Take, server, counters
<1>2. /\ down[c] \in Seq(DownFrames) /\ Waiting(news[c]) \in Seq(DownFrames) /\ q \in Seq(DownFrames)
      /\ here[c] \in [Keys -> SUBSET Refs] /\ meta[c] \in [Keys -> [Refs -> Nat]]
      /\ changes[c] \in Nat /\ listed[c] \in BOOLEAN
    BY ComingIs
<1>3. q # <<>> /\ Head(q) = h /\ Tail(q) = Tail(down[c]) \o Waiting(news[c])
    <2>1. Head(down[c]) \in DownFrames
        BY <1>1, <1>2
    <2> QED
        BY <1>1, <1>2, TakenFirst, Zenon DEF Coming
<1>4. Coming(c)' = Tail(q)
    BY <1>1, <1>3 DEF Coming, LiveInv, TypeOK
<1>5. /\ Single(meta[c])
      /\ Ordered(q, here[c], changes[c]) /\ Faithful(q, here[c])
      /\ IF listed[c] THEN Settled(q, meta[c], here[c]) ELSE NoList(q)
      /\ c \notin admitted => ~listed[c] /\ NoDiff(q)
    BY DEF Present
<1> DEFINE p == Tail(q)
<1>6. Heads(q, h, p) /\ Coming(c)' = p
    BY <1>3, <1>4 DEF Heads
<1> HIDE DEF q, h, p
<1>7. Puts(h, meta[c], meta'[c])
    BY <1>1 DEF Puts, Lists, IsDiff, LiveInv, TypeOK
<1>9. /\ Ordered(p, here[c], changes[c]) /\ Faithful(p, here[c])
      /\ Settled(q, meta[c], here[c]) => Settled(p, meta'[c], here[c])
      /\ NoList(q) => NoList(p)
      /\ NoDiff(q) => NoDiff(p)
      /\ Single(meta'[c])
    BY <1>2, <1>5, <1>6, <1>7, FrameDelivered
<1>8. /\ Ordered(Coming(c)', here'[c], changes'[c]) /\ Faithful(Coming(c)', here'[c])
      /\ IF listed'[c] THEN Settled(Coming(c)', meta'[c], here'[c]) ELSE NoList(Coming(c)')
      /\ c \notin admitted' => ~listed'[c] /\ NoDiff(Coming(c)')
    BY <1>1, <1>5, <1>6, <1>9
<1> QED
    BY <1>8, <1>9 DEF Present, Ordered, Faithful, Settled, Single, NoDiff, NoList, Joins, Leaves,
        Touches, Lists, IsDiff

\* Presence stays right when a change is broadcast: the queue is the same.
LEMMA BroadcastPresent ==
    ASSUME LiveInv, NEW c \in Chans, Present(c), Broadcast(c)
    PROVE  Present(c)'
<1> DEFINE a == down[c]
           ds == news[c]
           f == Frame("presence_diff", Head(ds))
<1>1. /\ ds # <<>> /\ news' = [news EXCEPT ![c] = Tail(ds)]
      /\ down' = [down EXCEPT ![c] = Append(a, f)]
      /\ UNCHANGED <<meta, admitted, here, listed, changes>>
    BY DEF Broadcast, client, counters
<1>2. a \in Seq(DownFrames) /\ ds \in Seq(Diffs) /\ Tail(ds) \in Seq(Diffs) /\ f \in DownFrames
    <2>1. a \in Seq(DownFrames) /\ ds \in Seq(Diffs)
        BY ComingIs
    <2>2. Head(ds) \in Diffs /\ Tail(ds) \in Seq(Diffs)
        BY <2>1, <1>1
    <2> QED
        BY <2>1, <2>2 DEF Frame, DownFrames
<1>3. /\ Waiting(ds) \in Seq(DownFrames) /\ Waiting(Tail(ds)) \in Seq(DownFrames)
      /\ Waiting(ds) = <<f>> \o Waiting(Tail(ds))
    <2>1. /\ Waiting(ds) \in Seq(DownFrames) /\ Len(Waiting(ds)) = Len(ds)
          /\ \A i \in DOMAIN ds : Waiting(ds)[i] = Frame("presence_diff", ds[i])
        BY <1>2, WaitingIs
    <2>2. /\ Waiting(Tail(ds)) \in Seq(DownFrames) /\ Len(Waiting(Tail(ds))) = Len(Tail(ds))
          /\ \A i \in DOMAIN Tail(ds) : Waiting(Tail(ds))[i] = Frame("presence_diff", Tail(ds)[i])
        BY <1>2, WaitingIs
    <2>3. /\ Len(ds) \in Nat \ {0} /\ Len(Tail(ds)) = Len(ds) - 1 /\ DOMAIN ds = 1 .. Len(ds)
          /\ DOMAIN Tail(ds) = 1 .. Len(ds) - 1 /\ Head(ds) = ds[1]
          /\ \A i \in 1 .. Len(ds) - 1 : Tail(ds)[i] = ds[i + 1]
        BY <1>1, <1>2
    <2> DEFINE v == Waiting(ds)
               w == Waiting(Tail(ds))
    <2> HIDE DEF v, w, f, ds
    <2>4. Len(<<f>> \o w) = Len(ds) /\ <<f>> \o w \in Seq(DownFrames)
        BY <2>2, <2>3, <1>2 DEF w
    <2>5. ASSUME NEW i \in 1 .. Len(ds) PROVE v[i] = (<<f>> \o w)[i]
        <3>1. CASE i = 1
            BY <3>1, <2>1, <2>2, <2>3, <1>2 DEF v, w, f
        <3>2. CASE i # 1
            <4>1. i - 1 \in 1 .. Len(ds) - 1 /\ (i - 1) + 1 = i
                BY <3>2, <2>3
            <4>2. w[i - 1] = Frame("presence_diff", ds[i])
                BY <4>1, <2>2, <2>3 DEF w
            <4>3. (<<f>> \o w)[i] = w[i - 1]
                BY <3>2, <4>1, <2>2, <2>3, <1>2 DEF w
            <4> QED
                BY <4>2, <4>3, <2>1, <2>3 DEF v
        <3> QED
            BY <3>1, <3>2
    <2>6. v \in Seq(DownFrames) /\ Len(v) = Len(ds)
        BY <2>1 DEF v
    <2>7. v = <<f>> \o w
        BY <2>4, <2>5, <2>6
    <2> QED
        BY <2>1, <2>2, <2>7 DEF v, w
<1>4. Coming(c)' = Coming(c)
    <2>1. Coming(c) = a \o (<<f>> \o Waiting(Tail(ds))) /\ Coming(c)' = Append(a, f) \o Waiting(Tail(ds))
        BY <1>1, <1>3 DEF Coming, LiveInv, TypeOK
    <2> HIDE DEF a, f, ds
    <2> QED
        BY <2>1, <1>2, <1>3, AppendedBetween, Zenon
<1> QED
    BY <1>1, <1>4 DEF Present, Ordered, Faithful, Settled, Single, NoDiff, NoList, Joins, Leaves,
        Touches, Lists, IsDiff

\* Presence stays right when a member comes, goes or changes.
LEMMA ChangePresent ==
    ASSUME LiveInv, NEW c \in Chans, NEW k \in Keys, wire[c] # "closed" => Present(c), Change(c, k)
    PROVE  wire'[c] # "closed" => Present(c)'
<1> SUFFICES ASSUME Present(c) PROVE Present(c)'
    BY DEF Change, sockets
<1> DEFINE q == Coming(c)
           n == changes[c]
<1>1. /\ changes[c] < MaxChange /\ changes' = [changes EXCEPT ![c] = n + 1]
      /\ UNCHANGED <<meta, down, admitted, listed>>
    BY DEF Change, client, sockets
<1>2. /\ q \in Seq(DownFrames) /\ down[c] \in Seq(DownFrames) /\ news[c] \in Seq(Diffs)
      /\ here[c] \in [Keys -> SUBSET Refs] /\ n \in Nat /\ listed[c] \in BOOLEAN
      /\ changes'[c] = n + 1 /\ n + 1 \in Refs
    <2>1. changes \in [Chans -> Nat]
        BY DEF LiveInv, TypeOK
    <2> QED
        BY <1>1, <2>1, ComingIs, LiveAssumption DEF Refs
<1>3. PICK J \in SUBSET {n + 1}, L \in SUBSET here[c][k] :
         /\ here' = [here EXCEPT ![c][k] = (@ \ L) \cup J]
         /\ news' = [news EXCEPT ![c] = IF c \in admitted
                       THEN Append(@, [key |-> k, joins |-> J, leaves |-> L]) ELSE @]
    BY <1>2 DEF Change
<1>4. here'[c] = [here[c] EXCEPT ![k] = (@ \ L) \cup J] /\ J \subseteq Refs
    BY <1>2, <1>3 DEF LiveInv, TypeOK
<1>5. /\ Ordered(q, here[c], n) /\ Faithful(q, here[c])
      /\ IF listed[c] THEN Settled(q, meta[c], here[c]) ELSE NoList(q)
    BY DEF Present
<1>6. CASE c \in admitted
    <2> DEFINE d == [key |-> k, joins |-> J, leaves |-> L]
               f == Frame("presence_diff", d)
    <2>1. d \in Diffs /\ f \in DownFrames
        BY <1>2, <1>4 DEF Diffs, DownFrames, Frame
    <2>2. Coming(c)' = Append(q, f)
        <3>1. news'[c] = Append(news[c], d)
            BY <1>3, <1>6 DEF LiveInv, TypeOK
        <3> HIDE DEF d
        <3>2. Append(news[c], d) \in Seq(Diffs)
            BY <1>2, <2>1
        <3>3. /\ Waiting(news[c]) \in Seq(DownFrames) /\ Len(Waiting(news[c])) = Len(news[c])
              /\ \A i \in DOMAIN news[c] : Waiting(news[c])[i] = Frame("presence_diff", news[c][i])
            BY <1>2, WaitingIs
        <3>4. /\ Waiting(Append(news[c], d)) \in Seq(DownFrames)
              /\ Len(Waiting(Append(news[c], d))) = Len(Append(news[c], d))
              /\ \A i \in DOMAIN Append(news[c], d) :
                    Waiting(Append(news[c], d))[i] = Frame("presence_diff", Append(news[c], d)[i])
            BY <3>2, WaitingIs
        <3>5. /\ Len(news[c]) \in Nat /\ DOMAIN news[c] = 1 .. Len(news[c])
              /\ DOMAIN Append(news[c], d) = 1 .. Len(news[c]) + 1
              /\ Len(Append(news[c], d)) = Len(news[c]) + 1
              /\ Append(news[c], d)[Len(news[c]) + 1] = d
              /\ \A i \in 1 .. Len(news[c]) : Append(news[c], d)[i] = news[c][i]
            BY <1>2
        <3> DEFINE v == Waiting(news[c])
                   w == Waiting(Append(news[c], d))
        <3> HIDE DEF v, w, f
        <3>6. /\ v \in Seq(DownFrames) /\ w \in Seq(DownFrames) /\ Len(w) = Len(v) + 1
              /\ w[Len(v) + 1] = f /\ \A i \in 1 .. Len(v) : w[i] = v[i]
            BY <3>3, <3>4, <3>5 DEF v, w, f
        <3>7. w = Append(v, f)
            BY <3>6, <2>1
        <3>8. Coming(c) = down[c] \o v /\ Coming(c)' = down[c] \o w
            BY <3>1, <1>1 DEF Coming, v, w
        <3>9. down[c] \o Append(v, f) = Append(down[c] \o v, f)
            BY <3>6, <1>2, <2>1, AppendedLast, Zenon
        <3> QED
            BY <3>7, <3>8, <3>9
    <2> HIDE DEF q, n
    <2>3. /\ Ordered(Append(q, f), here'[c], n + 1) /\ Faithful(Append(q, f), here'[c])
          /\ Settled(q, meta[c], here[c]) => Settled(Append(q, f), meta[c], here'[c])
        BY <1>2, <1>3, <1>4, <1>5, ChangeQueued, Zenon
    <2>5. NoList(q) => NoList(Append(q, f))
        BY <1>2, <2>1 DEF NoList, Lists, Frame
    <2>4. /\ Ordered(Coming(c)', here'[c], changes'[c])
          /\ Faithful(Coming(c)', here'[c])
          /\ IF listed'[c] THEN Settled(Coming(c)', meta'[c], here'[c]) ELSE NoList(Coming(c)')
        BY <2>2, <2>3, <2>5, <1>1, <1>2, <1>5
    <2> QED
        BY <2>4, <1>1, <1>6 DEF Present, Ordered, Faithful, Settled, Single, NoDiff, NoList, Joins, Leaves,
        Touches, Lists, IsDiff
<1>7. CASE c \notin admitted
    <2>1. ~listed[c] /\ NoDiff(q)
        BY <1>7 DEF Present
    <2>2. Coming(c)' = q
        BY <1>1, <1>3, <1>7 DEF Coming, LiveInv, TypeOK
    <2>3. NoList(q)
        BY <1>5, <2>1
    <2>4. \A kk \in Keys, r \in Refs : r \in here'[c][kk] => r <= n + 1
        <3> SUFFICES ASSUME NEW kk \in Keys, NEW r \in Refs, r \in here'[c][kk] PROVE r <= n + 1
            OBVIOUS
        <3>1. r \in here[c][kk] \/ r = n + 1
            BY <1>2, <1>4
        <3>2. r \in here[c][kk] => r <= n
            BY <1>5 DEF Ordered
        <3> QED
            BY <3>1, <3>2, <1>2 DEF Refs
    <2> HIDE DEF q, n
    <2>5. Ordered(q, here'[c], n + 1) /\ Faithful(q, here'[c])
        BY <2>1, <2>3, <2>4 DEF Ordered, Faithful, Joins, Leaves, NoDiff, NoList
    <2>6. /\ Ordered(Coming(c)', here'[c], changes'[c])
          /\ Faithful(Coming(c)', here'[c])
          /\ IF listed'[c] THEN Settled(Coming(c)', meta'[c], here'[c]) ELSE NoList(Coming(c)')
        BY <2>1, <2>2, <2>3, <2>5, <1>1, <1>2
    <2>7. c \notin admitted' => ~listed'[c] /\ NoDiff(Coming(c)')
        BY <2>1, <2>2, <1>1
    <2> QED
        BY <2>6, <2>7, <1>1 DEF Present, Ordered, Faithful, Settled, Single, NoDiff, NoList, Joins, Leaves,
        Touches, Lists, IsDiff
<1> QED
    BY <1>6, <1>7

\* The frame of a refused or an accepted join.
LEMMA AdmitPresent ==
    ASSUME LiveInv, NEW c \in Chans, Present(c), Admit(c)
    PROVE  Present(c)'
<1>1. /\ UNCHANGED <<here, news, meta, changes, listed>> /\ admitted \subseteq admitted'
      /\ \/ down' = [down EXCEPT ![c] = Append(@, Frame("ok", None))]
         \/ down' = [down EXCEPT ![c] = Append(@, Frame("error", None))]
    BY DEF Admit, Arrives, client, counters
<1>2. \A e \in {"ok", "error"} :
         Frame(e, None) \in DownFrames /\ ~IsDiff(Frame(e, None)) /\ ~Lists(Frame(e, None))
    BY DEF Frame, DownFrames, IsDiff, Lists
<1>3. PICK f \in DownFrames : /\ ~IsDiff(f) /\ ~Lists(f)
                              /\ down' = [down EXCEPT ![c] = Append(@, f)]
    BY <1>1, <1>2
<1> QED
    BY <1>1, <1>3, FrameQueued

\* Presence stays right when the state is pushed ahead of the changes.
LEMMA ListStatePresent ==
    ASSUME LiveInv, NEW c \in Chans, Present(c), ListState(c)
    PROVE  Present(c)'
<1> DEFINE f == Frame("presence_state", here[c])
<1>1. /\ UNCHANGED <<here, news, meta, changes, admitted>> /\ c \in admitted
      /\ listed' = [listed EXCEPT ![c] = TRUE]
      /\ down' = [down EXCEPT ![c] = Append(@, f)]
    BY DEF ListState, client, counters
<1>2. here[c] \in [Keys -> SUBSET Refs]
    BY ComingIs
<1>3. f \in DownFrames /\ ~IsDiff(f) /\ Lists(f) /\ f.value = here[c]
    BY <1>2 DEF Frame, DownFrames, IsDiff, Lists
<1> HIDE DEF f
<1> QED
    BY <1>1, <1>3, FrameQueued

\* Nothing but the phase and the wire of c and the frames to the server.
Aside(c) ==
    /\ UNCHANGED <<down, news, here, changes, meta, listed, admitted>>
    /\ \A d \in Chans : /\ d # c => phase'[d] = phase[d] /\ wire'[d] = wire[d]
                        /\ phase'[d] = "unused" => phase[d] = "unused"
                        /\ phase[d] # "unused" /\ wire[d] = "closed" => wire'[d] = "closed"
                        /\ phase'[d] = "unused" => wire'[d] = wire[d]

\* A step that leaves presence and its frames aside keeps the invariant of presence.
LEMMA AsideKept ==
    ASSUME PresenceInv, NEW c, Aside(c)
    PROVE  PresenceInv'
<1> SUFFICES ASSUME NEW d \in Chans
             PROVE  /\ phase'[d] = "unused" => wire'[d] # "closed"
                    /\ wire'[d] # "closed" => Present(d)'
    BY DEF PresenceInv
<1>1. phase'[d] = "unused" => wire'[d] # "closed"
    BY DEF Aside, PresenceInv
<1>2. wire[d] = "closed" => wire'[d] = "closed"
    BY DEF Aside, PresenceInv
<1>3. wire[d] # "closed" => Present(d)
    BY DEF PresenceInv
<1>4. /\ down'[d] = down[d] /\ news'[d] = news[d] /\ here'[d] = here[d] /\ changes'[d] = changes[d]
      /\ meta'[d] = meta[d] /\ listed'[d] = listed[d] /\ (d \in admitted => d \in admitted')
    BY DEF Aside
<1> QED
    BY <1>1, <1>2, <1>3, <1>4, PresentKept

\* Nothing of the other channels.
LEMMA OthersKept ==
    ASSUME PresenceInv, NEW c \in Chans, UNCHANGED <<phase, wire>>, admitted \subseteq admitted',
           \A d \in Chans \ {c} :
              /\ down'[d] = down[d] /\ news'[d] = news[d] /\ here'[d] = here[d]
              /\ changes'[d] = changes[d] /\ meta'[d] = meta[d] /\ listed'[d] = listed[d],
           wire[c] # "closed" => Present(c)'
    PROVE  PresenceInv'
<1> SUFFICES ASSUME NEW d \in Chans
             PROVE  /\ phase'[d] = "unused" => wire'[d] # "closed"
                    /\ wire'[d] # "closed" => Present(d)'
    BY DEF PresenceInv
<1>1. phase'[d] = "unused" => wire'[d] # "closed"
    BY DEF PresenceInv
<1>2. CASE d = c
    BY <1>1, <1>2
<1>3. CASE d # c
    <2>1. wire[d] # "closed" => Present(d)
        BY DEF PresenceInv
    <2> QED
        BY <1>1, <1>3, <2>1, PresentKept
<1> QED
    BY <1>2, <1>3

\* The invariant of presence is kept by every step.
LEMMA PresenceKept ==
    ASSUME LiveInv, PresenceInv, [Next]_vars
    PROVE  PresenceInv'
<1>1. CASE SetAuth \/ Fire \/ FetchOk \/ FetchFail \/ UNCHANGED vars
    <2>1. UNCHANGED <<down, news, here, changes, meta, listed, admitted, phase, wire>>
        BY <1>1 DEF SetAuth, Fire, FetchOk, FetchFail, vars, client, sockets, server, counters
    <2>2. Aside(None)
        BY <2>1 DEF Aside
    <2> QED
        BY <2>2, AsideKept
<1>2. ASSUME NEW c \in Chans, Open(c) \/ OnOpen(c) \/ Push(c) \/ Stop(c) PROVE PresenceInv'
    <2>1. UNCHANGED <<down, news, here, changes, meta, listed, admitted>>
        BY <1>2 DEF Open, OnOpen, Push, Stop, client, sockets, server, counters
    <2>2. Aside(c)
        BY <1>2, <2>1 DEF Aside, Open, OnOpen, Push, Stop, LiveInv, TypeOK, server
    <2> QED
        BY <2>2, AsideKept
<1>3. ASSUME NEW c \in Chans, Reauthorize(c) \/ Hear(c) PROVE PresenceInv'
    <2>1. UNCHANGED <<down, news, here, changes, meta, listed, admitted, phase, wire>>
        BY <1>3 DEF Reauthorize, Hear, Arrives, client, counters
    <2>2. Aside(c)
        BY <2>1 DEF Aside
    <2> QED
        BY <2>2, AsideKept
<1>4. ASSUME NEW c \in Chans, OnClose(c) PROVE PresenceInv'
    <2>1. /\ wire' = [wire EXCEPT ![c] = "closed"] /\ down' = [down EXCEPT ![c] = <<>>]
          /\ UNCHANGED <<phase, news, here, changes, meta, listed, admitted>>
          /\ wire[c] \in {"connecting", "open"}
        BY <1>4 DEF OnClose, server, counters
    <2>2. phase[c] # "unused" /\ wire'[c] = "closed"
        BY <2>1 DEF LiveInv, InOrder, TypeOK
    <2> SUFFICES ASSUME NEW d \in Chans
                 PROVE  /\ phase'[d] = "unused" => wire'[d] # "closed"
                        /\ wire'[d] # "closed" => Present(d)'
        BY DEF PresenceInv
    <2>3. CASE d = c
        BY <2>1, <2>2, <2>3
    <2>4. CASE d # c
        <3>1. /\ wire'[d] = wire[d] /\ down'[d] = down[d]
              /\ phase[d] = "unused" => wire[d] # "closed"
              /\ wire[d] # "closed" => Present(d)
            BY <2>1, <2>4 DEF LiveInv, TypeOK, PresenceInv
        <3>2. wire'[d] # "closed" => Present(d)'
            BY <2>1, <3>1, PresentKept
        <3> QED
            BY <2>1, <3>1, <3>2
    <2> QED
        BY <2>3, <2>4
<1>5. ASSUME NEW c \in Chans, Takes(c) PROVE PresenceInv'
    <2>1. /\ down' = [down EXCEPT ![c] = Tail(@)] /\ wire[c] = "open" /\ down[c] # <<>>
          /\ UNCHANGED <<news, here, changes, listed, admitted, wire>>
        BY <1>5 DEF Takes, OnJoined, OnRefused, OnPresence, Take, server, counters
    <2>2. /\ \A d \in Chans \ {c} : meta'[d] = meta[d] /\ phase'[d] = phase[d]
          /\ phase'[c] = "unused" => phase[c] = "unused"
        BY <1>5 DEF Takes, OnJoined, OnRefused, OnPresence, LiveInv, TypeOK
    <2>3. Present(c)'
        BY <1>5, <2>1, TakenPresent DEF PresenceInv
    <2> SUFFICES ASSUME NEW d \in Chans
                 PROVE  /\ phase'[d] = "unused" => wire'[d] # "closed"
                        /\ wire'[d] # "closed" => Present(d)'
        BY DEF PresenceInv
    <2>4. CASE d = c
        BY <2>1, <2>3, <2>4
    <2>5. CASE d # c
        <3>1. /\ down'[d] = down[d] /\ meta'[d] = meta[d] /\ phase'[d] = phase[d]
              /\ phase[d] = "unused" => wire[d] # "closed"
              /\ wire[d] # "closed" => Present(d)
            BY <2>1, <2>2, <2>5 DEF LiveInv, TypeOK, PresenceInv
        <3>2. wire'[d] # "closed" => Present(d)'
            BY <2>1, <3>1, PresentKept
        <3> QED
            BY <2>1, <3>1, <3>2
    <2> QED
        BY <2>4, <2>5
<1>6. ASSUME NEW c \in Chans, Admit(c) PROVE PresenceInv'
    <2>1. /\ UNCHANGED <<phase, wire, news, here, changes, meta, listed>> /\ admitted \subseteq admitted'
          /\ \A d \in Chans \ {c} : down'[d] = down[d]
        BY <1>6 DEF Admit, Arrives, client, counters, LiveInv, TypeOK
    <2>2. wire[c] # "closed" => Present(c)'
        BY <1>6, AdmitPresent DEF PresenceInv
    <2> QED
        BY <2>1, <2>2, OthersKept
<1>7. ASSUME NEW c \in Chans, Broadcast(c) \/ ListState(c) PROVE PresenceInv'
    <2>1. /\ UNCHANGED <<phase, wire, here, changes, meta, admitted>>
          /\ \A d \in Chans \ {c} : down'[d] = down[d] /\ news'[d] = news[d] /\ listed'[d] = listed[d]
        BY <1>7 DEF Broadcast, ListState, client, counters, LiveInv, TypeOK
    <2>2. wire[c] # "closed" => Present(c)'
        BY <1>7, BroadcastPresent, ListStatePresent DEF PresenceInv
    <2> QED
        BY <2>1, <2>2, OthersKept
<1>8. ASSUME NEW c \in Chans, NEW k \in Keys, Change(c, k) PROVE PresenceInv'
    <2>1. UNCHANGED <<phase, wire, down, meta, admitted, listed>>
        BY <1>8 DEF Change, client, sockets
    <2>2. \A d \in Chans \ {c} : news'[d] = news[d] /\ here'[d] = here[d] /\ changes'[d] = changes[d]
        BY <1>8 DEF Change, LiveInv, TypeOK
    <2>3. wire'[c] # "closed" => Present(c)'
        BY <1>8, ChangePresent DEF PresenceInv
    <2> QED
        BY <2>1, <2>2, <2>3, OthersKept
<1> QED
    BY <1>1, <1>2, <1>3, <1>4, <1>5, <1>6, <1>7, <1>8 DEF Next, Serves

-----------------------------------------------------------------------------
(* The theorems.                                                           *)

\* The inductive invariant of the client and its sockets.
THEOREM LiveInvariant == Spec => []LiveInv
<1>1. Init => LiveInv
    <2> SUFFICES ASSUME Init PROVE LiveInv
        OBVIOUS
    <2>1. TypeOK
        <3>1. app \in Apps /\ getToken \in BOOLEAN /\ timer \in BOOLEAN
            BY DEF Init
        <3>2. token \in Nat /\ issued \in Nat /\ fetches \in Nat
            BY DEF Init, None
        <3>3. /\ phase \in [Chans -> Phases] /\ wire \in [Chans -> Wires]
              /\ beating \in [Chans -> BOOLEAN] /\ listed \in [Chans -> BOOLEAN]
            BY DEF Init, Phases, Wires
        <3>4. /\ pending \in [Chans -> Seq(Nat)] /\ heard \in [Chans -> Seq(Nat)]
              /\ up \in [Chans -> Seq(UpFrames)] /\ down \in [Chans -> Seq(DownFrames)]
              /\ news \in [Chans -> Seq(Diffs)]
            BY DEF Init
        <3>5. /\ channels \in SUBSET Chans /\ admitted \in SUBSET Chans
              /\ held \in [Chans -> Nat] /\ sent \in [Chans -> Nat] /\ changes \in [Chans -> Nat]
              /\ here \in [Chans -> [Keys -> SUBSET Refs]]
              /\ meta \in [Chans -> [Keys -> [Refs -> Nat]]]
            BY DEF Init, None
        <3> QED
            BY <3>1, <3>2, <3>3, <3>4, <3>5 DEF TypeOK
    <2>2. RefreshAlive /\ NothingOutlivesStop
        BY DEF Init, RefreshAlive, NothingOutlivesStop
    <2>3. ASSUME NEW c \in Chans PROVE InOrder(c)
        BY DEF Init, InOrder, InLine, NoPush, Queued
    <2> QED
        BY <2>1, <2>2, <2>3 DEF LiveInv
<1>2. LiveInv /\ [Next]_vars => LiveInv'
    <2> SUFFICES ASSUME LiveInv, [Next]_vars PROVE LiveInv'
        OBVIOUS
    <2>1. CASE SetAuth \/ Fire \/ FetchOk \/ FetchFail
        BY <2>1, LoopSteps
    <2>2. ASSUME NEW c \in Chans,
                 Open(c) \/ OnOpen(c) \/ Push(c) \/ Takes(c) \/ Stop(c) \/ OnClose(c)
          PROVE  LiveInv'
        BY <2>2, OpenStep, OnOpenStep, PushStep, OnJoinedStep, OtherFrameSteps, StopStep, OnCloseStep
        DEF Takes
    <2>3. ASSUME NEW c \in Chans, Serves(c) \/ Broadcast(c) \/ ListState(c)
          PROVE  LiveInv'
        BY <2>3, AdmitStep, ReauthorizeStep, HearStep, PresenceSteps DEF Serves
    <2>4. ASSUME NEW c \in Chans, NEW k \in Keys, Change(c, k)
          PROVE  LiveInv'
        BY <2>4, ChangeStep
    <2>5. CASE UNCHANGED vars
        <3>1. TypeOK' /\ RefreshAlive' /\ NothingOutlivesStop'
            BY <2>5
            DEF vars, client, sockets, server, counters, LiveInv, TypeOK, RefreshAlive,
                NothingOutlivesStop
        <3>2. ASSUME NEW c \in Chans PROVE InOrder(c)'
            <4>1. SameButUp(c) /\ up'[c] = up[c]
                BY <2>5 DEF vars, client, sockets, server, counters, SameButUp, LiveInv, InOrder
            <4> QED
                BY <4>1, OrderKept
        <3> QED
            BY <3>1, <3>2 DEF LiveInv
    <2> QED
        BY <2>1, <2>2, <2>3, <2>4, <2>5 DEF Next
<1> QED
    BY <1>1, <1>2, PTL DEF Spec

\* A client that can fetch tokens never has a joined channel without a refresh
\* ahead.
THEOREM RefreshNeverDies == Spec => []RefreshAlive
<1>1. LiveInv => RefreshAlive
    BY DEF LiveInv
<1> QED
    BY <1>1, LiveInvariant, PTL

\* Heartbeat, membership in the refresh loop and the loop's timer end with stop.
THEOREM StopEndsAll == Spec => []NothingOutlivesStop
<1>1. LiveInv => NothingOutlivesStop
    BY DEF LiveInv
<1> QED
    BY <1>1, LiveInvariant, PTL

\* However the application's pushes meet the join, the server takes them in
\* order, without a gap.
THEOREM PushesInOrder == Spec => []HeardInOrder
<1>1. LiveInv => HeardInOrder
    BY DEF LiveInv, InOrder, HeardInOrder
<1> QED
    BY <1>1, LiveInvariant, PTL

\* Each variable of the client and of the service keeps its type.
THEOREM LiveTyped == Spec => []TypeOK
<1>1. LiveInv => TypeOK
    BY DEF LiveInv
<1> QED
    BY <1>1, LiveInvariant, PTL

\* The invariant of presence on its way to the client.
THEOREM PresenceInvariant == Spec => []PresenceInv
<1>1. Init => PresenceInv
    <2> SUFFICES ASSUME Init, NEW c \in Chans PROVE wire[c] # "closed" /\ Present(c)
        BY DEF PresenceInv
    <2>1. /\ wire[c] = "none" /\ ~listed[c] /\ down[c] = <<>> /\ news[c] = <<>>
          /\ \A k \in Keys : here[c][k] = {} /\ \A r \in Refs : meta[c][k][r] = 0
        BY DEF Init
    <2>2. Coming(c) = <<>>
        BY <2>1 DEF Coming, Waiting
    <2>3. \A i : i \notin DOMAIN Coming(c)
        BY <2>2
    <2> QED
        BY <2>1, <2>3 DEF Present, Ordered, Faithful, Settled, Single, NoDiff, NoList
<1>2. LiveInv /\ PresenceInv /\ [Next]_vars => PresenceInv'
    BY PresenceKept
<1> QED
    BY <1>1, <1>2, LiveInvariant, PTL DEF Spec

\* A follower that has taken all the server sent lists who is present, each once,
\* however changes, broadcasts and the state it was pushed interleave.
THEOREM PresenceListed == Spec => []PresenceAgrees
<1>1. LiveInv /\ PresenceInv => PresenceAgrees
    <2> SUFFICES ASSUME LiveInv, PresenceInv, NEW c \in app.follows, wire[c] = "open", listed[c],
                        news[c] = <<>>, down[c] = <<>>, NEW k \in Keys
                 PROVE  meta[c][k] = Once(here[c][k])
        BY DEF PresenceAgrees
    <2>1. c \in Chans
        BY LiveAssumption DEF LiveInv, TypeOK
    <2>2. Coming(c) = <<>>
        BY DEF Coming, Waiting
    <2>3. \A i : i \notin DOMAIN Coming(c)
        BY <2>2
    <2>4. Settled(Coming(c), meta[c], here[c])
        BY <2>1 DEF PresenceInv, Present
    <2>5. \A r \in Refs : meta[c][k][r] = IF r \in here[c][k] THEN 1 ELSE 0
        BY <2>3, <2>4 DEF Settled, NoList
    <2>6. meta[c][k] \in [Refs -> Nat]
        BY <2>1 DEF LiveInv, TypeOK
    <2> QED
        BY <2>5, <2>6 DEF Once
<1> QED
    BY <1>1, LiveInvariant, PresenceInvariant, PTL

=============================================================================
