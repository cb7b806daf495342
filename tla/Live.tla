--------------------------------- MODULE Live ---------------------------------
(***************************************************************************)
(* The realtime client of the SDK.  A client opens channels, each on a     *)
(* WebSocket of its own; it joins, queues what the application pushes      *)
(* until the join is acknowledged, follows the channel's presence, and     *)
(* keeps one timer that fetches a new access token before the old one      *)
(* expires and pushes it to every joined channel.                          *)
(*                                                                         *)
(* The callbacks of sockets and timers run one at a time, in any order:    *)
(* an action is one callback or one call of the application.  The network  *)
(* keeps the order of a socket's frames and may cut the socket.            *)
(***************************************************************************)
EXTENDS Naturals, Sequences

CONSTANTS
    Chans,      \* the calls of open; each makes a channel
    Apps,       \* applications: what they open and as what, the tokens they see
    Keys,       \* presence keys of the other members
    MaxPush,    \* bound: pushes on one channel
    MaxChange   \* bound: presence changes on one channel

ASSUME LiveAssumption ==
    /\ \A a \in Apps : /\ a.opens \subseteq Chans /\ a.private \subseteq Chans
                      /\ a.follows \subseteq Chans /\ a.tokens \in Nat
    /\ MaxPush \in Nat /\ MaxChange \in Nat

VARIABLES
    app,       \* the application at hand
    getToken,  \* the application gave a getToken
    token,     \* currentToken, None without one
    issued,    \* the last token issued
    phase,     \* what the client knows of each channel
    wire,      \* the channel's WebSocket
    beating,   \* the channel's heartbeat interval is running
    pending,   \* pushes queued until the join is acknowledged
    meta,      \* the presence the client has put together
    channels,  \* channels in the refresh loop
    timer,     \* refreshTimer is set
    fetches,   \* calls of getToken under way
    up, down,  \* frames under way
    admitted,  \* channels whose join the server accepted
    held,      \* the token the server's side of the channel holds
    here,      \* who is present, by the server: the phx_refs of each key
    news,      \* presence changes not broadcast yet
    listed,    \* the server has pushed the presence state
    sent, heard, \* pushes made by the application, taken by the server
    changes

client   == <<app, getToken, token, phase, beating, pending, meta, channels,
              timer, fetches>>
sockets  == <<wire, up, down>>
server   == <<admitted, held, here, news, listed, heard>>
counters == <<issued, sent, changes>>
vars     == <<client, sockets, server, counters>>

None == 0

Phases == {"unused", "opening", "joining", "joined", "stopped"}
Wires  == {"none", "connecting", "open", "closed"}
Refs   == 1 .. MaxChange

Frame(e, v) == [event |-> e, value |-> v]
UpFrames == [event: {"phx_join", "access_token", "presence"}, value: Nat]

Diffs == [key: Keys, joins: SUBSET Refs, leaves: SUBSET Refs]

DownFrames == [event: {"ok", "error"}, value: {None}]
              \cup [event: {"presence_state"}, value: [Keys -> SUBSET Refs]]
              \cup [event: {"presence_diff"}, value: Diffs]

TypeOK ==
    /\ app \in Apps /\ getToken \in BOOLEAN /\ timer \in BOOLEAN
    /\ token \in Nat /\ issued \in Nat /\ fetches \in Nat
    /\ phase \in [Chans -> Phases] /\ wire \in [Chans -> Wires]
    /\ beating \in [Chans -> BOOLEAN]
    /\ pending \in [Chans -> Seq(Nat)]
    /\ meta \in [Chans -> [Keys -> [Refs -> Nat]]]
    /\ channels \in SUBSET Chans
    /\ up \in [Chans -> Seq(UpFrames)] /\ down \in [Chans -> Seq(DownFrames)]
    /\ admitted \in SUBSET Chans /\ held \in [Chans -> Nat]
    /\ here \in [Chans -> [Keys -> SUBSET Refs]]
    /\ news \in [Chans -> Seq(Diffs)] /\ listed \in [Chans -> BOOLEAN]
    /\ sent \in [Chans -> Nat] /\ heard \in [Chans -> Seq(Nat)]
    /\ changes \in [Chans -> Nat]

\* A client made with or without a token, with or without a getToken.
Init ==
    /\ app \in Apps
    /\ getToken \in BOOLEAN /\ token \in {None, 1} /\ issued = 1
    /\ phase = [c \in Chans |-> "unused"] /\ wire = [c \in Chans |-> "none"]
    /\ beating = [c \in Chans |-> FALSE]
    /\ pending = [c \in Chans |-> <<>>]
    /\ meta = [c \in Chans |-> [k \in Keys |-> [r \in Refs |-> 0]]]
    /\ channels = {} /\ timer = FALSE /\ fetches = 0
    /\ up = [c \in Chans |-> <<>>] /\ down = [c \in Chans |-> <<>>]
    /\ admitted = {} /\ held = [c \in Chans |-> None]
    /\ here = [c \in Chans |-> [k \in Keys |-> {}]]
    /\ news = [c \in Chans |-> <<>>] /\ listed = [c \in Chans |-> FALSE]
    /\ sent = [c \in Chans |-> 0] /\ heard = [c \in Chans |-> <<>>]
    /\ changes = [c \in Chans |-> 0]

-----------------------------------------------------------------------------
(* Putting presence together.  The client keeps, for each key, how many    *)
(* entries it has of each ref; a key without entries is absent.            *)

Once(S) == [r \in Refs |-> IF r \in S THEN 1 ELSE 0]

applyState(state) == [k \in Keys |-> Once(state[k])]

Without(entries, S) == [r \in Refs |-> IF r \in S THEN 0 ELSE entries[r]]

\* Fault: entries that are already there are appended again.
applyDiffTwice(m, d) ==
    [m EXCEPT ![d.key] = [r \in Refs |-> Without(@, d.leaves)[r] + Once(d.joins)[r]]]

\* Leaves go by ref; joins are appended unless their ref is there.
applyDiff(m, d) ==
    [m EXCEPT ![d.key] =
        LET left == Without(@, d.leaves)
        IN  [r \in Refs |-> IF left[r] = 0 THEN Once(d.joins)[r] ELSE left[r]]]

-----------------------------------------------------------------------------
(* The refresh loop.                                                       *)

scheduleRefresh == timer' = (timer \/ (getToken /\ channels # {}))

\* ws.send: a frame on a socket that is not open is lost.
Send(c, f) == IF wire[c] = "open" THEN Append(up[c], f) ELSE up[c]

\* Fault: the frame has a name the server does not know.
setAuthMisnamed(t) ==
    /\ token' = t
    /\ up' = [c \in Chans |-> IF c \in channels THEN Send(c, Frame("set_auth", t)) ELSE up[c]]
    /\ scheduleRefresh

\* Fault: the token is kept for later joins and not pushed.
setAuthQuiet(t) == token' = t /\ up' = up /\ scheduleRefresh

setAuth(t) ==
    /\ token' = t
    /\ up' = [c \in Chans |-> IF c \in channels
                              THEN Send(c, Frame("access_token", t)) ELSE up[c]]
    /\ scheduleRefresh

\* The application refreshes on its own trigger.
SetAuth ==
    /\ issued < app.tokens /\ issued' = issued + 1
    /\ setAuth(issued')
    /\ UNCHANGED <<app, getToken, phase, beating, pending, meta, channels, fetches>>
    /\ UNCHANGED <<wire, down, server, sent, changes>>

\* The timer fires.  It was set at least five seconds before, so the tokens
\* pushed then have arrived.
Fire ==
    /\ timer /\ timer' = FALSE
    /\ \A c \in channels : up[c] = <<>>
    /\ fetches' = fetches + 1
    /\ UNCHANGED <<app, getToken, token, phase, beating, pending, meta, channels>>
    /\ UNCHANGED <<sockets, server, counters>>

\* getToken answers: with a new token, or one issued before.
FetchOk ==
    /\ fetches > 0 /\ fetches' = fetches - 1
    /\ \E t \in 1 .. issued + 1 :
          /\ t <= app.tokens
          /\ issued' = IF t > issued THEN t ELSE issued
          /\ setAuth(t)
    /\ UNCHANGED <<app, getToken, phase, beating, pending, meta, channels>>
    /\ UNCHANGED <<wire, down, server, sent, changes>>

\* Fault: a failed fetch is not tried again.
FetchFailGivesUp ==
    /\ fetches > 0 /\ fetches' = fetches - 1
    /\ UNCHANGED <<app, getToken, token, phase, beating, pending, meta, channels, timer>>
    /\ UNCHANGED <<sockets, server, counters>>

\* It answers without a token, or throws: try again in thirty seconds.
FetchFail ==
    /\ fetches > 0 /\ fetches' = fetches - 1
    /\ scheduleRefresh
    /\ UNCHANGED <<app, getToken, token, phase, beating, pending, meta, channels>>
    /\ UNCHANGED <<sockets, server, counters>>

-----------------------------------------------------------------------------
(* A channel.                                                              *)

\* open throws for a private channel without a token.
Open(c) ==
    /\ c \in app.opens /\ phase[c] = "unused"
    /\ c \in app.private => token # None
    /\ phase' = [phase EXCEPT ![c] = "opening"]
    /\ wire' = [wire EXCEPT ![c] = "connecting"]
    /\ UNCHANGED <<app, getToken, token, beating, pending, meta, channels, timer, fetches>>
    /\ UNCHANGED <<up, down, server, counters>>

\* ws.onopen: join with the token of now.
OnOpen(c) ==
    /\ wire[c] = "connecting" /\ wire' = [wire EXCEPT ![c] = "open"]
    /\ phase' = [phase EXCEPT ![c] = "joining"]
    /\ up' = [up EXCEPT ![c] = Append(@, Frame("phx_join", token))]
    /\ beating' = [beating EXCEPT ![c] = TRUE]
    /\ UNCHANGED <<app, getToken, token, pending, meta, channels, timer, fetches>>
    /\ UNCHANGED <<down, server, counters>>

\* Fault: pushes are queued after the join, too.
PushQueues(c) ==
    /\ c \in app.follows
    /\ phase[c] \in {"opening", "joining", "joined"} /\ sent[c] < MaxPush
    /\ sent' = [sent EXCEPT ![c] = @ + 1]
    /\ pending' = [pending EXCEPT ![c] = Append(@, sent[c] + 1)]
    /\ UNCHANGED <<app, getToken, token, phase, beating, meta, channels, timer, fetches>>
    /\ UNCHANGED <<sockets, server, issued, changes>>

\* track or untrack, on a presence channel: sent once joined, queued before.
Push(c) ==
    /\ c \in app.follows
    /\ phase[c] \in {"opening", "joining", "joined"} /\ sent[c] < MaxPush
    /\ sent' = [sent EXCEPT ![c] = @ + 1]
    /\ IF phase[c] = "joined"
       THEN /\ up' = [up EXCEPT ![c] = Send(c, Frame("presence", sent[c] + 1))]
            /\ pending' = pending
       ELSE /\ pending' = [pending EXCEPT ![c] = Append(@, sent[c] + 1)]
            /\ up' = up
    /\ UNCHANGED <<app, getToken, token, phase, beating, meta, channels, timer, fetches>>
    /\ UNCHANGED <<wire, down, server, issued, changes>>

\* ws.onmessage: the next frame of an open socket.
Take(c, event) ==
    /\ wire[c] = "open" /\ down[c] # <<>> /\ Head(down[c]).event = event
    /\ down' = [down EXCEPT ![c] = Tail(@)]
    /\ UNCHANGED <<app, getToken, token, beating, fetches, wire, server, counters>>

Flushed(c) == up[c] \o [i \in DOMAIN pending[c] |-> Frame("presence", pending[c][i])]

\* Fault: the queue is flushed from its end.
OnJoinedBackwards(c) ==
    /\ Take(c, "ok")
    /\ phase' = [phase EXCEPT ![c] = "joined"]
    /\ up' = [up EXCEPT ![c] = @ \o [i \in DOMAIN pending[c] |->
                Frame("presence", pending[c][Len(pending[c]) + 1 - i])]]
    /\ pending' = [pending EXCEPT ![c] = <<>>]
    /\ channels' = channels \cup {c}
    /\ timer' = (timer \/ getToken)
    /\ UNCHANGED meta

\* The join is acknowledged: flush the queue, enter the refresh loop.
OnJoined(c) ==
    /\ Take(c, "ok")
    /\ phase' = [phase EXCEPT ![c] = "joined"]
    /\ up' = [up EXCEPT ![c] = Flushed(c)]
    /\ pending' = [pending EXCEPT ![c] = <<>>]
    /\ channels' = channels \cup {c}
    /\ timer' = (timer \/ getToken)
    /\ UNCHANGED meta

\* A refused join changes nothing: the channel stays open and unjoined.
OnRefused(c) ==
    /\ Take(c, "error")
    /\ UNCHANGED <<phase, up, pending, channels, timer, meta>>

OnPresence(c) ==
    /\ \/ /\ Take(c, "presence_state")
          /\ meta' = [meta EXCEPT ![c] = applyState(Head(down[c]).value)]
       \/ /\ Take(c, "presence_diff")
          /\ meta' = [meta EXCEPT ![c] = applyDiff(@, Head(down[c]).value)]
    /\ UNCHANGED <<phase, up, pending, channels, timer>>

\* Fault: the refresh loop forgets the channel and keeps its timer.
StopKeepsTimer(c) ==
    /\ phase[c] \in {"opening", "joining", "joined"}
    /\ phase' = [phase EXCEPT ![c] = "stopped"]
    /\ wire' = [wire EXCEPT ![c] = "closed"]
    /\ beating' = [beating EXCEPT ![c] = FALSE]
    /\ channels' = channels \ {c}
    /\ UNCHANGED <<app, getToken, token, pending, meta, timer, fetches>>
    /\ UNCHANGED <<up, down, server, counters>>

\* stop: no callback of a socket runs once it has been closed, whatever frames
\* or handshake are under way; what was sent before still arrives.
Stop(c) ==
    /\ phase[c] \in {"opening", "joining", "joined"}
    /\ phase' = [phase EXCEPT ![c] = "stopped"]
    /\ wire' = [wire EXCEPT ![c] = "closed"]
    /\ beating' = [beating EXCEPT ![c] = FALSE]
    /\ channels' = channels \ {c}
    /\ timer' = (timer /\ channels' # {})
    /\ UNCHANGED <<app, getToken, token, pending, meta, fetches>>
    /\ UNCHANGED <<up, down, server, counters>>

\* ws.onclose: the socket is cut, with the frames on it.  The channel stays in
\* the refresh loop and is not opened again.
OnClose(c) ==
    /\ wire[c] \in {"connecting", "open"} /\ wire' = [wire EXCEPT ![c] = "closed"]
    /\ beating' = [beating EXCEPT ![c] = FALSE]
    /\ up' = [up EXCEPT ![c] = <<>>] /\ down' = [down EXCEPT ![c] = <<>>]
    /\ UNCHANGED <<app, getToken, token, phase, pending, meta, channels, timer, fetches>>
    /\ UNCHANGED <<server, counters>>

-----------------------------------------------------------------------------
(* The Realtime service.  A join is accepted or refused, for reasons of    *)
(* its own; on an accepted one it takes pushes and tokens.  Presence       *)
(* changes are broadcast from the join on, the state pushed once, later.   *)

Arrives(c, event) ==
    /\ up[c] # <<>> /\ Head(up[c]).event = event
    /\ up' = [up EXCEPT ![c] = Tail(@)]
    /\ UNCHANGED <<client, wire, counters>>

Admit(c) ==
    /\ Arrives(c, "phx_join")
    /\ \/ /\ c \in app.private => Head(up[c]).value # None
          /\ admitted' = admitted \cup {c}
          /\ held' = [held EXCEPT ![c] = Head(up[c]).value]
          /\ down' = [down EXCEPT ![c] = Append(@, Frame("ok", None))]
       \/ /\ down' = [down EXCEPT ![c] = Append(@, Frame("error", None))]
          /\ UNCHANGED <<admitted, held>>
    /\ UNCHANGED <<here, news, listed, heard>>

Reauthorize(c) ==
    /\ Arrives(c, "access_token")
    /\ held' = [held EXCEPT ![c] = Head(up[c]).value]
    /\ UNCHANGED <<down, admitted, here, news, listed, heard>>

\* A push on a channel that is not joined is dropped.
Hear(c) ==
    /\ Arrives(c, "presence")
    /\ heard' = [heard EXCEPT ![c] = IF c \in admitted
                                     THEN Append(@, Head(up[c]).value) ELSE @]
    /\ UNCHANGED <<down, admitted, held, here, news, listed>>

\* A member joins with a new ref, leaves, or replaces its entry by a new one.
Change(c, k) ==
    /\ c \in app.follows /\ changes[c] < MaxChange
    /\ changes' = [changes EXCEPT ![c] = @ + 1]
    /\ \E joins \in SUBSET {changes'[c]}, leaves \in SUBSET here[c][k] :
          /\ joins # {} \/ leaves # {}
          /\ here' = [here EXCEPT ![c][k] = (@ \ leaves) \cup joins]
          /\ news' = [news EXCEPT ![c] = IF c \in admitted
                        THEN Append(@, [key |-> k, joins |-> joins, leaves |-> leaves])
                        ELSE @]
    /\ UNCHANGED <<client, sockets, admitted, held, listed, heard, issued, sent>>

Broadcast(c) ==
    /\ wire[c] = "open" /\ news[c] # <<>>
    /\ news' = [news EXCEPT ![c] = Tail(@)]
    /\ down' = [down EXCEPT ![c] = Append(@, Frame("presence_diff", Head(news[c])))]
    /\ UNCHANGED <<client, wire, up, admitted, held, here, listed, heard, counters>>

ListState(c) ==
    /\ wire[c] = "open" /\ c \in admitted \cap app.follows /\ ~listed[c]
    /\ listed' = [listed EXCEPT ![c] = TRUE]
    /\ down' = [down EXCEPT ![c] = Append(@, Frame("presence_state", here[c]))]
    /\ UNCHANGED <<client, wire, up, admitted, held, here, news, heard, counters>>

-----------------------------------------------------------------------------

Takes(c)  == OnJoined(c) \/ OnRefused(c) \/ OnPresence(c)
Serves(c) == Admit(c) \/ Reauthorize(c) \/ Hear(c)

Next ==
    \/ SetAuth \/ Fire \/ FetchOk \/ FetchFail
    \/ \E c \in Chans :
          \/ Open(c) \/ OnOpen(c) \/ Push(c) \/ Takes(c) \/ Stop(c) \/ OnClose(c)
          \/ Serves(c) \/ Broadcast(c) \/ ListState(c)
          \/ \E k \in Keys : Change(c, k)

Spec == Init /\ [][Next]_vars

\* Callbacks that are due run, frames are delivered while the socket is open, a
\* fetch is answered, and not always with a failure.
FairSpec ==
    /\ Spec
    /\ WF_vars(Fire) /\ WF_vars(FetchOk \/ FetchFail) /\ SF_vars(FetchOk)
    /\ \A c \in Chans : WF_vars(Takes(c)) /\ WF_vars(Serves(c))

-----------------------------------------------------------------------------
(* Properties.                                                             *)

\* A client that can fetch tokens and has a joined channel always has a refresh
\* ahead of it: the timer is set or a fetch is under way, whatever the order of
\* joins, stops, fetches, failures and setAuth calls.
RefreshAlive == getToken /\ channels # {} => timer \/ fetches > 0

\* A stopped channel has no heartbeat and gets no more tokens, and the refresh
\* timer does not outlive the last channel.
NothingOutlivesStop ==
    /\ \A c \in Chans : phase[c] = "stopped" => ~beating[c] /\ c \notin channels
    /\ timer => channels # {}

\* The server takes the pushes of a channel in the order they were made, from
\* the first on: none overtakes another across the queue and the acknowledgement.
HeardInOrder == \A c \in Chans : \A i \in DOMAIN heard[c] : heard[c][i] = i

\* A joined follower that has everything the server sent lists exactly the
\* members present, each once, although changes race with the state it was pushed.
PresenceAgrees ==
    \A c \in app.follows :
        phase[c] = "joined" /\ wire[c] = "open" /\ listed[c]
        /\ news[c] = <<>> /\ down[c] = <<>>
        => \A k \in Keys : meta[c][k] = Once(here[c][k])

\* What was pushed before or after the join reaches the server: it catches up
\* again and again, until the channel is stopped or cut.
PushesHeard ==
    \A c \in Chans :
        (phase[c] = "joined") ~> (Len(heard[c]) = sent[c] \/ wire[c] = "closed")

\* With a getToken, the server's side of a joined channel gets the client's
\* current token again and again, also when the token changed during the join.
JoinedHoldsCurrent ==
    \A c \in Chans :
        (getToken /\ c \in channels) ~> (held[c] = token \/ wire[c] = "closed")

=============================================================================
