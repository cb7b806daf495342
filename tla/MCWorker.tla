------------------------------- MODULE MCWorker -------------------------------
(* Two handlers; a callback; an execution whose total follows its parts and    *)
(* one with a total alone; a repository the token administers and one it does  *)
(* not.                                                                        *)
EXTENDS Worker

CONSTANTS h1, h2, cb1, e1, e2, r1, r2

TwoHandlers  == {h1, h2}
OneCallback  == {cb1}
TwoExecs     == {e1, e2}
TwoRepos     == {r1, r2}
SecondRepo   == {r2}
SomeUsage    == e1 :> << <<"prompt", 2>>, <<"completion", 1>>, <<"total", 3>> >>
                @@ e2 :> << <<"total", 2>> >>
OneEach      == {{"usage", "callback"}, {"access"}}

=============================================================================
