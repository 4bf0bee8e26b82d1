----------------------- MODULE SerialTaskQueueLifetimeMC -----------------------
(* Small instances of SerialTaskQueueLifetime for TLC. *)
EXTENDS SerialTaskQueueLifetime, TLC

CONSTANTS a, b, c, t1, t2, last, q1, g1, g2

Threads == Permutations({a, b, c})
OneQueue == (t1 :> q1) @@ (t2 :> q1) @@ (last :> q1)
OwnGroupForLast == (t1 :> g1) @@ (t2 :> g1) @@ (last :> g2)
LastOfQueue == (q1 :> last)
=============================================================================
