--------------------------- MODULE SerialTaskQueueMC ---------------------------
(* Small instances of SerialTaskQueue for TLC. *)
EXTENDS SerialTaskQueue, TLC

CONSTANTS a, b, c, t1, t2, t3, q1, q2, g1, g2

Threads == Permutations({a, b, c})

(* One queue fed from two groups, so that a finished task is followed by   *)
(* one of its own group as well as by one of the other.                    *)
OneQueue == (t1 :> q1) @@ (t2 :> q1) @@ (t3 :> q1)
TwoGroups == (t1 :> g1) @@ (t2 :> g1) @@ (t3 :> g2)

(* Two queues, so that a task of one may push into and pause the other. *)
TwoQueues == (t1 :> q1) @@ (t2 :> q2) @@ (t3 :> q1)
OneGroup == (t1 :> g1) @@ (t2 :> g1) @@ (t3 :> g1)
=============================================================================
