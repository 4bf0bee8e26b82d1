-------------------------- MODULE LimitedTaskQueueMC --------------------------
(* Small instances of LimitedTaskQueue for TLC. *)
EXTENDS LimitedTaskQueue, TLC

CONSTANTS a1, a2, q1, q2, g1, u1, u2, v1, v2

TwoQueues == <<q1, q2>>
Lambdas == (a1 :> <<u1, u2>>) @@ (a2 :> <<v1, v2>>)
Queues == (u1 :> q1) @@ (v1 :> q1) @@ (u2 :> q2) @@ (v2 :> q2)
OneGroup == [t \in Task |-> g1]
=============================================================================
