------------------------ MODULE SerialTaskQueueChainMC ------------------------
(* Small instances of SerialTaskQueueChain for TLC. *)
EXTENDS SerialTaskQueueChain, TLC

CONSTANTS a1, a2, q1, q2, q3, g1, u1, u2, u3, v1, v2, v3, d1

(* Two actions in a chain of three queues, and a client of the second one. *)
ThreeQueues == <<q1, q2, q3>>
ThreeLevels == (a1 :> <<u1, u2, u3>>) @@ (a2 :> <<v1, v2, v3>>)
QueueOfThree ==
  (u1 :> q1) @@ (v1 :> q1) @@ (u2 :> q2) @@ (v2 :> q2) @@ (d1 :> q2)
    @@ (u3 :> q3) @@ (v3 :> q3)

(* One action in a chain of two queues, and a client of the first one. *)
TwoQueues == <<q1, q2>>
TwoLevels == a1 :> <<u1, u2>>
QueueOfTwo == (u1 :> q1) @@ (u2 :> q2) @@ (d1 :> q1)

OneGroup == [t \in Task |-> g1]
=============================================================================
