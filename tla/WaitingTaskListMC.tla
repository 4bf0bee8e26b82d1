--------------------------- MODULE WaitingTaskListMC ---------------------------
(* Small instances of WaitingTaskList for TLC. *)
EXTENDS WaitingTaskList, TLC

CONSTANTS a, b, c, t1, t2, t3

Adders == Permutations(Adder)

(* One task with two holders, one added by the overload with a group. *)
TwoAndNone == (t1 :> 2) @@ (t2 :> 0)
AllHolders == (t1 :> 1) @@ (t2 :> 1) @@ (t3 :> 1)
=============================================================================
