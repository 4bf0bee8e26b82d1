---------------------------- MODULE LimitedExecutor ----------------------------
(***************************************************************************)
(* What LimitedTaskQueue promises to those who push, without queues,       *)
(* lambdas or flags: every action pushed is begun once and ends, and never *)
(* more than Limit of them are between the two.  The order in which they   *)
(* begin is left open.                                                     *)
(***************************************************************************)
EXTENDS Naturals, FiniteSets

CONSTANTS Action, Limit

VARIABLES
  waiting,  \* pushed and not begun
  active,   \* begun and not ended
  done      \* ended

vars == <<waiting, active, done>>

Init == waiting = {} /\ active = {} /\ done = {}

Submit(a) ==
  /\ a \notin waiting \cup active \cup done
  /\ waiting' = waiting \cup {a}
  /\ UNCHANGED <<active, done>>

Begin(a) ==
  /\ a \in waiting
  /\ Cardinality(active) < Limit
  /\ waiting' = waiting \ {a}
  /\ active' = active \cup {a}
  /\ UNCHANGED done

End(a) ==
  /\ a \in active
  /\ active' = active \ {a}
  /\ done' = done \cup {a}
  /\ UNCHANGED waiting

Next == \E a \in Action : Submit(a) \/ Begin(a) \/ End(a)

Spec == Init /\ [][Next]_vars
=============================================================================
