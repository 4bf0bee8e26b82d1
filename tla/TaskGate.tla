-------------------------------- MODULE TaskGate --------------------------------
(***************************************************************************)
(* What WaitingTaskList promises to those who add tasks and to the one who *)
(* opens it, without nodes, links or announcers: a gate that tasks wait    *)
(* at.  Each time a task was given to the gate there is one release due;   *)
(* none comes before the gate opens.  With the last of its releases the    *)
(* task may run.  If the gate opens with an exception, every task released *)
(* there was told of one before.                                           *)
(***************************************************************************)
EXTENDS Naturals

CONSTANTS Task, Adds, Exception, None

VARIABLES
  closed,   \* TRUE until the gate opens
  outcome,  \* the exception it opens with, None if none or not decided
  unadded,  \* how often each task will still be given to a gate, first Adds
  due,      \* how many releases each task waits for
  told,     \* the exception a task was told of, or None
  ready,    \* tasks that may run
  runs      \* how often each task was executed

vars == <<closed, outcome, unadded, due, told, ready, runs>>

Init ==
  /\ closed = TRUE
  /\ outcome = None
  /\ unadded = Adds
  /\ due = [t \in Task |-> 0]
  /\ told = [t \in Task |-> None]
  /\ ready = {}
  /\ runs = [t \in Task |-> 0]

Give(t) ==
  /\ unadded[t] > 0
  /\ unadded' = [unadded EXCEPT ![t] = @ - 1]
  /\ due' = [due EXCEPT ![t] = @ + 1]
  /\ UNCHANGED <<closed, outcome, told, ready, runs>>

Decide(e) ==
  /\ closed
  /\ outcome = None
  /\ outcome' = e
  /\ UNCHANGED <<closed, unadded, due, told, ready, runs>>

Open ==
  /\ closed
  /\ closed' = FALSE
  /\ UNCHANGED <<outcome, unadded, due, told, ready, runs>>

(* A task that waits may hear of the exception before it is released. *)
Tell(t) ==
  /\ outcome # None
  /\ due[t] > 0
  /\ told[t] = None
  /\ told' = [told EXCEPT ![t] = outcome]
  /\ UNCHANGED <<closed, outcome, unadded, due, ready, runs>>

Release(t) ==
  /\ ~closed
  /\ due[t] > 0
  /\ due' = [due EXCEPT ![t] = @ - 1]
  /\ told' = [told EXCEPT ![t] = IF @ = None THEN outcome ELSE @]
  /\ ready' = IF due[t] = 1 /\ unadded[t] = 0 THEN ready \cup {t} ELSE ready
  /\ UNCHANGED <<closed, outcome, unadded, runs>>

Run(t) ==
  /\ t \in ready
  /\ ready' = ready \ {t}
  /\ runs' = [runs EXCEPT ![t] = @ + 1]
  /\ UNCHANGED <<closed, outcome, unadded, due, told>>

(* The gate is used again when all that it was given has run. *)
CloseAgain ==
  /\ ~closed
  /\ \A t \in Task : unadded[t] < Adds[t] => runs[t] > 0
  /\ closed' = TRUE
  /\ outcome' = None
  /\ UNCHANGED <<unadded, due, told, ready, runs>>

Next ==
  \/ \E t \in Task : Give(t) \/ Tell(t) \/ Release(t) \/ Run(t)
  \/ \E e \in Exception : Decide(e)
  \/ Open
  \/ CloseAgain

Spec == Init /\ [][Next]_vars
=============================================================================
