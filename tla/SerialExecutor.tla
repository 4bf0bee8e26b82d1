----------------------------- MODULE SerialExecutor -----------------------------
(***************************************************************************)
(* What SerialTaskQueue promises to its clients, without threads, locks or *)
(* spawned lambdas: each queue has a line of waiting tasks and one place   *)
(* for the task being processed.  A queue may be closed by a pause.  As in *)
(* the code, closing does not forbid the next Begin: it only takes away    *)
(* the promise that it will come.                                          *)
(***************************************************************************)
EXTENDS Sequences

CONSTANTS Task, Queue, QueueOf, None

VARIABLES
  waiting,  \* tasks in line, per queue
  active,   \* the task each queue is processing, or None
  open,     \* FALSE while the queue is paused
  done      \* tasks processed to their end

vars == <<waiting, active, open, done>>

Init ==
  /\ waiting = [q \in Queue |-> <<>>]
  /\ active = [q \in Queue |-> None]
  /\ open = [q \in Queue |-> TRUE]
  /\ done = {}

New(t) ==
  /\ t \notin done
  /\ active[QueueOf[t]] # t
  /\ \A i \in DOMAIN waiting[QueueOf[t]] : waiting[QueueOf[t]][i] # t

Submit(t) ==
  /\ New(t)
  /\ waiting' = [waiting EXCEPT ![QueueOf[t]] = Append(@, t)]
  /\ UNCHANGED <<active, open, done>>

Begin(q) ==
  /\ active[q] = None
  /\ waiting[q] # <<>>
  /\ active' = [active EXCEPT ![q] = Head(waiting[q])]
  /\ waiting' = [waiting EXCEPT ![q] = Tail(@)]
  /\ UNCHANGED <<open, done>>

End(q) ==
  /\ active[q] # None
  /\ done' = done \cup {active[q]}
  /\ active' = [active EXCEPT ![q] = None]
  /\ UNCHANGED <<waiting, open>>

OpenOrClose(q) ==
  /\ open' = [open EXCEPT ![q] = ~@]
  /\ UNCHANGED <<waiting, active, done>>

Next ==
  \/ \E t \in Task : Submit(t)
  \/ \E q \in Queue : Begin(q) \/ End(q) \/ OpenOrClose(q)

Spec == Init /\ [][Next]_vars

(* A task that began ends, and an open queue goes on with its next task. *)
Fairness ==
  \A q \in Queue : WF_vars(End(q)) /\ WF_vars(open[q] /\ Begin(q))

FairSpec == Spec /\ Fairness
=============================================================================
