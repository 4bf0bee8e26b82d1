--------------------------- MODULE LimitedTaskQueue ---------------------------
(***************************************************************************)
(* edm::LimitedTaskQueue: at most as many actions at a time as there are   *)
(* queues.  push puts a lambda for the action in every queue, and the      *)
(* first of them that runs runs the action.  pushAndPause gives the action *)
(* a Resumer as well: its queue is paused until the last copy is gone.     *)
(*                                                                         *)
(* All steps of the queues are those of SerialTaskQueue; the queues are    *)
(* private, so that only Resumers pause them.                              *)
(***************************************************************************)
EXTENDS SerialTaskQueue, FiniteSets

CONSTANTS Action,    \* what is pushed
          Pausing,   \* the actions that are given to pushAndPause
          m_queues,  \* the queues, in the order of the vector
          LambdaOf,  \* the lambda of an action in each queue
          MaxResumers  \* bound on the copies of one Resumer

Position == 1..Len(m_queues)

ActionOf(t) == CHOOSE a \in Action : \E i \in Position : LambdaOf[a][i] = t

ASSUME LimitedAssumption ==
  /\ Pausing \subseteq Action
  /\ None \notin Action
  /\ m_queues \in Seq(Queue)
  /\ \A i, j \in Position : m_queues[i] = m_queues[j] => i = j
  /\ \A q \in Queue : \E i \in Position : m_queues[i] = q
  /\ LambdaOf \in [Action -> [Position -> Task]]
  /\ \A a, b \in Action, i, j \in Position :
       LambdaOf[a][i] = LambdaOf[b][j] => a = b /\ i = j
  /\ \A a \in Action, i \in Position : QueueOf[LambdaOf[a][i]] = m_queues[i]
  /\ \A t \in Task : \E a \in Action, i \in Position : LambdaOf[a][i] = t
  /\ IsFiniteSet(Action) /\ MaxResumers \in Nat \ {0}
  /\ MaxPause = MaxResumers * Cardinality(Pausing)

VARIABLES
  set_to_run,  \* the flag the lambdas of an action share
  pushing,     \* the action whose push loop each thread is in
  stage,       \* how far the lambda on each thread is
  resumers,    \* how many Resumers there are for an action
  m_queue,     \* the queue they point to
  begun        \* history: how often each action was begun

limitedVars == <<set_to_run, pushing, stage, resumers, m_queue, begun>>
allVars == <<vars, limitedVars>>

LimitedInit ==
  /\ Init
  /\ set_to_run = [a \in Action |-> FALSE]
  /\ pushing = [th \in Thread |-> None]
  /\ stage = [th \in Thread |-> "none"]
  /\ resumers = [a \in Action |-> 0]
  /\ m_queue = [a \in Action |-> None]
  /\ begun = [a \in Action |-> 0]

GoTo(th, s) == stage' = [stage EXCEPT ![th] = s]

(* Client code, outside of all calls or in an action. *)
MayCall(th) ==
  /\ pc[th] \in Client
  /\ pushing[th] = None
  /\ stage[th] \in {"none", "action"}

InBody(th, s) == pc[th] = "body" /\ stage[th] = s

----------------------------------------------------------------------------
(* push and pushAndPause                                                   *)

ToPush(a) == {i \in Position : ~IsPushed(LambdaOf[a][i])}

(* Mutant of PushInto: the loop ends after its first round. *)
PushIntoFirst(th, a, i) ==
  /\ i = 1
  /\ i \in ToPush(a)
  /\ Push(th, LambdaOf[a][i])
  /\ UNCHANGED limitedVars

(* One round of the loop over m_queues; the first one begins the call. *)
PushInto(th, a, i) ==
  /\ i \in ToPush(a)
  /\ \A j \in ToPush(a) : i <= j
  /\ Push(th, LambdaOf[a][i])
  /\ pushing' = [pushing EXCEPT ![th] = IF i = Len(m_queues) THEN None ELSE a]
  /\ UNCHANGED <<set_to_run, stage, resumers, m_queue, begun>>

BeginPush(th, a) == MayCall(th) /\ PushInto(th, a, 1)

PushOn(th) == \E i \in Position : pushing[th] # None /\ PushInto(th, pushing[th], i)

----------------------------------------------------------------------------
(* The lambdas                                                             *)

BeginBody(th) ==
  /\ GoTo(th, "test")
  /\ UNCHANGED <<set_to_run, pushing, resumers, m_queue, begun>>

StartBody(th) == MayCall(th) /\ Start(th) /\ BeginBody(th)

NextBody(th) == RunNext(th) /\ BeginBody(th)

Begin(th, a) ==
  /\ GoTo(th, IF a \in Pausing THEN "pause" ELSE "action")
  /\ begun' = [begun EXCEPT ![a] = @ + 1]

(* Mutant of TestAndSet: the flag is tested and not set. *)
TestWithoutSet(th) ==
  LET a == ActionOf(running[th]) IN
  /\ InBody(th, "test")
  /\ \/ ~set_to_run[a] /\ Begin(th, a)
     \/ set_to_run[a] /\ GoTo(th, "over") /\ UNCHANGED begun
  /\ UNCHANGED <<vars, set_to_run, pushing, resumers, m_queue>>

(* The compare_exchange: one lambda of the action runs it, the others end. *)
TestAndSet(th) ==
  LET a == ActionOf(running[th]) IN
  /\ InBody(th, "test")
  /\ set_to_run' = [set_to_run EXCEPT ![a] = TRUE]
  /\ \/ ~set_to_run[a] /\ Begin(th, a)
     \/ set_to_run[a] /\ GoTo(th, "over") /\ UNCHANGED begun
  /\ UNCHANGED <<vars, pushing, resumers, m_queue>>

(* pushAndPause: q.pause(), and the first Resumer, which the action moves  *)
(* wherever it likes.                                                      *)
PauseForAction(th) ==
  LET t == running[th] IN
  /\ InBody(th, "pause")
  /\ Pause(th, QueueOf[t])
  /\ resumers' = [resumers EXCEPT ![ActionOf(t)] = 1]
  /\ m_queue' = [m_queue EXCEPT ![ActionOf(t)] = QueueOf[t]]
  /\ GoTo(th, "action")
  /\ UNCHANGED <<set_to_run, pushing, begun>>

(* The action returns or throws, or it was not for this lambda to run. *)
EndBody(th) ==
  /\ stage[th] \in {"action", "over"}
  /\ pushing[th] = None
  /\ FinishTask(th)
  /\ GoTo(th, "none")
  /\ UNCHANGED <<set_to_run, pushing, resumers, m_queue, begun>>

----------------------------------------------------------------------------
(* Resumers.  An assignment is one of these after the other.               *)

(* Mutant of CopyResumer: copies the pointer and does not pause. *)
CopyWithoutPause(th, a) ==
  /\ MayCall(th)
  /\ resumers[a] \in 1..(MaxResumers - 1)
  /\ resumers' = [resumers EXCEPT ![a] = @ + 1]
  /\ UNCHANGED <<vars, set_to_run, pushing, stage, m_queue, begun>>

CopyResumer(th, a) ==
  /\ MayCall(th)
  /\ resumers[a] \in 1..(MaxResumers - 1)
  /\ Pause(th, m_queue[a])
  /\ resumers' = [resumers EXCEPT ![a] = @ + 1]
  /\ UNCHANGED <<set_to_run, pushing, stage, m_queue, begun>>

(* Resumer::resume, the destructor, or being assigned to. *)
DropResumer(th, a) ==
  /\ MayCall(th)
  /\ resumers[a] > 0
  /\ Resume(th, m_queue[a])
  /\ resumers' = [resumers EXCEPT ![a] = @ - 1]
  /\ UNCHANGED <<set_to_run, pushing, stage, m_queue, begun>>

----------------------------------------------------------------------------
QueueStep(th) == (Pick(th) \/ Spawn(th)) /\ UNCHANGED limitedVars

GoOn(th) ==
  \/ PushOn(th) \/ TestAndSet(th) \/ PauseForAction(th)
  \/ QueueStep(th) \/ NextBody(th)

LimitedNext ==
  \E th \in Thread :
    \/ \E a \in Action :
         BeginPush(th, a) \/ CopyResumer(th, a) \/ DropResumer(th, a)
    \/ StartBody(th) \/ GoOn(th) \/ EndBody(th)

LimitedSpec == LimitedInit /\ [][LimitedNext]_allVars

(* As for the queue alone.  Nobody is obliged to drop a Resumer. *)
LimitedFairness ==
  /\ \A th \in Thread : WF_allVars(GoOn(th)) /\ WF_allVars(EndBody(th))
  /\ WF_allVars(\E th \in Thread : StartBody(th))

LimitedFairSpec == LimitedSpec /\ LimitedFairness

----------------------------------------------------------------------------
(* An action is begun by one of its lambdas only, wherever they run.       *)
BegunOnce == \A a \in Action : begun[a] <= 1

(* The abstract limited executor.  An action waits from the push into the  *)
(* first queue, and is active while the lambda that begins it is on a      *)
(* thread, the pause before it included.                                   *)
Acts(th, a) ==
  /\ stage[th] \in {"pause", "action"}
  /\ running[th] # None
  /\ ActionOf(running[th]) = a

Submitted(a) == \E i \in Position : IsPushed(LambdaOf[a][i])

WaitingActions == {a \in Action : Submitted(a) /\ begun[a] = 0}
ActiveActions == {a \in Action : \E th \in Thread : Acts(th, a)}
DoneActions == {a \in Action : begun[a] > 0} \ ActiveActions

LE == INSTANCE LimitedExecutor WITH
  Limit <- Len(m_queues),
  waiting <- WaitingActions, active <- ActiveActions, done <- DoneActions

(* Seen from outside, the queues with their copies of every action, their  *)
(* flags and their Resumers amount to one executor with a limit.           *)
ImplementsLimitedExecutor == LE!Spec

(* The Resumers that point to q: copy k of the one of action a. *)
Resumer == Action \X (1..MaxResumers)
ResumersOf(q) == {r \in Resumer : m_queue[r[1]] = q /\ r[2] <= resumers[r[1]]}

(* A queue is paused once for every Resumer that points to it, wherever    *)
(* the copies went: it is neither resumed under one nor paused for good.   *)
PausedByResumers == \A q \in Queue : pauseCount[q] = Cardinality(ResumersOf(q))

(* Resumers that are kept take their queues away and nothing else: as long *)
(* as one queue stays unpaused, every action that is pushed is begun.      *)
OneQueueWillDo ==
  ClientsSettle /\ (\E q \in Queue : <>[](pauseCount[q] = 0))
    => \A a \in Action : [](IsPushed(LambdaOf[a][1]) => <>(begun[a] > 0))
=============================================================================
