------------------------- MODULE SerialTaskQueueChain -------------------------
(***************************************************************************)
(* edm::SerialTaskQueueChain: an action that needs several queues at once. *)
(* It goes through them one by one, leaving each of them paused behind it; *)
(* in the last one it runs, and then it resumes the others.                *)
(*                                                                         *)
(* The queues are shared with other clients, who push tasks of their own   *)
(* into them; the chain alone pauses them here.  All steps of the queues   *)
(* are those of SerialTaskQueue.                                           *)
(***************************************************************************)
EXTENDS SerialTaskQueue, FiniteSets

CONSTANTS Action,    \* what is pushed into the chain
          m_queues,  \* the chain, a sequence of queues
          TaskAt     \* the lambda an action has in each queue of the chain

n == Len(m_queues)
Level == 1..n

(* The other tasks are pushed by clients that use a queue by itself. *)
Lambda == {TaskAt[a][i] : a \in Action, i \in Level}
Direct == Task \ Lambda
ActionOf(t) == CHOOSE a \in Action : \E i \in Level : TaskAt[a][i] = t
LevelOf(t) == CHOOSE i \in Level : \E a \in Action : TaskAt[a][i] = t

ASSUME ChainAssumption ==
  /\ m_queues \in Seq(Queue) /\ n > 0
  /\ \A i, j \in Level : m_queues[i] = m_queues[j] => i = j
  /\ TaskAt \in [Action -> [Level -> Task]]
  /\ \A a, b \in Action, i, j \in Level :
       TaskAt[a][i] = TaskAt[b][j] => a = b /\ i = j
  /\ \A a \in Action, i \in Level : QueueOf[TaskAt[a][i]] = m_queues[i]
  /\ IsFiniteSet(Action) /\ None \notin Action
  /\ Cardinality(Action) <= MaxPause

VARIABLES
  outstandingTasks,  \* m_outstandingTasks
  pushing,           \* the action each thread is in push for
  stage,             \* how far the lambda on each thread is
  resuming           \* the position of the sentry's reverse iterator

chainVars == <<outstandingTasks, pushing, stage, resuming>>
allVars == <<vars, chainVars>>

ChainInit ==
  /\ Init
  /\ outstandingTasks = 0
  /\ pushing = [th \in Thread |-> None]
  /\ stage = [th \in Thread |-> "none"]
  /\ resuming = [th \in Thread |-> 0]

GoTo(th, s) == stage' = [stage EXCEPT ![th] = s]

(* Client code that may call into the chain or a queue. *)
MayCall(th) ==
  /\ pc[th] \in Client
  /\ pushing[th] = None
  /\ stage[th] \in {"none", "action", "direct"}

(* The lambda on the thread is not inside a call it has made. *)
InBody(th, s) == pc[th] = "body" /\ stage[th] = s

----------------------------------------------------------------------------
(* push                                                                    *)

CountIn(th, a) ==
  /\ MayCall(th)
  /\ ~IsPushed(TaskAt[a][1])
  /\ \A other \in Thread : pushing[other] # a
  /\ outstandingTasks' = outstandingTasks + 1
  /\ pushing' = [pushing EXCEPT ![th] = a]
  /\ UNCHANGED <<vars, stage, resuming>>

PushFirst(th) ==
  /\ pushing[th] # None
  /\ Push(th, TaskAt[pushing[th]][1])
  /\ pushing' = [pushing EXCEPT ![th] = None]
  /\ UNCHANGED <<outstandingTasks, stage, resuming>>

(* Another client of one of the queues. *)
PushDirect(th, t) ==
  /\ MayCall(th)
  /\ Push(th, t)
  /\ UNCHANGED chainVars

----------------------------------------------------------------------------
(* The lambdas                                                             *)

(* Which function the lambda of a task calls. *)
FirstStage(t) ==
  IF t \in Direct THEN "direct"
  ELSE IF LevelOf(t) = n THEN "action" ELSE "pause"

BeginBody(th) ==
  /\ GoTo(th, FirstStage(running'[th]))
  /\ UNCHANGED <<outstandingTasks, pushing, resuming>>

StartBody(th) == MayCall(th) /\ Start(th) /\ BeginBody(th)

NextBody(th) == RunNext(th) /\ BeginBody(th)

(* Mutant of PassPause: the queue behind is not paused. *)
PassWithoutPause(th) ==
  /\ InBody(th, "pause")
  /\ GoTo(th, "pass")
  /\ UNCHANGED <<vars, outstandingTasks, pushing, resuming>>

(* passDownChain: pause the queue of this lambda ... *)
PassPause(th) ==
  /\ InBody(th, "pause")
  /\ Pause(th, m_queues[LevelOf(running[th])])
  /\ GoTo(th, "pass")
  /\ UNCHANGED <<outstandingTasks, pushing, resuming>>

(* ... and push the action into the next one. *)
PassPush(th) ==
  LET t == running[th] IN
  /\ InBody(th, "pass")
  /\ Push(th, TaskAt[ActionOf(t)][LevelOf(t) + 1])
  /\ GoTo(th, "over")
  /\ UNCHANGED <<outstandingTasks, pushing, resuming>>

(* actionToRun: iAction returns or throws, and the sentry begins with the  *)
(* last queue but one.                                                     *)
EndAction(th) ==
  /\ InBody(th, "action")
  /\ pushing[th] = None
  /\ GoTo(th, "resume")
  /\ resuming' = [resuming EXCEPT ![th] = n - 1]
  /\ UNCHANGED <<vars, outstandingTasks, pushing>>

ResumeQueue(th) ==
  /\ InBody(th, "resume")
  /\ resuming[th] > 0
  /\ Resume(th, m_queues[resuming[th]])
  /\ resuming' = [resuming EXCEPT ![th] = @ - 1]
  /\ UNCHANGED <<outstandingTasks, pushing, stage>>

(* Mutant of CountOut: the iterator stops one queue early. *)
CountOutEarly(th) ==
  /\ InBody(th, "resume")
  /\ resuming[th] <= 1
  /\ outstandingTasks' = outstandingTasks - 1
  /\ resuming' = [resuming EXCEPT ![th] = 0]
  /\ GoTo(th, "over")
  /\ UNCHANGED <<vars, pushing>>

CountOut(th) ==
  /\ InBody(th, "resume")
  /\ resuming[th] = 0
  /\ outstandingTasks' = outstandingTasks - 1
  /\ GoTo(th, "over")
  /\ UNCHANGED <<vars, pushing, resuming>>

(* The lambda, or the task of another client, returns to its queue. *)
EndBody(th) ==
  /\ stage[th] \in {"over", "direct"}
  /\ pushing[th] = None
  /\ FinishTask(th)
  /\ GoTo(th, "none")
  /\ UNCHANGED <<outstandingTasks, pushing, resuming>>

----------------------------------------------------------------------------
QueueStep(th) == (Pick(th) \/ Spawn(th)) /\ UNCHANGED chainVars

GoOn(th) ==
  \/ PushFirst(th) \/ PassPause(th) \/ PassPush(th)
  \/ ResumeQueue(th) \/ CountOut(th)
  \/ QueueStep(th) \/ NextBody(th)

Return(th) == EndAction(th) \/ EndBody(th)

ChainNext ==
  \E th \in Thread :
    \/ \E a \in Action : CountIn(th, a)
    \/ \E t \in Direct : PushDirect(th, t)
    \/ StartBody(th) \/ GoOn(th) \/ Return(th)

ChainSpec == ChainInit /\ [][ChainNext]_allVars

(* As for the queue alone: calls and actions return, and the threads take  *)
(* what was spawned.                                                       *)
ChainFairness ==
  /\ \A th \in Thread : WF_allVars(GoOn(th)) /\ WF_allVars(Return(th))
  /\ WF_allVars(\E th \in Thread : StartBody(th))

ChainFairSpec == ChainSpec /\ ChainFairness

----------------------------------------------------------------------------
RunsAction(th) == running[th] \in Lambda /\ stage[th] \in {"action", "resume"}

(* The actions that have passed the queue at a level and not resumed it. *)
Passed(a, i) ==
  \/ IsPushed(TaskAt[a][i + 1])
  \/ \E th \in Thread : running[th] = TaskAt[a][i] /\ stage[th] = "pass"

Resumed(a, i) ==
  /\ Executed(TaskAt[a][n])
  /\ \A th \in Thread :
       running[th] = TaskAt[a][n] /\ stage[th] \in {"action", "resume"}
         => stage[th] = "resume" /\ resuming[th] < i

(* The actions that a queue stays paused for.                              *)
Behind(i) == {a \in Action : Passed(a, i) /\ ~Resumed(a, i)}

(* Each queue but the last is paused once for every action that is further *)
(* down the chain: none resumes what another one needs, and none is left   *)
(* paused, whatever threads the lambdas run on.                            *)
PausedByWhatPassed ==
  \A i \in 1..(n - 1) : pauseCount[m_queues[i]] = Cardinality(Behind(i))

(* Actions run in the order in which they were pushed into the first queue *)
(* although each of them is handed from queue to queue on other threads.   *)
RunsInOrder ==
  \A i \in Level :
    \A j, k \in DOMAIN executed[m_queues[i]] :
      LET t == executed[m_queues[i]][j]
          u == executed[m_queues[i]][k]
      IN j < k /\ {t, u} \subseteq Lambda
           => \E x, y \in DOMAIN pushed[m_queues[1]] :
                /\ x < y
                /\ pushed[m_queues[1]][x] = TaskAt[ActionOf(t)][1]
                /\ pushed[m_queues[1]][y] = TaskAt[ActionOf(u)][1]

(* Every action and every task of another client is executed, and when all *)
(* is over no queue is paused and none is outstanding.                     *)
ChainDrains ==
  /\ \A a \in Action : [](IsPushed(TaskAt[a][1]) => <>Finished(TaskAt[a][n]))
  /\ \A t \in Direct : [](IsPushed(t) => <>Finished(t))
  /\ <>[](outstandingTasks = 0 /\ \A i \in Level : pauseCount[m_queues[i]] = 0)

(* While the action runs, nothing else runs in the queues it has paused:   *)
(* passDownChain pauses a queue to `be sure the queue associated to this   *)
(* running task does not attempt to start another task'.                   *)
HasTheQueues ==
  \A a, b \in Thread :
    RunsAction(a) /\ stage[a] = "action" /\ running[b] \in Direct
      => \A i \in Level : QueueOf[running[b]] # m_queues[i]
=============================================================================
