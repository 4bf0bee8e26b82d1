---------------------------- MODULE SerialTaskQueue ----------------------------
(***************************************************************************)
(* edm::SerialTaskQueue: tasks pushed into one queue run one at a time, in *)
(* the order of the pushes, on whatever threads the TBB groups provide.    *)
(* No thread ever waits for a queue: the thread that pushes, resumes or    *)
(* finishes a task calls pickNextTask, and the one that wins m_taskChosen  *)
(* takes the next task and hands it to the task's group.                   *)
(*                                                                         *)
(* Every atomic access to a member shared between threads is an action of  *)
(* its own.  A thread is either outside the queue code ("out"), inside the *)
(* action of a task ("body"), or at a point of pickNextTask.  Both "out"   *)
(* and "body" are client code, so a task may push, pause and resume.       *)
(***************************************************************************)
EXTENDS Naturals, Sequences, FiniteSets

CONSTANTS Thread,    \* threads: TBB workers and client threads alike
          Task,      \* the QueuedTask objects of one history
          Queue,     \* the SerialTaskQueue objects
          Group,     \* the tbb::task_group objects
          QueueOf,   \* the queue a task is pushed into
          GroupOf,   \* the group it is pushed with (TaskBase::m_group)
          MaxPause,  \* bound on m_pauseCount (an unsigned long in the code)
          None       \* nullptr

Caller == {"push", "resume", "finishedTask"}  \* of pickNextTask

ASSUME ConstantsAssumption ==
  /\ QueueOf \in [Task -> Queue]
  /\ GroupOf \in [Task -> Group]
  /\ MaxPause \in Nat
  /\ None \notin Task \cup Queue \cup Group \cup Caller

ASSUME ThreadAssumption == IsFiniteSet(Thread)

VARIABLES
  tasks,            \* m_tasks, a FIFO
  pauseCount,       \* m_pauseCount
  taskChosen,       \* m_taskChosen
  pickingNextTask,  \* m_pickingNextTask, the spin lock of pickNextTask
  spawned,          \* tasks whose run lambda waits in its group for a thread
  pc,               \* where each thread is
  queue,            \* the queue whose member function it is in, or None
  caller,           \* which function called pickNextTask
  found,            \* the TaskBase* pickNextTask will return
  running,          \* the task whose execute() is on the thread's stack
  group,            \* group of the run lambda on the stack (`g' in spawn)
  pushed,           \* history: what was pushed into each queue, in order
  executed          \* history: what was started by each queue, in order

members == <<tasks, pauseCount, taskChosen, pickingNextTask>>
stack == <<pc, queue, caller, found, running, group>>
history == <<pushed, executed>>
vars == <<tasks, pauseCount, taskChosen, pickingNextTask, spawned,
          pc, queue, caller, found, running, group, pushed, executed>>

Client == {"out", "body"}
Picking == {"choose", "pop", "unchoose", "release"}
Location == Client \cup Picking \cup {"checkPause", "acquire", "dispatch"}

Init ==
  /\ tasks = [q \in Queue |-> <<>>]
  /\ pauseCount = [q \in Queue |-> 0]
  /\ taskChosen = [q \in Queue |-> FALSE]
  /\ pickingNextTask = [q \in Queue |-> FALSE]
  /\ spawned = {}
  /\ pc = [th \in Thread |-> "out"]
  /\ queue = [th \in Thread |-> None]
  /\ caller = [th \in Thread |-> None]
  /\ found = [th \in Thread |-> None]
  /\ running = [th \in Thread |-> None]
  /\ group = [th \in Thread |-> None]
  /\ pushed = [q \in Queue |-> <<>>]
  /\ executed = [q \in Queue |-> <<>>]

Goto(th, loc) == pc' = [pc EXCEPT ![th] = loc]

(* Call pickNextTask of queue q on behalf of function f. *)
CallPick(th, q, f) ==
  /\ Goto(th, "checkPause")
  /\ queue' = [queue EXCEPT ![th] = q]
  /\ caller' = [caller EXCEPT ![th] = f]

(* pickNextTask and the function that called it are done: back in client   *)
(* code, which is the task body the call was made from when there is one.  *)
(* Coming from finishedTask this is the end of the run lambda.             *)
BackToClient(th) ==
  /\ Goto(th, IF running[th] = None THEN "out" ELSE "body")
  /\ queue' = [queue EXCEPT ![th] = None]
  /\ caller' = [caller EXCEPT ![th] = None]
  /\ found' = [found EXCEPT ![th] = None]
  /\ group' = [group EXCEPT ![th] = IF running[th] = None THEN None ELSE @]

----------------------------------------------------------------------------
(* Calls made by client code.                                              *)

IsPushed(t) == \E i \in DOMAIN pushed[QueueOf[t]] : pushed[QueueOf[t]][i] = t

(* Mutant of Push: the container hands tasks out in the wrong order. *)
PushInFront(th, t) ==
  LET q == QueueOf[t] IN
  /\ pc[th] \in Client
  /\ ~IsPushed(t)
  /\ tasks' = [tasks EXCEPT ![q] = <<t>> \o @]
  /\ pushed' = [pushed EXCEPT ![q] = Append(@, t)]
  /\ CallPick(th, q, "push")
  /\ UNCHANGED <<pauseCount, taskChosen, pickingNextTask, spawned,
                 found, running, group, executed>>

(* push: a new task object goes to the end of m_tasks, then pickNextTask. *)
Push(th, t) ==
  LET q == QueueOf[t] IN
  /\ pc[th] \in Client
  /\ ~IsPushed(t)
  /\ tasks' = [tasks EXCEPT ![q] = Append(@, t)]
  /\ pushed' = [pushed EXCEPT ![q] = Append(@, t)]
  /\ CallPick(th, q, "push")
  /\ UNCHANGED <<pauseCount, taskChosen, pickingNextTask, spawned,
                 found, running, group, executed>>

Pause(th, q) ==
  /\ pc[th] \in Client
  /\ pauseCount[q] < MaxPause
  /\ pauseCount' = [pauseCount EXCEPT ![q] = @ + 1]
  /\ UNCHANGED <<tasks, taskChosen, pickingNextTask, spawned, stack, history>>

(* resume: calls must balance those of pause, so the count is not zero.    *)
(* Only the call that brings it to zero restarts the queue.                *)
Resume(th, q) ==
  /\ pc[th] \in Client
  /\ pauseCount[q] > 0
  /\ pauseCount' = [pauseCount EXCEPT ![q] = @ - 1]
  /\ \/ /\ pauseCount[q] = 1
        /\ CallPick(th, q, "resume")
     \/ /\ pauseCount[q] > 1
        /\ UNCHANGED <<pc, queue, caller>>
  /\ UNCHANGED <<tasks, taskChosen, pickingNextTask, spawned,
                 found, running, group, history>>

----------------------------------------------------------------------------
(* pickNextTask.                                                           *)

(* Mutant of CheckPause: no early return. *)
CheckPauseMissing(th) ==
  /\ pc[th] = "checkPause"
  /\ Goto(th, "acquire")
  /\ UNCHANGED <<members, spawned, queue, caller, found, running, group,
                 history>>

(* The early return of a paused queue; nothing makes the rest atomic with  *)
(* this read.                                                              *)
CheckPause(th) ==
  /\ pc[th] = "checkPause"
  /\ \/ /\ pauseCount[queue[th]] = 0
        /\ Goto(th, "acquire")
        /\ UNCHANGED <<queue, caller, found, group>>
     \/ /\ pauseCount[queue[th]] # 0
        /\ BackToClient(th)
  /\ UNCHANGED <<members, spawned, running, history>>

(* Mutant of Acquire: pop and m_taskChosen are not made atomic. *)
AcquireWithoutSpin(th) ==
  /\ pc[th] = "acquire"
  /\ pickingNextTask' = [pickingNextTask EXCEPT ![queue[th]] = TRUE]
  /\ Goto(th, "choose")
  /\ UNCHANGED <<tasks, pauseCount, taskChosen, spawned, queue, caller,
                 found, running, group, history>>

(* The spin on m_pickingNextTask ends when the exchange succeeds. *)
Acquire(th) ==
  /\ pc[th] = "acquire"
  /\ ~pickingNextTask[queue[th]]
  /\ pickingNextTask' = [pickingNextTask EXCEPT ![queue[th]] = TRUE]
  /\ Goto(th, "choose")
  /\ UNCHANGED <<tasks, pauseCount, taskChosen, spawned, queue, caller,
                 found, running, group, history>>

(* Mutant of Choose: stores without comparing. *)
ChooseWithoutCompare(th) ==
  /\ pc[th] = "choose"
  /\ taskChosen' = [taskChosen EXCEPT ![queue[th]] = TRUE]
  /\ Goto(th, "pop")
  /\ UNCHANGED <<tasks, pauseCount, pickingNextTask, spawned, queue, caller,
                 found, running, group, history>>

(* compare_exchange of m_taskChosen. *)
Choose(th) ==
  /\ pc[th] = "choose"
  /\ taskChosen' = [taskChosen EXCEPT ![queue[th]] = TRUE]
  /\ Goto(th, IF taskChosen[queue[th]] THEN "release" ELSE "pop")
  /\ UNCHANGED <<tasks, pauseCount, pickingNextTask, spawned, queue, caller,
                 found, running, group, history>>

(* try_pop *)
Pop(th) ==
  LET q == queue[th] IN
  /\ pc[th] = "pop"
  /\ \/ /\ tasks[q] # <<>>
        /\ found' = [found EXCEPT ![th] = Head(tasks[q])]
        /\ tasks' = [tasks EXCEPT ![q] = Tail(@)]
        /\ Goto(th, "release")
     \/ /\ tasks[q] = <<>>
        /\ Goto(th, "unchoose")
        /\ UNCHANGED <<found, tasks>>
  /\ UNCHANGED <<pauseCount, taskChosen, pickingNextTask, spawned, queue,
                 caller, running, group, history>>

(* No task was actually pulled. *)
Unchoose(th) ==
  /\ pc[th] = "unchoose"
  /\ taskChosen' = [taskChosen EXCEPT ![queue[th]] = FALSE]
  /\ Goto(th, "release")
  /\ UNCHANGED <<tasks, pauseCount, pickingNextTask, spawned, queue, caller,
                 found, running, group, history>>

(* The sentry unlocks; with no task to hand on, the caller returns too. *)
Release(th) ==
  /\ pc[th] = "release"
  /\ pickingNextTask' = [pickingNextTask EXCEPT ![queue[th]] = FALSE]
  /\ \/ /\ found[th] = None
        /\ BackToClient(th)
     \/ /\ found[th] # None
        /\ Goto(th, "dispatch")
        /\ UNCHANGED <<queue, caller, found, group>>
  /\ UNCHANGED <<tasks, pauseCount, taskChosen, spawned, running, history>>

----------------------------------------------------------------------------
(* What the callers do with the task they were given, and the run lambda.  *)

StaysInLoop(th) == caller[th] = "finishedTask" /\ GroupOf[found[th]] = group[th]

(* spawn: hand the task to its own group; a run lambda ends with this. *)
Spawn(th) ==
  /\ pc[th] = "dispatch"
  /\ ~StaysInLoop(th)
  /\ spawned' = spawned \cup {found[th]}
  /\ BackToClient(th)
  /\ UNCHANGED <<members, running, history>>

(* execute() of t begins on the thread. *)
Execute(th, t) ==
  /\ Goto(th, "body")
  /\ running' = [running EXCEPT ![th] = t]
  /\ group' = [group EXCEPT ![th] = GroupOf[t]]
  /\ executed' = [executed EXCEPT ![QueueOf[t]] = Append(@, t)]

(* The run lambda goes round its loop with a task of the same group. *)
RunNext(th) ==
  /\ pc[th] = "dispatch"
  /\ StaysInLoop(th)
  /\ Execute(th, found[th])
  /\ queue' = [queue EXCEPT ![th] = None]
  /\ caller' = [caller EXCEPT ![th] = None]
  /\ found' = [found EXCEPT ![th] = None]
  /\ UNCHANGED <<members, spawned, pushed>>

(* Mutant of Start: the lambda stays in its group. *)
StartKeepsLambda(th) ==
  \E t \in spawned :
    /\ pc[th] = "out"
    /\ Execute(th, t)
    /\ UNCHANGED <<members, spawned, queue, caller, found, pushed>>

(* A thread of the arena takes a run lambda out of its group. *)
Start(th) ==
  \E t \in spawned :
    /\ pc[th] = "out"
    /\ spawned' = spawned \ {t}
    /\ Execute(th, t)
    /\ UNCHANGED <<members, queue, caller, found, pushed>>

(* Mutant of FinishTask: gives the queue free but looks for no other task. *)
FinishTaskWithoutPick(th) ==
  /\ pc[th] = "body"
  /\ taskChosen' = [taskChosen EXCEPT ![QueueOf[running[th]]] = FALSE]
  /\ running' = [running EXCEPT ![th] = None]
  /\ group' = [group EXCEPT ![th] = None]
  /\ Goto(th, "out")
  /\ UNCHANGED <<tasks, pauseCount, pickingNextTask, spawned, queue, caller,
                 found, history>>

(* execute() returns, exceptions swallowed; the task is deleted and        *)
(* finishedTask clears m_taskChosen and looks for another task.            *)
FinishTask(th) ==
  LET q == QueueOf[running[th]] IN
  /\ pc[th] = "body"
  /\ taskChosen' = [taskChosen EXCEPT ![q] = FALSE]
  /\ running' = [running EXCEPT ![th] = None]
  /\ CallPick(th, q, "finishedTask")
  /\ UNCHANGED <<tasks, pauseCount, pickingNextTask, spawned, found, group,
                 history>>

----------------------------------------------------------------------------
Pick(th) ==
  \/ CheckPause(th) \/ Acquire(th) \/ Choose(th)
  \/ Pop(th) \/ Unchoose(th) \/ Release(th)

(* Everything a thread does without the client asking for it. *)
Internal(th) == Pick(th) \/ Spawn(th) \/ RunNext(th)

ClientCall(th) ==
  \/ \E t \in Task : Push(th, t)
  \/ \E q \in Queue : Pause(th, q) \/ Resume(th, q)

Next ==
  \E th \in Thread :
    ClientCall(th) \/ Start(th) \/ Internal(th) \/ FinishTask(th)

(* A thread inside the queue code goes on, the action of a task returns,   *)
(* and a spawned lambda is taken by some thread of the arena.  Nobody is   *)
(* obliged to push, pause or resume.                                       *)
Fairness ==
  /\ \A th \in Thread : WF_vars(Internal(th)) /\ WF_vars(FinishTask(th))
  /\ WF_vars(\E th \in Thread : Start(th))

Spec == Init /\ [][Next]_vars
FairSpec == Spec /\ Fairness

----------------------------------------------------------------------------
(* Who holds the right to process queue q that m_taskChosen stands for: a  *)
(* picker, a spawned run lambda, or the thread that executes a task.       *)

PickOwner(th, q) ==
  /\ queue[th] = q
  /\ pc[th] \in {"pop", "unchoose"} \/ found[th] # None

SpawnOwner(t, q) == t \in spawned /\ QueueOf[t] = q

RunOwner(th, q) == running[th] # None /\ QueueOf[running[th]] = q

Owners(q) ==
  {<<"pick", th>> : th \in {x \in Thread : PickOwner(x, q)}}
    \cup {<<"spawn", t>> : t \in {x \in Task : SpawnOwner(x, q)}}
    \cup {<<"run", th>> : th \in {x \in Thread : RunOwner(x, q)}}

(* A task taken out of m_tasks whose execute() has not begun. *)
HandedOver(q) ==
  {t \in Task : \/ SpawnOwner(t, q)
                \/ \E th \in Thread : queue[th] = q /\ found[th] = t}

(* No thread is in the code of q and none of its tasks is on its way. *)
Idle(q) ==
  /\ \A th \in Thread : queue[th] # q
  /\ Owners(q) = {}

(* The threads that have read a pause count of zero and may yet pop a task. *)
Looking(q) ==
  {th \in Thread : queue[th] = q /\ pc[th] \in {"acquire", "choose", "pop"}}

(* The tasks of q that have started, and those that will at most follow    *)
(* when no thread reads the pause count as zero any more.                  *)
MostStarts(q) ==
  Len(executed[q]) + Cardinality(HandedOver(q)) + Cardinality(Looking(q))

TypeOK ==
  /\ tasks \in [Queue -> Seq(Task)]
  /\ pauseCount \in [Queue -> 0..MaxPause]
  /\ taskChosen \in [Queue -> BOOLEAN]
  /\ pickingNextTask \in [Queue -> BOOLEAN]
  /\ spawned \subseteq Task
  /\ pc \in [Thread -> Location]
  /\ queue \in [Thread -> Queue \cup {None}]
  /\ caller \in [Thread -> Caller \cup {None}]
  /\ found \in [Thread -> Task \cup {None}]
  /\ running \in [Thread -> Task \cup {None}]
  /\ group \in [Thread -> Group \cup {None}]
  /\ pushed \in [Queue -> Seq(Task)]
  /\ executed \in [Queue -> Seq(Task)]

(* The purpose of the class: two tasks of one queue never execute at the   *)
(* same time, whatever threads push, finish, pause and resume around them. *)
OneAtATime ==
  \A a, b \in Thread :
    /\ a # b
    /\ running[a] # None
    /\ running[b] # None
    => QueueOf[running[a]] # QueueOf[running[b]]

(* m_taskChosen is set exactly while one picker, spawned lambda or running *)
(* task answers for it: it is never leaked, which would block the queue    *)
(* for good, nor shared.                                                   *)
FlagHasOneOwner ==
  \A q \in Queue :
    IF taskChosen[q] THEN \E o \in Owners(q) : Owners(q) = {o}
                     ELSE Owners(q) = {}

(* Tasks are executed in the order of the pushes, each once: what was      *)
(* pushed is what was started, then at most one task on its way to a       *)
(* thread, then m_tasks.                                                   *)
NothingLostNorReordered ==
  \A q \in Queue :
    \/ HandedOver(q) = {} /\ pushed[q] = executed[q] \o tasks[q]
    \/ \E t \in Task : /\ HandedOver(q) = {t}
                       /\ pushed[q] = Append(executed[q], t) \o tasks[q]

(* No push is overlooked: when every thread has left the code of an        *)
(* unpaused queue and none of its tasks is on its way, m_tasks is empty.   *)
(* It is what the comment in pickNextTask asks the spin lock for.          *)
NoStrandedTask ==
  \A q \in Queue : Idle(q) /\ pauseCount[q] = 0 => tasks[q] = <<>>

(* What a pause is worth although the count is read before the spin lock,  *)
(* the exchange and the pop: until the resume no more tasks of the queue   *)
(* start than were handed over before, plus one for each thread that had   *)
(* already read the count.  Those that finish, push or resume in part in   *)
(* the meantime bring no further one.                                      *)
PauseTakesEffect ==
  [][\A q \in Queue :
       pauseCount[q] > 0 /\ pauseCount'[q] > 0 => MostStarts(q)' <= MostStarts(q)]_vars

(* execute() of t has begun, and has ended. *)
Executed(t) == \E i \in DOMAIN executed[QueueOf[t]] : executed[QueueOf[t]][i] = t
Finished(t) == Executed(t) /\ \A th \in Thread : running[th] # t
----------------------------------------------------------------------------
(* The abstract serial executor.  The active task of q is the one its      *)
(* owner holds: from try_pop until finishedTask clears m_taskChosen.       *)

Active(q) ==
  HandedOver(q)
    \cup {t \in Task : QueueOf[t] = q /\ \E th \in Thread : running[th] = t}

TheOne(S) == IF S = {} THEN None ELSE CHOOSE t \in S : TRUE

ActiveTask == [q \in Queue |-> TheOne(Active(q))]
OpenQueue == [q \in Queue |-> pauseCount[q] = 0]
DoneTasks == {t \in Task : Finished(t)}

SE == INSTANCE SerialExecutor WITH
  waiting <- tasks, active <- ActiveTask, open <- OpenQueue, done <- DoneTasks

(* Seen from outside, pushes from any thread, the spin lock, spawning and  *)
(* the run loop amount to one serial executor per queue.                   *)
ImplementsSerialExecutor == SE!Spec

(* ... and once the clients no longer pause and resume, the code keeps the *)
(* executor moving: an active task ends, and an open queue goes on with    *)
(* its next task.  (While they do, a thread that spins in pickNextTask can *)
(* lose every exchange to the pickers that resume brings in.)              *)
ClientsSettle == \A q \in Queue : \E n \in 0..MaxPause : <>[](pauseCount[q] = n)
KeepsExecutorMoving == ClientsSettle => SE!Fairness

----------------------------------------------------------------------------
(* The inductive invariant behind the safety properties.                   *)

(* What the local variables of a thread say about each other. *)
Consistent(loc, q, f, tk, run) ==
  /\ loc \in Client => q = None /\ f = None /\ tk = None
  /\ loc \notin Client => q # None /\ f # None
  /\ loc = "out" => run = None
  /\ loc = "body" => run # None
  /\ f = "finishedTask" => run = None
  /\ loc = "dispatch" => tk # None
  /\ tk # None => loc \in {"release", "dispatch"} /\ QueueOf[tk] = q

StackOK ==
  \A th \in Thread :
    Consistent(pc[th], queue[th], caller[th], found[th], running[th])

TasksFor(q) == {t \in Task : QueueOf[t] = q}
TasksOfQueue == \A q \in Queue : tasks[q] \in Seq(TasksFor(q))

(* m_pickingNextTask is held by the one thread between Acquire and Release. *)
PickLocked ==
  /\ \A th \in Thread : pc[th] \in Picking => pickingNextTask[queue[th]]
  /\ \A a, b \in Thread :
       /\ pc[a] \in Picking
       /\ pc[b] \in Picking
       /\ queue[a] = queue[b]
       => a = b

(* FlagHasOneOwner, kind of owner by kind of owner. *)
OneOwner(q) ==
  /\ \A a, b \in Thread : PickOwner(a, q) /\ PickOwner(b, q) => a = b
  /\ \A a, b \in Thread : RunOwner(a, q) /\ RunOwner(b, q) => a = b
  /\ \A t, u \in Task : SpawnOwner(t, q) /\ SpawnOwner(u, q) => t = u
  /\ \A a, b \in Thread : ~(PickOwner(a, q) /\ RunOwner(b, q))
  /\ \A a \in Thread, t \in Task : ~(PickOwner(a, q) /\ SpawnOwner(t, q))
  /\ \A a \in Thread, t \in Task : ~(RunOwner(a, q) /\ SpawnOwner(t, q))
  /\ taskChosen[q] <=> \/ \E th \in Thread : PickOwner(th, q) \/ RunOwner(th, q)
                       \/ \E t \in Task : SpawnOwner(t, q)

(* Somebody who will look into m_tasks, or see to it that another does: a  *)
(* thread on its way to try_pop, or the owner of a task it took from there. *)
Looks(th, q) ==
  /\ queue[th] = q
  /\ pc[th] \in {"checkPause", "acquire", "choose", "pop"} \/ found[th] # None

Responsible(q) ==
  \/ \E th \in Thread : Looks(th, q) \/ RunOwner(th, q)
  \/ \E t \in Task : SpawnOwner(t, q)

SomeoneResponsible ==
  \A q \in Queue : tasks[q] # <<>> /\ pauseCount[q] = 0 => Responsible(q)

(* Everything a step of the queue relies on: besides the ownership itself, *)
(* that a picker which gives m_taskChosen back is alone between the        *)
(* exchange and the release, so that a push it did not see is not lost.    *)
IInv ==
  /\ TypeOK
  /\ StackOK
  /\ TasksOfQueue
  /\ PickLocked
  /\ \A q \in Queue : OneOwner(q)
  /\ SomeoneResponsible

=============================================================================
