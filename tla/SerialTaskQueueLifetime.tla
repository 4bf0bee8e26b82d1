------------------------ MODULE SerialTaskQueueLifetime ------------------------
(***************************************************************************)
(* The destructor of SerialTaskQueue, run while tasks of the queue may     *)
(* still be running.  It reads three members one after the other, then may *)
(* push a last task of its own and wait for it.  The caller guarantees     *)
(* that nobody else calls push, pause or resume from then on, but for the  *)
(* tasks the destructor waits for, which may still pause and resume their  *)
(* queue; the run lambdas on other threads go on as they must.             *)
(***************************************************************************)
EXTENDS SerialTaskQueue

CONSTANT LastTask  \* the task object a destructor pushes, one per queue

ASSUME LastTaskAssumption ==
  /\ LastTask \in [Queue -> Task]
  /\ \A q \in Queue : QueueOf[LastTask[q]] = q
  /\ \A t \in Task, q \in Queue :
       GroupOf[t] = GroupOf[LastTask[q]] => t = LastTask[q]

VARIABLES
  dtor,          \* how far the destructor of each queue is
  dtorThread,    \* the thread that runs it
  isEmpty,       \* its local variables
  isTaskChosen

lifetimeVars == <<dtor, dtorThread, isEmpty, isTaskChosen>>
allVars == <<vars, lifetimeVars>>

DtorStage ==
  {"alive", "readEmpty", "readChosen", "pushLast", "wait", "destroyed"}

InitLifetime ==
  /\ Init
  /\ dtor = [q \in Queue |-> "alive"]
  /\ dtorThread = [q \in Queue |-> None]
  /\ isEmpty = [q \in Queue |-> FALSE]
  /\ isTaskChosen = [q \in Queue |-> FALSE]

DtorAt(th, q, stage) == dtorThread[q] = th /\ dtor[q] = stage
Waits(th, q) == DtorAt(th, q, "wait")
InDtor(th) == \E q \in Queue : dtorThread[q] = th /\ dtor[q] # "destroyed"

(* The destructor is entered and reads m_tasks.empty().  The other threads *)
(* that are inside the queue are in its run lambdas.                       *)
ReadEmpty(th, q) ==
  /\ pc[th] = "out"
  /\ ~InDtor(th)
  /\ dtor[q] = "alive"
  /\ \A other \in Thread : queue[other] = q => group[other] # None
  /\ dtor' = [dtor EXCEPT ![q] = "readEmpty"]
  /\ dtorThread' = [dtorThread EXCEPT ![q] = th]
  /\ isEmpty' = [isEmpty EXCEPT ![q] = tasks[q] = <<>>]
  /\ UNCHANGED <<vars, isTaskChosen>>

ReadChosen(th, q) ==
  /\ DtorAt(th, q, "readEmpty")
  /\ dtor' = [dtor EXCEPT ![q] = "readChosen"]
  /\ isTaskChosen' = [isTaskChosen EXCEPT ![q] = taskChosen[q]]
  /\ UNCHANGED <<vars, dtorThread, isEmpty>>

(* Mutant of MustWait: only the tasks still in line count. *)
MustWaitForLine(q) == ~isEmpty[q] /\ pauseCount[q] = 0

(* Not empty and not paused, or a task chosen: there is work to wait for. *)
MustWait(q) == (~isEmpty[q] /\ pauseCount[q] = 0) \/ isTaskChosen[q]

Decide(th, q) ==
  /\ DtorAt(th, q, "readChosen")
  /\ dtor' = [dtor EXCEPT ![q] = IF MustWait(q) THEN "pushLast" ELSE "destroyed"]
  /\ UNCHANGED <<vars, dtorThread, isEmpty, isTaskChosen>>

(* Mutant of PushLast: only lengthens the line. *)
PushLastWithoutPick(th, q) ==
  LET t == LastTask[q] IN
  /\ DtorAt(th, q, "pushLast")
  /\ dtor' = [dtor EXCEPT ![q] = "wait"]
  /\ tasks' = [tasks EXCEPT ![q] = Append(@, t)]
  /\ pushed' = [pushed EXCEPT ![q] = Append(@, t)]
  /\ UNCHANGED <<pauseCount, taskChosen, pickingNextTask, spawned, stack,
                 executed, dtorThread, isEmpty, isTaskChosen>>

(* push(g, ...): the same push as any other, with a group of its own. *)
PushLast(th, q) ==
  /\ DtorAt(th, q, "pushLast")
  /\ dtor' = [dtor EXCEPT ![q] = "wait"]
  /\ Push(th, LastTask[q])
  /\ UNCHANGED <<dtorThread, isEmpty, isTaskChosen>>

(* Mutant of WaitOver: no deferred handle keeps the group busy. *)
WaitForGroupOnly(th, q) ==
  LET g == GroupOf[LastTask[q]] IN
  /\ Waits(th, q)
  /\ pc[th] = "out"
  /\ \A other \in Thread : group[other] # g
  /\ \A t \in spawned : GroupOf[t] # g
  /\ dtor' = [dtor EXCEPT ![q] = "destroyed"]
  /\ UNCHANGED <<vars, dtorThread, isEmpty, isTaskChosen>>

(* g.wait() returns when the deferred handle, which the last task runs,    *)
(* and the run lambda of the last task are over.  While it waits the       *)
(* thread may execute other tasks of the arena.                            *)
WaitOver(th, q) ==
  LET g == GroupOf[LastTask[q]] IN
  /\ Waits(th, q)
  /\ pc[th] = "out"
  /\ Executed(LastTask[q])
  /\ \A other \in Thread : group[other] # g
  /\ dtor' = [dtor EXCEPT ![q] = "destroyed"]
  /\ UNCHANGED <<vars, dtorThread, isEmpty, isTaskChosen>>

Destroy(th) ==
  \E q \in Queue :
    \/ ReadEmpty(th, q) \/ ReadChosen(th, q) \/ Decide(th, q)
    \/ PushLast(th, q) \/ WaitOver(th, q)

(* Before the destructor anybody pauses and resumes; then a task of the    *)
(* queue that is still running does: that of a paused queue has to, for    *)
(* the destructor to return.                                               *)
MayPause(th, q) ==
  \/ dtor[q] = "alive"
  \/ dtor[q] # "destroyed" /\ RunOwner(th, q) /\ running[th] # LastTask[q]

(* A thread in a destructor makes no other calls, except from the body of  *)
(* a task it executes while it waits.                                      *)
Call(th) ==
  /\ UNCHANGED lifetimeVars
  /\ pc[th] = "out" => ~InDtor(th)
  /\ \/ \E t \in Task : /\ dtor[QueueOf[t]] = "alive"
                        /\ t # LastTask[QueueOf[t]]
                        /\ Push(th, t)
     \/ \E q \in Queue : MayPause(th, q) /\ (Pause(th, q) \/ Resume(th, q))

Take(th) ==
  /\ InDtor(th) => \E q \in Queue : Waits(th, q)
  /\ Start(th)

Work(th) ==
  /\ UNCHANGED lifetimeVars
  /\ Take(th) \/ Internal(th) \/ FinishTask(th)

NextLifetime == \E th \in Thread : Call(th) \/ Work(th) \/ Destroy(th)

SpecLifetime == InitLifetime /\ [][NextLifetime]_allVars

(* A destructor that was entered goes on as far as it can. *)
DestroyGoesOn(th) ==
  \E q \in Queue : ReadChosen(th, q) \/ Decide(th, q) \/ PushLast(th, q)
FairSpecLifetime ==
  /\ SpecLifetime
  /\ \A th \in Thread :
       /\ WF_allVars(Internal(th) /\ UNCHANGED lifetimeVars)
       /\ WF_allVars(FinishTask(th) /\ UNCHANGED lifetimeVars)
       /\ WF_allVars(DestroyGoesOn(th))
  /\ WF_allVars(\E th \in Thread : Take(th) /\ UNCHANGED lifetimeVars)
  /\ WF_allVars(\E th \in Thread, q \in Queue : WaitOver(th, q))

----------------------------------------------------------------------------
(* The first line of the destructor: when it returns from an unpaused      *)
(* queue, every task ever pushed into it has been executed to its end,     *)
(* although emptiness and the chosen flag were read at different times.    *)
AllTasksCompleted ==
  \A q \in Queue :
    dtor[q] = "destroyed" /\ pauseCount[q] = 0
      => \A t \in TasksFor(q) : IsPushed(t) => Finished(t)

(* A destructor returns when the pauses of its queue are taken back, also  *)
(* those it began with, by the tasks it waits for, and those that they     *)
(* make: its last task gets its turn.  (Of a paused queue with a task      *)
(* chosen that nobody resumes, it never does.)                             *)
DestructorReturns ==
  \A q \in Queue :
    <>[](pauseCount[q] = 0)
      => (dtor[q] = "readEmpty" ~> dtor[q] = "destroyed")

(* "Be certain all tasks have completed": no run lambda is still inside a  *)
(* member function of a destroyed queue.  The code does not keep it.       *)
NoUseAfterDestruction ==
  \A q \in Queue :
    dtor[q] = "destroyed" => \A th \in Thread : queue[th] # q
=============================================================================
