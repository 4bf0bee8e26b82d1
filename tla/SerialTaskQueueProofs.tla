------------------------- MODULE SerialTaskQueueProofs -------------------------
(***************************************************************************)
(* Proofs about SerialTaskQueue, for any number of threads, tasks, queues  *)
(* and groups and any bound on the pause count: one task at a time runs,   *)
(* none is stranded, they run in the order of the pushes, a pause bounds   *)
(* what still starts; and the queue implements SerialExecutor: every step  *)
(* of the code is a step of the abstract executor or none.                 *)
(***************************************************************************)
EXTENDS SerialTaskQueue, SequenceTheorems, FiniteSetTheorems, TLAPS

(* The locations and callers that occur in the actions. *)
LEMMA Locations ==
  /\ "checkPause" \in Location /\ "acquire" \in Location
  /\ "choose" \in Location /\ "pop" \in Location /\ "unchoose" \in Location
  /\ "release" \in Location /\ "dispatch" \in Location
  /\ "out" \in Location /\ "body" \in Location
  /\ "push" \in Caller /\ "resume" \in Caller /\ "finishedTask" \in Caller
BY DEF Location, Client, Picking, Caller

(* The parts that several actions share keep the types. *)
LEMMA CallPickType ==
  ASSUME TypeOK, NEW th \in Thread, NEW q \in Queue, NEW f \in Caller,
         CallPick(th, q, f)
  PROVE  /\ pc' \in [Thread -> Location]
         /\ queue' \in [Thread -> Queue \cup {None}]
         /\ caller' \in [Thread -> Caller \cup {None}]
BY Locations DEF TypeOK, CallPick, Goto

(* BackToClient keeps the types of the locals it resets. *)
LEMMA BackToClientType ==
  ASSUME TypeOK, NEW th \in Thread, BackToClient(th)
  PROVE  /\ pc' \in [Thread -> Location]
         /\ queue' \in [Thread -> Queue \cup {None}]
         /\ caller' \in [Thread -> Caller \cup {None}]
         /\ found' \in [Thread -> Task \cup {None}]
         /\ group' \in [Thread -> Group \cup {None}]
<1>1. pc' \in [Thread -> Location]
  BY Locations DEF TypeOK, BackToClient, Goto
<1>2. /\ queue' \in [Thread -> Queue \cup {None}]
      /\ caller' \in [Thread -> Caller \cup {None}]
      /\ found' \in [Thread -> Task \cup {None}]
  BY DEF TypeOK, BackToClient
<1>3. group' \in [Thread -> Group \cup {None}]
  BY DEF TypeOK, BackToClient
<1> QED
  BY <1>1, <1>2, <1>3

(* Every step of the queue keeps the variables well typed. *)
LEMMA TypeStep ==
  TypeOK /\ StackOK /\ [Next]_vars => TypeOK'
<1> SUFFICES ASSUME TypeOK, StackOK, [Next]_vars
             PROVE  TypeOK'
  OBVIOUS
<1> USE ConstantsAssumption DEF TypeOK
<1>1. ASSUME NEW th \in Thread, NEW t \in Task, Push(th, t)
      PROVE  TypeOK'
  BY <1>1, Locations DEF Push, Goto, CallPick
<1>2. ASSUME NEW th \in Thread, NEW q \in Queue, Pause(th, q)
      PROVE  TypeOK'
  <2>1. pauseCount' \in [Queue -> 0..MaxPause]
    BY <1>2 DEF Pause
  <2> QED
    BY <1>2, <2>1 DEF Pause, stack, history
<1>3. ASSUME NEW th \in Thread, NEW q \in Queue, Resume(th, q)
      PROVE  TypeOK'
  <2>1. pauseCount' \in [Queue -> 0..MaxPause]
    BY <1>3 DEF Resume
  <2>2. CASE UNCHANGED <<pc, queue, caller>>
    BY <1>3, <2>1, <2>2 DEF Resume, history
  <2>3. CASE CallPick(th, q, "resume")
    BY <1>3, <2>1, <2>3, CallPickType, Locations DEF Resume, history
  <2> QED
    BY <1>3, <2>2, <2>3 DEF Resume
<1>4. ASSUME NEW th \in Thread, Start(th)
      PROVE  TypeOK'
  <2> PICK t \in spawned : /\ spawned' = spawned \ {t}
                           /\ Execute(th, t)
                           /\ UNCHANGED <<members, queue, caller, found, pushed>>
    BY <1>4 DEF Start
  <2>1. t \in Task /\ QueueOf[t] \in Queue /\ GroupOf[t] \in Group
    OBVIOUS
  <2> QED
    BY <2>1, Locations DEF Execute, Goto, members
<1>5. ASSUME NEW th \in Thread, CheckPause(th)
      PROVE  TypeOK'
  <2>1. CASE pauseCount[queue[th]] = 0
    <3>1. /\ Goto(th, "acquire")
          /\ UNCHANGED <<members, spawned, running, history>>
          /\ UNCHANGED <<queue, caller, found, group>>
      BY <1>5, <2>1 DEF CheckPause
    <3> QED
      BY <3>1, Locations DEF Goto, members, history
  <2>2. CASE pauseCount[queue[th]] # 0
    <3>1. /\ BackToClient(th)
          /\ UNCHANGED <<members, spawned, running, history>>
      BY <1>5, <2>2 DEF CheckPause
    <3> QED
      BY <3>1, BackToClientType DEF members, history
  <2> QED
    BY <2>1, <2>2
<1>6. ASSUME NEW th \in Thread, Acquire(th)
      PROVE  TypeOK'
  BY <1>6, Locations DEF Acquire, Goto, history
<1>7. ASSUME NEW th \in Thread, Choose(th)
      PROVE  TypeOK'
  BY <1>7, Locations DEF Choose, Goto, history
<1>8. ASSUME NEW th \in Thread, Pop(th)
      PROVE  TypeOK'
  <2> DEFINE q == queue[th]
  <2>1. UNCHANGED <<pauseCount, taskChosen, pickingNextTask, spawned, queue,
                    caller, running, group, history>>
    BY <1>8 DEF Pop
  <2>2. CASE /\ tasks[q] # <<>>
             /\ found' = [found EXCEPT ![th] = Head(tasks[q])]
             /\ tasks' = [tasks EXCEPT ![q] = Tail(@)]
             /\ Goto(th, "release")
    <3>1. q \in Queue
      BY <1>8 DEF Pop, StackOK, Consistent, Client
    <3>2. Head(tasks[q]) \in Task /\ Tail(tasks[q]) \in Seq(Task)
      BY <2>2, <3>1
    <3>3. found' \in [Thread -> Task \cup {None}]
      BY <2>2, <3>2
    <3>4. tasks' \in [Queue -> Seq(Task)]
      BY <2>2, <3>2
    <3> QED
      BY <2>1, <2>2, <3>3, <3>4, Locations DEF Goto, history
  <2>3. CASE Goto(th, "unchoose") /\ UNCHANGED <<found, tasks>>
    BY <2>1, <2>3, Locations DEF Goto, history
  <2> QED
    BY <1>8, <2>2, <2>3 DEF Pop
<1>9. ASSUME NEW th \in Thread, Unchoose(th)
      PROVE  TypeOK'
  BY <1>9, Locations DEF Unchoose, Goto, history
<1>10. ASSUME NEW th \in Thread, Release(th)
      PROVE  TypeOK'
  <2>1. /\ pickingNextTask' \in [Queue -> BOOLEAN]
        /\ UNCHANGED <<tasks, pauseCount, taskChosen, spawned, running, history>>
    BY <1>10 DEF Release
  <2>2. CASE BackToClient(th)
    BY <2>1, <2>2, BackToClientType DEF history
  <2>3. CASE Goto(th, "dispatch") /\ UNCHANGED <<queue, caller, found, group>>
    BY <2>1, <2>3, Locations DEF Goto, history
  <2> QED
    BY <1>10, <2>2, <2>3 DEF Release
<1>11. ASSUME NEW th \in Thread, Spawn(th)
      PROVE  TypeOK'
  BY <1>11, Locations DEF Spawn, StaysInLoop, BackToClient, Goto, members,
     history, StackOK, Consistent
<1>12. ASSUME NEW th \in Thread, RunNext(th)
      PROVE  TypeOK'
  BY <1>12, Locations DEF RunNext, StaysInLoop, Goto, Execute, members, StackOK,
     Consistent, Client
<1>13. ASSUME NEW th \in Thread, FinishTask(th)
      PROVE  TypeOK'
  BY <1>13, Locations DEF FinishTask, Goto, CallPick, history, StackOK,
     Consistent
<1>14. CASE UNCHANGED vars
  BY <1>14 DEF vars
<1> QED
  BY <1>1, <1>2, <1>3, <1>4, <1>5, <1>6, <1>7, <1>8, <1>9, <1>10, <1>11, <1>12,
     <1>13, <1>14 DEF Next, ClientCall, Internal, Pick

----------------------------------------------------------------------------
(* Where an action takes its thread, and that it moves no other thread.    *)
(* With these facts the invariants follow without looking at the actions.  *)

Moved(th, loc, q, f, tk, run) ==
  /\ pc'[th] = loc /\ queue'[th] = q /\ caller'[th] = f
  /\ found'[th] = tk /\ running'[th] = run
  /\ \A x \in Thread \ {th} :
       /\ pc'[x] = pc[x] /\ queue'[x] = queue[x] /\ caller'[x] = caller[x]
       /\ found'[x] = found[x] /\ running'[x] = running[x]

StaysAt(th, loc) == Moved(th, loc, queue[th], caller[th], found[th], running[th])

Home(th) == IF running[th] = None THEN "out" ELSE "body"
GoesHome(th) == Moved(th, Home(th), None, None, None, running[th])

(* Where Push takes its thread. *)
LEMMA PushMoves ==
  ASSUME TypeOK, NEW th \in Thread, NEW t \in Task, Push(th, t)
  PROVE  Moved(th, "checkPause", QueueOf[t], "push", found[th], running[th])
BY DEF TypeOK, Moved, StaysAt, GoesHome, Home, Push, Goto, CallPick

(* Where Resume takes its thread. *)
LEMMA ResumeMoves ==
  ASSUME TypeOK, NEW th \in Thread, NEW q \in Queue, Resume(th, q)
  PROVE  \/ /\ pauseCount[q] = 1
            /\ Moved(th, "checkPause", q, "resume", found[th], running[th])
         \/ /\ pauseCount[q] > 1
            /\ StaysAt(th, pc[th])
BY DEF TypeOK, Moved, StaysAt, GoesHome, Home, Resume, Goto, CallPick, history

(* Where CheckPause takes its thread. *)
LEMMA CheckPauseMoves ==
  ASSUME TypeOK, NEW th \in Thread, CheckPause(th)
  PROVE  \/ pauseCount[queue[th]] = 0 /\ StaysAt(th, "acquire")
         \/ pauseCount[queue[th]] # 0 /\ GoesHome(th)
BY DEF TypeOK, Moved, StaysAt, GoesHome, Home, CheckPause, Goto, BackToClient,
   members, history

(* Where Acquire takes its thread. *)
LEMMA AcquireMoves ==
  ASSUME TypeOK, NEW th \in Thread, Acquire(th)
  PROVE  StaysAt(th, "choose")
BY DEF TypeOK, Moved, StaysAt, GoesHome, Home, Acquire, Goto, history

(* Where Choose takes its thread. *)
LEMMA ChooseMoves ==
  ASSUME TypeOK, NEW th \in Thread, Choose(th)
  PROVE  StaysAt(th, IF taskChosen[queue[th]] THEN "release" ELSE "pop")
BY DEF TypeOK, Moved, StaysAt, GoesHome, Home, Choose, Goto, history

(* Where Pop takes its thread. *)
LEMMA PopMoves ==
  ASSUME TypeOK, NEW th \in Thread, Pop(th)
  PROVE  \/ /\ tasks[queue[th]] # <<>>
            /\ Moved(th, "release", queue[th], caller[th],
                     Head(tasks[queue[th]]), running[th])
         \/ /\ tasks[queue[th]] = <<>>
            /\ StaysAt(th, "unchoose")
BY DEF TypeOK, Moved, StaysAt, GoesHome, Home, Pop, Goto, history

(* Where Unchoose takes its thread. *)
LEMMA UnchooseMoves ==
  ASSUME TypeOK, NEW th \in Thread, Unchoose(th)
  PROVE  StaysAt(th, "release")
BY DEF TypeOK, Moved, StaysAt, GoesHome, Home, Unchoose, Goto, history

(* Where Release takes its thread. *)
LEMMA ReleaseMoves ==
  ASSUME TypeOK, NEW th \in Thread, Release(th)
  PROVE  \/ found[th] = None /\ GoesHome(th)
         \/ found[th] # None /\ StaysAt(th, "dispatch")
BY DEF TypeOK, Moved, StaysAt, GoesHome, Home, Release, Goto, BackToClient,
   history

(* Where Spawn takes its thread. *)
LEMMA SpawnMoves ==
  ASSUME TypeOK, NEW th \in Thread, Spawn(th)
  PROVE  GoesHome(th)
BY DEF TypeOK, Moved, StaysAt, GoesHome, Home, Spawn, StaysInLoop, BackToClient,
   Goto, members, history

(* Where RunNext takes its thread. *)
LEMMA RunNextMoves ==
  ASSUME TypeOK, NEW th \in Thread, RunNext(th)
  PROVE  Moved(th, "body", None, None, None, found[th])
BY DEF TypeOK, Moved, StaysAt, GoesHome, Home, RunNext, StaysInLoop, Goto,
   Execute, members

(* Where FinishTask takes its thread. *)
LEMMA FinishTaskMoves ==
  ASSUME TypeOK, NEW th \in Thread, FinishTask(th)
  PROVE  Moved(th, "checkPause", QueueOf[running[th]], "finishedTask", found[th], None)
BY DEF TypeOK, Moved, StaysAt, GoesHome, Home, FinishTask, Goto, CallPick,
   history

(* Where Start takes its thread. *)
LEMMA StartMoves ==
  ASSUME TypeOK, NEW th \in Thread, NEW t \in Task, Execute(th, t),
         UNCHANGED <<queue, caller, found>>
  PROVE  Moved(th, "body", queue[th], caller[th], found[th], t)
BY DEF TypeOK, Moved, Execute, Goto

----------------------------------------------------------------------------
(* The local variables of a thread stay consistent: only those of the      *)
(* thread that takes the step have to be looked at.                        *)
LEMMA ConsistentMove ==
  ASSUME StackOK, NEW th \in Thread, NEW loc, NEW q, NEW f, NEW tk, NEW run,
         Moved(th, loc, q, f, tk, run), Consistent(loc, q, f, tk, run)
  PROVE  StackOK'
<1> SUFFICES ASSUME NEW x \in Thread
             PROVE  Consistent(pc'[x], queue'[x], caller'[x], found'[x], running'[x])
  BY DEF StackOK, Consistent
<1>1. CASE x = th
  BY <1>1 DEF Moved
<1>2. CASE x # th
  BY <1>2 DEF Moved, StackOK
<1> QED
  BY <1>1, <1>2

(* Every step keeps the local variables of all threads consistent. *)
LEMMA StackStep ==
  ASSUME IInv, [Next]_vars
  PROVE  StackOK'
<1> USE ConstantsAssumption DEF IInv
<1>1. ASSUME NEW th \in Thread, NEW t \in Task, Push(th, t)
      PROVE  StackOK'
  <2>1. Moved(th, "checkPause", QueueOf[t], "push", found[th], running[th])
    BY <1>1, PushMoves DEF IInv, StaysAt, GoesHome
  <2>2. Consistent("checkPause", QueueOf[t], "push", found[th], running[th])
    BY <1>1, Locations DEF Push, StackOK, Consistent, Client, TypeOK
  <2> QED
    BY <2>1, <2>2, ConsistentMove
<1>2. ASSUME NEW th \in Thread, NEW q \in Queue, Pause(th, q)
      PROVE  StackOK'
  BY <1>2 DEF StackOK, Consistent, Pause, stack
<1>3. ASSUME NEW th \in Thread, NEW q \in Queue, Resume(th, q)
      PROVE  StackOK'
  <2>1. CASE pauseCount[q] = 1
    <3>1. Moved(th, "checkPause", q, "resume", found[th], running[th])
      BY <1>3, <2>1, ResumeMoves DEF IInv, TypeOK, StaysAt, GoesHome
    <3>2. Consistent("checkPause", q, "resume", found[th], running[th])
      BY <1>3, <2>1, Locations DEF Resume, StackOK, Consistent, Client, TypeOK
    <3> QED
      BY <3>1, <3>2, ConsistentMove
  <2>2. CASE pauseCount[q] > 1
    <3>1. Moved(th, pc[th], queue[th], caller[th], found[th], running[th])
      BY <1>3, <2>2, ResumeMoves DEF IInv, TypeOK, StaysAt, GoesHome
    <3>2. Consistent(pc[th], queue[th], caller[th], found[th], running[th])
      BY <1>3, <2>2, Locations DEF Resume, StackOK, Consistent, Client, TypeOK
    <3> QED
      BY <3>1, <3>2, ConsistentMove
  <2> QED
    BY <1>3, <2>1, <2>2 DEF Resume
<1>4. ASSUME NEW th \in Thread, Start(th)
      PROVE  StackOK'
  <2> PICK t \in spawned : /\ pc[th] = "out"
                           /\ Execute(th, t)
                           /\ UNCHANGED <<members, queue, caller, found, pushed>>
    BY <1>4 DEF Start
  <2>1. t \in Task /\ t # None
    BY DEF TypeOK
  <2>2. Moved(th, "body", queue[th], caller[th], found[th], t)
    BY <2>1, StartMoves
  <2>3. queue[th] = None /\ caller[th] = None /\ found[th] = None
    BY DEF StackOK, Consistent, Client
  <2>4. Consistent("body", queue[th], caller[th], found[th], t)
    BY <2>1, <2>3, Locations DEF Consistent, Client
  <2> QED
    BY <2>2, <2>4, ConsistentMove
<1>5. ASSUME NEW th \in Thread, CheckPause(th)
      PROVE  StackOK'
  <2>1. CASE pauseCount[queue[th]] = 0
    <3>1. Moved(th, "acquire", queue[th], caller[th], found[th], running[th])
      BY <1>5, <2>1, CheckPauseMoves DEF IInv, TypeOK, StaysAt, GoesHome
    <3>2. Consistent("acquire", queue[th], caller[th], found[th], running[th])
      BY <1>5, <2>1, Locations DEF CheckPause, StackOK, Consistent, Client,
         TypeOK
    <3> QED
      BY <3>1, <3>2, ConsistentMove
  <2>2. CASE pauseCount[queue[th]] # 0
    <3>1. Moved(th, Home(th), None, None, None, running[th])
      BY <1>5, <2>2, CheckPauseMoves DEF IInv, TypeOK, StaysAt, GoesHome
    <3>2. Consistent(Home(th), None, None, None, running[th])
      BY <1>5, <2>2, Locations DEF CheckPause, StackOK, Consistent, Client,
         TypeOK, Home
    <3> QED
      BY <3>1, <3>2, ConsistentMove
  <2> QED
    BY <1>5, <2>1, <2>2 DEF CheckPause
<1>6. ASSUME NEW th \in Thread, Acquire(th)
      PROVE  StackOK'
  <2>1. Moved(th, "choose", queue[th], caller[th], found[th], running[th])
    BY <1>6, AcquireMoves DEF IInv, StaysAt, GoesHome
  <2>2. Consistent("choose", queue[th], caller[th], found[th], running[th])
    BY <1>6, Locations DEF Acquire, StackOK, Consistent, Client, TypeOK
  <2> QED
    BY <2>1, <2>2, ConsistentMove
<1>7. ASSUME NEW th \in Thread, Choose(th)
      PROVE  StackOK'
  <2>1. Moved(th, IF taskChosen[queue[th]] THEN "release" ELSE "pop",
              queue[th], caller[th], found[th], running[th])
    BY <1>7, ChooseMoves DEF IInv, StaysAt, GoesHome
  <2>2. Consistent(IF taskChosen[queue[th]] THEN "release" ELSE "pop",
              queue[th], caller[th], found[th], running[th])
    BY <1>7, Locations DEF Choose, StackOK, Consistent, Client, TypeOK
  <2> QED
    BY <2>1, <2>2, ConsistentMove
<1>8. ASSUME NEW th \in Thread, Pop(th)
      PROVE  StackOK'
  <2> DEFINE q == queue[th]
  <2>1. pc[th] = "pop" /\ q \in Queue
    BY <1>8 DEF Pop, StackOK, Consistent, Client, TypeOK
  <2>2. CASE tasks[q] # <<>>
    <3>1. Head(tasks[q]) \in Task /\ QueueOf[Head(tasks[q])] = q
      <4>1. Head(tasks[q]) \in TasksFor(q)
        BY <2>1, <2>2 DEF TasksOfQueue
      <4> QED
        BY <4>1 DEF TasksFor
    <3>2. Moved(th, "release", q, caller[th], Head(tasks[q]), running[th])
      BY <1>8, <2>2, PopMoves
    <3>3. Consistent("release", q, caller[th], Head(tasks[q]), running[th])
      BY <2>1, <3>1 DEF StackOK, Consistent, Client
    <3> QED
      BY <3>2, <3>3, ConsistentMove
  <2>3. CASE tasks[q] = <<>>
    <3>1. Moved(th, "unchoose", q, caller[th], found[th], running[th])
      BY <1>8, <2>3, PopMoves DEF StaysAt
    <3>2. Consistent("unchoose", q, caller[th], found[th], running[th])
      BY <2>1 DEF StackOK, Consistent, Client
    <3> QED
      BY <3>1, <3>2, ConsistentMove
  <2> QED
    BY <2>2, <2>3
<1>9. ASSUME NEW th \in Thread, Unchoose(th)
      PROVE  StackOK'
  <2>1. Moved(th, "release", queue[th], caller[th], found[th], running[th])
    BY <1>9, UnchooseMoves DEF IInv, StaysAt, GoesHome
  <2>2. Consistent("release", queue[th], caller[th], found[th], running[th])
    BY <1>9, Locations DEF Unchoose, StackOK, Consistent, Client, TypeOK
  <2> QED
    BY <2>1, <2>2, ConsistentMove
<1>10. ASSUME NEW th \in Thread, Release(th)
      PROVE  StackOK'
  <2>1. CASE found[th] = None
    <3>1. Moved(th, Home(th), None, None, None, running[th])
      BY <1>10, <2>1, ReleaseMoves DEF IInv, TypeOK, StaysAt, GoesHome
    <3>2. Consistent(Home(th), None, None, None, running[th])
      BY <1>10, <2>1, Locations DEF Release, StackOK, Consistent, Client,
         TypeOK, Home
    <3> QED
      BY <3>1, <3>2, ConsistentMove
  <2>2. CASE found[th] # None
    <3>1. Moved(th, "dispatch", queue[th], caller[th], found[th], running[th])
      BY <1>10, <2>2, ReleaseMoves DEF IInv, TypeOK, StaysAt, GoesHome
    <3>2. Consistent("dispatch", queue[th], caller[th], found[th], running[th])
      BY <1>10, <2>2, Locations DEF Release, StackOK, Consistent, Client, TypeOK
    <3> QED
      BY <3>1, <3>2, ConsistentMove
  <2> QED
    BY <1>10, <2>1, <2>2 DEF Release
<1>11. ASSUME NEW th \in Thread, Spawn(th)
      PROVE  StackOK'
  <2>1. Moved(th, Home(th), None, None, None, running[th])
    BY <1>11, SpawnMoves DEF IInv, StaysAt, GoesHome
  <2>2. Consistent(Home(th), None, None, None, running[th])
    BY <1>11, Locations DEF Spawn, StackOK, Consistent, Client, TypeOK, Home
  <2> QED
    BY <2>1, <2>2, ConsistentMove
<1>12. ASSUME NEW th \in Thread, RunNext(th)
      PROVE  StackOK'
  <2>1. Moved(th, "body", None, None, None, found[th])
    BY <1>12, RunNextMoves DEF IInv, StaysAt, GoesHome
  <2>2. Consistent("body", None, None, None, found[th])
    BY <1>12, Locations DEF RunNext, StackOK, Consistent, Client, TypeOK,
       StaysInLoop
  <2> QED
    BY <2>1, <2>2, ConsistentMove
<1>13. ASSUME NEW th \in Thread, FinishTask(th)
      PROVE  StackOK'
  <2>1. Moved(th, "checkPause", QueueOf[running[th]], "finishedTask", found[th], None)
    BY <1>13, FinishTaskMoves DEF IInv, StaysAt, GoesHome
  <2>2. Consistent("checkPause", QueueOf[running[th]], "finishedTask", found[th], None)
    BY <1>13, Locations DEF FinishTask, StackOK, Consistent, Client, TypeOK
  <2> QED
    BY <2>1, <2>2, ConsistentMove
<1>14. CASE UNCHANGED vars
  BY <1>14 DEF vars, StackOK, Consistent
<1> QED
  BY <1>1, <1>2, <1>3, <1>4, <1>5, <1>6, <1>7, <1>8, <1>9, <1>10, <1>11, <1>12,
     <1>13, <1>14 DEF Next, ClientCall, Internal, Pick

(* A queue holds its own tasks only. *)
LEMMA TasksStep ==
  ASSUME IInv, [Next]_vars
  PROVE  TasksOfQueue'
<1> USE ConstantsAssumption DEF IInv, TypeOK
<1>1. ASSUME NEW th \in Thread, NEW t \in Task, Push(th, t)
      PROVE  TasksOfQueue'
  <2>1. QueueOf[t] \in Queue /\ t \in TasksFor(QueueOf[t])
    BY DEF TasksFor
  <2>2. Append(tasks[QueueOf[t]], t) \in Seq(TasksFor(QueueOf[t]))
    BY <2>1 DEF TasksOfQueue
  <2>3. tasks' = [tasks EXCEPT ![QueueOf[t]] = Append(@, t)]
    BY <1>1 DEF Push
  <2> QED
    BY <2>1, <2>2, <2>3 DEF TasksOfQueue
<1>2. ASSUME NEW th \in Thread, Pop(th)
      PROVE  TasksOfQueue'
  <2> DEFINE q == queue[th]
  <2>1. CASE tasks[q] # <<>> /\ tasks' = [tasks EXCEPT ![q] = Tail(@)]
    <3>1. q \in Queue
      BY <1>2 DEF Pop, StackOK, Consistent, Client
    <3>2. Tail(tasks[q]) \in Seq(TasksFor(q))
      BY <2>1, <3>1 DEF TasksOfQueue
    <3> QED
      BY <2>1, <3>1, <3>2 DEF TasksOfQueue
  <2>2. CASE tasks' = tasks
    BY <2>2 DEF TasksOfQueue
  <2> QED
    BY <1>2, <2>1, <2>2 DEF Pop
<1>3. CASE UNCHANGED tasks
  BY <1>3 DEF TasksOfQueue
<1> QED
  BY <1>1, <1>2, <1>3 DEF Next, ClientCall, Internal, Pick, vars, members,
     Pause, Resume, Start, CheckPause, Acquire, Choose, Unchoose, Release,
     Spawn, RunNext, FinishTask

(* A step that does not touch m_pickingNextTask and enters no location     *)
(* between Acquire and Release keeps the exclusion.                        *)
LEMMA LockMove ==
  ASSUME PickLocked, NEW th \in Thread, NEW loc, NEW q, NEW f, NEW tk, NEW run,
         Moved(th, loc, q, f, tk, run), pickingNextTask' = pickingNextTask,
         loc \in Picking => pc[th] \in Picking /\ q = queue[th]
  PROVE  PickLocked'
<1>1. ASSUME NEW x \in Thread, pc'[x] \in Picking
      PROVE  pc[x] \in Picking /\ queue'[x] = queue[x]
  BY <1>1 DEF Moved
<1> QED
  BY <1>1 DEF PickLocked

(* The spin lock m_pickingNextTask excludes after every step. *)
LEMMA LockStep ==
  ASSUME IInv, [Next]_vars
  PROVE  PickLocked'
<1> USE ConstantsAssumption DEF IInv
<1>1. ASSUME NEW th \in Thread, NEW t \in Task, Push(th, t)
      PROVE  PickLocked'
  BY <1>1, PushMoves, LockMove DEF Push, StaysAt, GoesHome, Home, Picking,
     Client
<1>2. ASSUME NEW th \in Thread, NEW q \in Queue, Pause(th, q)
      PROVE  PickLocked'
  BY <1>2 DEF PickLocked, Pause, stack
<1>3. ASSUME NEW th \in Thread, NEW q \in Queue, Resume(th, q)
      PROVE  PickLocked'
  BY <1>3, ResumeMoves, LockMove DEF Resume, StaysAt, GoesHome, Home, Picking,
     Client
<1>4. ASSUME NEW th \in Thread, Start(th)
      PROVE  PickLocked'
  <2> PICK t \in spawned : /\ Execute(th, t)
                           /\ UNCHANGED <<members, queue, caller, found, pushed>>
    BY <1>4 DEF Start
  <2>1. t \in Task
    BY DEF TypeOK
  <2>2. Moved(th, "body", queue[th], caller[th], found[th], t)
    BY <2>1, StartMoves
  <2> QED
    BY <2>2, LockMove DEF members, Picking
<1>5. ASSUME NEW th \in Thread, CheckPause(th)
      PROVE  PickLocked'
  BY <1>5, CheckPauseMoves, LockMove DEF CheckPause, StaysAt, GoesHome, Home,
     Picking, Client, members
<1>6. ASSUME NEW th \in Thread, Acquire(th)
      PROVE  PickLocked'
  <2> DEFINE q == queue[th]
  <2>1. /\ pc[th] = "acquire" /\ q \in Queue
        /\ ~pickingNextTask[q]
        /\ pickingNextTask' = [pickingNextTask EXCEPT ![q] = TRUE]
    BY <1>6 DEF Acquire, TypeOK, StackOK, Consistent, Client
  <2>2. StaysAt(th, "choose")
    BY <1>6, AcquireMoves
  <2>3. \A x \in Thread : queue'[x] = queue[x]
    BY <2>2 DEF StaysAt, Moved
  <2>4. \A x \in Thread \ {th} : pc'[x] = pc[x]
    BY <2>2 DEF StaysAt, Moved
  <2>5. \A x \in Thread : pc[x] \in Picking => queue[x] # q /\ queue[x] \in Queue
    BY <2>1 DEF PickLocked, TypeOK, StackOK, Consistent, Client, Picking
  <2>6. pickingNextTask'[q] /\ \A p \in Queue \ {q} : pickingNextTask'[p] = pickingNextTask[p]
    BY <2>1 DEF TypeOK
  <2> QED
    BY <2>3, <2>4, <2>5, <2>6 DEF PickLocked
<1>7. ASSUME NEW th \in Thread, Choose(th)
      PROVE  PickLocked'
  BY <1>7, ChooseMoves, LockMove DEF Choose, StaysAt, GoesHome, Home, Picking,
     Client
<1>8. ASSUME NEW th \in Thread, Pop(th)
      PROVE  PickLocked'
  BY <1>8, PopMoves, LockMove DEF Pop, StaysAt, GoesHome, Home, Picking, Client
<1>9. ASSUME NEW th \in Thread, Unchoose(th)
      PROVE  PickLocked'
  BY <1>9, UnchooseMoves, LockMove DEF Unchoose, StaysAt, GoesHome, Home,
     Picking, Client
<1>10. ASSUME NEW th \in Thread, Release(th)
      PROVE  PickLocked'
  <2> DEFINE q == queue[th]
  <2>1. /\ pc[th] \in Picking /\ q \in Queue
        /\ pickingNextTask' = [pickingNextTask EXCEPT ![q] = FALSE]
    BY <1>10 DEF Release, TypeOK, StackOK, Consistent, Client, Picking
  <2>2. \A x \in Thread \ {th} : pc'[x] = pc[x] /\ queue'[x] = queue[x]
    BY <1>10, ReleaseMoves DEF StaysAt, GoesHome, Moved
  <2>3. pc'[th] \notin Picking
    BY <1>10, ReleaseMoves DEF StaysAt, GoesHome, Home, Moved, Picking
  <2>4. \A x \in Thread \ {th} : pc[x] \in Picking => queue[x] # q /\ queue[x] \in Queue
    BY <2>1 DEF PickLocked, TypeOK, StackOK, Consistent, Client, Picking
  <2>5. \A p \in Queue \ {q} : pickingNextTask'[p] = pickingNextTask[p]
    BY <2>1 DEF TypeOK
  <2> QED
    BY <2>2, <2>3, <2>4, <2>5 DEF PickLocked
<1>11. ASSUME NEW th \in Thread, Spawn(th)
      PROVE  PickLocked'
  BY <1>11, SpawnMoves, LockMove DEF Spawn, StaysAt, GoesHome, Home, Picking,
     Client, members
<1>12. ASSUME NEW th \in Thread, RunNext(th)
      PROVE  PickLocked'
  BY <1>12, RunNextMoves, LockMove DEF RunNext, StaysAt, GoesHome, Home,
     Picking, Client, members
<1>13. ASSUME NEW th \in Thread, FinishTask(th)
      PROVE  PickLocked'
  BY <1>13, FinishTaskMoves, LockMove DEF FinishTask, StaysAt, GoesHome, Home,
     Picking, Client
<1>14. CASE UNCHANGED vars
  BY <1>14 DEF vars, PickLocked
<1> QED
  BY <1>1, <1>2, <1>3, <1>4, <1>5, <1>6, <1>7, <1>8, <1>9, <1>10, <1>11, <1>12,
     <1>13, <1>14 DEF Next, ClientCall, Internal, Pick

----------------------------------------------------------------------------
(* What a step does to the ownership of the queues, in terms of the owner  *)
(* predicates only, and what follows for OneOwner.                         *)

Owned == \A p \in Queue : OneOwner(p)

SamePickOwners == \A x \in Thread, p \in Queue : PickOwner(x, p)' <=> PickOwner(x, p)
SameRunOwners == \A x \in Thread, p \in Queue : RunOwner(x, p)' <=> RunOwner(x, p)
SameSpawnOwners == \A t \in Task, p \in Queue : SpawnOwner(t, p)' <=> SpawnOwner(t, p)

LosesPick(th, q) ==
  /\ \A p \in Queue : PickOwner(th, p) <=> p = q
  /\ \A x \in Thread, p \in Queue : PickOwner(x, p)' <=> PickOwner(x, p) /\ x # th

GetsRun(th, q) ==
  \A x \in Thread, p \in Queue :
    RunOwner(x, p)' <=> RunOwner(x, p) \/ (x = th /\ p = q)

(* A step that changes no ownership keeps Owned. *)
LEMMA SameOwners ==
  ASSUME Owned, taskChosen' = taskChosen,
         SamePickOwners, SameRunOwners, SameSpawnOwners
  PROVE  Owned'
BY DEF Owned, OneOwner, SamePickOwners, SameRunOwners, SameSpawnOwners

(* spawn: the picker passes its ownership on to the spawned lambda. *)
LEMMA PickToSpawn ==
  ASSUME Owned, taskChosen' = taskChosen,
         NEW th \in Thread, NEW q \in Queue, NEW t \in Task,
         LosesPick(th, q), SameRunOwners,
         \A u \in Task, p \in Queue :
           SpawnOwner(u, p)' <=> SpawnOwner(u, p) \/ (u = t /\ p = q)
  PROVE  Owned'
BY DEF Owned, OneOwner, LosesPick, SameRunOwners

(* The run loop: the picker executes the task it picked. *)
LEMMA PickToRun ==
  ASSUME Owned, taskChosen' = taskChosen,
         NEW th \in Thread, NEW q \in Queue,
         LosesPick(th, q), GetsRun(th, q), SameSpawnOwners
  PROVE  Owned'
BY DEF Owned, OneOwner, LosesPick, GetsRun, SameSpawnOwners

(* A thread takes the lambda and owns the queue in its place. *)
LEMMA SpawnToRun ==
  ASSUME Owned, taskChosen' = taskChosen,
         NEW th \in Thread, NEW q \in Queue, NEW t \in Task,
         \A p \in Queue : SpawnOwner(t, p) <=> p = q,
         SamePickOwners, GetsRun(th, q),
         \A u \in Task, p \in Queue : SpawnOwner(u, p)' <=> SpawnOwner(u, p) /\ u # t
  PROVE  Owned'
BY DEF Owned, OneOwner, SamePickOwners, GetsRun

(* The exchange of m_taskChosen succeeds. *)
LEMMA FreeToPick ==
  ASSUME Owned, NEW th \in Thread, NEW q \in Queue, ~taskChosen[q],
         taskChosen'[q], \A p \in Queue \ {q} : taskChosen'[p] = taskChosen[p],
         \A x \in Thread, p \in Queue :
           PickOwner(x, p)' <=> PickOwner(x, p) \/ (x = th /\ p = q),
         SameRunOwners, SameSpawnOwners
  PROVE  Owned'
BY DEF Owned, OneOwner, SameRunOwners, SameSpawnOwners

(* A failed try_pop gives m_taskChosen back. *)
LEMMA PickToFree ==
  ASSUME Owned, NEW th \in Thread, NEW q \in Queue,
         ~taskChosen'[q], \A p \in Queue \ {q} : taskChosen'[p] = taskChosen[p],
         LosesPick(th, q), SameRunOwners, SameSpawnOwners
  PROVE  Owned'
BY DEF Owned, OneOwner, LosesPick, SameRunOwners, SameSpawnOwners

(* finishedTask clears m_taskChosen. *)
LEMMA RunToFree ==
  ASSUME Owned, NEW th \in Thread, NEW q \in Queue,
         ~taskChosen'[q], \A p \in Queue \ {q} : taskChosen'[p] = taskChosen[p],
         \A p \in Queue : RunOwner(th, p) <=> p = q,
         SamePickOwners, SameSpawnOwners,
         \A x \in Thread, p \in Queue : RunOwner(x, p)' <=> RunOwner(x, p) /\ x # th
  PROVE  Owned'
BY DEF Owned, OneOwner, SamePickOwners, SameSpawnOwners

(* The owner predicates before and after a move of one thread. *)
LEMMA MovedPick ==
  ASSUME NEW th \in Thread, NEW loc, NEW q, NEW f, NEW tk, NEW run,
         Moved(th, loc, q, f, tk, run)
  PROVE  \A x \in Thread, p \in Queue :
           PickOwner(x, p)' <=>
             IF x = th THEN q = p /\ (loc \in {"pop", "unchoose"} \/ tk # None)
                       ELSE PickOwner(x, p)
BY DEF Moved, PickOwner

(* The same for the executors of tasks. *)
LEMMA MovedRun ==
  ASSUME NEW th \in Thread, NEW loc, NEW q, NEW f, NEW tk, NEW run,
         Moved(th, loc, q, f, tk, run)
  PROVE  \A x \in Thread, p \in Queue :
           RunOwner(x, p)' <=> IF x = th THEN run # None /\ QueueOf[run] = p
                                         ELSE RunOwner(x, p)
BY DEF Moved, RunOwner

(* Who leaves the spawned lambdas alone leaves their ownership alone. *)
LEMMA SpawnedSame ==
  ASSUME spawned' = spawned
  PROVE  SameSpawnOwners
BY DEF SpawnOwner, SameSpawnOwners

(* Every step keeps one owner per chosen queue. *)
LEMMA OwnerStep ==
  ASSUME IInv, [Next]_vars
  PROVE  Owned'
<1> Owned
  BY DEF IInv, Owned
<1> USE ConstantsAssumption DEF IInv
<1>1. ASSUME NEW th \in Thread, NEW t \in Task, Push(th, t)
      PROVE  Owned'
  <2>1. pc[th] \in Client /\ found[th] = None /\ taskChosen' = taskChosen /\ spawned' = spawned
    BY <1>1 DEF Push, StackOK, Consistent, Client
  <2>2. Moved(th, "checkPause", QueueOf[t], "push", found[th], running[th])
    BY <1>1, PushMoves DEF StaysAt, GoesHome
  <2>3. SamePickOwners
    BY <2>1, <2>2, MovedPick DEF SamePickOwners, PickOwner, Client
  <2>4. SameRunOwners
    BY <2>2, MovedRun DEF SameRunOwners, RunOwner
  <2> QED
    BY <2>1, <2>3, <2>4, SameOwners, SpawnedSame
<1>2. ASSUME NEW th \in Thread, NEW q \in Queue, Pause(th, q)
      PROVE  Owned'
  <2>1. SamePickOwners /\ SameRunOwners
    BY <1>2 DEF Pause, stack, SamePickOwners, SameRunOwners, PickOwner, RunOwner
  <2> QED
    BY <1>2, <2>1, SameOwners, SpawnedSame DEF Pause
<1>3. ASSUME NEW th \in Thread, NEW q \in Queue, Resume(th, q)
      PROVE  Owned'
  <2>1. pc[th] \in Client /\ found[th] = None /\ taskChosen' = taskChosen /\ spawned' = spawned
    BY <1>3 DEF Resume, StackOK, Consistent, Client
  <2>2. CASE pauseCount[q] = 1
    <3>1. Moved(th, "checkPause", q, "resume", found[th], running[th])
      BY <1>3, <2>2, ResumeMoves DEF StaysAt, GoesHome, TypeOK
    <3>2. SamePickOwners
      BY <2>1, <2>2, <3>1, MovedPick DEF SamePickOwners, PickOwner, Client
    <3>3. SameRunOwners
      BY <3>1, MovedRun DEF SameRunOwners, RunOwner
    <3> QED
      BY <2>1, <3>2, <3>3, SameOwners, SpawnedSame
  <2>3. CASE pauseCount[q] > 1
    <3>1. Moved(th, pc[th], queue[th], caller[th], found[th], running[th])
      BY <1>3, <2>3, ResumeMoves DEF StaysAt, GoesHome, TypeOK
    <3>2. SamePickOwners
      BY <2>1, <2>3, <3>1, MovedPick DEF SamePickOwners, PickOwner, Client
    <3>3. SameRunOwners
      BY <3>1, MovedRun DEF SameRunOwners, RunOwner
    <3> QED
      BY <2>1, <3>2, <3>3, SameOwners, SpawnedSame
  <2> QED
    BY <1>3, <2>2, <2>3 DEF Resume
<1>4. ASSUME NEW th \in Thread, Start(th)
      PROVE  Owned'
  <2> PICK t \in spawned : /\ pc[th] = "out"
                           /\ spawned' = spawned \ {t}
                           /\ Execute(th, t)
                           /\ UNCHANGED <<members, queue, caller, found, pushed>>
    BY <1>4 DEF Start
  <2> DEFINE q == QueueOf[t]
  <2>1. t \in Task /\ q \in Queue /\ t # None
    BY DEF TypeOK
  <2>2. Moved(th, "body", queue[th], caller[th], found[th], t)
    BY <2>1, StartMoves
  <2>3. queue[th] = None /\ found[th] = None /\ running[th] = None
    BY DEF StackOK, Consistent, Client
  <2>4. SamePickOwners
    BY <2>2, <2>3, MovedPick DEF SamePickOwners, PickOwner
  <2>5. GetsRun(th, q)
    BY <2>1, <2>2, <2>3, MovedRun DEF GetsRun, RunOwner
  <2>6. /\ \A p \in Queue : SpawnOwner(t, p) <=> p = q
        /\ \A u \in Task, p \in Queue : SpawnOwner(u, p)' <=> SpawnOwner(u, p) /\ u # t
    BY DEF SpawnOwner
  <2> QED
    BY <2>1, <2>4, <2>5, <2>6, SpawnToRun DEF members
<1>5. ASSUME NEW th \in Thread, CheckPause(th)
      PROVE  Owned'
  <2>1. pc[th] = "checkPause" /\ found[th] = None /\ taskChosen' = taskChosen /\ spawned' = spawned
    BY <1>5 DEF CheckPause, StackOK, Consistent, Client, members
  <2>2. CASE pauseCount[queue[th]] = 0
    <3>1. Moved(th, "acquire", queue[th], caller[th], found[th], running[th])
      BY <1>5, <2>2, CheckPauseMoves DEF StaysAt, GoesHome
    <3>2. SamePickOwners
      BY <2>1, <2>2, <3>1, MovedPick DEF SamePickOwners, PickOwner, Client
    <3>3. SameRunOwners
      BY <3>1, MovedRun DEF SameRunOwners, RunOwner
    <3> QED
      BY <2>1, <3>2, <3>3, SameOwners, SpawnedSame
  <2>3. CASE pauseCount[queue[th]] # 0
    <3>1. Moved(th, Home(th), None, None, None, running[th])
      BY <1>5, <2>3, CheckPauseMoves DEF StaysAt, GoesHome
    <3>2. SamePickOwners
      BY <2>1, <2>3, <3>1, MovedPick DEF SamePickOwners, PickOwner, Client
    <3>3. SameRunOwners
      BY <3>1, MovedRun DEF SameRunOwners, RunOwner
    <3> QED
      BY <2>1, <3>2, <3>3, SameOwners, SpawnedSame
  <2> QED
    BY <1>5, <2>2, <2>3 DEF CheckPause
<1>6. ASSUME NEW th \in Thread, Acquire(th)
      PROVE  Owned'
  <2>1. pc[th] = "acquire" /\ found[th] = None /\ taskChosen' = taskChosen /\ spawned' = spawned
    BY <1>6 DEF Acquire, StackOK, Consistent, Client
  <2>2. Moved(th, "choose", queue[th], caller[th], found[th], running[th])
    BY <1>6, AcquireMoves DEF StaysAt, GoesHome
  <2>3. SamePickOwners
    BY <2>1, <2>2, MovedPick DEF SamePickOwners, PickOwner, Client
  <2>4. SameRunOwners
    BY <2>2, MovedRun DEF SameRunOwners, RunOwner
  <2> QED
    BY <2>1, <2>3, <2>4, SameOwners, SpawnedSame
<1>7. ASSUME NEW th \in Thread, Choose(th)
      PROVE  Owned'
  <2> DEFINE q == queue[th]
  <2>1. /\ pc[th] = "choose" /\ q \in Queue /\ found[th] = None
        /\ taskChosen' = [taskChosen EXCEPT ![q] = TRUE]
        /\ spawned' = spawned
    BY <1>7 DEF Choose, TypeOK, StackOK, Consistent, Client
  <2>2. StaysAt(th, IF taskChosen[q] THEN "release" ELSE "pop")
    BY <1>7, ChooseMoves
  <2>3. SameRunOwners
    BY <2>2, MovedRun DEF StaysAt, SameRunOwners, RunOwner
  <2>4. CASE taskChosen[q]
    <3>1. taskChosen' = taskChosen
      BY <2>1, <2>4 DEF TypeOK
    <3>2. SamePickOwners
      BY <2>1, <2>2, <2>4, MovedPick DEF StaysAt, SamePickOwners, PickOwner
    <3> QED
      BY <2>1, <2>3, <3>1, <3>2, SameOwners, SpawnedSame
  <2>5. CASE ~taskChosen[q]
    <3>1. \A x \in Thread, p \in Queue :
            PickOwner(x, p)' <=> PickOwner(x, p) \/ (x = th /\ p = q)
      BY <2>1, <2>2, <2>5, MovedPick DEF StaysAt, PickOwner
    <3>2. taskChosen'[q] /\ \A p \in Queue \ {q} : taskChosen'[p] = taskChosen[p]
      BY <2>1 DEF TypeOK
    <3>3. q \in Queue /\ SameSpawnOwners
      BY <2>1, SpawnedSame
    <3> QED
      BY <2>3, <2>5, <3>1, <3>2, <3>3, FreeToPick
  <2> QED
    BY <2>4, <2>5
<1>8. ASSUME NEW th \in Thread, Pop(th)
      PROVE  Owned'
  <2> DEFINE q == queue[th]
  <2>1. /\ pc[th] = "pop" /\ q \in Queue /\ PickOwner(th, q)
        /\ taskChosen' = taskChosen /\ spawned' = spawned
    BY <1>8 DEF Pop, TypeOK, StackOK, Consistent, Client, PickOwner
  <2>2. CASE tasks[q] # <<>>
    <3>1. Head(tasks[q]) # None
      BY <2>1, <2>2 DEF TypeOK
    <3>2. Moved(th, "release", q, caller[th], Head(tasks[q]), running[th])
      BY <1>8, <2>2, PopMoves
    <3>3. SamePickOwners
      BY <2>1, <3>1, <3>2, MovedPick DEF SamePickOwners, PickOwner
    <3>4. SameRunOwners
      BY <3>2, MovedRun DEF SameRunOwners, RunOwner
    <3> QED
      BY <2>1, <3>3, <3>4, SameOwners, SpawnedSame
  <2>3. CASE tasks[q] = <<>>
    <3>1. Moved(th, "unchoose", q, caller[th], found[th], running[th])
      BY <1>8, <2>3, PopMoves DEF StaysAt
    <3>2. SamePickOwners
      BY <2>1, <3>1, MovedPick DEF SamePickOwners, PickOwner
    <3>3. SameRunOwners
      BY <3>1, MovedRun DEF SameRunOwners, RunOwner
    <3> QED
      BY <2>1, <3>2, <3>3, SameOwners, SpawnedSame
  <2> QED
    BY <2>2, <2>3
<1>9. ASSUME NEW th \in Thread, Unchoose(th)
      PROVE  Owned'
  <2> DEFINE q == queue[th]
  <2>1. /\ pc[th] = "unchoose" /\ q \in Queue /\ found[th] = None
        /\ taskChosen' = [taskChosen EXCEPT ![q] = FALSE]
        /\ spawned' = spawned
    BY <1>9 DEF Unchoose, TypeOK, StackOK, Consistent, Client
  <2>2. Moved(th, "release", q, caller[th], found[th], running[th])
    BY <1>9, UnchooseMoves DEF StaysAt
  <2>3. SameRunOwners
    BY <2>2, MovedRun DEF SameRunOwners, RunOwner
  <2>4. LosesPick(th, q)
    BY <2>1, <2>2, MovedPick DEF LosesPick, PickOwner
  <2>5. ~taskChosen'[q] /\ \A p \in Queue \ {q} : taskChosen'[p] = taskChosen[p]
    BY <2>1 DEF TypeOK
  <2> QED
    BY <2>1, <2>3, <2>4, <2>5, PickToFree, SpawnedSame
<1>10. ASSUME NEW th \in Thread, Release(th)
      PROVE  Owned'
  <2>1. pc[th] = "release" /\ taskChosen' = taskChosen /\ spawned' = spawned
    BY <1>10 DEF Release, StackOK, Consistent, Client
  <2>2. CASE found[th] = None
    <3>1. Moved(th, Home(th), None, None, None, running[th])
      BY <1>10, <2>2, ReleaseMoves DEF StaysAt, GoesHome
    <3>2. SamePickOwners
      BY <2>1, <2>2, <3>1, MovedPick DEF SamePickOwners, PickOwner, Client
    <3>3. SameRunOwners
      BY <3>1, MovedRun DEF SameRunOwners, RunOwner
    <3> QED
      BY <2>1, <3>2, <3>3, SameOwners, SpawnedSame
  <2>3. CASE found[th] # None
    <3>1. Moved(th, "dispatch", queue[th], caller[th], found[th], running[th])
      BY <1>10, <2>3, ReleaseMoves DEF StaysAt, GoesHome
    <3>2. SamePickOwners
      BY <2>1, <2>3, <3>1, MovedPick DEF SamePickOwners, PickOwner, Client
    <3>3. SameRunOwners
      BY <3>1, MovedRun DEF SameRunOwners, RunOwner
    <3> QED
      BY <2>1, <3>2, <3>3, SameOwners, SpawnedSame
  <2> QED
    BY <1>10, <2>2, <2>3 DEF Release
<1>11. ASSUME NEW th \in Thread, Spawn(th)
      PROVE  Owned'
  <2> DEFINE q == queue[th]
             t == found[th]
  <2>1. /\ pc[th] = "dispatch" /\ t \in Task /\ t # None
        /\ q \in Queue /\ QueueOf[t] = q
        /\ taskChosen' = taskChosen /\ spawned' = spawned \cup {t}
    BY <1>11 DEF Spawn, members, TypeOK, StackOK, Consistent, Client
  <2>2. Moved(th, Home(th), None, None, None, running[th])
    BY <1>11, SpawnMoves DEF GoesHome
  <2>3. SameRunOwners
    BY <2>2, MovedRun DEF SameRunOwners, RunOwner
  <2>4. LosesPick(th, q)
    BY <2>1, <2>2, MovedPick DEF LosesPick, PickOwner
  <2>5. \A u \in Task, p \in Queue :
          SpawnOwner(u, p)' <=> SpawnOwner(u, p) \/ (u = t /\ p = q)
    BY <2>1 DEF SpawnOwner
  <2> QED
    BY <2>1, <2>3, <2>4, <2>5, PickToSpawn
<1>12. ASSUME NEW th \in Thread, RunNext(th)
      PROVE  Owned'
  <2> DEFINE q == queue[th]
             t == found[th]
  <2>1. /\ pc[th] = "dispatch" /\ t \in Task /\ t # None /\ running[th] = None
        /\ q \in Queue /\ QueueOf[t] = q
        /\ taskChosen' = taskChosen /\ spawned' = spawned
    BY <1>12 DEF RunNext, StaysInLoop, members, TypeOK, StackOK, Consistent,
       Client
  <2>2. Moved(th, "body", None, None, None, t)
    BY <1>12, RunNextMoves
  <2>3. GetsRun(th, q)
    BY <2>1, <2>2, MovedRun DEF GetsRun, RunOwner
  <2>4. LosesPick(th, q)
    BY <2>1, <2>2, MovedPick DEF LosesPick, PickOwner
  <2> QED
    BY <2>1, <2>3, <2>4, PickToRun, SpawnedSame
<1>13. ASSUME NEW th \in Thread, FinishTask(th)
      PROVE  Owned'
  <2> DEFINE q == QueueOf[running[th]]
  <2>1. /\ pc[th] = "body" /\ running[th] # None /\ q \in Queue
        /\ queue[th] = None /\ found[th] = None
        /\ taskChosen' = [taskChosen EXCEPT ![q] = FALSE] /\ spawned' = spawned
    BY <1>13 DEF FinishTask, TypeOK, StackOK, Consistent, Client
  <2>2. Moved(th, "checkPause", q, "finishedTask", found[th], None)
    BY <1>13, FinishTaskMoves
  <2>3. SamePickOwners
    BY <2>1, <2>2, MovedPick DEF SamePickOwners, PickOwner
  <2>4. /\ \A p \in Queue : RunOwner(th, p) <=> p = q
        /\ \A x \in Thread, p \in Queue : RunOwner(x, p)' <=> RunOwner(x, p) /\ x # th
    BY <2>1, <2>2, MovedRun DEF RunOwner
  <2>5. ~taskChosen'[q] /\ \A p \in Queue \ {q} : taskChosen'[p] = taskChosen[p]
    BY <2>1 DEF TypeOK
  <2> QED
    BY <2>1, <2>3, <2>4, <2>5, RunToFree, SpawnedSame
<1>14. CASE UNCHANGED vars
  <2>1. SamePickOwners /\ SameRunOwners
    BY <1>14 DEF vars, SamePickOwners, SameRunOwners, PickOwner, RunOwner
  <2> QED
    BY <1>14, <2>1, SameOwners, SpawnedSame DEF vars
<1> QED
  BY <1>1, <1>2, <1>3, <1>4, <1>5, <1>6, <1>7, <1>8, <1>9, <1>10, <1>11, <1>12,
     <1>13, <1>14 DEF Next, ClientCall, Internal, Pick

----------------------------------------------------------------------------
(* Somebody stays responsible for a line that is not empty.                *)

(* Which threads look into a queue after one of them has moved. *)
LEMMA MovedLooks ==
  ASSUME NEW th \in Thread, NEW loc, NEW q, NEW f, NEW tk, NEW run,
         Moved(th, loc, q, f, tk, run)
  PROVE  \A x \in Thread, p \in Queue :
           Looks(x, p)' <=>
             IF x = th THEN /\ q = p
                            /\ \/ loc \in {"checkPause", "acquire", "choose", "pop"}
                               \/ tk # None
                       ELSE Looks(x, p)
BY DEF Moved, Looks

(* Nobody at p gives up a responsibility. *)
LEMMA ResponsibleKept ==
  ASSUME SomeoneResponsible, NEW p \in Queue, tasks[p] # <<>>, pauseCount[p] = 0,
         \A x \in Thread : Looks(x, p) => Looks(x, p)' \/ RunOwner(x, p)',
         \A x \in Thread : RunOwner(x, p) => RunOwner(x, p)' \/ Looks(x, p)',
         \A t \in Task : SpawnOwner(t, p) => SpawnOwner(t, p)'
  PROVE  Responsible(p)'
BY DEF SomeoneResponsible, Responsible

(* Every step leaves somebody responsible for a line not empty. *)
LEMMA ResponsibleStep ==
  ASSUME IInv, [Next]_vars
  PROVE  SomeoneResponsible'
<1> SUFFICES ASSUME NEW p \in Queue, tasks'[p] # <<>>, pauseCount'[p] = 0
             PROVE  Responsible(p)'
  BY DEF SomeoneResponsible
<1> USE ConstantsAssumption DEF IInv
<1>1. ASSUME NEW th \in Thread, NEW t \in Task, Push(th, t)
      PROVE  Responsible(p)'
  <2>1. /\ found[th] = None /\ queue[th] = None /\ spawned' = spawned
        /\ pauseCount' = pauseCount /\ tasks' = [tasks EXCEPT ![QueueOf[t]] = Append(@, t)]
    BY <1>1 DEF Push, StackOK, Consistent
  <2>2. Moved(th, "checkPause", QueueOf[t], "push", found[th], running[th])
    BY <1>1, PushMoves
  <2>3. CASE p = QueueOf[t]
    BY <2>2, <2>3, MovedLooks DEF Responsible
  <2>4. CASE p # QueueOf[t]
    <3>1. tasks[p] # <<>> /\ pauseCount[p] = 0
      BY <2>1, <2>4 DEF TypeOK
    <3>2. \A x \in Thread : Looks(x, p) => Looks(x, p)'
      BY <2>1, <2>2, MovedLooks DEF Looks
    <3>3. \A x \in Thread : RunOwner(x, p) => RunOwner(x, p)'
      BY <2>2, MovedRun DEF RunOwner
    <3> QED
      BY <2>1, <3>1, <3>2, <3>3, ResponsibleKept DEF SpawnOwner
  <2> QED
    BY <2>3, <2>4
<1>2. ASSUME NEW th \in Thread, NEW q \in Queue, Pause(th, q)
      PROVE  Responsible(p)'
  <2>1. tasks' = tasks /\ UNCHANGED <<stack, spawned>>
    BY <1>2 DEF Pause
  <2>2. pauseCount[p] = 0
    BY <1>2 DEF Pause, TypeOK
  <2>3. Responsible(p)
    BY <2>1, <2>2 DEF SomeoneResponsible
  <2> QED
    BY <2>1, <2>3 DEF stack, Responsible, Looks, RunOwner, SpawnOwner
<1>3. ASSUME NEW th \in Thread, NEW q \in Queue, Resume(th, q)
      PROVE  Responsible(p)'
  <2>1. /\ found[th] = None /\ queue[th] = None /\ spawned' = spawned
        /\ tasks' = tasks /\ pauseCount' = [pauseCount EXCEPT ![q] = @ - 1]
    BY <1>3 DEF Resume, StackOK, Consistent
  <2>2. CASE pauseCount[q] = 1
    <3>1. Moved(th, "checkPause", q, "resume", found[th], running[th])
      BY <1>3, <2>2, ResumeMoves
    <3>2. CASE p = q
      BY <3>1, <3>2, MovedLooks DEF Responsible
    <3>3. CASE p # q
      <4>1. tasks[p] # <<>> /\ pauseCount[p] = 0
        BY <2>1, <3>3 DEF TypeOK
      <4>2. \A x \in Thread : Looks(x, p) => Looks(x, p)'
        BY <2>1, <3>1, MovedLooks DEF Looks
      <4>3. \A x \in Thread : RunOwner(x, p) => RunOwner(x, p)'
        BY <3>1, MovedRun DEF RunOwner
      <4> QED
        BY <2>1, <4>1, <4>2, <4>3, ResponsibleKept DEF SpawnOwner
    <3> QED
      BY <3>2, <3>3
  <2>3. CASE pauseCount[q] > 1
    <3>1. StaysAt(th, pc[th])
      BY <1>3, <2>3, ResumeMoves DEF TypeOK
    <3>2. pauseCount[p] = 0
      BY <2>1, <2>3 DEF TypeOK
    <3>3. \A x \in Thread : Looks(x, p) => Looks(x, p)'
      BY <3>1, MovedLooks DEF StaysAt, Looks
    <3>4. \A x \in Thread : RunOwner(x, p) => RunOwner(x, p)'
      BY <3>1, MovedRun DEF StaysAt, RunOwner
    <3> QED
      BY <2>1, <3>2, <3>3, <3>4, ResponsibleKept DEF SpawnOwner
  <2> QED
    BY <1>3, <2>2, <2>3 DEF Resume
<1>4. ASSUME NEW th \in Thread, Start(th)
      PROVE  Responsible(p)'
  <2> PICK t \in spawned : /\ pc[th] = "out"
                           /\ spawned' = spawned \ {t}
                           /\ Execute(th, t)
                           /\ UNCHANGED <<members, queue, caller, found, pushed>>
    BY <1>4 DEF Start
  <2>1. t \in Task /\ t # None
    BY DEF TypeOK
  <2>2. Moved(th, "body", queue[th], caller[th], found[th], t)
    BY <2>1, StartMoves
  <2>3. queue[th] = None /\ found[th] = None /\ running[th] = None
    BY DEF StackOK, Consistent, Client
  <2>4. CASE p = QueueOf[t]
    BY <2>1, <2>2, <2>4, MovedRun DEF Responsible
  <2>5. CASE p # QueueOf[t]
    <3>1. \A x \in Thread : Looks(x, p) => Looks(x, p)'
      BY <2>2, <2>3, MovedLooks DEF Looks
    <3>2. \A x \in Thread : RunOwner(x, p) => RunOwner(x, p)'
      BY <2>2, <2>3, MovedRun DEF RunOwner
    <3>3. \A u \in Task : SpawnOwner(u, p) => SpawnOwner(u, p)'
      BY <2>5 DEF SpawnOwner
    <3> QED
      BY <3>1, <3>2, <3>3, ResponsibleKept DEF members
  <2> QED
    BY <2>4, <2>5
<1>5. ASSUME NEW th \in Thread, CheckPause(th)
      PROVE  Responsible(p)'
  <2> DEFINE q == queue[th]
  <2>1. /\ pc[th] = "checkPause" /\ tasks' = tasks /\ pauseCount' = pauseCount
        /\ spawned' = spawned
    BY <1>5 DEF CheckPause, members
  <2>2. PICK loc, r, f, tk :
          /\ Moved(th, loc, r, f, tk, running[th])
          /\ p = q => loc = "acquire" /\ r = q
    BY <1>5, <2>1, CheckPauseMoves DEF StaysAt, GoesHome
  <2>3. \A x \in Thread : Looks(x, p) => Looks(x, p)'
    BY <2>2, MovedLooks DEF Looks
  <2>4. \A x \in Thread : RunOwner(x, p) => RunOwner(x, p)'
    BY <2>2, MovedRun DEF RunOwner
  <2> QED
    BY <2>1, <2>3, <2>4, ResponsibleKept DEF SpawnOwner
<1>6. ASSUME NEW th \in Thread, Acquire(th)
      PROVE  Responsible(p)'
  <2>1. /\ pc[th] = "acquire" /\ tasks' = tasks
        /\ pauseCount' = pauseCount /\ spawned' = spawned
    BY <1>6 DEF Acquire
  <2>2. Moved(th, "choose", queue[th], caller[th], found[th], running[th])
    BY <1>6, AcquireMoves DEF StaysAt
  <2>3. \A x \in Thread : Looks(x, p) => Looks(x, p)'
    BY <2>1, <2>2, MovedLooks DEF Looks
  <2>4. \A x \in Thread : RunOwner(x, p) => RunOwner(x, p)'
    BY <2>2, MovedRun DEF RunOwner
  <2> QED
    BY <2>1, <2>3, <2>4, ResponsibleKept DEF SpawnOwner
<1>7. ASSUME NEW th \in Thread, Choose(th)
      PROVE  Responsible(p)'
  <2> DEFINE q == queue[th]
  <2>1. /\ pc[th] = "choose" /\ q \in Queue /\ found[th] = None
        /\ tasks' = tasks /\ pauseCount' = pauseCount /\ spawned' = spawned
    BY <1>7 DEF Choose, TypeOK, StackOK, Consistent, Client
  <2>2. StaysAt(th, IF taskChosen[q] THEN "release" ELSE "pop")
    BY <1>7, ChooseMoves
  <2>3. \A x \in Thread : RunOwner(x, p) => RunOwner(x, p)'
    BY <2>2, MovedRun DEF StaysAt, RunOwner
  <2>4. \A t \in Task : SpawnOwner(t, p) => SpawnOwner(t, p)'
    BY <2>1 DEF SpawnOwner
  <2>5. CASE taskChosen[q] /\ p = q
    <3>1. ASSUME NEW x \in Thread, PickOwner(x, q)
          PROVE  x # th /\ found[x] # None
      BY <2>1, <3>1 DEF PickOwner, PickLocked, Picking
    <3>2. \A x \in Thread : PickOwner(x, q) => Looks(x, p)'
      BY <2>2, <2>5, <3>1, MovedLooks DEF StaysAt, Looks, PickOwner
    <3>3. \/ \E x \in Thread : PickOwner(x, q) \/ RunOwner(x, q)
          \/ \E t \in Task : SpawnOwner(t, q)
      BY <2>1, <2>5 DEF OneOwner
    <3> QED
      BY <2>3, <2>4, <2>5, <3>2, <3>3 DEF Responsible
  <2>6. CASE ~(taskChosen[q] /\ p = q)
    <3>1. \A x \in Thread : Looks(x, p) => Looks(x, p)'
      BY <2>1, <2>2, <2>6, MovedLooks DEF StaysAt, Looks
    <3> QED
      BY <2>1, <2>3, <2>4, <3>1, ResponsibleKept
  <2> QED
    BY <2>5, <2>6
<1>8. ASSUME NEW th \in Thread, Pop(th)
      PROVE  Responsible(p)'
  <2> DEFINE q == queue[th]
  <2>1. /\ pc[th] = "pop" /\ q \in Queue
        /\ pauseCount' = pauseCount /\ spawned' = spawned
    BY <1>8 DEF Pop, TypeOK, StackOK, Consistent, Client
  <2>2. CASE tasks[q] # <<>> /\ p = q
    <3>1. Head(tasks[q]) # None
      BY <2>1, <2>2 DEF TypeOK
    <3>2. Moved(th, "release", q, caller[th], Head(tasks[q]), running[th])
      BY <1>8, <2>2, PopMoves
    <3> QED
      BY <2>2, <3>1, <3>2, MovedLooks DEF Responsible
  <2>3. CASE p # q
    <3>1. tasks'[p] = tasks[p]
      BY <1>8, <2>1, <2>3 DEF Pop, TypeOK
    <3>2. PICK loc, tk : Moved(th, loc, q, caller[th], tk, running[th])
      BY <1>8, PopMoves DEF StaysAt
    <3>3. \A x \in Thread : Looks(x, p) => Looks(x, p)'
      BY <2>3, <3>2, MovedLooks DEF Looks
    <3>4. \A x \in Thread : RunOwner(x, p) => RunOwner(x, p)'
      BY <3>2, MovedRun DEF RunOwner
    <3> QED
      BY <2>1, <3>1, <3>3, <3>4, ResponsibleKept DEF SpawnOwner
  <2>4. CASE tasks[q] = <<>> /\ p = q
    BY <1>8, <2>4 DEF Pop
  <2> QED
    BY <2>2, <2>3, <2>4
<1>9. ASSUME NEW th \in Thread, Unchoose(th)
      PROVE  Responsible(p)'
  <2>1. /\ pc[th] = "unchoose" /\ found[th] = None /\ tasks' = tasks
        /\ pauseCount' = pauseCount /\ spawned' = spawned
    BY <1>9 DEF Unchoose, StackOK, Consistent
  <2>2. Moved(th, "release", queue[th], caller[th], found[th], running[th])
    BY <1>9, UnchooseMoves DEF StaysAt
  <2>3. \A x \in Thread : Looks(x, p) => Looks(x, p)'
    BY <2>1, <2>2, MovedLooks DEF Looks
  <2>4. \A x \in Thread : RunOwner(x, p) => RunOwner(x, p)'
    BY <2>2, MovedRun DEF RunOwner
  <2> QED
    BY <2>1, <2>3, <2>4, ResponsibleKept DEF SpawnOwner
<1>10. ASSUME NEW th \in Thread, Release(th)
      PROVE  Responsible(p)'
  <2>1. /\ pc[th] = "release" /\ tasks' = tasks /\ pauseCount' = pauseCount
        /\ spawned' = spawned
    BY <1>10 DEF Release
  <2>2. PICK loc, r, f, tk :
          /\ Moved(th, loc, r, f, tk, running[th])
          /\ found[th] # None => r = queue[th] /\ tk = found[th]
    BY <1>10, ReleaseMoves DEF StaysAt, GoesHome
  <2>3. \A x \in Thread : Looks(x, p) => Looks(x, p)'
    BY <2>1, <2>2, MovedLooks DEF Looks
  <2>4. \A x \in Thread : RunOwner(x, p) => RunOwner(x, p)'
    BY <2>2, MovedRun DEF RunOwner
  <2> QED
    BY <2>1, <2>3, <2>4, ResponsibleKept DEF SpawnOwner
<1>11. ASSUME NEW th \in Thread, Spawn(th)
      PROVE  Responsible(p)'
  <2> DEFINE q == queue[th]
             t == found[th]
  <2>1. /\ t \in Task /\ QueueOf[t] = q /\ tasks' = tasks
        /\ pauseCount' = pauseCount /\ spawned' = spawned \cup {t}
    BY <1>11 DEF Spawn, members, TypeOK, StackOK, Consistent
  <2>2. Moved(th, Home(th), None, None, None, running[th])
    BY <1>11, SpawnMoves DEF GoesHome
  <2>3. CASE p = q
    BY <2>1, <2>3 DEF Responsible, SpawnOwner
  <2>4. CASE p # q
    <3>1. \A x \in Thread : Looks(x, p) => Looks(x, p)'
      BY <2>2, <2>4, MovedLooks DEF Looks
    <3>2. \A x \in Thread : RunOwner(x, p) => RunOwner(x, p)'
      BY <2>2, MovedRun DEF RunOwner
    <3> QED
      BY <2>1, <3>1, <3>2, ResponsibleKept DEF SpawnOwner
  <2> QED
    BY <2>3, <2>4
<1>12. ASSUME NEW th \in Thread, RunNext(th)
      PROVE  Responsible(p)'
  <2> DEFINE q == queue[th]
             t == found[th]
  <2>1. /\ t # None /\ QueueOf[t] = q /\ running[th] = None /\ tasks' = tasks
        /\ pauseCount' = pauseCount /\ spawned' = spawned
    BY <1>12 DEF RunNext, StaysInLoop, members, StackOK, Consistent
  <2>2. Moved(th, "body", None, None, None, t)
    BY <1>12, RunNextMoves
  <2>3. \A x \in Thread : Looks(x, p) => Looks(x, p)' \/ RunOwner(x, p)'
    BY <2>1, <2>2, MovedLooks, MovedRun DEF Looks
  <2>4. \A x \in Thread : RunOwner(x, p) => RunOwner(x, p)'
    BY <2>1, <2>2, MovedRun DEF RunOwner
  <2> QED
    BY <2>1, <2>3, <2>4, ResponsibleKept DEF SpawnOwner
<1>13. ASSUME NEW th \in Thread, FinishTask(th)
      PROVE  Responsible(p)'
  <2> DEFINE q == QueueOf[running[th]]
  <2>1. /\ queue[th] = None /\ tasks' = tasks /\ pauseCount' = pauseCount
        /\ spawned' = spawned
    BY <1>13 DEF FinishTask, StackOK, Consistent, Client
  <2>2. Moved(th, "checkPause", q, "finishedTask", found[th], None)
    BY <1>13, FinishTaskMoves
  <2>3. \A x \in Thread : Looks(x, p) => Looks(x, p)'
    BY <2>1, <2>2, MovedLooks DEF Looks
  <2>4. \A x \in Thread : RunOwner(x, p) => RunOwner(x, p)' \/ Looks(x, p)'
    BY <2>2, MovedRun, MovedLooks DEF RunOwner
  <2> QED
    BY <2>1, <2>3, <2>4, ResponsibleKept DEF SpawnOwner
<1>14. CASE UNCHANGED vars
  <2>1. Responsible(p)
    BY <1>14 DEF vars, SomeoneResponsible
  <2> QED
    BY <1>14, <2>1 DEF vars, Responsible, Looks, RunOwner, SpawnOwner
<1> QED
  BY <1>1, <1>2, <1>3, <1>4, <1>5, <1>6, <1>7, <1>8, <1>9, <1>10, <1>11, <1>12,
     <1>13, <1>14 DEF Next, ClientCall, Internal, Pick

----------------------------------------------------------------------------
(* The inductive invariant holds at the start. *)
LEMMA InitIInv ==
  Init => IInv
<1> SUFFICES ASSUME Init
             PROVE  IInv
  OBVIOUS
<1> USE ConstantsAssumption DEF Init
<1>1. TypeOK
  BY Locations DEF TypeOK
<1>2. StackOK /\ PickLocked
  BY DEF StackOK, Consistent, PickLocked, Client, Picking
<1>3. TasksOfQueue
  BY DEF TasksOfQueue
<1>4. \A q \in Queue : OneOwner(q)
  BY DEF OneOwner, PickOwner, RunOwner, SpawnOwner
<1>5. SomeoneResponsible
  BY DEF SomeoneResponsible
<1> QED
  BY <1>1, <1>2, <1>3, <1>4, <1>5 DEF IInv

(* Every step preserves the inductive invariant. *)
LEMMA NextIInv ==
  IInv /\ [Next]_vars => IInv'
<1> SUFFICES ASSUME IInv, [Next]_vars
             PROVE  IInv'
  OBVIOUS
<1>1. TypeOK'
  BY TypeStep DEF IInv
<1>2. (\A q \in Queue : OneOwner(q))'
  BY OwnerStep DEF Owned
<1> QED
  BY <1>1, <1>2, StackStep, TasksStep, LockStep, ResponsibleStep DEF IInv

(* The inductive invariant holds in every reachable state. *)
THEOREM Invariance ==
  Spec => []IInv
BY InitIInv, NextIInv, PTL DEF Spec

(* The variables keep their types. *)
THEOREM TypeCorrect ==
  Spec => []TypeOK
<1>1. IInv => TypeOK
  BY DEF IInv
<1> QED
  BY <1>1, Invariance, PTL

(* Two tasks of one queue never execute at the same time. *)
THEOREM MutualExclusion ==
  Spec => []OneAtATime
<1>1. IInv => OneAtATime
  <2> SUFFICES ASSUME IInv, NEW a \in Thread, NEW b \in Thread, a # b,
                      running[a] # None, running[b] # None,
                      QueueOf[running[a]] = QueueOf[running[b]]
               PROVE  FALSE
    BY DEF OneAtATime
  <2> DEFINE q == QueueOf[running[a]]
  <2>1. q \in Queue /\ RunOwner(a, q) /\ RunOwner(b, q)
    BY ConstantsAssumption DEF IInv, TypeOK, RunOwner
  <2> QED
    BY <2>1 DEF IInv, OneOwner
<1> QED
  BY <1>1, Invariance, PTL

(* m_taskChosen stands for exactly one owner, and is never left behind.    *)
THEOREM ChosenFlagOwned ==
  Spec => []FlagHasOneOwner
<1>1. IInv => FlagHasOneOwner
  <2> SUFFICES ASSUME IInv, NEW q \in Queue
               PROVE  IF taskChosen[q] THEN \E o \in Owners(q) : Owners(q) = {o}
                                       ELSE Owners(q) = {}
    BY DEF FlagHasOneOwner
  <2>1. OneOwner(q)
    BY DEF IInv
  <2>2. CASE ~taskChosen[q]
    BY <2>1, <2>2 DEF OneOwner, Owners
  <2>3. CASE taskChosen[q]
    <3>1. CASE \E th \in Thread : PickOwner(th, q)
      <4>1. PICK th \in Thread : PickOwner(th, q)
        BY <3>1
      <4>2. Owners(q) = {<<"pick", th>>}
        BY <2>1, <4>1 DEF OneOwner, Owners
      <4> QED
        BY <2>3, <4>2
    <3>2. CASE \E th \in Thread : RunOwner(th, q)
      <4>1. PICK th \in Thread : RunOwner(th, q)
        BY <3>2
      <4>2. Owners(q) = {<<"run", th>>}
        BY <2>1, <4>1 DEF OneOwner, Owners
      <4> QED
        BY <2>3, <4>2
    <3>3. CASE \E t \in Task : SpawnOwner(t, q)
      <4>1. PICK t \in Task : SpawnOwner(t, q)
        BY <3>3
      <4>2. Owners(q) = {<<"spawn", t>>}
        BY <2>1, <4>1 DEF OneOwner, Owners
      <4> QED
        BY <2>3, <4>2
    <3> QED
      BY <2>1, <2>3, <3>1, <3>2, <3>3 DEF OneOwner
  <2> QED
    BY <2>2, <2>3
<1> QED
  BY <1>1, Invariance, PTL

(* A queue that nobody is responsible for has nothing in line. *)
LEMMA OpenIdleIsEmpty ==
  ASSUME IInv, NEW q \in Queue, Idle(q), pauseCount[q] = 0
  PROVE  tasks[q] = <<>>
<1> SUFFICES ASSUME tasks[q] # <<>>
             PROVE  FALSE
  OBVIOUS
<1>1. Responsible(q)
  BY DEF IInv, SomeoneResponsible
<1>2. ASSUME NEW th \in Thread
      PROVE  ~Looks(th, q) /\ ~RunOwner(th, q)
  <2>1. ~Looks(th, q)
    BY DEF Idle, Looks
  <2>2. ~RunOwner(th, q)
    BY DEF Idle, Owners
  <2> QED
    BY <2>1, <2>2
<1>3. \A t \in Task : ~SpawnOwner(t, q)
  BY DEF Idle, Owners
<1> QED
  BY <1>1, <1>2, <1>3 DEF Responsible

(* No push is overlooked. *)
THEOREM NothingStranded ==
  Spec => []NoStrandedTask
<1>1. IInv => NoStrandedTask
  BY OpenIdleIsEmpty DEF NoStrandedTask
<1> QED
  BY <1>1, Invariance, PTL

----------------------------------------------------------------------------
(* Order, and pauses                                                       *)

(* An element that is appended to the second part is appended to the whole. *)
LEMMA AppendShift ==
  ASSUME NEW s \in Seq(Task), NEW t \in Seq(Task), NEW e \in Task
  PROVE  Append(s \o t, e) = s \o Append(t, e)
<1>1. /\ Append(s \o t, e) \in Seq(Task) /\ s \o Append(t, e) \in Seq(Task)
      /\ Len(Append(s \o t, e)) = Len(s) + Len(t) + 1
      /\ Len(s \o Append(t, e)) = Len(s) + Len(t) + 1
  BY ConcatProperties
<1>2. \A i \in 1..(Len(s) + Len(t) + 1) : Append(s \o t, e)[i] = (s \o Append(t, e))[i]
  BY ConcatProperties
<1> QED
  BY <1>1, <1>2, SeqEqual

(* The head of the second part goes to the end of the first. *)
LEMMA HeadShift ==
  ASSUME NEW s \in Seq(Task), NEW t \in Seq(Task), t # <<>>
  PROVE  s \o t = Append(s, Head(t)) \o Tail(t)
<1> DEFINE u == Append(s, Head(t))
<1>1. /\ Head(t) \in Task /\ Tail(t) \in Seq(Task) /\ Len(Tail(t)) = Len(t) - 1
      /\ \A i \in 1..Len(Tail(t)) : Tail(t)[i] = t[i + 1]
  BY HeadTailProperties
<1>2. u \in Seq(Task) /\ Len(u) = Len(s) + 1
  BY <1>1
<1>3. /\ s \o t \in Seq(Task) /\ Len(s \o t) = Len(s) + Len(t)
      /\ u \o Tail(t) \in Seq(Task) /\ Len(u \o Tail(t)) = Len(s) + Len(t)
  <2>1. s \o t \in Seq(Task) /\ Len(s \o t) = Len(s) + Len(t)
    BY ConcatProperties
  <2>2. u \o Tail(t) \in Seq(Task) /\ Len(u \o Tail(t)) = Len(u) + Len(Tail(t))
    <3> HIDE DEF u
    <3> QED
      BY <1>1, <1>2, ConcatProperties
  <2> QED
    BY <1>1, <1>2, <2>1, <2>2
<1>4. ASSUME NEW i \in 1..(Len(s) + Len(t))
      PROVE  (s \o t)[i] = (u \o Tail(t))[i]
  <2>1. (s \o t)[i] = IF i <= Len(s) THEN s[i] ELSE t[i - Len(s)]
    BY ConcatProperties
  <2>2. (u \o Tail(t))[i] = IF i <= Len(u) THEN u[i] ELSE Tail(t)[i - Len(u)]
    <3>1. i \in 1..(Len(u) + Len(Tail(t)))
      BY <1>1, <1>2
    <3> HIDE DEF u
    <3> QED
      BY <1>1, <1>2, <3>1, ConcatProperties
  <2>3. CASE i <= Len(s)
    BY <1>1, <1>2, <2>1, <2>2, <2>3
  <2>4. CASE i = Len(s) + 1
    BY <1>1, <1>2, <2>1, <2>2, <2>4
  <2>5. CASE i > Len(s) + 1
    BY <1>1, <1>2, <2>1, <2>2, <2>5
  <2> QED
    BY <2>3, <2>4, <2>5
<1> QED
  BY <1>3, <1>4, SeqEqual

----------------------------------------------------------------------------
(* NothingLostNorReordered for one queue. *)
Line(q) ==
  \/ HandedOver(q) = {} /\ pushed[q] = executed[q] \o tasks[q]
  \/ \E t \in Task : /\ HandedOver(q) = {t}
                     /\ pushed[q] = Append(executed[q], t) \o tasks[q]

(* A thread that moves with empty hands, or stays in its queue with what   *)
(* it has found, hands nothing over.                                       *)
LEMMA SameHanded ==
  ASSUME TypeOK, NEW th \in Thread, NEW loc, NEW p, NEW f, NEW tk, NEW run,
         Moved(th, loc, p, f, tk, run), spawned' = spawned,
         \/ found[th] = None /\ tk = None
         \/ p = queue[th] /\ tk = found[th]
  PROVE  \A q \in Queue : HandedOver(q)' = HandedOver(q)
<1> SUFFICES ASSUME NEW q \in Queue, NEW t \in Task
             PROVE  (\E x \in Thread : queue'[x] = q /\ found'[x] = t)
                      <=> (\E x \in Thread : queue[x] = q /\ found[x] = t)
  BY DEF HandedOver, SpawnOwner
<1>1. t # None
  BY ConstantsAssumption
<1>2. \A x \in Thread : queue'[x] = q /\ found'[x] = t <=> queue[x] = q /\ found[x] = t
  BY <1>1 DEF Moved
<1> QED
  BY <1>2

(* The steps that take no task out of m_tasks and begin none. *)
KeepsHands(th) ==
  \/ \E t \in Task : Push(th, t)
  \/ \E p \in Queue : Pause(th, p) \/ Resume(th, p)
  \/ CheckPause(th) \/ Acquire(th) \/ Choose(th) \/ Unchoose(th) \/ Release(th)
  \/ Spawn(th) \/ FinishTask(th)

(* The task t begins, in a run lambda that starts or goes round its loop. *)
Begins(th, t) ==
  \/ /\ pc[th] = "out"
     /\ t \in spawned
     /\ spawned' = spawned \ {t}
     /\ Execute(th, t)
     /\ UNCHANGED <<members, queue, caller, found, pushed>>
  \/ RunNext(th) /\ t = found[th]

(* Every step is one of those, a pop, or begins a task. *)
LEMMA StepKinds ==
  ASSUME IInv, Next
  PROVE  \E th \in Thread : KeepsHands(th) \/ Pop(th) \/ \E t \in Task : Begins(th, t)
<1> PICK th \in Thread : ClientCall(th) \/ Start(th) \/ Internal(th) \/ FinishTask(th)
  BY DEF Next
<1>1. CASE Start(th)
  BY <1>1 DEF Start, Begins, IInv, TypeOK
<1>2. CASE RunNext(th)
  <2>1. found[th] \in Task
    BY <1>2 DEF RunNext, IInv, StackOK, Consistent, Client, TypeOK
  <2> QED
    BY <1>2, <2>1 DEF Begins
<1>3. CASE ClientCall(th) \/ Pick(th) \/ Spawn(th) \/ FinishTask(th)
  BY <1>3 DEF ClientCall, Pick, KeepsHands
<1> QED
  BY <1>1, <1>2, <1>3 DEF Internal

(* Most steps hand nothing over. *)
LEMMA SameHands ==
  ASSUME IInv, NEW th \in Thread, KeepsHands(th)
  PROVE  \A q \in Queue : HandedOver(q)' = HandedOver(q)
<1> USE ConstantsAssumption DEF IInv
<1>1. CASE \E t \in Task : Push(th, t)
  <2>1. found[th] = None /\ spawned' = spawned
    BY <1>1 DEF Push, StackOK, Consistent
  <2> QED
    BY <1>1, <2>1, PushMoves, SameHanded
<1>2. CASE \E p \in Queue : Pause(th, p)
  BY <1>2 DEF Pause, stack, HandedOver, SpawnOwner
<1>3. CASE \E p \in Queue : Resume(th, p)
  <2>1. found[th] = None /\ spawned' = spawned
    BY <1>3 DEF Resume, StackOK, Consistent
  <2> QED
    BY <1>3, <2>1, ResumeMoves, SameHanded DEF StaysAt
<1>4. CASE CheckPause(th)
  <2>1. found[th] = None /\ spawned' = spawned
    BY <1>4 DEF CheckPause, StackOK, Consistent, members
  <2> QED
    BY <1>4, <2>1, CheckPauseMoves, SameHanded DEF StaysAt, GoesHome
<1>5. CASE Acquire(th) \/ Choose(th) \/ Unchoose(th)
  <2>1. spawned' = spawned
    BY <1>5 DEF Acquire, Choose, Unchoose
  <2> QED
    BY <1>5, <2>1, AcquireMoves, ChooseMoves, UnchooseMoves, SameHanded DEF StaysAt
<1>6. CASE Release(th)
  <2>1. spawned' = spawned
    BY <1>6 DEF Release
  <2> QED
    BY <1>6, <2>1, ReleaseMoves, SameHanded DEF StaysAt, GoesHome
<1>7. CASE Spawn(th)
  <2>1. /\ queue[th] \in Queue /\ found[th] \in Task /\ found[th] # None
        /\ QueueOf[found[th]] = queue[th]
    BY <1>7 DEF Spawn, StackOK, Consistent, Client, TypeOK
  <2>2. /\ Moved(th, Home(th), None, None, None, running[th])
        /\ spawned' = spawned \cup {found[th]}
    BY <1>7, SpawnMoves DEF Spawn, GoesHome
  <2>3. ASSUME NEW q \in Queue, NEW u \in Task
        PROVE  u \in HandedOver(q)' <=> u \in HandedOver(q)
    <3>1. \A x \in Thread : queue'[x] = q /\ found'[x] = u
                              <=> x # th /\ queue[x] = q /\ found[x] = u
      BY <2>1, <2>2 DEF Moved
    <3>2. SpawnOwner(u, q)' <=> SpawnOwner(u, q) \/ (queue[th] = q /\ found[th] = u)
      BY <2>1, <2>2 DEF SpawnOwner
    <3> QED
      BY <3>1, <3>2 DEF HandedOver
  <2> QED
    BY <2>3 DEF HandedOver
<1>8. CASE FinishTask(th)
  <2>1. found[th] = None /\ spawned' = spawned
    BY <1>8 DEF FinishTask, StackOK, Consistent, Client
  <2> QED
    BY <1>8, <2>1, FinishTaskMoves, SameHanded
<1> QED
  BY <1>1, <1>2, <1>3, <1>4, <1>5, <1>6, <1>7, <1>8 DEF KeepsHands

(* A successful pop: its queue had no task handed over, and now has one. *)
LEMMA PopHands ==
  ASSUME IInv, NEW th \in Thread, Pop(th), NEW q, queue[th] = q, tasks[q] # <<>>,
         NEW t, t = Head(tasks[q])
  PROVE  /\ q \in Queue /\ t \in Task
         /\ HandedOver(q) = {} /\ HandedOver(q)' = {t}
         /\ \A p \in Queue \ {q} : HandedOver(p)' = HandedOver(p)
<1> USE ConstantsAssumption DEF IInv
<1>1. /\ pc[th] = "pop" /\ found[th] = None /\ q \in Queue /\ spawned' = spawned
  BY DEF Pop, StackOK, Consistent, Client, history, TypeOK
<1>2. t \in Task /\ t # None
  <2>1. tasks[q] \in Seq(Task)
    BY <1>1 DEF TypeOK
  <2> QED
    BY <2>1
<1>3. Moved(th, "release", q, caller[th], t, running[th])
  BY PopMoves
<1>4. HandedOver(q) = {}
  BY <1>1 DEF OneOwner, HandedOver, PickOwner, SpawnOwner
<1>5. /\ \A u \in Task : ~SpawnOwner(u, q)
      /\ \A x \in Thread, u \in Task : ~(queue[x] = q /\ found[x] = u)
  BY <1>4 DEF HandedOver
<1>6. \A x \in Thread, u \in Task : queue'[x] = q /\ found'[x] = u <=> x = th /\ u = t
  BY <1>2, <1>3, <1>5 DEF Moved
<1>7. HandedOver(q)' = {t}
  BY <1>1, <1>2, <1>5, <1>6 DEF HandedOver, SpawnOwner
<1>8. ASSUME NEW p \in Queue \ {q}
      PROVE  HandedOver(p)' = HandedOver(p)
  <2>1. \A x \in Thread, u \in Task : queue'[x] = p /\ found'[x] = u <=> queue[x] = p /\ found[x] = u
    BY <1>1, <1>3 DEF Moved
  <2> QED
    BY <1>1, <2>1 DEF HandedOver, SpawnOwner
<1> QED
  BY <1>1, <1>2, <1>4, <1>7, <1>8

(* A task that begins was the one handed over, and no other comes after it. *)
LEMMA BeginHands ==
  ASSUME IInv, NEW th \in Thread, NEW t \in Task, Begins(th, t)
  PROVE  /\ QueueOf[t] \in Queue
         /\ HandedOver(QueueOf[t]) = {t} /\ HandedOver(QueueOf[t])' = {}
         /\ \A p \in Queue \ {QueueOf[t]} : HandedOver(p)' = HandedOver(p)
<1> USE ConstantsAssumption DEF IInv
<1> DEFINE q == QueueOf[t]
<1>0. q \in Queue /\ t # None
  OBVIOUS
<1>1. CASE /\ pc[th] = "out" /\ t \in spawned /\ spawned' = spawned \ {t}
           /\ UNCHANGED <<queue, found>>
  <2>1. SpawnOwner(t, q)
    BY <1>1 DEF SpawnOwner
  <2>2. \A u \in Task : SpawnOwner(u, q) => u = t
    BY <1>0, <2>1 DEF OneOwner
  <2>3. \A x \in Thread : ~(queue[x] = q /\ found[x] # None)
    BY <1>0, <2>1 DEF OneOwner, PickOwner
  <2>4. \A x \in Thread, u \in Task : ~(queue[x] = q /\ found[x] = u)
    BY <2>3
  <2>5. HandedOver(q) = {t} /\ HandedOver(q)' = {}
    BY <1>1, <2>1, <2>2, <2>4 DEF HandedOver, SpawnOwner
  <2>6. \A p \in Queue \ {q} : HandedOver(p)' = HandedOver(p)
    BY <1>1 DEF HandedOver, SpawnOwner
  <2> QED
    BY <1>0, <2>5, <2>6
<1>2. CASE RunNext(th) /\ t = found[th]
  <2>1. q = queue[th]
    BY <1>2 DEF RunNext, StackOK, Consistent
  <2>2. Moved(th, "body", None, None, None, t) /\ spawned' = spawned
    BY <1>2, RunNextMoves DEF RunNext
  <2>3. \A x \in Thread, p \in Queue, u \in Task :
          queue'[x] = p /\ found'[x] = u <=> x # th /\ queue[x] = p /\ found[x] = u
    BY <2>2 DEF Moved
  <2>4. PickOwner(th, q)
    BY <1>0, <1>2, <2>1 DEF PickOwner
  <2>5. /\ \A u \in Task : ~SpawnOwner(u, q)
        /\ \A x \in Thread : queue[x] = q /\ found[x] # None => x = th
    BY <1>0, <2>4 DEF OneOwner, PickOwner
  <2>6. HandedOver(q) = {t} /\ HandedOver(q)' = {}
    BY <1>0, <1>2, <2>1, <2>2, <2>3, <2>5 DEF HandedOver, SpawnOwner
  <2>7. \A p \in Queue \ {q} : HandedOver(p)' = HandedOver(p)
    BY <1>2, <2>1, <2>2, <2>3 DEF HandedOver, SpawnOwner
  <2> QED
    BY <1>0, <2>6, <2>7
<1> QED
  BY <1>1, <1>2 DEF Begins

(* A step that leaves the line of a queue alone. *)
LEMMA SameLine ==
  ASSUME NEW q \in Queue, Line(q), HandedOver(q)' = HandedOver(q),
         pushed'[q] = pushed[q], executed'[q] = executed[q], tasks'[q] = tasks[q]
  PROVE  Line(q)'
BY DEF Line

(* A push adds to the end of the line. *)
LEMMA PushLine ==
  ASSUME IInv, NEW th \in Thread, NEW t \in Task, Push(th, t), NEW q \in Queue, Line(q)
  PROVE  Line(q)'
<1>1. HandedOver(q)' = HandedOver(q) /\ executed' = executed
  BY SameHands DEF KeepsHands, Push
<1>2. CASE QueueOf[t] = q
  <2>0. /\ pushed[q] \in Seq(Task) /\ executed[q] \in Seq(Task) /\ tasks[q] \in Seq(Task)
    BY DEF IInv, TypeOK
  <2>1. tasks'[q] = Append(tasks[q], t) /\ pushed'[q] = Append(pushed[q], t)
    BY <1>2 DEF Push, IInv, TypeOK
  <2>2. CASE HandedOver(q) = {} /\ pushed[q] = executed[q] \o tasks[q]
    <3>1. Append(executed[q] \o tasks[q], t) = executed[q] \o Append(tasks[q], t)
      BY ONLY <2>0, t \in Task, AppendShift
    <3> QED
      BY <1>1, <2>1, <2>2, <3>1 DEF Line
  <2>3. ASSUME NEW u \in Task, HandedOver(q) = {u},
               pushed[q] = Append(executed[q], u) \o tasks[q]
        PROVE  Line(q)'
    <3>1. Append(executed[q], u) \in Seq(Task)
      BY <2>0
    <3>2. Append(Append(executed[q], u) \o tasks[q], t)
            = Append(executed[q], u) \o Append(tasks[q], t)
      BY ONLY <2>0, <3>1, t \in Task, AppendShift
    <3> QED
      BY <1>1, <2>1, <2>3, <3>2 DEF Line
  <2> QED
    BY <2>2, <2>3 DEF Line
<1>3. CASE QueueOf[t] # q
  BY <1>1, <1>3, SameLine DEF Push, IInv, TypeOK
<1> QED
  BY <1>2, <1>3

(* Every step keeps the line of every queue in order. *)
LEMMA LineStep ==
  ASSUME IInv, [Next]_vars, NEW q \in Queue, Line(q)
  PROVE  Line(q)'
<1>0. /\ pushed[q] \in Seq(Task) /\ executed[q] \in Seq(Task) /\ tasks[q] \in Seq(Task)
  BY DEF IInv, TypeOK
<1>1. ASSUME NEW th \in Thread, KeepsHands(th)
      PROVE  Line(q)'
  <2>1. CASE \E t \in Task : Push(th, t)
    BY <2>1, PushLine
  <2>2. CASE ~\E t \in Task : Push(th, t)
    <3>1. pushed' = pushed /\ executed' = executed /\ tasks' = tasks
      BY <1>1, <2>2 DEF KeepsHands, Pause, Resume, CheckPause, Acquire, Choose,
                        Unchoose, Release, Spawn, FinishTask, history, members
    <3> QED
      BY <1>1, <3>1, SameHands, SameLine
  <2> QED
    BY <2>1, <2>2
<1>2. ASSUME NEW th \in Thread, Pop(th)
      PROVE  Line(q)'
  <2>1. pushed' = pushed /\ executed' = executed
    BY <1>2 DEF Pop, history
  <2>2. CASE tasks[queue[th]] = <<>>
    <3>1. StaysAt(th, "unchoose") /\ spawned' = spawned
      BY <1>2, <2>2, PopMoves DEF IInv, Pop
    <3>2. HandedOver(q)' = HandedOver(q)
      BY <3>1, SameHanded DEF StaysAt, IInv
    <3> QED
      BY <1>2, <2>1, <2>2, <3>2, SameLine DEF Pop
  <2>3. CASE tasks[queue[th]] # <<>> /\ queue[th] = q
    <3>1. HandedOver(q) = {} /\ HandedOver(q)' = {Head(tasks[q])} /\ Head(tasks[q]) \in Task
      BY <1>2, <2>3, PopHands
    <3>2. tasks'[q] = Tail(tasks[q])
      BY <1>2, <2>3 DEF Pop, IInv, TypeOK
    <3>3. pushed[q] = executed[q] \o tasks[q]
      BY <3>1 DEF Line
    <3>4. executed[q] \o tasks[q] = Append(executed[q], Head(tasks[q])) \o Tail(tasks[q])
      BY <1>0, <2>3, HeadShift
    <3> QED
      BY <2>1, <3>1, <3>2, <3>3, <3>4 DEF Line
  <2>4. CASE tasks[queue[th]] # <<>> /\ queue[th] # q
    <3>1. HandedOver(q)' = HandedOver(q) /\ queue[th] \in Queue
      BY <1>2, <2>4, PopHands
    <3>2. tasks'[q] = tasks[q]
      BY <1>2, <2>4, <3>1 DEF Pop, IInv, TypeOK
    <3> QED
      BY <2>1, <3>1, <3>2, SameLine
  <2> QED
    BY <2>2, <2>3, <2>4
<1>3. ASSUME NEW th \in Thread, NEW t \in Task, Begins(th, t)
      PROVE  Line(q)'
  <2>1. /\ pushed' = pushed /\ tasks' = tasks
        /\ executed' = [executed EXCEPT ![QueueOf[t]] = Append(@, t)]
    BY <1>3 DEF Begins, RunNext, Execute, members
  <2>2. CASE QueueOf[t] = q
    <3>1. HandedOver(q) = {t} /\ HandedOver(q)' = {}
      BY <1>3, <2>2, BeginHands
    <3>2. executed'[q] = Append(executed[q], t)
      BY <2>1, <2>2 DEF IInv, TypeOK
    <3>3. pushed[q] = Append(executed[q], t) \o tasks[q]
      BY <3>1 DEF Line
    <3> QED
      BY <2>1, <3>1, <3>2, <3>3 DEF Line
  <2>3. CASE QueueOf[t] # q
    BY <1>3, <2>1, <2>3, BeginHands, SameLine DEF IInv, TypeOK
  <2> QED
    BY <2>2, <2>3
<1>4. CASE UNCHANGED vars
  BY <1>4 DEF vars, Line, HandedOver, SpawnOwner
<1> QED
  BY <1>1, <1>2, <1>3, <1>4, StepKinds

(* The order of the pushes is the order of execution, for any number of    *)
(* threads and tasks, and every task is executed at most once.             *)
THEOREM ExecutedInOrder ==
  Spec => []NothingLostNorReordered
<1> DEFINE L == \A q \in Queue : Line(q)
<1>1. Init => L
  <2> SUFFICES ASSUME Init, NEW q \in Queue
               PROVE  HandedOver(q) = {} /\ pushed[q] = executed[q] \o tasks[q]
    BY DEF Line
  <2>1. HandedOver(q) = {}
    BY ConstantsAssumption DEF Init, HandedOver, SpawnOwner
  <2>2. pushed[q] = <<>> /\ executed[q] = <<>> /\ tasks[q] = <<>>
    BY DEF Init
  <2>3. <<>> \o <<>> = <<>>
    OBVIOUS
  <2> QED
    BY <2>1, <2>2, <2>3
<1>2. L /\ IInv /\ [Next]_vars => L'
  BY LineStep
<1>3. L => NothingLostNorReordered
  BY DEF Line, NothingLostNorReordered
<1> QED
  BY <1>1, <1>2, <1>3, Invariance, PTL DEF Spec

----------------------------------------------------------------------------
(* The pause: what may still start of a queue is counted, and a step that  *)
(* leaves the queue paused adds nothing to the count.                      *)

(* At most one task is handed over, and the threads are finitely many. *)
LEMMA CountsFinite ==
  ASSUME IInv, NEW q \in Queue
  PROVE  IsFiniteSet(HandedOver(q)) /\ IsFiniteSet(Looking(q))
<1>1. ASSUME NEW t \in HandedOver(q), NEW u \in HandedOver(q)
      PROVE  t = u
  BY ConstantsAssumption DEF IInv, OneOwner, HandedOver, PickOwner
<1>2. HandedOver(q) = {} \/ \E t \in HandedOver(q) : HandedOver(q) = {t}
  BY <1>1
<1>3. IsFiniteSet(HandedOver(q))
  <2>1. CASE HandedOver(q) = {}
    BY <2>1, FS_EmptySet
  <2>2. ASSUME NEW t \in HandedOver(q), HandedOver(q) = {t}
        PROVE  IsFiniteSet(HandedOver(q))
    <3>1. IsFiniteSet({t})
      BY FS_Singleton
    <3> QED
      BY <2>2, <3>1
  <2> QED
    BY <1>2, <2>1, <2>2
<1>4. Looking(q) \subseteq Thread
  BY DEF Looking
<1> QED
  BY <1>3, <1>4, ThreadAssumption, FS_Subset

(* Nobody begins to look into a queue that is paused: the threads that do  *)
(* are those that did, without the one that pops.                          *)
LEMMA NobodyComes ==
  ASSUME IInv, [Next]_vars, NEW q \in Queue, pauseCount[q] > 0
  PROVE  Looking(q)' \subseteq Looking(q)
<1> USE ConstantsAssumption DEF IInv
<1> SUFFICES ASSUME NEW x \in Thread, queue'[x] = q,
                    pc'[x] \in {"acquire", "choose", "pop"}
             PROVE  queue[x] = q /\ pc[x] \in {"acquire", "choose", "pop"}
  BY DEF Looking
<1>0. q # None
  OBVIOUS
<1>1. ASSUME NEW th \in Thread, NEW loc, NEW p, NEW f, NEW tk, NEW run,
             Moved(th, loc, p, f, tk, run),
             p = q /\ loc \in {"acquire", "choose", "pop"}
               => queue[th] = q /\ pc[th] \in {"acquire", "choose", "pop"}
      PROVE  queue[x] = q /\ pc[x] \in {"acquire", "choose", "pop"}
  BY <1>1 DEF Moved
<1>2. ASSUME NEW th \in Thread, GoesHome(th)
      PROVE  queue[x] = q /\ pc[x] \in {"acquire", "choose", "pop"}
  BY <1>0, <1>1, <1>2 DEF GoesHome
<1>3. ASSUME NEW th \in Thread, NEW loc, StaysAt(th, loc),
             loc \notin {"acquire", "choose", "pop"}
               \/ pc[th] \in {"acquire", "choose", "pop"}
      PROVE  queue[x] = q /\ pc[x] \in {"acquire", "choose", "pop"}
  BY <1>1, <1>3 DEF StaysAt
<1>4. CASE \E th \in Thread : ClientCall(th)
  <2>1. ASSUME NEW th \in Thread, NEW t \in Task, Push(th, t)
        PROVE  queue[x] = q /\ pc[x] \in {"acquire", "choose", "pop"}
    BY <1>1, <2>1, PushMoves
  <2>2. ASSUME NEW th \in Thread, NEW p \in Queue, Pause(th, p)
        PROVE  queue[x] = q /\ pc[x] \in {"acquire", "choose", "pop"}
    BY <2>2 DEF Pause, stack
  <2>3. ASSUME NEW th \in Thread, NEW p \in Queue, Resume(th, p)
        PROVE  queue[x] = q /\ pc[x] \in {"acquire", "choose", "pop"}
    <3>1. pc[th] \notin {"acquire", "choose", "pop"}
      BY <2>3 DEF Resume, Client
    <3> QED
      BY <1>1, <1>3, <2>3, <3>1, ResumeMoves
  <2> QED
    BY <1>4, <2>1, <2>2, <2>3 DEF ClientCall
<1>5. CASE \E th \in Thread : Pick(th)
  <2> PICK th \in Thread : Pick(th)
    BY <1>5
  <2>1. CASE CheckPause(th)
    <3>1. CASE GoesHome(th)
      BY <1>2, <3>1
    <3>2. CASE pauseCount[queue[th]] = 0 /\ StaysAt(th, "acquire")
      <4>1. queue[th] # q
        BY <3>2 DEF TypeOK
      <4> QED
        BY <1>1, <3>2, <4>1 DEF StaysAt
    <3> QED
      BY <2>1, <3>1, <3>2, CheckPauseMoves
  <2>2. CASE Acquire(th) \/ Choose(th)
    <3>1. pc[th] \in {"acquire", "choose", "pop"}
      BY <2>2 DEF Acquire, Choose
    <3> QED
      BY <1>3, <2>2, <3>1, AcquireMoves, ChooseMoves
  <2>3. CASE Pop(th)
    BY <1>1, <1>3, <2>3, PopMoves
  <2>4. CASE Unchoose(th)
    BY <1>3, <2>4, UnchooseMoves
  <2>5. CASE Release(th)
    BY <1>2, <1>3, <2>5, ReleaseMoves
  <2> QED
    BY <2>1, <2>2, <2>3, <2>4, <2>5 DEF Pick
<1>6. CASE \E th \in Thread : Spawn(th)
  BY <1>2, <1>6, SpawnMoves
<1>7. CASE \E th \in Thread : RunNext(th)
  BY <1>1, <1>7, RunNextMoves
<1>8. CASE \E th \in Thread : FinishTask(th)
  BY <1>1, <1>8, FinishTaskMoves
<1>9. CASE \E th \in Thread : Start(th)
  <2> PICK th \in Thread, t \in Task : Execute(th, t) /\ UNCHANGED <<queue, caller, found>>
    BY <1>9 DEF Start, TypeOK
  <2> QED
    BY <1>1, StartMoves
<1>10. CASE UNCHANGED vars
  BY <1>10 DEF vars
<1> QED
  BY <1>4, <1>5, <1>6, <1>7, <1>8, <1>9, <1>10 DEF Next, Internal

(* Every step that leaves a queue paused keeps the count, or lowers it. *)
LEMMA PauseStep ==
  ASSUME IInv, [Next]_vars, NEW q \in Queue, pauseCount[q] > 0, pauseCount'[q] > 0
  PROVE  MostStarts(q)' <= MostStarts(q)
<1> USE DEF MostStarts
<1>0. /\ IsFiniteSet(HandedOver(q)) /\ IsFiniteSet(Looking(q))
      /\ Cardinality(HandedOver(q)) \in Nat
      /\ executed[q] \in Seq(Task) /\ Len(executed[q]) \in Nat
  BY CountsFinite, FS_CardinalityType DEF IInv, TypeOK
<1>1. /\ Cardinality(Looking(q)) \in Nat /\ Cardinality(Looking(q)') \in Nat
      /\ Cardinality(Looking(q)') <= Cardinality(Looking(q))
  BY <1>0, NobodyComes, FS_Subset, FS_CardinalityType
<1>2. CASE HandedOver(q)' = HandedOver(q) /\ executed'[q] = executed[q]
  BY <1>0, <1>1, <1>2
<1>3. ASSUME NEW th \in Thread, KeepsHands(th)
      PROVE  HandedOver(q)' = HandedOver(q) /\ executed'[q] = executed[q]
  BY <1>3, SameHands DEF KeepsHands, Push, Pause, Resume, CheckPause, Acquire, Choose,
     Unchoose, Release, Spawn, FinishTask, history
<1>4. ASSUME NEW th \in Thread, Pop(th)
      PROVE  MostStarts(q)' <= MostStarts(q)
  <2>1. executed' = executed
    BY <1>4 DEF Pop, history
  <2>2. CASE tasks[queue[th]] = <<>>
    <3>1. StaysAt(th, "unchoose") /\ spawned' = spawned
      BY <1>4, <2>2, PopMoves DEF IInv, Pop
    <3>2. HandedOver(q)' = HandedOver(q)
      BY <3>1, SameHanded DEF StaysAt, IInv
    <3> QED
      BY <1>2, <2>1, <3>2
  <2>3. CASE tasks[queue[th]] # <<>> /\ queue[th] # q
    BY <1>2, <1>4, <2>1, <2>3, PopHands
  <2>4. CASE tasks[queue[th]] # <<>> /\ queue[th] = q
    <3>1. HandedOver(q) = {} /\ HandedOver(q)' = {Head(tasks[q])}
      BY <1>4, <2>4, PopHands
    <3>2. Cardinality(HandedOver(q)) = 0 /\ Cardinality(HandedOver(q)') = 1
      BY <3>1, FS_EmptySet, FS_Singleton
    <3>3. th \in Looking(q) /\ th \notin Looking(q)'
      <4>1. pc[th] = "pop" /\ pc'[th] = "release"
        BY <1>4, <2>4, PopMoves DEF IInv, Pop, Moved
      <4> QED
        BY <2>4, <4>1 DEF Looking
    <3>4. Cardinality(Looking(q)') < Cardinality(Looking(q))
      <4>1. Looking(q)' \subseteq Looking(q) /\ Looking(q)' # Looking(q)
        BY <3>3, NobodyComes
      <4> QED
        BY <1>0, <1>1, <4>1, FS_Subset
    <3> QED
      BY <1>0, <1>1, <2>1, <3>2, <3>4
  <2> QED
    BY <2>2, <2>3, <2>4
<1>5. ASSUME NEW th \in Thread, NEW t \in Task, Begins(th, t)
      PROVE  MostStarts(q)' <= MostStarts(q)
  <2>1. executed' = [executed EXCEPT ![QueueOf[t]] = Append(@, t)]
    BY <1>5 DEF Begins, RunNext, Execute
  <2>2. CASE QueueOf[t] = q
    <3>1. HandedOver(q) = {t} /\ HandedOver(q)' = {}
      BY <1>5, <2>2, BeginHands
    <3>2. Cardinality(HandedOver(q)) = 1 /\ Cardinality(HandedOver(q)') = 0
      BY <3>1, FS_EmptySet, FS_Singleton
    <3>3. Len(executed'[q]) = Len(executed[q]) + 1
      BY <1>0, <2>1, <2>2 DEF IInv, TypeOK
    <3> QED
      BY <1>0, <1>1, <3>2, <3>3
  <2>3. CASE QueueOf[t] # q
    BY <1>2, <1>5, <2>1, <2>3, BeginHands DEF IInv, TypeOK
  <2> QED
    BY <2>2, <2>3
<1>6. CASE UNCHANGED vars
  BY <1>2, <1>6 DEF vars, HandedOver, SpawnOwner
<1> QED
  BY <1>2, <1>3, <1>4, <1>5, <1>6, StepKinds

(* What may still start of a paused queue was handed over or looked for    *)
(* before the pause, for any number of threads and nested pauses.          *)
THEOREM PauseHolds ==
  Spec => PauseTakesEffect
<1>1. IInv /\ [Next]_vars
        => [\A q \in Queue : pauseCount[q] > 0 /\ pauseCount'[q] > 0
                              => MostStarts(q)' <= MostStarts(q)]_vars
  BY PauseStep
<1> QED
  BY <1>1, Invariance, PTL DEF Spec, PauseTakesEffect

----------------------------------------------------------------------------
(* The refinement                                                          *)

(* A task object is pushed once, and a task on a thread's stack was begun. *)
PushedOnce ==
  \A q \in Queue : \A i, j \in DOMAIN pushed[q] : pushed[q][i] = pushed[q][j] => i = j
RunningBegan == \A th \in Thread : running[th] # None => Executed(running[th])

RInv == IInv /\ (\A q \in Queue : Line(q)) /\ PushedOnce /\ RunningBegan

(* x is no element of the sequence s. *)
Lacks(s, x) == \A i \in DOMAIN s : s[i] # x

(* The parts of a sequence put together from two. *)
LEMMA TwoParts ==
  ASSUME NEW s \in Seq(Task), NEW t \in Seq(Task), NEW x \in Task, Lacks(s \o t, x)
  PROVE  Lacks(s, x) /\ Lacks(t, x)
<1>1. Len(s \o t) = Len(s) + Len(t) /\ s \o t \in Seq(Task)
  BY ConcatProperties
<1>2. \A i \in 1..Len(s) : i \in 1..Len(s \o t) /\ (s \o t)[i] = s[i]
  BY <1>1, ConcatProperties
<1>3. ASSUME NEW i \in 1..Len(t)
      PROVE  t[i] # x
  <2>1. Len(s) + i \in 1..Len(s \o t) /\ Len(s) + i > Len(s)
    BY <1>1
  <2>2. (s \o t)[Len(s) + i] = t[i]
    BY <1>1, <2>1, ConcatProperties
  <2> QED
    BY <1>1, <2>1, <2>2 DEF Lacks
<1>4. \A i \in 1..Len(s) : s[i] # x
  BY <1>1, <1>2 DEF Lacks
<1> QED
  BY <1>3, <1>4 DEF Lacks

(* The parts of a sequence put together from two and an element between. *)
LEMMA ThreeParts ==
  ASSUME NEW s \in Seq(Task), NEW t \in Seq(Task), NEW u \in Task, NEW x \in Task,
         Lacks(Append(s, u) \o t, x)
  PROVE  u # x /\ Lacks(s, x) /\ Lacks(t, x)
<1> DEFINE e == Append(s, u)
<1>1. e \in Seq(Task)
  OBVIOUS
<1>2. Lacks(e, x) /\ Lacks(t, x)
  <2> HIDE DEF e
  <2>1. Lacks(e \o t, x)
    BY DEF e
  <2> QED
    BY <1>1, <2>1, TwoParts
<1>3. /\ \A i \in DOMAIN s : i \in DOMAIN e /\ e[i] = s[i]
      /\ Len(s) + 1 \in DOMAIN e /\ e[Len(s) + 1] = u
  OBVIOUS
<1> HIDE DEF e
<1> QED
  BY <1>2, <1>3 DEF Lacks

(* The element between differs from those before it if none occurs twice. *)
LEMMA OnceInParts ==
  ASSUME NEW p \in Seq(Task), NEW s \in Seq(Task), NEW t \in Seq(Task), NEW u \in Task,
         p = Append(s, u) \o t,
         \A i, j \in DOMAIN p : p[i] = p[j] => i = j
  PROVE  \A i \in DOMAIN s : s[i] # u
<1> DEFINE e == Append(s, u)
<1>1. /\ e \in Seq(Task) /\ Len(e) = Len(s) + 1
      /\ e[Len(s) + 1] = u /\ \A i \in 1..Len(s) : e[i] = s[i]
  OBVIOUS
<1>2. Len(p) = Len(e) + Len(t) /\ \A i \in 1..Len(e) : i \in 1..Len(p) /\ p[i] = e[i]
  <2> HIDE DEF e
  <2> QED
    BY <1>1, ConcatProperties DEF e
<1>3. ASSUME NEW i \in 1..Len(s)
      PROVE  s[i] # u
  <2>1. i \in 1..Len(p) /\ Len(s) + 1 \in 1..Len(p) /\ i # Len(s) + 1
    BY <1>1, <1>2
  <2>2. p[i] = s[i] /\ p[Len(s) + 1] = u
    BY <1>1, <1>2, <2>1
  <2> QED
    <3>1. DOMAIN p = 1..Len(p)
      OBVIOUS
    <3>2. p[i] # p[Len(s) + 1]
      BY <2>1, <3>1
    <3> QED
      BY ONLY <2>2, <3>2
<1> QED
  BY <1>3

(* A new task object is nowhere in its queue. *)
LEMMA NewIsNew ==
  ASSUME RInv, NEW t \in Task, ~IsPushed(t)
  PROVE  /\ ~Executed(t) /\ t \notin Active(QueueOf[t])
         /\ \A i \in DOMAIN tasks[QueueOf[t]] : tasks[QueueOf[t]][i] # t
<1> DEFINE q == QueueOf[t]
<1>0. q \in Queue /\ Line(q)
  BY ConstantsAssumption DEF RInv
<1>1. /\ pushed[q] \in Seq(Task) /\ executed[q] \in Seq(Task) /\ tasks[q] \in Seq(Task)
  BY <1>0 DEF RInv, IInv, TypeOK
<1>2. Lacks(pushed[q], t)
  BY DEF IsPushed, Lacks
<1> HIDE DEF q
<1>3. Lacks(executed[q], t) /\ Lacks(tasks[q], t) /\ t \notin HandedOver(q)
  <2>1. CASE HandedOver(q) = {} /\ pushed[q] = executed[q] \o tasks[q]
    <3>1. Lacks(executed[q], t) /\ Lacks(tasks[q], t)
      BY ONLY <1>1, <1>2, <2>1, t \in Task, TwoParts
    <3> QED
      BY <2>1, <3>1
  <2>2. ASSUME NEW u \in Task, HandedOver(q) = {u},
               pushed[q] = Append(executed[q], u) \o tasks[q]
        PROVE  Lacks(executed[q], t) /\ Lacks(tasks[q], t) /\ t \notin HandedOver(q)
    <3>1. u # t /\ Lacks(executed[q], t) /\ Lacks(tasks[q], t)
      BY ONLY <1>1, <1>2, <2>2, u \in Task, t \in Task, ThreeParts
    <3> QED
      BY <2>2, <3>1
  <2> QED
    BY <1>0, <2>1, <2>2 DEF Line
<1>4. ~Executed(t)
  BY <1>3 DEF Executed, Lacks, q
<1>5. \A th \in Thread : running[th] # t
  BY <1>4, ConstantsAssumption DEF RInv, RunningBegan
<1> QED
  BY <1>3, <1>4, <1>5 DEF Active, Lacks, q

(* A task that is handed over has not begun. *)
LEMMA HandedIsNew ==
  ASSUME RInv, NEW q \in Queue, NEW t \in Task, QueueOf[t] = q, t \in HandedOver(q)
  PROVE  ~Executed(t)
<1>1. /\ pushed[q] \in Seq(Task) /\ executed[q] \in Seq(Task) /\ tasks[q] \in Seq(Task)
  BY DEF RInv, IInv, TypeOK
<1>2. pushed[q] = Append(executed[q], t) \o tasks[q]
  BY DEF RInv, Line
<1>3. \A i, j \in DOMAIN pushed[q] : pushed[q][i] = pushed[q][j] => i = j
  BY DEF RInv, PushedOnce
<1>4. \A i \in DOMAIN executed[q] : executed[q][i] # t
  BY ONLY <1>1, <1>2, <1>3, t \in Task, OnceInParts
<1> QED
  BY <1>4 DEF Executed

(* An open queue at rest has executed all that was pushed into it. *)
LEMMA OpenIdleIsDone ==
  ASSUME RInv, NEW t \in Task, IsPushed(t), Idle(QueueOf[t]), pauseCount[QueueOf[t]] = 0
  PROVE  Finished(t)
<1> DEFINE q == QueueOf[t]
<1>1. q \in Queue /\ IInv /\ Line(q)
  BY ConstantsAssumption DEF RInv
<1>2. tasks[q] = <<>>
  BY <1>1, OpenIdleIsEmpty
<1>3. HandedOver(q) = {}
  BY DEF Idle, Owners, HandedOver
<1>4. pushed[q] = executed[q]
  <2>1. pushed[q] = executed[q] \o tasks[q] /\ executed[q] \in Seq(Task)
    BY <1>1, <1>3 DEF Line, IInv, TypeOK
  <2> HIDE DEF q
  <2> QED
    BY <1>2, <2>1
<1>5. Executed(t)
  BY <1>4 DEF IsPushed, Executed
<1>6. ASSUME NEW th \in Thread
      PROVE  running[th] # t
  <2>1. ~RunOwner(th, q)
    BY DEF Idle, Owners
  <2> QED
    BY <2>1, ConstantsAssumption DEF RunOwner
<1> QED
  BY <1>5, <1>6 DEF Finished

----------------------------------------------------------------------------
(* The beginning of a task and the history.                                *)
LEMMA BeginHistory ==
  ASSUME IInv, NEW th \in Thread, NEW t \in Task, Begins(th, t)
  PROVE  /\ pushed' = pushed /\ tasks' = tasks /\ pauseCount' = pauseCount
         /\ running[th] = None /\ running'[th] = t
         /\ \A x \in Thread \ {th} : running'[x] = running[x]
         /\ \A u \in Task : Executed(u)' <=> Executed(u) \/ u = t
<1>1. /\ pushed' = pushed /\ tasks' = tasks /\ pauseCount' = pauseCount
      /\ executed' = [executed EXCEPT ![QueueOf[t]] = Append(@, t)]
      /\ running' = [running EXCEPT ![th] = t]
  BY DEF Begins, RunNext, Execute, members
<1>2. running[th] = None
  <2>1. CASE pc[th] = "out"
    BY <2>1 DEF IInv, StackOK, Consistent
  <2>2. CASE RunNext(th)
    BY <2>2 DEF RunNext, StaysInLoop, IInv, StackOK, Consistent
  <2> QED
    BY <2>1, <2>2 DEF Begins
<1>3. ASSUME NEW u \in Task
      PROVE  Executed(u)' <=> Executed(u) \/ u = t
  <2> DEFINE e == executed[QueueOf[u]]
  <2>1. e \in Seq(Task) /\ QueueOf[u] \in Queue
    BY ConstantsAssumption DEF IInv, TypeOK
  <2>2. CASE QueueOf[u] = QueueOf[t]
    <3>1. executed'[QueueOf[u]] = Append(e, t)
      BY <1>1, <2>1, <2>2 DEF IInv, TypeOK
    <3>2. (\E i \in DOMAIN Append(e, t) : Append(e, t)[i] = u)
            <=> (\E i \in DOMAIN e : e[i] = u) \/ u = t
      <4>1. /\ DOMAIN Append(e, t) = 1..(Len(e) + 1) /\ DOMAIN e = 1..Len(e)
            /\ Append(e, t)[Len(e) + 1] = t
            /\ \A i \in 1..Len(e) : Append(e, t)[i] = e[i]
            /\ Len(e) \in Nat
        BY <2>1
      <4>2. \A i \in 1..(Len(e) + 1) : i \in 1..Len(e) \/ i = Len(e) + 1
        BY <4>1
      <4>3. Len(e) + 1 \in 1..(Len(e) + 1) /\ \A i \in 1..Len(e) : i \in 1..(Len(e) + 1)
        BY <4>1
      <4> QED
        BY <4>1, <4>2, <4>3
    <3> QED
      BY <3>1, <3>2 DEF Executed
  <2>3. CASE QueueOf[u] # QueueOf[t]
    BY <1>1, <2>1, <2>3 DEF Executed, IInv, TypeOK
  <2> QED
    BY <2>2, <2>3
<1> QED
  BY <1>1, <1>2, <1>3 DEF IInv, TypeOK

(* All other steps, and the history. *)
LEMMA QuietHistory ==
  ASSUME IInv, NEW th \in Thread, KeepsHands(th) \/ Pop(th)
  PROVE  /\ executed' = executed
         /\ running' = running \/ FinishTask(th)
         /\ pushed' = pushed \/ \E t \in Task : Push(th, t)
BY DEF KeepsHands, Push, Pause, Resume, CheckPause, Acquire, Choose, Pop, Unchoose,
       Release, Spawn, FinishTask, history, members, stack

(* The invariant of the refinement holds initially. *)
LEMMA InitRInv ==
  Init => RInv
<1> SUFFICES ASSUME Init
             PROVE  RInv
  OBVIOUS
<1>1. \A q \in Queue : Line(q)
  <2> SUFFICES ASSUME NEW q \in Queue
               PROVE  HandedOver(q) = {} /\ pushed[q] = executed[q] \o tasks[q]
    BY DEF Line
  <2>1. HandedOver(q) = {}
    BY ConstantsAssumption DEF Init, HandedOver, SpawnOwner
  <2>2. pushed[q] = <<>> /\ executed[q] = <<>> /\ tasks[q] = <<>>
    BY DEF Init
  <2>3. <<>> \o <<>> = <<>>
    OBVIOUS
  <2> QED
    BY <2>1, <2>2, <2>3
<1> QED
  BY <1>1, InitIInv DEF Init, RInv, PushedOnce, RunningBegan

(* Every step keeps the invariant of the refinement. *)
LEMMA NextRInv ==
  RInv /\ [Next]_vars => RInv'
<1> SUFFICES ASSUME RInv, [Next]_vars
             PROVE  RInv'
  OBVIOUS
<1>0. IInv /\ IInv' /\ \A q \in Queue : Line(q)'
  BY NextIInv, LineStep DEF RInv
<1>1. ASSUME NEW th \in Thread, KeepsHands(th) \/ Pop(th)
      PROVE  PushedOnce' /\ RunningBegan'
  <2>1. RunningBegan'
    <3>1. CASE running' = running
      BY <1>0, <1>1, <3>1, QuietHistory DEF RInv, RunningBegan, Executed
    <3>2. CASE FinishTask(th)
      <4>1. /\ executed' = executed
            /\ \A x \in Thread : running'[x] = running[x] \/ running'[x] = None
        BY <1>0, <1>1, <3>2, QuietHistory DEF FinishTask, IInv, TypeOK
      <4> QED
        BY <4>1 DEF RInv, RunningBegan, Executed
    <3> QED
      BY <1>0, <1>1, <3>1, <3>2, QuietHistory
  <2>2. CASE pushed' = pushed
    BY <2>1, <2>2 DEF RInv, PushedOnce
  <2>3. ASSUME NEW t \in Task, Push(th, t), NEW q \in Queue, NEW i \in DOMAIN pushed'[q],
               NEW j \in DOMAIN pushed'[q], pushed'[q][i] = pushed'[q][j]
        PROVE  i = j
    <3>1. pushed[q] \in Seq(Task)
      BY <1>0 DEF IInv, TypeOK
    <3>2. CASE q # QueueOf[t]
      BY <1>0, <2>3, <3>2 DEF Push, RInv, PushedOnce, IInv, TypeOK
    <3>3. CASE q = QueueOf[t]
      <4>1. pushed'[q] = Append(pushed[q], t)
        BY <1>0, <2>3, <3>3 DEF Push, IInv, TypeOK
      <4>2. Lacks(pushed[q], t)
        BY <2>3, <3>3 DEF Push, IsPushed, Lacks
      <4>3. /\ \A k \in 1..Len(pushed[q]) : pushed'[q][k] = pushed[q][k] /\ pushed[q][k] # t
            /\ pushed'[q][Len(pushed[q]) + 1] = t
            /\ DOMAIN pushed'[q] = 1..(Len(pushed[q]) + 1) /\ Len(pushed[q]) \in Nat
        BY <3>1, <4>1, <4>2 DEF Lacks
      <4>4. \A k, l \in 1..Len(pushed[q]) : pushed[q][k] = pushed[q][l] => k = l
        BY <3>1 DEF RInv, PushedOnce
      <4> QED
        BY <2>3, <4>3, <4>4
    <3> QED
      BY <3>2, <3>3
  <2> QED
    BY <1>0, <1>1, <2>1, <2>2, <2>3, QuietHistory DEF PushedOnce
<1>2. ASSUME NEW th \in Thread, NEW t \in Task, Begins(th, t)
      PROVE  PushedOnce' /\ RunningBegan'
  <2>1. PushedOnce'
    BY <1>0, <1>2, BeginHistory DEF RInv, PushedOnce
  <2>2. ASSUME NEW x \in Thread, NEW u \in Task, running'[x] = u
        PROVE  Executed(u)'
    <3>1. u = t \/ running[x] = u
      BY <1>0, <1>2, <2>2, BeginHistory
    <3>2. u # None
      BY ConstantsAssumption
    <3> QED
      BY <1>0, <1>2, <3>1, <3>2, BeginHistory DEF RInv, RunningBegan
  <2>3. \A x \in Thread : running'[x] # None => running'[x] \in Task
    BY <1>0 DEF IInv, TypeOK
  <2>4. RunningBegan'
    BY <2>2, <2>3 DEF RunningBegan, Executed
  <2> QED
    BY <2>1, <2>4
<1>3. ASSUME UNCHANGED vars
      PROVE  PushedOnce' /\ RunningBegan'
  BY <1>3 DEF vars, RInv, PushedOnce, RunningBegan, Executed
<1>4. PushedOnce' /\ RunningBegan'
  BY <1>0, <1>1, <1>2, <1>3, StepKinds
<1> QED
  BY <1>0, <1>4 DEF RInv

(* The task that runs is the one that was started last. *)
RunLast ==
  \A th \in Thread, q \in Queue :
    RunOwner(th, q) => executed[q][Len(executed[q])] = running[th]

(* The task that runs in a queue stays the last one started there.         *)
LEMMA RunLastStep ==
  ASSUME RInv, RInv', [Next]_vars, RunLast
  PROVE  RunLast'
<1>0. IInv /\ IInv'
  BY DEF RInv
<1>1. ASSUME NEW th \in Thread, KeepsHands(th) \/ Pop(th)
      PROVE  RunLast'
  <2>1. executed' = executed /\ (running' = running \/ FinishTask(th))
    BY <1>0, <1>1, QuietHistory
  <2>2. ASSUME NEW x \in Thread, running'[x] # None
        PROVE  running'[x] = running[x]
    BY <1>0, <2>1, <2>2 DEF FinishTask, IInv, TypeOK
  <2> QED
    BY <2>1, <2>2 DEF RunLast, RunOwner
<1>2. ASSUME NEW th \in Thread, NEW t \in Task, Begins(th, t)
      PROVE  RunLast'
  <2>1. executed' = [executed EXCEPT ![QueueOf[t]] = Append(@, t)]
    BY <1>2 DEF Begins, RunNext, Execute
  <2>2. running'[th] = t /\ \A x \in Thread \ {th} : running'[x] = running[x]
    BY <1>0, <1>2, BeginHistory
  <2>3. t # None /\ QueueOf[t] \in Queue
    BY ConstantsAssumption
  <2> SUFFICES ASSUME NEW x \in Thread, NEW q \in Queue, RunOwner(x, q)'
               PROVE  executed'[q][Len(executed'[q])] = running'[x]
    BY DEF RunLast
  <2>4. executed[q] \in Seq(Task)
    BY <1>0 DEF IInv, TypeOK
  <2>5. CASE x = th
    <3>1. executed'[q] = Append(executed[q], t) /\ running'[x] = t
      BY <1>0, <2>1, <2>2, <2>3, <2>5 DEF RunOwner, IInv, TypeOK
    <3> QED
      BY <2>4, <3>1
  <2>6. CASE x # th
    <3>1. RunOwner(th, QueueOf[t])' /\ OneOwner(QueueOf[t])'
      BY <1>0, <2>2, <2>3 DEF RunOwner, IInv
    <3>2. q # QueueOf[t]
      BY <2>6, <3>1 DEF OneOwner
    <3>3. executed'[q] = executed[q]
      BY <1>0, <2>1, <3>2 DEF IInv, TypeOK
    <3> QED
      BY <2>2, <2>6, <3>3 DEF RunLast, RunOwner
  <2> QED
    BY <2>5, <2>6
<1>3. CASE UNCHANGED vars
  BY <1>3 DEF vars, RunLast, RunOwner
<1> QED
  BY <1>0, <1>1, <1>2, <1>3, StepKinds

----------------------------------------------------------------------------
(* The executor's variables, before and after a step.                      *)
LEMMA ActiveIs ==
  ASSUME NEW q \in Queue
  PROVE  /\ Active(q) = {} => ActiveTask[q] = None
         /\ \A t \in Task : Active(q) = {t} => ActiveTask[q] = t
BY ConstantsAssumption DEF ActiveTask, TheOne

(* Where no active set changes the active tasks do not. *)
LEMMA SameActive ==
  ASSUME \A q \in Queue : Active(q)' = Active(q)
  PROVE  ActiveTask' = ActiveTask
BY DEF ActiveTask

(* The active task of one queue changes. *)
LEMMA OtherActive ==
  ASSUME NEW p \in Queue, NEW t \in Task \cup {None},
         \A q \in Queue \ {p} : Active(q)' = Active(q),
         \/ t = None /\ Active(p)' = {}
         \/ t \in Task /\ Active(p)' = {t}
  PROVE  ActiveTask' = [ActiveTask EXCEPT ![p] = t]
<1>1. ASSUME NEW q \in Queue
      PROVE  ActiveTask'[q] = IF q = p THEN t ELSE ActiveTask[q]
  <2>1. CASE q = p
    BY <2>1 DEF ActiveTask, TheOne
  <2>2. CASE q # p
    BY <2>2 DEF ActiveTask
  <2> QED
    BY <2>1, <2>2
<1> QED
  BY <1>1 DEF ActiveTask

(* Without a task that begins or ends the same ones are done. *)
LEMMA SameDone ==
  ASSUME executed' = executed, running' = running
  PROVE  DoneTasks' = DoneTasks
BY DEF DoneTasks, Finished, Executed

(* Where the queue of a thread's task is, there is no other active task. *)
LEMMA RunningIsActive ==
  ASSUME IInv, NEW th \in Thread, NEW t \in Task, running[th] = t
  PROVE  /\ Active(QueueOf[t]) = {t} /\ QueueOf[t] \in Queue
         /\ HandedOver(QueueOf[t]) = {}
         /\ \A x \in Thread \ {th} : running[x] # t
<1> USE ConstantsAssumption DEF IInv
<1> DEFINE q == QueueOf[t]
<1>1. q \in Queue /\ t # None
  OBVIOUS
<1>2. OneOwner(q) /\ RunOwner(th, q)
  BY <1>1 DEF RunOwner
<1>3. /\ \A x \in Thread : ~PickOwner(x, q) /\ (RunOwner(x, q) => x = th)
      /\ \A u \in Task : ~SpawnOwner(u, q)
  BY <1>2 DEF OneOwner
<1>4. HandedOver(q) = {}
  BY <1>1, <1>3 DEF HandedOver, PickOwner
<1>5. \A x \in Thread \ {th} : running[x] # None => QueueOf[running[x]] # q
  BY <1>3 DEF RunOwner
<1>6. Active(q) = {t}
  BY <1>1, <1>4, <1>5 DEF Active
<1> QED
  BY <1>1, <1>4, <1>5, <1>6

(* push is Submit. *)
LEMMA PushSubmits ==
  ASSUME RInv, NEW th \in Thread, NEW t \in Task, Push(th, t)
  PROVE  SE!Submit(t)
<1>1. /\ tasks' = [tasks EXCEPT ![QueueOf[t]] = Append(@, t)]
      /\ ~IsPushed(t) /\ pauseCount' = pauseCount
      /\ executed' = executed /\ running' = running
  BY DEF Push
<1>2. /\ ~Executed(t) /\ t \notin Active(QueueOf[t]) /\ QueueOf[t] \in Queue
      /\ \A i \in DOMAIN tasks[QueueOf[t]] : tasks[QueueOf[t]][i] # t
  BY <1>1, NewIsNew, ConstantsAssumption
<1>3. t \notin DoneTasks
  BY <1>2 DEF DoneTasks, Finished
<1>4. ActiveTask[QueueOf[t]] # t
  BY <1>2, ConstantsAssumption DEF ActiveTask, TheOne
<1>5. \A q \in Queue : Active(q)' = Active(q)
  BY <1>1, SameHands DEF Active, KeepsHands, RInv
<1>6. ActiveTask' = ActiveTask /\ DoneTasks' = DoneTasks /\ OpenQueue' = OpenQueue
  BY <1>1, <1>5, SameActive, SameDone DEF OpenQueue
<1> QED
  BY <1>1, <1>2, <1>3, <1>4, <1>6 DEF SE!Submit, SE!New

(* A successful pop is Begin, and a failed one no step of the executor. *)
LEMMA PopBegins ==
  ASSUME RInv, NEW th \in Thread, Pop(th)
  PROVE  (\E q \in Queue : SE!Begin(q)) \/ UNCHANGED SE!vars
<1>0. IInv
  BY DEF RInv
<1>1. executed' = executed /\ running' = running /\ pauseCount' = pauseCount
  BY DEF Pop, history
<1>2. DoneTasks' = DoneTasks /\ OpenQueue' = OpenQueue
  BY <1>1, SameDone DEF OpenQueue
<1>3. CASE tasks[queue[th]] = <<>>
  <2>1. StaysAt(th, "unchoose") /\ spawned' = spawned /\ tasks' = tasks
    BY <1>0, <1>3, PopMoves DEF IInv, Pop
  <2>2. \A q \in Queue : HandedOver(q)' = HandedOver(q)
    BY <1>0, <2>1, SameHanded DEF StaysAt, IInv
  <2>3. ActiveTask' = ActiveTask
    BY <1>1, <2>2, SameActive DEF Active
  <2> QED
    BY <1>2, <2>1, <2>3 DEF SE!vars
<1>4. ASSUME NEW q, queue[th] = q, NEW t, t = Head(tasks[q]), tasks[q] # <<>>
      PROVE  \E p \in Queue : SE!Begin(p)
  <2>1. /\ q \in Queue /\ t \in Task
        /\ HandedOver(q) = {} /\ HandedOver(q)' = {t}
        /\ \A p \in Queue \ {q} : HandedOver(p)' = HandedOver(p)
    BY <1>0, <1>4, PopHands
  <2>2. PickOwner(th, q)
    BY <1>4 DEF Pop, PickOwner
  <2>3. \A x \in Thread : running[x] # None => QueueOf[running[x]] # q
    BY <1>0, <2>1, <2>2 DEF IInv, OneOwner, RunOwner
  <2>4. Active(q) = {} /\ Active(q)' = {t}
    BY <1>1, <2>1, <2>3, ConstantsAssumption DEF Active
  <2>5. \A p \in Queue \ {q} : Active(p)' = Active(p)
    BY <1>1, <2>1 DEF Active
  <2>6. ActiveTask[q] = None /\ ActiveTask' = [ActiveTask EXCEPT ![q] = t]
    BY <2>1, <2>4, <2>5, ActiveIs, OtherActive
  <2>7. tasks' = [tasks EXCEPT ![q] = Tail(@)]
    BY <1>4 DEF Pop
  <2> QED
    BY <1>2, <1>4, <2>1, <2>6, <2>7 DEF SE!Begin
<1> QED
  BY <1>3, <1>4

(* When execute() begins the executor has begun the task already. *)
LEMMA BeginStutters ==
  ASSUME RInv, NEW th \in Thread, NEW t \in Task, Begins(th, t)
  PROVE  UNCHANGED SE!vars
<1>0. IInv
  BY DEF RInv
<1> DEFINE q == QueueOf[t]
<1>1. /\ q \in Queue /\ HandedOver(q) = {t} /\ HandedOver(q)' = {}
      /\ \A p \in Queue \ {q} : HandedOver(p)' = HandedOver(p)
  BY <1>0, BeginHands
<1>2. /\ tasks' = tasks /\ pauseCount' = pauseCount
      /\ running[th] = None /\ running'[th] = t
      /\ \A x \in Thread \ {th} : running'[x] = running[x]
      /\ \A u \in Task : Executed(u)' <=> Executed(u) \/ u = t
  BY <1>0, BeginHistory
<1>3. ASSUME NEW p \in Queue, NEW u \in Task
      PROVE  u \in Active(p)' <=> u \in Active(p)
  <2>1. (\E x \in Thread : running'[x] = u) <=> (\E x \in Thread : running[x] = u) \/ u = t
    BY <1>2, ConstantsAssumption
  <2> QED
    BY <1>1, <2>1 DEF Active
<1>4. Active(q)' \subseteq Task /\ \A p \in Queue : Active(p)' \subseteq Task /\ Active(p) \subseteq Task
  BY <1>1 DEF Active, HandedOver
<1>5. ActiveTask' = ActiveTask
  BY <1>3, <1>4, SameActive
<1>6. ~Executed(t)
  BY <1>1, HandedIsNew
<1>7. ASSUME NEW u \in Task
      PROVE  Finished(u)' <=> Finished(u)
  BY <1>2, <1>6, ConstantsAssumption DEF Finished
<1>8. DoneTasks' = DoneTasks
  BY <1>7 DEF DoneTasks
<1> QED
  BY <1>2, <1>5, <1>8 DEF SE!vars, OpenQueue

(* finishedTask is End. *)
LEMMA FinishEnds ==
  ASSUME RInv, NEW th \in Thread, FinishTask(th)
  PROVE  \E q \in Queue : SE!End(q)
<1>0. IInv
  BY DEF RInv
<1>1. /\ running' = [running EXCEPT ![th] = None] /\ running[th] # None
      /\ tasks' = tasks /\ pauseCount' = pauseCount /\ executed' = executed
  BY <1>0 DEF FinishTask, history, IInv, StackOK, Consistent
<1>2. PICK t \in Task : running[th] = t
  BY <1>0, <1>1 DEF IInv, TypeOK
<1> DEFINE q == QueueOf[t]
<1>3. /\ Active(q) = {t} /\ q \in Queue /\ HandedOver(q) = {}
      /\ \A x \in Thread \ {th} : running[x] # t
  BY <1>0, <1>2, RunningIsActive
<1>4. \A p \in Queue : HandedOver(p)' = HandedOver(p)
  BY <1>0, SameHands DEF KeepsHands
<1>5. \A x \in Thread : running'[x] = IF x = th THEN None ELSE running[x]
  BY <1>0, <1>1 DEF IInv, TypeOK
<1>6. ASSUME NEW u \in Task
      PROVE  (\E x \in Thread : running'[x] = u) <=> (\E x \in Thread : running[x] = u) /\ u # t
  BY <1>2, <1>3, <1>5, ConstantsAssumption
<1>7. Active(q)' = {}
  <2>1. ASSUME NEW u \in Task, u \in Active(q)'
        PROVE  FALSE
    <3>1. \E x \in Thread : running[x] = u /\ u # t /\ QueueOf[u] = q
      BY <1>3, <1>4, <1>6, <2>1 DEF Active
    <3>2. u \in Active(q)
      BY <3>1 DEF Active
    <3> QED
      BY <1>3, <3>1, <3>2
  <2> QED
    BY <1>3, <1>4, <2>1 DEF Active, HandedOver
<1>8. ASSUME NEW p \in Queue \ {q}
      PROVE  Active(p)' = Active(p)
  BY <1>4, <1>6, <1>8 DEF Active
<1>9. ActiveTask[q] = t /\ ActiveTask' = [ActiveTask EXCEPT ![q] = None]
  BY <1>3, <1>7, <1>8, ActiveIs, OtherActive
<1>10. DoneTasks' = DoneTasks \cup {t}
  <2>1. Executed(t) /\ ~Finished(t)
    BY <1>1, <1>2 DEF RInv, RunningBegan, Finished
  <2>2. ASSUME NEW u \in Task
        PROVE  Finished(u)' <=> Finished(u) \/ u = t
    <3>1. Executed(u)' <=> Executed(u)
      BY <1>1 DEF Executed
    <3> QED
      BY <1>6, <2>1, <3>1 DEF Finished
  <2> QED
    BY <2>2 DEF DoneTasks
<1> QED
  BY <1>1, <1>3, <1>9, <1>10, ConstantsAssumption DEF SE!End, OpenQueue

(* Every other step opens or closes a queue, or changes nothing the        *)
(* executor has.                                                           *)
LEMMA OthersOpenOrStutter ==
  ASSUME RInv, NEW th \in Thread, KeepsHands(th),
         ~FinishTask(th), ~\E t \in Task : Push(th, t)
  PROVE  (\E q \in Queue : SE!OpenOrClose(q)) \/ UNCHANGED SE!vars
<1>0. IInv
  BY DEF RInv
<1>1. executed' = executed /\ running' = running
  BY <1>0, QuietHistory
<1>2. tasks' = tasks
  BY DEF KeepsHands, Pause, Resume, CheckPause, Acquire, Choose, Unchoose, Release,
         Spawn, members
<1>3. ActiveTask' = ActiveTask /\ DoneTasks' = DoneTasks
  BY <1>0, <1>1, SameHands, SameActive, SameDone DEF Active
<1>4. CASE pauseCount' = pauseCount
  BY <1>2, <1>3, <1>4 DEF SE!vars, OpenQueue
<1>5. ASSUME NEW q \in Queue, Pause(th, q) \/ Resume(th, q)
      PROVE  (\E p \in Queue : SE!OpenOrClose(p)) \/ UNCHANGED SE!vars
  <2>1. /\ pauseCount[q] \in Nat /\ pauseCount'[q] \in Nat
        /\ \A p \in Queue \ {q} : pauseCount'[p] = pauseCount[p]
    BY <1>0, <1>5, ConstantsAssumption DEF Pause, Resume, IInv, TypeOK
  <2>2. CASE (pauseCount'[q] = 0) <=> (pauseCount[q] = 0)
    <3>1. OpenQueue' = OpenQueue
      BY <2>1, <2>2 DEF OpenQueue
    <3> QED
      BY <1>2, <1>3, <3>1 DEF SE!vars
  <2>3. CASE (pauseCount'[q] = 0) <=> (pauseCount[q] # 0)
    <3>1. OpenQueue' = [OpenQueue EXCEPT ![q] = ~@]
      BY <2>1, <2>3 DEF OpenQueue
    <3> QED
      BY <1>2, <1>3, <3>1 DEF SE!OpenOrClose
  <2> QED
    BY <2>2, <2>3
<1>6. pauseCount' = pauseCount \/ \E q \in Queue : Pause(th, q) \/ Resume(th, q)
  BY DEF KeepsHands, CheckPause, Acquire, Choose, Unchoose, Release, Spawn, members
<1> QED
  BY <1>4, <1>5, <1>6

(* Every step of the code is a step of the executor or none. *)
LEMMA StepImplements ==
  RInv /\ [Next]_vars => [SE!Next]_(SE!vars)
<1> SUFFICES ASSUME RInv, [Next]_vars
             PROVE  SE!Next \/ UNCHANGED SE!vars
  OBVIOUS
<1>1. ASSUME NEW th \in Thread, KeepsHands(th)
      PROVE  SE!Next \/ UNCHANGED SE!vars
  BY <1>1, PushSubmits, FinishEnds, OthersOpenOrStutter DEF SE!Next
<1>2. ASSUME NEW th \in Thread, Pop(th)
      PROVE  SE!Next \/ UNCHANGED SE!vars
  BY <1>2, PopBegins DEF SE!Next
<1>3. ASSUME NEW th \in Thread, NEW t \in Task, Begins(th, t)
      PROVE  UNCHANGED SE!vars
  BY <1>3, BeginStutters
<1>4. CASE UNCHANGED vars
  BY <1>4 DEF vars, SE!vars, ActiveTask, Active, HandedOver, SpawnOwner, OpenQueue,
              DoneTasks, Finished, Executed
<1>5. IInv
  BY DEF RInv
<1> QED
  BY <1>1, <1>2, <1>3, <1>4, <1>5, StepKinds

(* The initial state of the code is that of the executor. *)
LEMMA InitImplements ==
  Init => SE!Init
<1> SUFFICES ASSUME Init
             PROVE  SE!Init
  OBVIOUS
<1>1. \A q \in Queue : Active(q) = {}
  BY ConstantsAssumption DEF Init, Active, HandedOver, SpawnOwner
<1>2. ActiveTask = [q \in Queue |-> None]
  BY <1>1 DEF ActiveTask, TheOne
<1>3. OpenQueue = [q \in Queue |-> TRUE]
  BY DEF Init, OpenQueue
<1>4. DoneTasks = {}
  BY ConstantsAssumption DEF Init, DoneTasks, Finished, Executed
<1> QED
  BY <1>2, <1>3, <1>4 DEF Init, SE!Init

(* For any number of threads, tasks, queues and groups the queue class is  *)
(* a serial executor: tasks wait in the order of the pushes, one at a time *)
(* is processed, and none gets lost or comes back.                         *)
THEOREM ImplementsExecutor ==
  Spec => ImplementsSerialExecutor
<1>1. Init => RInv /\ SE!Init
  BY InitRInv, InitImplements
<1> QED
  BY <1>1, NextRInv, StepImplements, PTL DEF Spec, ImplementsSerialExecutor, SE!Spec
=============================================================================
