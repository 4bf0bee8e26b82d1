---------------------- MODULE SerialTaskQueueLifetimeProofs ----------------------
(***************************************************************************)
(* The destructor of a queue that is not paused returns only when all      *)
(* tasks are finished, and waits no longer than for them: for any threads, *)
(* tasks and queues.  Its steps are steps of SerialTaskQueue or leave its  *)
(* variables alone, so that the invariants proved there hold while         *)
(* destructors run.                                                        *)
(***************************************************************************)
EXTENDS SerialTaskQueueLifetime, SerialTaskQueueProofs

(* Nothing is in line, on its way or running. *)
Drained(q) ==
  /\ tasks[q] = <<>>
  /\ HandedOver(q) = {}
  /\ \A th \in Thread : ~RunOwner(th, q)

(* A task runs in the run lambda of its own group. *)
GroupOK == \A th \in Thread : running[th] # None => group[th] = GroupOf[running[th]]

LifetimeTypeOK ==
  /\ dtor \in [Queue -> DtorStage]
  /\ dtorThread \in [Queue -> Thread \cup {None}]
  /\ isEmpty \in [Queue -> BOOLEAN]
  /\ isTaskChosen \in [Queue -> BOOLEAN]

LastPushed(q) == pushed[q] # <<>> /\ pushed[q][Len(pushed[q])] = LastTask[q]

(* What the destructor has found out is still true when it uses it. *)
DtorOK(q) ==
  /\ dtor[q] \notin {"wait", "destroyed"} => ~IsPushed(LastTask[q])
  /\ dtor[q] = "wait" => LastPushed(q)
  /\ dtor[q] \in {"readEmpty", "readChosen"} /\ isEmpty[q] => tasks[q] = <<>>
  /\ dtor[q] = "readChosen" /\ isEmpty[q] /\ ~isTaskChosen[q] => Drained(q)
  /\ dtor[q] = "destroyed" /\ pauseCount[q] = 0 => Drained(q)

LifetimeInv ==
  /\ RInv
  /\ RunLast
  /\ GroupOK
  /\ LifetimeTypeOK
  /\ \A q \in Queue : DtorOK(q)

----------------------------------------------------------------------------
(* A destructor's steps are steps of the queue, seen from its variables.   *)
LEMMA StepsAreNext ==
  ASSUME [NextLifetime]_allVars
  PROVE  [Next]_vars
<1>1. ASSUME NEW th \in Thread, Call(th) \/ Work(th) PROVE Next
  BY <1>1 DEF Call, Work, Take, Next, ClientCall
<1>2. ASSUME NEW th \in Thread, Destroy(th) PROVE Next \/ UNCHANGED vars
  BY <1>2, LastTaskAssumption
     DEF Destroy, ReadEmpty, ReadChosen, Decide, PushLast, WaitOver, Next, ClientCall
<1> QED
  BY <1>1, <1>2 DEF NextLifetime, allVars

(* A run lambda keeps the group of the tasks it executes.                  *)
LEMMA GroupStep ==
  ASSUME IInv, [Next]_vars, GroupOK
  PROVE  GroupOK'
<1>1. ASSUME NEW th \in Thread, KeepsHands(th) \/ Pop(th), NEW x \in Thread, running'[x] # None
      PROVE  running'[x] = running[x] /\ group'[x] = group[x]
  <2>1. running'[x] = running[x]
    BY <1>1, QuietHistory DEF FinishTask, IInv, TypeOK
  <2>2. group' = group \/ BackToClient(th)
    BY <1>1 DEF KeepsHands, Push, Pause, Resume, CheckPause, Acquire, Choose, Pop, Unchoose,
                Release, Spawn, FinishTask, stack
  <2>3. group'[x] = group[x]
    BY <1>1, <2>1, <2>2 DEF BackToClient, IInv, TypeOK
  <2> QED
    BY <2>1, <2>3
<1>2. ASSUME NEW th \in Thread, NEW t \in Task, Begins(th, t)
      PROVE  GroupOK'
  <2>1. /\ group' = [group EXCEPT ![th] = GroupOf[t]]
        /\ running' = [running EXCEPT ![th] = t]
    BY <1>2 DEF Begins, RunNext, Execute
  <2> QED
    BY <2>1 DEF GroupOK, IInv, TypeOK
<1>3. CASE UNCHANGED vars
  BY <1>3 DEF vars, GroupOK
<1>4. ASSUME NEW th \in Thread, KeepsHands(th) \/ Pop(th)
      PROVE  GroupOK'
  BY <1>1, <1>4 DEF GroupOK
<1> QED
  BY <1>2, <1>3, <1>4, StepKinds

----------------------------------------------------------------------------
(* When the line of a queue is empty and nobody owns m_taskChosen, nothing *)
(* is left.                                                                *)
LEMMA EmptyAndFree ==
  ASSUME IInv, NEW q \in Queue, tasks[q] = <<>>, ~taskChosen[q]
  PROVE  Drained(q)
<1>1. /\ \A th \in Thread : ~PickOwner(th, q) /\ ~RunOwner(th, q)
      /\ \A t \in Task : ~SpawnOwner(t, q)
  BY DEF IInv, OneOwner
<1> QED
  BY <1>1, ConstantsAssumption DEF Drained, HandedOver, PickOwner

(* A line that is empty stays so without a push. *)
LEMMA StaysEmpty ==
  ASSUME IInv, [Next]_vars, NEW q \in Queue, tasks[q] = <<>>, pushed'[q] = pushed[q]
  PROVE  tasks'[q] = <<>>
<1>1. ASSUME NEW th \in Thread, NEW t \in Task, Push(th, t)
      PROVE  tasks'[q] = <<>>
  <2>1. QueueOf[t] # q
    <3> SUFFICES ASSUME QueueOf[t] = q PROVE FALSE
      OBVIOUS
    <3>1. pushed[q] \in Seq(Task) /\ pushed'[q] = Append(pushed[q], t)
      BY <1>1 DEF Push, IInv, TypeOK
    <3>2. Len(pushed'[q]) = Len(pushed[q]) + 1 /\ Len(pushed[q]) \in Nat
      BY <3>1
    <3> QED
      BY <3>2
  <2> QED
    BY <1>1, <2>1 DEF Push, IInv, TypeOK
<1>2. ASSUME NEW th \in Thread, Pop(th)
      PROVE  tasks'[q] = <<>>
  BY <1>2 DEF Pop, IInv, TypeOK
<1>3. ASSUME NEW th \in Thread, KeepsHands(th), ~\E t \in Task : Push(th, t)
      PROVE  tasks' = tasks
  BY <1>3 DEF KeepsHands, Pause, Resume, CheckPause, Acquire, Choose, Unchoose, Release,
              Spawn, FinishTask, members
<1>4. ASSUME NEW th \in Thread, NEW t \in Task, Begins(th, t)
      PROVE  tasks' = tasks
  BY <1>4, BeginHistory
<1>5. CASE UNCHANGED vars
  BY <1>5 DEF vars
<1> QED
  BY <1>1, <1>2, <1>3, <1>4, <1>5, StepKinds

(* And so does a queue with nothing left. *)
LEMMA StaysDrained ==
  ASSUME IInv, [Next]_vars, NEW q \in Queue, Drained(q), pushed'[q] = pushed[q]
  PROVE  Drained(q)'
<1>1. tasks'[q] = <<>>
  BY StaysEmpty DEF Drained
<1>2. ASSUME NEW th \in Thread, KeepsHands(th)
      PROVE  Drained(q)'
  <2>1. HandedOver(q)' = {}
    BY <1>2, SameHands DEF Drained
  <2>2. \A x \in Thread : running'[x] = running[x] \/ running'[x] = None
    BY <1>2, QuietHistory DEF FinishTask, IInv, TypeOK
  <2> QED
    BY <1>1, <2>1, <2>2 DEF Drained, RunOwner
<1>3. ASSUME NEW th \in Thread, Pop(th)
      PROVE  Drained(q)'
  <2>1. running' = running
    BY <1>3 DEF Pop
  <2>2. HandedOver(q)' = HandedOver(q)
    <3>1. CASE tasks[queue[th]] # <<>>
      <4>1. PICK p \in Queue : p = queue[th]
        BY <1>3 DEF Pop, IInv, StackOK, Consistent, Client, TypeOK
      <4>2. p # q
        BY <3>1, <4>1 DEF Drained
      <4> QED
        BY <1>3, <3>1, <4>1, <4>2, PopHands
    <3>2. CASE tasks[queue[th]] = <<>>
      BY <1>3, <3>2 DEF Pop, HandedOver, SpawnOwner
    <3> QED
      BY <3>1, <3>2
  <2> QED
    BY <1>1, <2>1, <2>2 DEF Drained, RunOwner
<1>4. ASSUME NEW th \in Thread, NEW t \in Task, Begins(th, t)
      PROVE  Drained(q)'
  <2>1. q # QueueOf[t] /\ HandedOver(q)' = HandedOver(q)
    BY <1>4, BeginHands DEF Drained
  <2>2. running'[th] = t /\ \A x \in Thread \ {th} : running'[x] = running[x]
    BY <1>4, BeginHistory
  <2> QED
    BY <1>1, <2>1, <2>2 DEF Drained, RunOwner
<1>5. CASE UNCHANGED vars
  BY <1>5 DEF vars, Drained, HandedOver, SpawnOwner, RunOwner
<1> QED
  BY <1>2, <1>3, <1>4, <1>5, StepKinds

(* When the task pushed last has begun and no longer runs, nothing is left. *)
LEMMA LastIsDone ==
  ASSUME RInv, RunLast, NEW q \in Queue, NEW t \in Task, QueueOf[t] = q,
         pushed[q] # <<>>, pushed[q][Len(pushed[q])] = t,
         Executed(t), \A th \in Thread : running[th] # t
  PROVE  Drained(q)
<1> DEFINE p == pushed[q]
           e == executed[q]
           w == tasks[q]
<1>1. p \in Seq(Task) /\ e \in Seq(Task) /\ w \in Seq(Task)
  BY DEF RInv, IInv, TypeOK
<1>2. PICK i \in 1..Len(e) : e[i] = t
  BY <1>1 DEF Executed
<1>3. \A j, k \in 1..Len(p) : p[j] = p[k] => j = k
  BY <1>1 DEF RInv, PushedOnce
<1>4. p # <<>> /\ p[Len(p)] = t
  OBVIOUS
<1>5. Line(q)
  BY DEF RInv
<1>6. Len(p) \in 1..Len(p)
  <2> HIDE DEF p
  <2> QED
    BY <1>1, <1>4
<1> HIDE DEF p, e, w
<1>7. ASSUME NEW u \in Task, p = Append(e, u) \o w
      PROVE  FALSE
  <2>1. /\ Append(e, u) \in Seq(Task) /\ Len(Append(e, u)) = Len(e) + 1
        /\ Append(e, u)[i] = e[i]
    BY <1>1
  <2>2. Len(p) = Len(e) + 1 + Len(w) /\ p[i] = e[i]
    BY <1>1, <1>7, <2>1, ConcatProperties
  <2>3. i \in 1..Len(p) /\ i # Len(p)
    BY <1>1, <2>2
  <2> QED
    BY <1>2, <1>3, <1>4, <1>6, <2>2, <2>3
<1>8. HandedOver(q) = {} /\ p = e \o w
  BY <1>5, <1>7 DEF Line, p, e, w
<1>9. Len(p) = Len(e) + Len(w) /\ p[i] = e[i]
  BY <1>1, <1>8, ConcatProperties
<1>10. i = Len(p)
  <2>1. i \in 1..Len(p)
    BY <1>1, <1>9
  <2> QED
    BY <1>2, <1>3, <1>4, <1>6, <1>9, <2>1
<1>11. Len(w) = 0 /\ i = Len(e)
  BY <1>1, <1>9, <1>10
<1>12. w = <<>>
  BY <1>1, <1>11
<1>13. \A th \in Thread : ~RunOwner(th, q)
  BY <1>2, <1>11 DEF RunLast, e
<1> QED
  BY <1>8, <1>12, <1>13 DEF Drained, w

(* Every task of a queue with nothing left is finished. *)
LEMMA DrainedFinished ==
  ASSUME RInv, NEW t \in Task, Drained(QueueOf[t]), IsPushed(t)
  PROVE  Finished(t)
<1> DEFINE q == QueueOf[t]
<1>1. q \in Queue
  BY ConstantsAssumption
<1>2. executed[q] \in Seq(Task) /\ Line(q)
  BY <1>1 DEF RInv, IInv, TypeOK
<1>3. pushed[q] = executed[q] \o <<>>
  BY <1>2 DEF Line, Drained
<1>4. executed[q] \o <<>> = executed[q]
  BY <1>2
<1>5. Executed(t)
  BY <1>3, <1>4 DEF IsPushed, Executed
<1> QED
  BY <1>5, ConstantsAssumption DEF Drained, RunOwner, Finished

----------------------------------------------------------------------------
(* A step that is not of the destructor of q pushes nothing into q once    *)
(* the destructor has been entered, and leaves its pause count alone when  *)
(* the destructor has returned.                                            *)
Elsewhere(q) ==
  /\ dtor'[q] = dtor[q] /\ isEmpty'[q] = isEmpty[q] /\ isTaskChosen'[q] = isTaskChosen[q]
  /\ dtor[q] # "alive" => pushed'[q] = pushed[q]
  /\ dtor[q] = "destroyed" => pauseCount'[q] = pauseCount[q]
  /\ dtor[q] = "alive" => IsPushed(LastTask[q])' = IsPushed(LastTask[q])

(* What the destructor of q knows is not disturbed from elsewhere. *)
LEMMA ElsewhereOK ==
  ASSUME LifetimeInv, [Next]_vars, NEW q \in Queue, Elsewhere(q)
  PROVE  DtorOK(q)'
<1>1. IInv /\ DtorOK(q) /\ LastTask[q] \in Task /\ QueueOf[LastTask[q]] = q
  BY LastTaskAssumption DEF LifetimeInv, RInv
<1>2. CASE dtor[q] = "alive"
  BY <1>1, <1>2 DEF Elsewhere, DtorOK
<1>3. CASE dtor[q] # "alive"
  <2>1. /\ pushed'[q] = pushed[q]
        /\ dtor[q] = "destroyed" => pauseCount'[q] = pauseCount[q]
    BY <1>3 DEF Elsewhere
  <2>2. IsPushed(LastTask[q])' = IsPushed(LastTask[q]) /\ LastPushed(q)' = LastPushed(q)
    BY <1>1, <2>1 DEF IsPushed, LastPushed
  <2>3. /\ tasks[q] = <<>> => tasks'[q] = <<>>
        /\ Drained(q) => Drained(q)'
    BY <1>1, <2>1, StaysEmpty, StaysDrained
  <2> QED
    BY <1>1, <1>3, <2>1, <2>2, <2>3 DEF Elsewhere, DtorOK
<1> QED
  BY <1>2, <1>3

(* A push puts its task behind all others of one queue. *)
LEMMA PushPuts ==
  ASSUME IInv, NEW th \in Thread, NEW t \in Task, Push(th, t)
  PROVE  /\ pauseCount' = pauseCount
         /\ \A q \in Queue \ {QueueOf[t]} : pushed'[q] = pushed[q]
         /\ pushed'[QueueOf[t]] = Append(pushed[QueueOf[t]], t)
         /\ \A u \in Task \ {t} : IsPushed(u)' = IsPushed(u)
<1>1. pushed' = [pushed EXCEPT ![QueueOf[t]] = Append(@, t)] /\ pauseCount' = pauseCount
  BY DEF Push
<1>2. QueueOf[t] \in Queue /\ pushed \in [Queue -> Seq(Task)]
  BY ConstantsAssumption DEF IInv, TypeOK
<1>3. ASSUME NEW u \in Task \ {t}
      PROVE  IsPushed(u)' = IsPushed(u)
  <2> DEFINE p == pushed[QueueOf[u]]
  <2>1. p \in Seq(Task) /\ QueueOf[u] \in Queue
    BY <1>2, ConstantsAssumption
  <2>2. CASE QueueOf[u] # QueueOf[t]
    BY <1>1, <1>2, <2>1, <2>2 DEF IsPushed
  <2>3. CASE QueueOf[u] = QueueOf[t]
    <3>1. pushed'[QueueOf[u]] = Append(p, t)
      BY <1>1, <1>2, <2>3
    <3>2. /\ DOMAIN Append(p, t) = 1..(Len(p) + 1) /\ DOMAIN p = 1..Len(p)
          /\ Append(p, t)[Len(p) + 1] = t /\ Len(p) \in Nat
          /\ \A i \in 1..Len(p) : Append(p, t)[i] = p[i]
      BY <2>1
    <3>3. \A i \in 1..(Len(p) + 1) : i \in 1..Len(p) \/ i = Len(p) + 1
      BY <3>2
    <3>4. \A i \in 1..Len(p) : i \in 1..(Len(p) + 1)
      BY <3>2
    <3>5. (\E i \in DOMAIN Append(p, t) : Append(p, t)[i] = u) <=> (\E i \in DOMAIN p : p[i] = u)
      BY <3>2, <3>3, <3>4
    <3> QED
      BY <3>1, <3>5 DEF IsPushed
  <2> QED
    BY <2>2, <2>3
<1> QED
  BY <1>1, <1>2, <1>3

(* Only push, pause and resume change what Elsewhere speaks of. *)
LEMMA WorkIsElsewhere ==
  ASSUME LifetimeInv, NEW th \in Thread, Call(th) \/ Work(th), NEW q \in Queue
  PROVE  Elsewhere(q)
<1>0. IInv
  BY DEF LifetimeInv, RInv
<1>1. UNCHANGED lifetimeVars
  BY DEF Call, Work
<1>2. ASSUME NEW t \in Task, dtor[QueueOf[t]] = "alive", t # LastTask[QueueOf[t]], Push(th, t)
      PROVE  Elsewhere(q)
  <2>1. LastTask[q] \in Task \ {t}
    BY <1>2, LastTaskAssumption
  <2> QED
    BY <1>0, <1>1, <1>2, <2>1, PushPuts DEF Elsewhere, lifetimeVars
<1>3. ASSUME NEW p \in Queue, MayPause(th, p), Pause(th, p) \/ Resume(th, p)
      PROVE  Elsewhere(q)
  <2>1. pushed' = pushed /\ (q # p => pauseCount'[q] = pauseCount[q])
    BY <1>0, <1>3 DEF Pause, Resume, history, IInv, TypeOK
  <2> QED
    BY <1>1, <1>3, <2>1 DEF Elsewhere, MayPause, lifetimeVars, IsPushed
<1>4. CASE Work(th)
  <2>1. pushed' = pushed /\ pauseCount' = pauseCount
    BY <1>4 DEF Work, Take, Start, Internal, Pick, CheckPause, Acquire, Choose, Pop, Unchoose,
                Release, Spawn, RunNext, FinishTask, history, members
  <2> QED
    BY <1>1, <2>1 DEF Elsewhere, lifetimeVars, IsPushed
<1> QED
  BY <1>2, <1>3, <1>4 DEF Call

(* The destructor of one queue is elsewhere for all others. *)
LEMMA OtherDtorIsElsewhere ==
  ASSUME LifetimeInv, NEW th \in Thread, NEW p \in Queue, NEW q \in Queue \ {p},
         \/ ReadEmpty(th, p) \/ ReadChosen(th, p) \/ Decide(th, p)
         \/ PushLast(th, p) \/ WaitOver(th, p)
  PROVE  Elsewhere(q)
<1>1. /\ dtor'[q] = dtor[q] /\ isEmpty'[q] = isEmpty[q]
      /\ isTaskChosen'[q] = isTaskChosen[q]
  BY DEF LifetimeInv, LifetimeTypeOK, ReadEmpty, ReadChosen, Decide, PushLast, WaitOver
<1>2. CASE PushLast(th, p)
  <2>1. Push(th, LastTask[p])
    BY <1>2 DEF PushLast
  <2>2. LastTask[p] \in Task /\ LastTask[q] \in Task \ {LastTask[p]} /\ QueueOf[LastTask[p]] = p
    BY LastTaskAssumption
  <2> QED
    BY <1>1, <2>1, <2>2, PushPuts DEF Elsewhere, LifetimeInv, RInv
<1>3. CASE UNCHANGED vars
  BY <1>1, <1>3 DEF Elsewhere, vars, IsPushed
<1> QED
  BY <1>2, <1>3 DEF ReadEmpty, ReadChosen, Decide, WaitOver

----------------------------------------------------------------------------
(* The steps of the destructor of q.                                       *)
LEMMA ReadEmptyOK ==
  ASSUME LifetimeInv, NEW th \in Thread, NEW q \in Queue, ReadEmpty(th, q)
  PROVE  DtorOK(q)'
<1>1. DtorOK(q) /\ dtor[q] = "alive" /\ UNCHANGED vars
  BY DEF LifetimeInv, ReadEmpty
<1>2. dtor'[q] = "readEmpty" /\ isEmpty'[q] = (tasks[q] = <<>>)
  BY DEF LifetimeInv, LifetimeTypeOK, ReadEmpty
<1> QED
  BY <1>1, <1>2 DEF DtorOK, IsPushed, vars

(* The flag read while the line is empty tells that nothing is left.       *)
LEMMA ReadChosenOK ==
  ASSUME LifetimeInv, NEW th \in Thread, NEW q \in Queue, ReadChosen(th, q)
  PROVE  DtorOK(q)'
<1>1. DtorOK(q) /\ dtor[q] = "readEmpty" /\ UNCHANGED vars /\ isEmpty' = isEmpty
  BY DEF LifetimeInv, ReadChosen, DtorAt
<1>2. dtor'[q] = "readChosen" /\ isTaskChosen'[q] = taskChosen[q]
  BY DEF LifetimeInv, LifetimeTypeOK, ReadChosen
<1>3. isEmpty[q] /\ ~taskChosen[q] => Drained(q)
  BY <1>1, EmptyAndFree DEF DtorOK, LifetimeInv, RInv
<1>4. Drained(q)' = Drained(q) /\ IsPushed(LastTask[q])' = IsPushed(LastTask[q])
  BY <1>1 DEF vars, Drained, HandedOver, SpawnOwner, RunOwner, IsPushed
<1> QED
  BY <1>1, <1>2, <1>3, <1>4 DEF DtorOK, vars

(* A destructor that does not wait found the queue drained, or paused.     *)
LEMMA DecideOK ==
  ASSUME LifetimeInv, NEW th \in Thread, NEW q \in Queue, Decide(th, q)
  PROVE  DtorOK(q)'
<1>1. DtorOK(q) /\ dtor[q] = "readChosen" /\ UNCHANGED vars
  BY DEF LifetimeInv, Decide, DtorAt
<1>2. dtor'[q] = IF MustWait(q) THEN "pushLast" ELSE "destroyed"
  BY DEF LifetimeInv, LifetimeTypeOK, Decide
<1>3. ~MustWait(q) /\ pauseCount[q] = 0 => Drained(q)
  BY <1>1 DEF DtorOK, MustWait
<1>4. /\ Drained(q)' = Drained(q) /\ IsPushed(LastTask[q])' = IsPushed(LastTask[q])
      /\ pauseCount' = pauseCount
  BY <1>1 DEF vars, Drained, HandedOver, SpawnOwner, RunOwner, IsPushed
<1> QED
  BY <1>1, <1>2, <1>3, <1>4 DEF DtorOK

(* The last task goes behind all others. *)
LEMMA PushLastOK ==
  ASSUME LifetimeInv, NEW th \in Thread, NEW q \in Queue, PushLast(th, q)
  PROVE  DtorOK(q)'
<1>1. dtor'[q] = "wait" /\ Push(th, LastTask[q])
  BY DEF LifetimeInv, LifetimeTypeOK, PushLast
<1>2. LastTask[q] \in Task /\ QueueOf[LastTask[q]] = q
  BY LastTaskAssumption
<1>3. pushed'[q] = Append(pushed[q], LastTask[q])
  BY <1>1, <1>2, PushPuts DEF LifetimeInv, RInv
<1>4. pushed[q] \in Seq(Task)
  BY DEF LifetimeInv, RInv, IInv, TypeOK
<1>5. LastPushed(q)'
  <2>1. /\ Append(pushed[q], LastTask[q]) # <<>>
        /\ Append(pushed[q], LastTask[q])[Len(Append(pushed[q], LastTask[q]))] = LastTask[q]
    BY <1>2, <1>4
  <2> QED
    BY <1>3, <2>1 DEF LastPushed
<1> QED
  BY <1>1, <1>5 DEF DtorOK

(* When the last task is over, all others are.                             *)
LEMMA WaitOverOK ==
  ASSUME LifetimeInv, NEW th \in Thread, NEW q \in Queue, WaitOver(th, q)
  PROVE  DtorOK(q)'
<1> DEFINE t == LastTask[q]
<1>1. DtorOK(q) /\ dtor[q] = "wait" /\ UNCHANGED vars /\ Executed(t)
  BY DEF LifetimeInv, WaitOver, Waits, DtorAt
<1>2. dtor'[q] = "destroyed"
  BY DEF LifetimeInv, LifetimeTypeOK, WaitOver
<1>3. t \in Task /\ QueueOf[t] = q /\ t # None
  BY LastTaskAssumption, ConstantsAssumption
<1>4. \A other \in Thread : running[other] # t
  BY <1>3 DEF WaitOver, LifetimeInv, GroupOK
<1>5. pushed[q] # <<>> /\ pushed[q][Len(pushed[q])] = t
  BY <1>1 DEF DtorOK, LastPushed
<1>6. RInv /\ RunLast
  BY DEF LifetimeInv
<1> HIDE DEF t
<1>7. Drained(q)
  BY <1>1, <1>3, <1>4, <1>5, <1>6, LastIsDone
<1>8. Drained(q)'
  BY <1>1, <1>7 DEF vars, Drained, HandedOver, SpawnOwner, RunOwner
<1> QED
  BY <1>2, <1>8 DEF DtorOK

----------------------------------------------------------------------------
(* Initially no destructor has been entered and nothing pushed.            *)
LEMMA InitLifetimeInv ==
  InitLifetime => LifetimeInv
<1> SUFFICES ASSUME InitLifetime PROVE LifetimeInv
  OBVIOUS
<1>1. Init
  BY DEF InitLifetime
<1>2. RInv
  BY <1>1, InitRInv
<1>3. RunLast /\ GroupOK
  BY <1>1 DEF Init, RunLast, RunOwner, GroupOK
<1>4. LifetimeTypeOK
  BY DEF InitLifetime, LifetimeTypeOK, DtorStage
<1>5. ASSUME NEW q \in Queue PROVE DtorOK(q)
  <2>1. dtor[q] = "alive"
    BY DEF InitLifetime
  <2>2. LastTask[q] \in Task /\ QueueOf[LastTask[q]] = q /\ pushed[q] = <<>>
    BY <1>1, LastTaskAssumption DEF Init
  <2>3. ~IsPushed(LastTask[q])
    BY <2>2 DEF IsPushed
  <2> QED
    BY <2>1, <2>3 DEF DtorOK
<1> QED
  BY <1>2, <1>3, <1>4, <1>5 DEF LifetimeInv

(* The destructor keeps the types of its variables. *)
LEMMA LifetimeTypeStep ==
  ASSUME LifetimeInv, [NextLifetime]_allVars
  PROVE  LifetimeTypeOK'
<1> USE DEF LifetimeInv, LifetimeTypeOK, DtorStage
<1>1. ASSUME NEW th \in Thread, NEW q \in Queue, ReadEmpty(th, q) PROVE LifetimeTypeOK'
  BY <1>1 DEF ReadEmpty
<1>2. ASSUME NEW th \in Thread, NEW q \in Queue, ReadChosen(th, q) PROVE LifetimeTypeOK'
  <2>1. taskChosen[q] \in BOOLEAN
    BY DEF RInv, IInv, TypeOK
  <2> QED
    BY <1>2, <2>1 DEF ReadChosen
<1>3. ASSUME NEW th \in Thread, NEW q \in Queue,
             Decide(th, q) \/ PushLast(th, q) \/ WaitOver(th, q)
      PROVE  LifetimeTypeOK'
  BY <1>3 DEF Decide, PushLast, WaitOver
<1>4. ASSUME UNCHANGED lifetimeVars PROVE LifetimeTypeOK'
  BY <1>4 DEF lifetimeVars
<1> QED
  BY <1>1, <1>2, <1>3, <1>4 DEF NextLifetime, Call, Work, Destroy, allVars

(* Every step, of whichever thread, keeps the invariant. *)
LEMMA NextLifetimeInv ==
  LifetimeInv /\ [NextLifetime]_allVars => LifetimeInv'
<1> SUFFICES ASSUME LifetimeInv, [NextLifetime]_allVars PROVE LifetimeInv'
  OBVIOUS
<1>1. [Next]_vars
  BY StepsAreNext
<1>2. RInv /\ RInv' /\ RunLast' /\ GroupOK'
  <2>1. RInv /\ RunLast /\ GroupOK /\ IInv
    BY DEF LifetimeInv, RInv
  <2>2. RInv'
    BY <1>1, <2>1, NextRInv
  <2> QED
    BY <1>1, <2>1, <2>2, RunLastStep, GroupStep
<1>3. LifetimeTypeOK'
  BY LifetimeTypeStep
<1>4. ASSUME NEW q \in Queue PROVE DtorOK(q)'
  <2>1. ASSUME NEW th \in Thread, Call(th) \/ Work(th) PROVE DtorOK(q)'
    BY <1>1, <2>1, WorkIsElsewhere, ElsewhereOK
  <2>2. ASSUME NEW th \in Thread, NEW p \in Queue,
               \/ ReadEmpty(th, p) \/ ReadChosen(th, p) \/ Decide(th, p)
               \/ PushLast(th, p) \/ WaitOver(th, p)
        PROVE  DtorOK(q)'
    <3>1. CASE p # q
      BY <1>1, <2>2, <3>1, OtherDtorIsElsewhere, ElsewhereOK
    <3>2. CASE p = q
      BY <2>2, <3>2, ReadEmptyOK, ReadChosenOK, DecideOK, PushLastOK, WaitOverOK
    <3> QED
      BY <3>1, <3>2
  <2>3. CASE UNCHANGED allVars
    <3>1. Elsewhere(q)
      BY <2>3 DEF allVars, vars, lifetimeVars, Elsewhere, IsPushed
    <3> QED
      BY <1>1, <3>1, ElsewhereOK
  <2> QED
    BY <2>1, <2>2, <2>3 DEF NextLifetime, Destroy
<1> QED
  BY <1>2, <1>3, <1>4 DEF LifetimeInv

(* What the destructor has read about its queue stays true until it uses   *)
(* it, whatever pickers, run lambdas and other destructors do meanwhile.   *)
THEOREM LifetimeInvariance ==
  SpecLifetime => []LifetimeInv
<1> QED
  BY InitLifetimeInv, NextLifetimeInv, PTL DEF SpecLifetime

(* "Be certain all tasks have completed": whether the destructor of a      *)
(* queue that is not paused returns at once or after its last task, every  *)
(* task that was ever pushed into the queue has been executed to its end.  *)
THEOREM DestructorCompletes ==
  SpecLifetime => []AllTasksCompleted
<1>1. LifetimeInv => AllTasksCompleted
  BY DrainedFinished DEF LifetimeInv, DtorOK, AllTasksCompleted, TasksFor
<1> QED
  BY <1>1, LifetimeInvariance, PTL

----------------------------------------------------------------------------
(* The wait of the destructor                                              *)

(* A run lambda of the destructor's group that has ended its task is in    *)
(* finishedTask of the destructor's queue.                                 *)
GroupHere ==
  \A th \in Thread, q \in Queue :
    running[th] = None /\ group[th] = GroupOf[LastTask[q]] => queue[th] = q

(* A destructor that waits is let go: once its queue is idle and open, its *)
(* last task has run, and no lambda of its group is left.                  *)
WaitIsNotInVain ==
  \A q \in Queue :
    dtor[q] = "wait" /\ Idle(q) /\ pauseCount[q] = 0
      => /\ Executed(LastTask[q])
         /\ \A th \in Thread : group[th] # GroupOf[LastTask[q]]

(* Only the lambdas of the last task have its group. *)
LEMMA GroupHereStep ==
  ASSUME IInv, [Next]_vars, GroupOK, GroupHere
  PROVE  GroupHere'
<1>0. /\ running \in [Thread -> Task \cup {None}] /\ queue \in [Thread -> Queue \cup {None}]
      /\ group \in [Thread -> Group \cup {None}]
      /\ None \notin Queue /\ None \notin Group
      /\ \A q \in Queue : LastTask[q] \in Task /\ GroupOf[LastTask[q]] \in Group
      /\ \A t \in Task, q \in Queue : GroupOf[t] = GroupOf[LastTask[q]] => QueueOf[t] = q
  BY ConstantsAssumption, LastTaskAssumption DEF IInv, TypeOK
<1>1. ASSUME NEW th \in Thread,
             \A x \in Thread \ {th} : UNCHANGED <<running[x], queue[x], group[x]>>,
             \A q \in Queue :
               running'[th] = None /\ group'[th] = GroupOf[LastTask[q]] => queue'[th] = q
      PROVE  GroupHere'
  BY <1>1 DEF GroupHere
<1>2. ASSUME NEW th \in Thread, BackToClient(th), running' = running
      PROVE  GroupHere'
  <2>1. /\ \A x \in Thread \ {th} : UNCHANGED <<running[x], queue[x], group[x]>>
        /\ running[th] = None => group'[th] = None
    BY <1>0, <1>2 DEF BackToClient
  <2> QED
    BY <1>0, <1>1, <1>2, <2>1
<1>3. CASE UNCHANGED <<running, queue, group>>
  BY <1>3 DEF GroupHere
<1>4. ASSUME NEW th \in Thread, pc[th] \in Client, NEW q \in Queue, NEW f, CallPick(th, q, f),
             UNCHANGED <<running, group>>
      PROVE  GroupHere'
  <2>1. \A p \in Queue : queue[th] # p
    BY <1>0, <1>4 DEF IInv, StackOK, Consistent
  <2>2. \A x \in Thread \ {th} : queue'[x] = queue[x]
    BY <1>0, <1>4 DEF CallPick
  <2> QED
    BY <1>1, <1>4, <2>1, <2>2 DEF GroupHere
<1>5. ASSUME NEW th \in Thread, FinishTask(th)
      PROVE  GroupHere'
  <2>1. /\ running[th] \in Task /\ group[th] = GroupOf[running[th]]
        /\ queue'[th] = QueueOf[running[th]] /\ group' = group
        /\ \A x \in Thread \ {th} : running'[x] = running[x] /\ queue'[x] = queue[x]
    BY <1>0, <1>5 DEF FinishTask, CallPick, IInv, StackOK, Consistent, GroupOK
  <2> QED
    BY <1>0, <1>1, <2>1
<1>6. ASSUME NEW th \in Thread, NEW t \in Task, Begins(th, t)
      PROVE  GroupHere'
  <2>1. /\ running'[th] = t /\ t # None
        /\ \A x \in Thread \ {th} : UNCHANGED <<running[x], queue[x], group[x]>>
    BY <1>0, <1>6, ConstantsAssumption DEF Begins, RunNext, Execute
  <2> QED
    BY <1>1, <2>1
<1>7. ASSUME NEW th \in Thread, KeepsHands(th) \/ Pop(th)
      PROVE  GroupHere'
  <2>1. CASE \/ \E q \in Queue : Pause(th, q)
             \/ Acquire(th) \/ Choose(th) \/ Pop(th) \/ Unchoose(th)
    BY <1>3, <2>1 DEF Pause, Acquire, Choose, Pop, Unchoose, stack
  <2>2. CASE CheckPause(th) \/ Release(th) \/ Spawn(th)
    BY <1>2, <1>3, <2>2 DEF CheckPause, Release, Spawn
  <2>3. ASSUME NEW t \in Task, Push(th, t)
        PROVE  GroupHere'
    BY <1>4, <2>3, ConstantsAssumption DEF Push
  <2>4. ASSUME NEW q \in Queue, Resume(th, q)
        PROVE  GroupHere'
    BY <1>3, <1>4, <2>4 DEF Resume
  <2> QED
    BY <1>5, <1>7, <2>1, <2>2, <2>3, <2>4 DEF KeepsHands
<1>8. CASE UNCHANGED vars
  BY <1>3, <1>8 DEF vars
<1> QED
  BY <1>6, <1>7, <1>8, StepKinds

(* The last task was pushed before the wait, and an open queue at rest has *)
(* run all its tasks.                                                      *)
LEMMA IdleEndsWait ==
  ASSUME LifetimeInv, GroupHere
  PROVE  WaitIsNotInVain
<1> SUFFICES ASSUME NEW q \in Queue, dtor[q] = "wait", Idle(q), pauseCount[q] = 0
             PROVE  /\ Executed(LastTask[q])
                    /\ \A th \in Thread : group[th] # GroupOf[LastTask[q]]
  BY DEF WaitIsNotInVain
<1> DEFINE t == LastTask[q]
<1>0. /\ RInv /\ t \in Task /\ QueueOf[t] = q /\ pushed[q] \in Seq(Task)
      /\ GroupOf[t] \in Group /\ None \notin Group /\ None \notin Task
      /\ running \in [Thread -> Task \cup {None}]
  BY ConstantsAssumption, LastTaskAssumption DEF LifetimeInv, RInv, IInv, TypeOK
<1>1. IsPushed(t)
  <2>1. LastPushed(q)
    BY DEF LifetimeInv, DtorOK
  <2>2. Len(pushed[q]) \in DOMAIN pushed[q] /\ pushed[q][Len(pushed[q])] = t
    BY <1>0, <2>1 DEF LastPushed
  <2> QED
    BY <1>0, <2>2 DEF IsPushed
<1>2. Finished(t)
  BY <1>0, <1>1, OpenIdleIsDone
<1>3. ASSUME NEW th \in Thread, group[th] = GroupOf[t]
      PROVE  FALSE
  <2>1. CASE running[th] = None
    BY <1>3, <2>1 DEF GroupHere, Idle
  <2>2. CASE running[th] # None
    <3>1. running[th] \in Task /\ GroupOf[running[th]] = GroupOf[t]
      BY <1>0, <1>3, <2>2 DEF LifetimeInv, GroupOK
    <3>2. running[th] = t
      BY <3>1, LastTaskAssumption
    <3> QED
      BY <1>2, <3>2 DEF Finished
  <2> QED
    BY <2>1, <2>2
<1> QED
  BY <1>2, <1>3 DEF Finished

(* A destructor never waits for nothing: while its queue is open there is  *)
(* a thread in the queue or a task on its way, or the wait is over.  It is *)
(* the safety half of DestructorReturns.                                   *)
THEOREM DestructorIsLetGo ==
  SpecLifetime => []WaitIsNotInVain
<1>1. InitLifetime => GroupHere
  <2> SUFFICES ASSUME InitLifetime, NEW th \in Thread, NEW q \in Queue
               PROVE  group[th] # GroupOf[LastTask[q]]
    BY DEF GroupHere
  <2>1. group[th] = None /\ GroupOf[LastTask[q]] \in Group
    BY ConstantsAssumption, LastTaskAssumption DEF InitLifetime, Init
  <2> QED
    BY <2>1, ConstantsAssumption
<1>2. LifetimeInv /\ GroupHere /\ [NextLifetime]_allVars => GroupHere'
  BY StepsAreNext, GroupHereStep DEF LifetimeInv, RInv
<1>3. LifetimeInv /\ GroupHere => WaitIsNotInVain
  BY IdleEndsWait
<1> QED
  BY <1>1, <1>2, <1>3, LifetimeInvariance, PTL DEF SpecLifetime
=============================================================================
