---------------------- MODULE SerialTaskQueueChainProofs ----------------------
(***************************************************************************)
(* Proofs about SerialTaskQueueChain, for a chain of any length, any       *)
(* finite set of actions, any number of threads and of other clients:      *)
(* every queue behind an action is paused exactly once for it, the actions *)
(* reach every queue in the order in which they entered the first, they    *)
(* are counted right, and at rest none of them is left.                    *)
(***************************************************************************)
EXTENDS SerialTaskQueueChain, SerialTaskQueueProofs, FiniteSetTheorems

----------------------------------------------------------------------------
(* The inductive invariant                                                 *)

Stage == {"none", "direct", "pause", "pass", "action", "resume", "over"}

ChainTypeOK ==
  /\ pushing \in [Thread -> Action \cup {None}]
  /\ stage \in [Thread -> Stage]
  /\ resuming \in [Thread -> 0..(n - 1)]

(* Which lambda a thread is in, by its stage: one that still has to go     *)
(* down the chain has not been pushed into the next queue yet.             *)
StageOK ==
  \A th \in Thread :
    /\ stage[th] = "none" <=> running[th] = None
    /\ stage[th] \in {"pause", "pass"} =>
         \E a \in Action, i \in 1..(n - 1) :
           running[th] = TaskAt[a][i] /\ ~IsPushed(TaskAt[a][i + 1])
    /\ stage[th] \in {"action", "resume"} =>
         \E a \in Action : running[th] = TaskAt[a][n]

(* An action is in a queue only when its lambdas in all before it began. *)
Chained ==
  \A a \in Action : \A i, j \in Level :
    i < j /\ IsPushed(TaskAt[a][j]) => Executed(TaskAt[a][i])

(* A queue holds the tasks that are meant for it. *)
PushedHere ==
  \A q \in Queue : \A x \in DOMAIN pushed[q] : QueueOf[pushed[q][x]] = q

(* One action was pushed before another into the queue of a level. *)
Before(a, b, i) ==
  \E x, y \in DOMAIN pushed[m_queues[i]] :
    /\ x < y
    /\ pushed[m_queues[i]][x] = TaskAt[a][i]
    /\ pushed[m_queues[i]][y] = TaskAt[b][i]

(* The actions come to every queue in the order of the first. *)
SameOrder ==
  \A a, b \in Action : \A i \in Level : Before(a, b, i) => Before(a, b, 1)

ChainInv ==
  /\ RInv /\ RunLast
  /\ ChainTypeOK /\ StageOK
  /\ Chained /\ PushedHere /\ SameOrder
  /\ PausedByWhatPassed

----------------------------------------------------------------------------
(* The chain and its lambdas                                               *)

(* The levels of the chain are numbered from one, and each has its queue. *)
LEMMA Levels ==
  /\ n \in Nat /\ n > 0 /\ 1 \in Level /\ n \in Level
  /\ \A i \in Level : i \in Nat /\ m_queues[i] \in Queue
  /\ \A i \in 1..(n - 1) : i \in Level /\ i + 1 \in Level /\ i # n /\ i \in Nat
BY ChainAssumption DEF n, Level

(* From its lambda an action and a level can be told. *)
LEMMA LambdaIs ==
  ASSUME NEW a \in Action, NEW i \in Level
  PROVE  /\ TaskAt[a][i] \in Task /\ TaskAt[a][i] \in Lambda
         /\ TaskAt[a][i] \notin Direct /\ TaskAt[a][i] # None
         /\ ActionOf(TaskAt[a][i]) = a /\ LevelOf(TaskAt[a][i]) = i
         /\ QueueOf[TaskAt[a][i]] = m_queues[i]
<1>1. TaskAt[a][i] \in Task /\ QueueOf[TaskAt[a][i]] = m_queues[i]
  BY ChainAssumption
<1>2. TaskAt[a][i] \in Lambda
  BY DEF Lambda
<1>3. \A b \in Action, j \in Level : TaskAt[b][j] = TaskAt[a][i] => a = b /\ i = j
  BY ChainAssumption
<1>4. ActionOf(TaskAt[a][i]) = a
  BY <1>3 DEF ActionOf
<1>5. LevelOf(TaskAt[a][i]) = i
  BY <1>3 DEF LevelOf
<1> QED
  BY <1>1, <1>2, <1>4, <1>5, ConstantsAssumption DEF Direct

(* The stage a task begins with says which kind of lambda it is. *)
LEMMA FirstStages ==
  ASSUME NEW t \in Task
  PROVE  \/ t \in Direct /\ FirstStage(t) = "direct"
         \/ (\E a \in Action : t = TaskAt[a][n]) /\ FirstStage(t) = "action"
         \/ /\ \E a \in Action, i \in 1..(n - 1) : t = TaskAt[a][i]
            /\ FirstStage(t) = "pause"
<1>1. CASE t \in Direct
  BY <1>1 DEF FirstStage
<1>2. ASSUME NEW a \in Action, NEW i \in Level, t = TaskAt[a][i]
      PROVE  \/ (\E b \in Action : t = TaskAt[b][n]) /\ FirstStage(t) = "action"
             \/ /\ \E b \in Action, j \in 1..(n - 1) : t = TaskAt[b][j]
                /\ FirstStage(t) = "pause"
  <2>1. t \notin Direct /\ LevelOf(t) = i
    BY <1>2, LambdaIs
  <2>2. CASE i = n
    BY <1>2, <2>1, <2>2 DEF FirstStage
  <2>3. CASE i # n
    <3>1. i \in 1..(n - 1)
      BY <2>3, Levels DEF Level
    <3> QED
      BY <1>2, <2>1, <2>3, <3>1 DEF FirstStage
  <2> QED
    BY <2>2, <2>3
<1> QED
  BY <1>1, <1>2 DEF Direct, Lambda

----------------------------------------------------------------------------
(* The steps of the chain, as steps of the queues                          *)

SameStages == stage' = stage /\ resuming' = resuming

(* An action or a task of another client enters its first queue. *)
Enters(th, t) ==
  /\ t \in Direct \/ \E a \in Action : t = TaskAt[a][1]
  /\ Push(th, t)
  /\ SameStages

(* passDownChain on th, for action a at level i. *)
PassesDown(th, a, i, from, to) ==
  /\ pc[th] = "body" /\ stage[th] = from /\ running[th] = TaskAt[a][i]
  /\ GoTo(th, to)
  /\ resuming' = resuming

(* actionToRun on th, for action a. *)
RunsOn(th, a, from) ==
  pc[th] = "body" /\ stage[th] = from /\ running[th] = TaskAt[a][n]

(* What th does in the chain or in a queue. *)
ChainStep(th) ==
  \/ UNCHANGED vars /\ SameStages
  \/ (KeepsHands(th) \/ Pop(th)) /\ UNCHANGED <<pauseCount, running, history>> /\ SameStages
  \/ \E t \in Task : Enters(th, t)
  \/ \E t \in Task : Begins(th, t) /\ GoTo(th, FirstStage(t)) /\ resuming' = resuming
  \/ \E a \in Action, i \in 1..(n - 1) :
       \/ PassesDown(th, a, i, "pause", "pass") /\ Pause(th, m_queues[i])
       \/ PassesDown(th, a, i, "pass", "over") /\ Push(th, TaskAt[a][i + 1])
  \/ \E a \in Action :
       \/ /\ RunsOn(th, a, "action") /\ GoTo(th, "resume")
          /\ resuming' = [resuming EXCEPT ![th] = n - 1] /\ UNCHANGED vars
       \/ /\ RunsOn(th, a, "resume") /\ resuming[th] > 0 /\ stage' = stage
          /\ Resume(th, m_queues[resuming[th]])
          /\ resuming' = [resuming EXCEPT ![th] = @ - 1]
       \/ /\ RunsOn(th, a, "resume") /\ resuming[th] = 0 /\ GoTo(th, "over")
          /\ resuming' = resuming /\ UNCHANGED vars
  \/ /\ FinishTask(th) /\ stage[th] \in {"over", "direct"} /\ GoTo(th, "none")
     /\ resuming' = resuming

(* Every step of the chain is one of those. *)
LEMMA ChainStepKinds ==
  ASSUME ChainInv, ChainNext
  PROVE  \E th \in Thread : ChainStep(th)
<1> PICK th \in Thread : \/ \E a \in Action : CountIn(th, a)
                         \/ \E t \in Direct : PushDirect(th, t)
                         \/ StartBody(th) \/ GoOn(th) \/ Return(th)
  BY DEF ChainNext
<1> SUFFICES ChainStep(th)
  OBVIOUS
<1>0. IInv /\ TypeOK
  BY DEF ChainInv, RInv, IInv
<1>1. CASE \E a \in Action : CountIn(th, a)
  BY <1>1 DEF CountIn, ChainStep, SameStages
<1>2. CASE \E t \in Direct : PushDirect(th, t)
  BY <1>2 DEF PushDirect, ChainStep, Enters, SameStages, chainVars, Direct
<1>3. CASE PushFirst(th)
  <2>1. pushing[th] \in Action
    BY <1>3 DEF PushFirst, ChainInv, ChainTypeOK
  <2>2. TaskAt[pushing[th]][1] \in Task
    BY <2>1, Levels, LambdaIs
  <2> QED
    BY <1>3, <2>1, <2>2 DEF PushFirst, ChainStep, Enters, SameStages
<1>4. CASE StartBody(th)
  <2>1. PICK t \in spawned : /\ pc[th] = "out" /\ spawned' = spawned \ {t}
                             /\ Execute(th, t)
                             /\ UNCHANGED <<members, queue, caller, found, pushed>>
    BY <1>4 DEF StartBody, Start
  <2>2. t \in Task /\ Begins(th, t)
    BY <1>0, <2>1 DEF Begins, TypeOK
  <2>3. running'[th] = t
    BY <1>0, <2>2, BeginHistory
  <2> QED
    BY <1>4, <2>2, <2>3 DEF StartBody, BeginBody, ChainStep
<1>5. CASE NextBody(th)
  <2>1. found[th] \in Task
    BY <1>0, <1>5 DEF NextBody, RunNext, IInv, StackOK, Consistent, Client, TypeOK
  <2>2. Begins(th, found[th])
    BY <1>5 DEF NextBody, Begins
  <2>3. running'[th] = found[th]
    BY <1>0, <2>1, <2>2, BeginHistory
  <2> QED
    BY <1>5, <2>1, <2>2, <2>3 DEF NextBody, BeginBody, ChainStep
<1>6. CASE PassPause(th) \/ PassPush(th)
  <2>1. PICK a \in Action, i \in 1..(n - 1) : running[th] = TaskAt[a][i]
    BY <1>6 DEF PassPause, PassPush, InBody, ChainInv, StageOK
  <2>2. ActionOf(running[th]) = a /\ LevelOf(running[th]) = i
    BY <2>1, Levels, LambdaIs
  <2>3. CASE PassPause(th)
    BY <2>1, <2>2, <2>3 DEF PassPause, InBody, ChainStep, PassesDown
  <2>4. CASE PassPush(th)
    BY <2>1, <2>2, <2>4 DEF PassPush, InBody, ChainStep, PassesDown
  <2> QED
    BY <1>6, <2>3, <2>4
<1>7. CASE EndAction(th) \/ ResumeQueue(th) \/ CountOut(th)
  <2>1. PICK a \in Action : running[th] = TaskAt[a][n]
    BY <1>7 DEF EndAction, ResumeQueue, CountOut, InBody, ChainInv, StageOK
  <2>2. CASE EndAction(th)
    BY <2>1, <2>2 DEF EndAction, InBody, ChainStep, RunsOn
  <2>3. CASE ResumeQueue(th)
    BY <2>1, <2>3 DEF ResumeQueue, InBody, ChainStep, RunsOn
  <2>4. CASE CountOut(th)
    BY <2>1, <2>4 DEF CountOut, InBody, ChainStep, RunsOn
  <2> QED
    BY <1>7, <2>2, <2>3, <2>4
<1>8. CASE QueueStep(th)
  <2>1. /\ KeepsHands(th) \/ Pop(th)
        /\ UNCHANGED <<pauseCount, running, history>>
    BY <1>8 DEF QueueStep, Pick, KeepsHands, CheckPause, Acquire, Choose, Pop, Unchoose,
       Release, Spawn, members, history
  <2> QED
    BY <1>8, <2>1 DEF QueueStep, chainVars, ChainStep, SameStages
<1>9. CASE EndBody(th)
  BY <1>9 DEF EndBody, ChainStep
<1> QED
  BY <1>1, <1>2, <1>3, <1>4, <1>5, <1>6, <1>7, <1>8, <1>9 DEF GoOn, Return

(* No such step is more than a step of the queues: the chain is a client.  *)
LEMMA ChainStepIsNext ==
  ASSUME ChainInv, NEW th \in Thread, ChainStep(th)
  PROVE  [Next]_vars
<1>1. CASE KeepsHands(th) \/ Pop(th)
  BY <1>1 DEF KeepsHands, Next, ClientCall, Internal, Pick
<1>2. ASSUME NEW t \in Task, Begins(th, t)
      PROVE  Next
  BY <1>2 DEF Begins, Next, Start, Internal
<1>3. ASSUME NEW a \in Action, NEW i \in 1..(n - 1),
             Pause(th, m_queues[i]) \/ Push(th, TaskAt[a][i + 1])
      PROVE  Next
  BY <1>3, Levels, LambdaIs DEF Next, ClientCall
<1>4. ASSUME resuming[th] > 0, Resume(th, m_queues[resuming[th]])
      PROVE  Next
  <2>1. resuming[th] \in 0..(n - 1)
    BY DEF ChainInv, ChainTypeOK
  <2>2. resuming[th] \in 1..(n - 1)
    BY <1>4, <2>1, Levels
  <2>3. m_queues[resuming[th]] \in Queue
    BY <2>2, Levels
  <2> QED
    BY <1>4, <2>3 DEF Next, ClientCall
<1>5. ASSUME NEW t \in Task, Push(th, t)
      PROVE  Next
  BY <1>5 DEF Next, ClientCall
<1>6. CASE FinishTask(th)
  BY <1>6 DEF Next
<1> QED
  BY <1>1, <1>2, <1>3, <1>4, <1>5, <1>6 DEF ChainStep, Enters

(* The variables of the chain keep their types. *)
LEMMA ChainTypeStep ==
  ASSUME ChainInv, [ChainNext]_allVars
  PROVE  ChainTypeOK'
<1> USE DEF ChainInv, ChainTypeOK
<1>1. /\ n - 1 \in 0..(n - 1) /\ 0 \in 0..(n - 1)
      /\ \A r \in 0..(n - 1) : r > 0 => r - 1 \in 0..(n - 1)
  BY Levels
<1>2. \A t : FirstStage(t) \in Stage
  BY DEF FirstStage, Stage
<1>3. CASE UNCHANGED allVars
  BY <1>3 DEF allVars, chainVars
<1>4. ASSUME NEW th \in Thread,
             \/ \E a \in Action : CountIn(th, a)
             \/ \E t \in Direct : PushDirect(th, t)
             \/ PushFirst(th) \/ QueueStep(th)
      PROVE  ChainTypeOK'
  BY <1>4 DEF CountIn, PushDirect, PushFirst, QueueStep, chainVars
<1>5. ASSUME NEW th \in Thread, NEW s \in Stage, GoTo(th, s), pushing' = pushing,
             \/ resuming' = resuming
             \/ resuming' = [resuming EXCEPT ![th] = n - 1]
      PROVE  ChainTypeOK'
  BY <1>1, <1>5 DEF GoTo
<1>6. ASSUME NEW th \in Thread, ResumeQueue(th)
      PROVE  ChainTypeOK'
  BY <1>1, <1>6 DEF ResumeQueue
<1>7. ASSUME NEW th \in Thread, StartBody(th) \/ NextBody(th)
      PROVE  ChainTypeOK'
  BY <1>2, <1>5, <1>7 DEF StartBody, NextBody, BeginBody
<1>8. ASSUME NEW th \in Thread, PassPause(th) \/ PassPush(th) \/ EndAction(th)
                                  \/ CountOut(th) \/ EndBody(th)
      PROVE  ChainTypeOK'
  <2>1. "pass" \in Stage /\ "over" \in Stage /\ "resume" \in Stage /\ "none" \in Stage
    BY DEF Stage
  <2> QED
    BY <1>5, <1>8, <2>1 DEF PassPause, PassPush, EndAction, CountOut, EndBody
<1> QED
  BY <1>3, <1>4, <1>6, <1>7, <1>8 DEF ChainNext, GoOn, Return

----------------------------------------------------------------------------
(* What a push does to the history                                         *)

(* A sequence is the beginning of what is put together from it. *)
LEMMA FirstPart ==
  ASSUME NEW s \in Seq(Task), NEW t \in Seq(Task)
  PROVE  /\ Len(s) <= Len(s \o t)
         /\ \A i \in 1..Len(s) : (s \o t)[i] = s[i]
<1>1. Len(s) \in Nat /\ Len(t) \in Nat /\ Len(s \o t) = Len(s) + Len(t)
  BY ConcatProperties
<1>2. ASSUME NEW i \in 1..Len(s)
      PROVE  (s \o t)[i] = s[i]
  <2>1. i \in 1..(Len(s) + Len(t)) /\ i <= Len(s)
    BY <1>1
  <2> QED
    BY <2>1, ConcatProperties
<1> QED
  BY <1>1, <1>2

(* What a queue has executed is the beginning of what was pushed into it.  *)
LEMMA ExecutedFirst ==
  ASSUME RInv, NEW q \in Queue
  PROVE  /\ pushed[q] \in Seq(Task) /\ executed[q] \in Seq(Task)
         /\ Len(executed[q]) <= Len(pushed[q])
         /\ \A i \in 1..Len(executed[q]) : pushed[q][i] = executed[q][i]
<1>1. pushed[q] \in Seq(Task) /\ executed[q] \in Seq(Task) /\ tasks[q] \in Seq(Task)
  BY DEF RInv, IInv, TypeOK
<1>2. CASE pushed[q] = executed[q] \o tasks[q]
  <2>1. /\ Len(executed[q]) <= Len(executed[q] \o tasks[q])
        /\ \A i \in 1..Len(executed[q]) : (executed[q] \o tasks[q])[i] = executed[q][i]
    BY <1>1, FirstPart
  <2> QED
    BY <1>1, <1>2, <2>1
<1>3. ASSUME NEW t \in Task, pushed[q] = Append(executed[q], t) \o tasks[q]
      PROVE  /\ Len(executed[q]) <= Len(pushed[q])
             /\ \A i \in 1..Len(executed[q]) : pushed[q][i] = executed[q][i]
  <2> DEFINE e == Append(executed[q], t)
  <2>1. /\ e \in Seq(Task) /\ Len(e) = Len(executed[q]) + 1
        /\ \A i \in 1..Len(executed[q]) : e[i] = executed[q][i]
    BY <1>1
  <2>2. pushed[q] = e \o tasks[q]
    BY <1>3
  <2> HIDE DEF e
  <2>3. /\ Len(e) <= Len(pushed[q])
        /\ \A i \in 1..Len(e) : pushed[q][i] = e[i]
    BY <1>1, <2>1, <2>2, FirstPart
  <2> QED
    BY <1>1, <2>1, <2>3
<1> QED
  BY <1>1, <1>2, <1>3 DEF RInv, Line

(* Nothing is executed that was not pushed. *)
LEMMA ExecutedWasPushed ==
  ASSUME RInv, NEW t \in Task, Executed(t)
  PROVE  IsPushed(t)
BY NewIsNew

(* What is on a thread's stack has begun, and so was pushed. *)
LEMMA RunningWasPushed ==
  ASSUME RInv, NEW th \in Thread, NEW t \in Task, running[th] = t
  PROVE  Executed(t) /\ IsPushed(t)
BY ExecutedWasPushed, ConstantsAssumption DEF RInv, RunningBegan

(* A push adds one task at the end of one history. *)
LEMMA PushHistory ==
  ASSUME RInv, NEW th \in Thread, NEW t \in Task, Push(th, t)
  PROVE  /\ executed' = executed /\ running' = running /\ pauseCount' = pauseCount
         /\ ~IsPushed(t) /\ pc[th] \in Client
         /\ QueueOf[t] \in Queue
         /\ pushed'[QueueOf[t]] = Append(pushed[QueueOf[t]], t)
         /\ \A q \in Queue \ {QueueOf[t]} : pushed'[q] = pushed[q]
         /\ \A u \in Task : IsPushed(u)' <=> IsPushed(u) \/ u = t
<1> DEFINE p == QueueOf[t]
<1>1. p \in Queue /\ pushed \in [Queue -> Seq(Task)] /\ pushed[p] \in Seq(Task)
  BY ConstantsAssumption DEF RInv, IInv, TypeOK
<1>2. pushed' = [pushed EXCEPT ![p] = Append(@, t)]
  BY DEF Push
<1>3. pushed'[p] = Append(pushed[p], t) /\ \A q \in Queue \ {p} : pushed'[q] = pushed[q]
  BY <1>1, <1>2
<1>4. ASSUME NEW u \in Task
      PROVE  IsPushed(u)' <=> IsPushed(u) \/ u = t
  <2>1. QueueOf[u] \in Queue
    BY ConstantsAssumption
  <2>2. CASE QueueOf[u] = p
    <3>1. /\ DOMAIN pushed'[p] = 1..(Len(pushed[p]) + 1) /\ DOMAIN pushed[p] = 1..Len(pushed[p])
          /\ pushed'[p][Len(pushed[p]) + 1] = t /\ Len(pushed[p]) \in Nat
          /\ \A i \in 1..Len(pushed[p]) : pushed'[p][i] = pushed[p][i]
      BY <1>1, <1>3
    <3>2. /\ \A i \in 1..(Len(pushed[p]) + 1) : i \in 1..Len(pushed[p]) \/ i = Len(pushed[p]) + 1
          /\ Len(pushed[p]) + 1 \in 1..(Len(pushed[p]) + 1)
          /\ \A i \in 1..Len(pushed[p]) : i \in 1..(Len(pushed[p]) + 1)
      BY <3>1
    <3> HIDE DEF p
    <3> QED
      BY <2>2, <3>1, <3>2 DEF IsPushed
  <2>3. CASE QueueOf[u] # p
    BY <1>3, <2>1, <2>3 DEF IsPushed
  <2> QED
    BY <2>2, <2>3
<1> QED
  BY <1>1, <1>3, <1>4 DEF Push

(* The histories before a push are the beginnings of those after it. *)
LEMMA PushKeeps ==
  ASSUME RInv, NEW th \in Thread, NEW t \in Task, Push(th, t), NEW q \in Queue
  PROVE  /\ \A x \in DOMAIN pushed[q] : x \in DOMAIN pushed'[q] /\ pushed'[q][x] = pushed[q][x]
         /\ \A x \in DOMAIN pushed'[q] :
              \/ x \in DOMAIN pushed[q]
              \/ /\ q = QueueOf[t] /\ pushed'[q][x] = t
                 /\ \A y \in DOMAIN pushed[q] : y < x
<1>1. pushed[q] \in Seq(Task)
  BY DEF RInv, IInv, TypeOK
<1>2. CASE q = QueueOf[t]
  <2>1. pushed'[q] = Append(pushed[q], t)
    BY <1>2, PushHistory
  <2>2. /\ DOMAIN pushed'[q] = 1..(Len(pushed[q]) + 1) /\ DOMAIN pushed[q] = 1..Len(pushed[q])
        /\ pushed'[q][Len(pushed[q]) + 1] = t /\ Len(pushed[q]) \in Nat
        /\ \A i \in 1..Len(pushed[q]) : pushed'[q][i] = pushed[q][i]
    BY <1>1, <2>1
  <2> QED
    BY <1>2, <2>2
<1>3. CASE q # QueueOf[t]
  BY <1>3, PushHistory
<1> QED
  BY <1>2, <1>3

----------------------------------------------------------------------------
(* What enters a queue of the chain, and in which order                    *)

(* Nothing of the history changes, or one task begins. *)
LEMMA OrderKept ==
  ASSUME Chained, PushedHere, SameOrder, pushed' = pushed,
         \A u \in Task : Executed(u) => Executed(u)'
  PROVE  Chained' /\ PushedHere' /\ SameOrder'
<1>1. \A a \in Action, i \in Level : TaskAt[a][i] \in Task
  BY LambdaIs
<1>2. Chained'
  BY <1>1 DEF Chained, IsPushed
<1> QED
  BY <1>2 DEF PushedHere, SameOrder, Before

(* The tasks of a queue are meant for it, after a push too. *)
LEMMA PushedHerePush ==
  ASSUME RInv, PushedHere, NEW th \in Thread, NEW t \in Task, Push(th, t)
  PROVE  PushedHere'
<1> SUFFICES ASSUME NEW q \in Queue, NEW x \in DOMAIN pushed'[q]
             PROVE  QueueOf[pushed'[q][x]] = q
  BY DEF PushedHere
<1>1. CASE x \in DOMAIN pushed[q]
  BY <1>1, PushKeeps DEF PushedHere
<1>2. CASE q = QueueOf[t] /\ pushed'[q][x] = t
  BY <1>2
<1> QED
  BY <1>1, <1>2, PushKeeps

(* Where one action was before another it still is. *)
LEMMA BeforeKept ==
  ASSUME RInv, NEW th \in Thread, NEW t \in Task, Push(th, t),
         NEW a \in Action, NEW b \in Action, NEW i \in Level, Before(a, b, i)
  PROVE  Before(a, b, i)'
<1>1. m_queues[i] \in Queue
  BY Levels
<1> DEFINE q == m_queues[i]
<1>2. PICK x \in DOMAIN pushed[q], y \in DOMAIN pushed[q] :
        x < y /\ pushed[q][x] = TaskAt[a][i] /\ pushed[q][y] = TaskAt[b][i]
  BY DEF Before
<1>3. /\ x \in DOMAIN pushed'[q] /\ y \in DOMAIN pushed'[q]
      /\ pushed'[q][x] = TaskAt[a][i] /\ pushed'[q][y] = TaskAt[b][i]
  BY <1>1, <1>2, PushKeeps
<1> QED
  BY <1>2, <1>3 DEF Before

(* A new order of two actions needs the second of them to be pushed. *)
LEMMA BeforeNew ==
  ASSUME RInv, NEW th \in Thread, NEW t \in Task, Push(th, t),
         NEW a \in Action, NEW b \in Action, NEW i \in Level,
         Before(a, b, i)', ~Before(a, b, i)
  PROVE  t = TaskAt[b][i] /\ IsPushed(TaskAt[a][i])
<1>1. m_queues[i] \in Queue
  BY Levels
<1> DEFINE q == m_queues[i]
<1>2. PICK x \in DOMAIN pushed'[q], y \in DOMAIN pushed'[q] :
        x < y /\ pushed'[q][x] = TaskAt[a][i] /\ pushed'[q][y] = TaskAt[b][i]
  BY DEF Before
<1>3. /\ pushed[q] \in Seq(Task) /\ pushed'[q] \in Seq(Task)
      /\ DOMAIN pushed'[q] = 1..Len(pushed'[q]) /\ DOMAIN pushed[q] = 1..Len(pushed[q])
  <2>1. pushed[q] \in Seq(Task)
    BY <1>1 DEF RInv, IInv, TypeOK
  <2>2. pushed'[q] = pushed[q] \/ pushed'[q] = Append(pushed[q], t)
    BY <1>1, PushHistory
  <2> HIDE DEF q
  <2>3. Append(pushed[q], t) \in Seq(Task)
    BY <2>1
  <2>4. pushed'[q] \in Seq(Task)
    BY ONLY <2>1, <2>2, <2>3
  <2>5. \A s \in Seq(Task) : DOMAIN s = 1..Len(s)
    OBVIOUS
  <2> QED
    BY <2>1, <2>4, <2>5
<1>4. x \in DOMAIN pushed[q]
  <2>1. CASE x \notin DOMAIN pushed[q]
    <3>1. \A z \in DOMAIN pushed[q] : z < x
      BY <1>1, <2>1, PushKeeps
    <3>2. y \notin DOMAIN pushed[q]
      BY <1>2, <1>3, <3>1
    <3>3. pushed'[q][x] = t /\ pushed'[q][y] = t /\ q = QueueOf[t]
      BY <1>1, <1>2, <2>1, <3>2, PushKeeps
    <3>4. pushed'[q] = Append(pushed[q], t)
      BY <3>3, PushHistory
    <3>5. Len(pushed'[q]) = Len(pushed[q]) + 1 /\ Len(pushed[q]) \in Nat
      BY <1>3, <3>4
    <3> HIDE DEF q
    <3>6. x = Len(pushed[q]) + 1 /\ y = Len(pushed[q]) + 1
      BY <1>3, <2>1, <3>2, <3>5
    <3> QED
      BY <1>2, <3>5, <3>6
  <2> QED
    BY <2>1
<1>5. y \notin DOMAIN pushed[q]
  <2>1. CASE y \in DOMAIN pushed[q]
    <3>1. pushed[q][x] = TaskAt[a][i] /\ pushed[q][y] = TaskAt[b][i]
      BY <1>1, <1>2, <1>4, <2>1, PushKeeps
    <3> QED
      BY <1>2, <1>4, <2>1, <3>1 DEF Before
  <2> QED
    BY <2>1
<1>6. t = TaskAt[b][i]
  BY <1>1, <1>2, <1>5, PushKeeps
<1>7. pushed[q][x] = TaskAt[a][i] /\ QueueOf[TaskAt[a][i]] = q
  BY <1>1, <1>2, <1>4, PushKeeps, LambdaIs
<1> QED
  BY <1>4, <1>6, <1>7 DEF IsPushed

(* The first queue takes an action at any time: the order is its own. *)
LEMMA EnterOrder ==
  ASSUME RInv, Chained, PushedHere, SameOrder,
         NEW th \in Thread, NEW t \in Task, Enters(th, t)
  PROVE  Chained' /\ PushedHere' /\ SameOrder'
<1>1. Push(th, t) /\ \A a \in Action, i \in Level : t = TaskAt[a][i] => i = 1
  BY LambdaIs, Levels DEF Enters
<1>2. Chained'
  <2> SUFFICES ASSUME NEW a \in Action, NEW i \in Level, NEW j \in Level,
                      i < j, IsPushed(TaskAt[a][j])'
               PROVE  Executed(TaskAt[a][i])'
    BY DEF Chained
  <2>1. j # 1 /\ TaskAt[a][j] \in Task
    BY Levels, LambdaIs DEF Level
  <2>2. IsPushed(TaskAt[a][j])
    BY <1>1, <2>1, PushHistory
  <2> QED
    BY <1>1, <2>2, PushHistory DEF Chained, Executed
<1>3. SameOrder'
  <2> SUFFICES ASSUME NEW a \in Action, NEW b \in Action, NEW i \in Level, Before(a, b, i)'
               PROVE  Before(a, b, 1)'
    BY DEF SameOrder
  <2>1. CASE Before(a, b, i)
    BY <1>1, <2>1, BeforeKept, Levels DEF SameOrder
  <2>2. CASE ~Before(a, b, i)
    BY <1>1, <2>2, BeforeNew
  <2> QED
    BY <2>1, <2>2
<1> QED
  BY <1>1, <1>2, <1>3, PushedHerePush

(* What began in a queue before the task that runs was pushed before it. *)
LEMMA BeganBefore ==
  ASSUME RInv, RunLast, NEW th \in Thread,
         NEW a \in Action, NEW c \in Action, NEW i \in Level,
         running[th] = TaskAt[c][i], Executed(TaskAt[a][i]), a # c
  PROVE  Before(a, c, i)
<1> DEFINE q == m_queues[i]
<1>1. /\ q \in Queue /\ TaskAt[a][i] # TaskAt[c][i]
      /\ QueueOf[TaskAt[a][i]] = q /\ QueueOf[TaskAt[c][i]] = q /\ TaskAt[c][i] # None
  BY Levels, LambdaIs, ChainAssumption
<1>2. /\ pushed[q] \in Seq(Task) /\ executed[q] \in Seq(Task)
      /\ Len(executed[q]) <= Len(pushed[q])
      /\ \A x \in 1..Len(executed[q]) : pushed[q][x] = executed[q][x]
  BY <1>1, ExecutedFirst
<1>3. executed[q][Len(executed[q])] = TaskAt[c][i]
  BY <1>1 DEF RunLast, RunOwner
<1>4. PICK x \in 1..Len(executed[q]) : executed[q][x] = TaskAt[a][i]
  BY <1>1, <1>2 DEF Executed
<1> DEFINE y == Len(executed[q])
<1>5. x < y /\ x \in DOMAIN pushed[q] /\ y \in DOMAIN pushed[q] /\ y \in 1..Len(executed[q])
  BY <1>1, <1>2, <1>3, <1>4
<1>6. pushed[q][x] = TaskAt[a][i] /\ pushed[q][y] = TaskAt[c][i]
  BY <1>2, <1>3, <1>4, <1>5
<1> QED
  BY <1>5, <1>6 DEF Before

(* An action goes on to the next queue while its lambda runs in this one,  *)
(* so behind all that have been here.                                      *)
LEMMA DescendOrder ==
  ASSUME RInv, RunLast, Chained, PushedHere, SameOrder,
         NEW th \in Thread, NEW c \in Action, NEW k \in 1..(n - 1),
         running[th] = TaskAt[c][k], Push(th, TaskAt[c][k + 1])
  PROVE  Chained' /\ PushedHere' /\ SameOrder'
<1> DEFINE t == TaskAt[c][k + 1]
<1>0. /\ k \in Level /\ k + 1 \in Level /\ t \in Task /\ TaskAt[c][k] \in Task
      /\ \A a \in Action, i \in Level : TaskAt[a][i] = t => a = c /\ i = k + 1
  BY Levels, ChainAssumption
<1>1. Executed(TaskAt[c][k]) /\ IsPushed(TaskAt[c][k])
  BY <1>0, RunningWasPushed
<1>2. Chained'
  <2> SUFFICES ASSUME NEW a \in Action, NEW i \in Level, NEW j \in Level,
                      i < j, IsPushed(TaskAt[a][j])'
               PROVE  Executed(TaskAt[a][i])
    BY PushHistory, <1>0 DEF Chained, Executed
  <2>1. TaskAt[a][j] \in Task
    BY LambdaIs
  <2>2. CASE IsPushed(TaskAt[a][j])
    BY <2>2 DEF Chained
  <2>3. CASE TaskAt[a][j] = t
    <3>1. a = c /\ i \in Level /\ (i = k \/ i < k)
      BY <1>0, <2>3, Levels DEF Level
    <3> QED
      BY <1>0, <1>1, <3>1 DEF Chained
  <2> QED
    BY <1>0, <2>1, <2>2, <2>3, PushHistory
<1>3. SameOrder'
  <2> SUFFICES ASSUME NEW a \in Action, NEW b \in Action, NEW i \in Level, Before(a, b, i)'
               PROVE  Before(a, b, 1)'
    BY DEF SameOrder
  <2>1. CASE Before(a, b, i)
    BY <1>0, <2>1, BeforeKept, Levels DEF SameOrder
  <2>2. CASE ~Before(a, b, i)
    <3>1. t = TaskAt[b][i] /\ IsPushed(TaskAt[a][i])
      BY <1>0, <2>2, BeforeNew
    <3>2. b = c /\ i = k + 1
      BY <1>0, <3>1
    <3>3. a # c
      BY <1>0, <3>1, <3>2, PushHistory
    <3>4. Executed(TaskAt[a][k])
      BY <1>0, <3>1, <3>2, Levels DEF Chained
    <3>5. Before(a, c, k)
      BY <1>0, <3>3, <3>4, BeganBefore
    <3>6. Before(a, b, 1)
      BY <1>0, <3>2, <3>5 DEF SameOrder
    <3> QED
      BY <1>0, <3>6, BeforeKept, Levels
  <2> QED
    BY <2>1, <2>2
<1> QED
  BY <1>0, <1>2, <1>3, PushedHerePush

(* Every step keeps the order of the actions. *)
LEMMA OrderStep ==
  ASSUME ChainInv, NEW th \in Thread, ChainStep(th)
  PROVE  Chained' /\ PushedHere' /\ SameOrder'
<1> USE DEF ChainInv
<1>0. IInv
  BY DEF RInv
<1>1. CASE UNCHANGED <<pushed, executed>>
  BY <1>1, OrderKept DEF Executed
<1>2. ASSUME NEW t \in Task, Enters(th, t)
      PROVE  Chained' /\ PushedHere' /\ SameOrder'
  BY <1>2, EnterOrder
<1>3. ASSUME NEW t \in Task, Begins(th, t)
      PROVE  Chained' /\ PushedHere' /\ SameOrder'
  BY <1>0, <1>3, BeginHistory, OrderKept
<1>4. ASSUME NEW a \in Action, NEW i \in 1..(n - 1), PassesDown(th, a, i, "pass", "over"),
             Push(th, TaskAt[a][i + 1])
      PROVE  Chained' /\ PushedHere' /\ SameOrder'
  BY <1>4, DescendOrder DEF PassesDown
<1>5. ASSUME \/ \E q : Pause(th, q) \/ Resume(th, q)
             \/ FinishTask(th) \/ UNCHANGED vars \/ UNCHANGED history
      PROVE  UNCHANGED <<pushed, executed>>
  BY <1>5 DEF Pause, Resume, FinishTask, vars, history
<1> QED
  BY <1>1, <1>2, <1>3, <1>4, <1>5 DEF ChainStep

----------------------------------------------------------------------------
(* Which lambda a thread is in                                             *)

(* StageOK for one thread. *)
StageOf(th) ==
  /\ stage[th] = "none" <=> running[th] = None
  /\ stage[th] \in {"pause", "pass"} =>
       \E a \in Action, i \in 1..(n - 1) :
         running[th] = TaskAt[a][i] /\ ~IsPushed(TaskAt[a][i + 1])
  /\ stage[th] \in {"action", "resume"} =>
       \E a \in Action : running[th] = TaskAt[a][n]

(* A thread that stays where it is cares only for what is pushed. *)
LEMMA StageKept ==
  ASSUME NEW x \in Thread, StageOf(x), stage'[x] = stage[x], running'[x] = running[x],
         \A a \in Action, i \in 1..(n - 1) :
           running[x] = TaskAt[a][i] /\ IsPushed(TaskAt[a][i + 1])' => IsPushed(TaskAt[a][i + 1])
  PROVE  StageOf(x)'
<1>1. \A a \in Action, i \in 1..(n - 1) :
        running[x] = TaskAt[a][i] /\ ~IsPushed(TaskAt[a][i + 1])
          => running'[x] = TaskAt[a][i] /\ ~IsPushed(TaskAt[a][i + 1])'
  OBVIOUS
<1>2. stage'[x] \in {"pause", "pass"} =>
         \E a \in Action, i \in 1..(n - 1) :
           running'[x] = TaskAt[a][i] /\ ~IsPushed(TaskAt[a][i + 1])'
  BY <1>1 DEF StageOf
<1> QED
  BY <1>2 DEF StageOf

(* One thread moves on, and nothing is pushed. *)
LEMMA StageMove ==
  ASSUME ChainInv, NEW th \in Thread, pushed' = pushed,
         \A x \in Thread \ {th} : stage'[x] = stage[x] /\ running'[x] = running[x],
         StageOf(th)'
  PROVE  StageOK'
<1>1. ASSUME NEW x \in Thread \ {th}
      PROVE  StageOf(x)'
  <2>1. StageOf(x)
    BY DEF ChainInv, StageOK, StageOf
  <2> QED
    BY <2>1, StageKept DEF IsPushed
<1>2. \A x \in Thread : StageOf(x)'
  BY <1>1
<1> QED
  BY <1>2 DEF StageOK, StageOf

(* A task goes into the queue of a level, and its thread moves on. *)
LEMMA StagePush ==
  ASSUME ChainInv, NEW th \in Thread, NEW t \in Task, Push(th, t),
         \A x \in Thread \ {th} : stage'[x] = stage[x],
         \A x \in Thread, a \in Action, i \in 1..(n - 1) :
           running[x] = TaskAt[a][i] /\ t = TaskAt[a][i + 1] => x = th,
         stage'[th] = stage[th] \/ (stage[th] = "pass" /\ stage'[th] = "over"),
         stage'[th] = stage[th] => t \in Direct \/ \E a \in Action : t = TaskAt[a][1]
  PROVE  StageOK'
<1>0. /\ RInv /\ \A x \in Thread : StageOf(x)
      /\ running' = running /\ \A u \in Task : IsPushed(u)' <=> IsPushed(u) \/ u = t
  BY PushHistory DEF ChainInv, StageOK, StageOf
<1>1. \A a \in Action, i \in 1..(n - 1) : TaskAt[a][i + 1] \in Task
  BY Levels, LambdaIs
<1>2. ASSUME NEW x \in Thread \ {th}
      PROVE  StageOf(x)'
  BY <1>0, <1>1, StageKept
<1>3. ASSUME stage'[th] = stage[th]
      PROVE  StageOf(th)'
  <2>1. \A a \in Action, i \in 1..(n - 1) : t # TaskAt[a][i + 1]
    <3> SUFFICES ASSUME NEW a \in Action, NEW i \in 1..(n - 1), t = TaskAt[a][i + 1]
                 PROVE  FALSE
      OBVIOUS
    <3>1. i + 1 \in Level /\ 1 \in Level /\ i + 1 # 1
      BY Levels
    <3>2. t \notin Direct /\ \A b \in Action : t # TaskAt[b][1]
      BY <3>1, LambdaIs
    <3> QED
      BY <1>3, <3>2
  <2> QED
    BY <1>0, <1>1, <1>3, <2>1, StageKept
<1>4. ASSUME stage[th] = "pass", stage'[th] = "over"
      PROVE  StageOf(th)'
  BY <1>0, <1>4 DEF StageOf
<1>5. StageOf(th)'
  BY <1>3, <1>4
<1>6. \A x \in Thread : StageOf(x)'
  BY <1>2, <1>5
<1> QED
  BY <1>6 DEF StageOK, StageOf

(* A lambda that begins has not gone further down the chain yet. *)
LEMMA StageBegin ==
  ASSUME ChainInv, NEW th \in Thread, NEW t \in Task, Begins(th, t), GoTo(th, FirstStage(t))
  PROVE  StageOK'
<1>0. RInv /\ IInv /\ stage \in [Thread -> Stage]
  BY DEF ChainInv, RInv, ChainTypeOK
<1>1. /\ pushed' = pushed /\ running'[th] = t
      /\ \A x \in Thread \ {th} : running'[x] = running[x]
  BY <1>0, BeginHistory
<1>2. stage'[th] = FirstStage(t) /\ \A x \in Thread \ {th} : stage'[x] = stage[x]
  BY <1>0 DEF GoTo
<1>3. ~Executed(t) /\ t # None
  BY <1>0, BeginHands, HandedIsNew, ConstantsAssumption
<1>4. ASSUME NEW a \in Action, NEW i \in 1..(n - 1), t = TaskAt[a][i]
      PROVE  ~IsPushed(TaskAt[a][i + 1])'
  <2>1. i \in Level /\ i + 1 \in Level /\ i < i + 1
    BY Levels
  <2>2. ~IsPushed(TaskAt[a][i + 1])
    BY <1>3, <1>4, <2>1 DEF ChainInv, Chained
  <2> QED
    BY <1>1, <2>2 DEF IsPushed
<1>5. StageOf(th)'
  <2>1. CASE t \in Direct /\ FirstStage(t) = "direct"
    BY <1>1, <1>2, <1>3, <2>1 DEF StageOf
  <2>2. CASE (\E a \in Action : t = TaskAt[a][n]) /\ FirstStage(t) = "action"
    BY <1>1, <1>2, <1>3, <2>2 DEF StageOf
  <2>3. ASSUME NEW a \in Action, NEW i \in 1..(n - 1), t = TaskAt[a][i], FirstStage(t) = "pause"
        PROVE  StageOf(th)'
    <3>1. running'[th] = TaskAt[a][i] /\ ~IsPushed(TaskAt[a][i + 1])'
      BY <1>1, <1>4, <2>3
    <3>2. \E b \in Action, j \in 1..(n - 1) :
            running'[th] = TaskAt[b][j] /\ ~IsPushed(TaskAt[b][j + 1])'
      BY <3>1
    <3> QED
      BY <1>1, <1>2, <1>3, <2>3, <3>2 DEF StageOf
  <2> QED
    BY <2>1, <2>2, <2>3, FirstStages
<1> QED
  BY <1>1, <1>2, <1>5, StageMove

(* Every step keeps the stages in accord with the lambdas. *)
LEMMA StageStep ==
  ASSUME ChainInv, NEW th \in Thread, ChainStep(th)
  PROVE  StageOK'
<1>0. /\ RInv /\ IInv /\ stage \in [Thread -> Stage] /\ running \in [Thread -> Task \cup {None}]
      /\ StageOK
  BY DEF ChainInv, RInv, IInv, TypeOK, ChainTypeOK
<1>1. CASE UNCHANGED <<running, pushed>> /\ stage' = stage
  BY <1>0, <1>1 DEF StageOK, IsPushed
<1>2. ASSUME NEW t \in Task, Enters(th, t)
      PROVE  StageOK'
  <2>1. \A a \in Action, i \in 1..(n - 1) : t # TaskAt[a][i + 1]
    <3> SUFFICES ASSUME NEW a \in Action, NEW i \in 1..(n - 1), t = TaskAt[a][i + 1]
                 PROVE  FALSE
      OBVIOUS
    <3>1. i + 1 \in Level /\ 1 \in Level /\ i + 1 # 1
      BY Levels
    <3> QED
      BY <1>2, <3>1, LambdaIs DEF Enters
  <2> QED
    BY <1>2, <2>1, StagePush DEF Enters, SameStages
<1>3. ASSUME NEW t \in Task, Begins(th, t), GoTo(th, FirstStage(t))
      PROVE  StageOK'
  BY <1>3, StageBegin
<1>4. ASSUME NEW a \in Action, NEW i \in 1..(n - 1),
             PassesDown(th, a, i, "pause", "pass"), Pause(th, m_queues[i])
      PROVE  StageOK'
  <2>1. pushed' = pushed /\ running' = running
    BY <1>4 DEF Pause, stack, history
  <2>2. stage'[th] = "pass" /\ stage[th] = "pause" /\ \A x \in Thread \ {th} : stage'[x] = stage[x]
    BY <1>0, <1>4 DEF PassesDown, GoTo
  <2>3. StageOf(th)'
    BY <1>0, <2>1, <2>2 DEF StageOK, StageOf, IsPushed
  <2> QED
    BY <2>1, <2>2, <2>3, StageMove
<1>5. ASSUME NEW a \in Action, NEW i \in 1..(n - 1),
             PassesDown(th, a, i, "pass", "over"), Push(th, TaskAt[a][i + 1])
      PROVE  StageOK'
  <2>1. /\ i \in Level /\ i + 1 \in Level
        /\ TaskAt[a][i + 1] \in Task /\ TaskAt[a][i] \in Task
        /\ \A b \in Action, j \in Level : TaskAt[b][j] = TaskAt[a][i + 1] => b = a /\ j = i + 1
    BY Levels, ChainAssumption
  <2>2. stage'[th] = "over" /\ stage[th] = "pass" /\ \A x \in Thread \ {th} : stage'[x] = stage[x]
    BY <1>0, <1>5 DEF PassesDown, GoTo
  <2>3. ASSUME NEW x \in Thread, NEW b \in Action, NEW j \in 1..(n - 1),
               running[x] = TaskAt[b][j], TaskAt[a][i + 1] = TaskAt[b][j + 1]
        PROVE  x = th
    <3>1. b = a /\ j = i
      BY <2>1, <2>3, Levels
    <3>2. running[x] = TaskAt[a][i] /\ running[th] = TaskAt[a][i]
      BY <1>5, <2>3, <3>1 DEF PassesDown
    <3> QED
      BY <1>0, <2>1, <3>2, RunningIsActive
  <2> QED
    BY <1>5, <2>1, <2>2, <2>3, StagePush
<1>6. ASSUME NEW a \in Action, RunsOn(th, a, "action") \/ RunsOn(th, a, "resume"),
             NEW s \in {"resume", "over"}, GoTo(th, s), UNCHANGED vars
      PROVE  StageOK'
  <2>1. pushed' = pushed /\ running' = running /\ running[th] = TaskAt[a][n]
    BY <1>6 DEF vars, RunsOn
  <2>2. stage'[th] = s /\ \A x \in Thread \ {th} : stage'[x] = stage[x]
    BY <1>0, <1>6 DEF GoTo
  <2>3. TaskAt[a][n] # None /\ running'[th] = TaskAt[a][n]
    BY <2>1, Levels, LambdaIs
  <2>4. stage'[th] # "none" /\ stage'[th] \notin {"pause", "pass"}
    BY <2>2
  <2>5. StageOf(th)'
    BY <2>3, <2>4 DEF StageOf
  <2> QED
    BY <2>1, <2>2, <2>5, StageMove
<1>7. CASE FinishTask(th) /\ GoTo(th, "none")
  <2>1. pushed' = pushed /\ running' = [running EXCEPT ![th] = None]
    BY <1>7 DEF FinishTask, history
  <2>2. stage'[th] = "none" /\ \A x \in Thread \ {th} : stage'[x] = stage[x]
    BY <1>0, <1>7 DEF GoTo
  <2>3. running'[th] = None /\ \A x \in Thread \ {th} : running'[x] = running[x]
    BY <1>0, <2>1
  <2>4. stage'[th] \notin {"pause", "pass", "action", "resume"}
    BY <2>2
  <2>5. StageOf(th)'
    BY <2>2, <2>3, <2>4 DEF StageOf
  <2> QED
    BY <2>1, <2>2, <2>3, <2>5, StageMove
<1>8. ASSUME \/ UNCHANGED vars \/ UNCHANGED <<pauseCount, running, history>>
             \/ \E q : Resume(th, q)
      PROVE  UNCHANGED <<running, pushed>>
  BY <1>8 DEF vars, history, Resume
<1> QED
  BY <1>1, <1>2, <1>3, <1>4, <1>5, <1>6, <1>7, <1>8 DEF ChainStep, SameStages

----------------------------------------------------------------------------
(* How often the queues are paused                                         *)

(* An action a queue is paused for. *)
IsBehind(a, i) == Passed(a, i) /\ ~Resumed(a, i)

(* What a thread contributes to Passed, and what it takes from Resumed. *)
AtPass(x, a, i) == running[x] = TaskAt[a][i] /\ stage[x] = "pass"
StillHolds(x, a, i) ==
  /\ running[x] = TaskAt[a][n] /\ stage[x] \in {"action", "resume"}
  /\ ~(stage[x] = "resume" /\ resuming[x] < i)

(* Neither the counts nor the actions behind change. *)
LEMMA PausesKept ==
  ASSUME PausedByWhatPassed, pauseCount' = pauseCount,
         \A a \in Action, i \in 1..(n - 1) : IsBehind(a, i)' <=> IsBehind(a, i)
  PROVE  PausedByWhatPassed'
<1> SUFFICES ASSUME NEW i \in 1..(n - 1)
             PROVE  pauseCount'[m_queues[i]] = Cardinality(Behind(i)')
  BY DEF PausedByWhatPassed
<1>1. Behind(i)' = Behind(i)
  BY DEF Behind, IsBehind
<1> QED
  BY <1>1 DEF PausedByWhatPassed

(* A queue is paused for one more action. *)
LEMMA PausedOnceMore ==
  ASSUME TypeOK, PausedByWhatPassed, NEW th, NEW c \in Action, NEW k \in 1..(n - 1),
         Pause(th, m_queues[k]), ~IsBehind(c, k),
         \A a \in Action, i \in 1..(n - 1) :
           IsBehind(a, i)' <=> IsBehind(a, i) \/ (a = c /\ i = k)
  PROVE  PausedByWhatPassed'
<1> SUFFICES ASSUME NEW i \in 1..(n - 1)
             PROVE  pauseCount'[m_queues[i]] = Cardinality(Behind(i)')
  BY DEF PausedByWhatPassed
<1>0. /\ m_queues[i] \in Queue /\ m_queues[k] \in Queue /\ i \in Level /\ k \in Level
      /\ pauseCount' = [pauseCount EXCEPT ![m_queues[k]] = @ + 1]
      /\ pauseCount \in [Queue -> 0..MaxPause]
      /\ pauseCount[m_queues[i]] = Cardinality(Behind(i))
  BY Levels DEF Pause, TypeOK, PausedByWhatPassed
<1>1. CASE i = k
  <2>1. Behind(i)' = Behind(i) \cup {c} /\ c \notin Behind(i)
    BY <1>1 DEF Behind, IsBehind
  <2>2. IsFiniteSet(Behind(i))
    BY ChainAssumption, FS_Subset DEF Behind
  <2>3. Cardinality(Behind(i) \cup {c}) = Cardinality(Behind(i)) + 1
    BY <2>1, <2>2, FS_AddElement
  <2> QED
    BY <1>0, <1>1, <2>1, <2>3
<1>2. CASE i # k
  <2>1. Behind(i)' = Behind(i)
    BY <1>2 DEF Behind, IsBehind
  <2>2. m_queues[i] # m_queues[k]
    BY <1>0, <1>2, ChainAssumption
  <2> QED
    BY <1>0, <2>1, <2>2
<1> QED
  BY <1>1, <1>2

(* A queue is resumed for one of the actions it was paused for. *)
LEMMA PausedOnceLess ==
  ASSUME TypeOK, PausedByWhatPassed, NEW th, NEW c \in Action, NEW k \in 1..(n - 1),
         Resume(th, m_queues[k]), IsBehind(c, k),
         \A a \in Action, i \in 1..(n - 1) :
           IsBehind(a, i)' <=> IsBehind(a, i) /\ ~(a = c /\ i = k)
  PROVE  PausedByWhatPassed'
<1> SUFFICES ASSUME NEW i \in 1..(n - 1)
             PROVE  pauseCount'[m_queues[i]] = Cardinality(Behind(i)')
  BY DEF PausedByWhatPassed
<1>0. /\ m_queues[i] \in Queue /\ m_queues[k] \in Queue /\ i \in Level /\ k \in Level
      /\ pauseCount' = [pauseCount EXCEPT ![m_queues[k]] = @ - 1]
      /\ pauseCount \in [Queue -> 0..MaxPause]
      /\ pauseCount[m_queues[i]] = Cardinality(Behind(i))
  BY Levels DEF Resume, TypeOK, PausedByWhatPassed
<1>1. CASE i = k
  <2>1. Behind(i)' = Behind(i) \ {c} /\ c \in Behind(i)
    BY <1>1 DEF Behind, IsBehind
  <2>2. IsFiniteSet(Behind(i))
    BY ChainAssumption, FS_Subset DEF Behind
  <2>3. Cardinality(Behind(i) \ {c}) = Cardinality(Behind(i)) - 1
    BY <2>1, <2>2, FS_RemoveElement
  <2> QED
    BY <1>0, <1>1, <2>1, <2>3
<1>2. CASE i # k
  <2>1. Behind(i)' = Behind(i)
    BY <1>2 DEF Behind, IsBehind
  <2>2. m_queues[i] # m_queues[k]
    BY <1>0, <1>2, ChainAssumption
  <2> QED
    BY <1>0, <2>1, <2>2
<1> QED
  BY <1>1, <1>2

(* Passed and Resumed, thread by thread, before and after a step. *)
LEMMA BehindIs ==
  ASSUME NEW a \in Action, NEW i \in 1..(n - 1)
  PROVE  /\ IsBehind(a, i) <=>
              /\ IsPushed(TaskAt[a][i + 1]) \/ \E x \in Thread : AtPass(x, a, i)
              /\ ~Executed(TaskAt[a][n]) \/ \E x \in Thread : StillHolds(x, a, i)
         /\ IsBehind(a, i)' <=>
              /\ IsPushed(TaskAt[a][i + 1])' \/ \E x \in Thread : AtPass(x, a, i)'
              /\ ~Executed(TaskAt[a][n])' \/ \E x \in Thread : StillHolds(x, a, i)'
BY DEF IsBehind, Passed, Resumed, AtPass, StillHolds

(* An action that a lambda on a thread is about to pass on is not behind.  *)
LEMMA NotYetDown ==
  ASSUME ChainInv, NEW a \in Action, NEW i \in 1..(n - 1), ~IsPushed(TaskAt[a][i + 1])
  PROVE  ~Executed(TaskAt[a][n])
<1>0. /\ RInv /\ n \in Level /\ i + 1 \in Level /\ (i + 1 = n \/ i + 1 < n)
      /\ TaskAt[a][n] \in Task /\ TaskAt[a][i + 1] \in Task
  BY Levels, LambdaIs DEF ChainInv, Level
<1>1. ASSUME Executed(TaskAt[a][n])
      PROVE  FALSE
  <2>1. IsPushed(TaskAt[a][n])
    BY <1>0, <1>1, ExecutedWasPushed
  <2>2. Executed(TaskAt[a][i + 1])
    BY <1>0, <1>1, <2>1 DEF ChainInv, Chained
  <2> QED
    BY <1>0, <2>2, ExecutedWasPushed
<1> QED
  BY <1>1

(* passDownChain pauses: the action was not behind and now it is. *)
LEMMA PausePause ==
  ASSUME ChainInv, NEW th \in Thread, NEW c \in Action, NEW k \in 1..(n - 1),
         PassesDown(th, c, k, "pause", "pass"), Pause(th, m_queues[k])
  PROVE  PausedByWhatPassed'
<1>0. /\ RInv /\ IInv /\ TypeOK /\ PausedByWhatPassed /\ stage \in [Thread -> Stage]
      /\ k \in Level /\ TaskAt[c][k] \in Task
  BY Levels, LambdaIs DEF ChainInv, RInv, IInv, ChainTypeOK
<1>1. UNCHANGED <<running, pushed, executed, resuming>>
  BY DEF Pause, PassesDown, stack, history
<1>2. /\ stage[th] = "pause" /\ running[th] = TaskAt[c][k] /\ stage'[th] = "pass"
      /\ \A x \in Thread \ {th} : stage'[x] = stage[x]
  BY <1>0 DEF PassesDown, GoTo
<1>3. \A b \in Action, j \in Level : TaskAt[b][j] = TaskAt[c][k] => b = c /\ j = k
  BY <1>0, ChainAssumption
<1>4. \A x \in Thread : running[x] = TaskAt[c][k] => x = th
  BY <1>0, <1>2, RunningIsActive
<1>5. ~IsPushed(TaskAt[c][k + 1])
  <2>1. PICK b \in Action, j \in 1..(n - 1) :
          running[th] = TaskAt[b][j] /\ ~IsPushed(TaskAt[b][j + 1])
    BY <1>2 DEF ChainInv, StageOK
  <2> QED
    BY <1>2, <1>3, <2>1, Levels
<1>6. ~Executed(TaskAt[c][n])
  BY <1>5, NotYetDown
<1>7. ~IsBehind(c, k)
  BY <1>2, <1>4, <1>5, BehindIs DEF AtPass
<1>8. ASSUME NEW a \in Action, NEW i \in 1..(n - 1)
      PROVE  /\ IsPushed(TaskAt[a][i + 1])' <=> IsPushed(TaskAt[a][i + 1])
             /\ Executed(TaskAt[a][n])' <=> Executed(TaskAt[a][n])
             /\ \A x \in Thread : StillHolds(x, a, i)' <=> StillHolds(x, a, i)
             /\ \A x \in Thread : AtPass(x, a, i)' <=> AtPass(x, a, i) \/ (x = th /\ a = c /\ i = k)
  <2>1. i \in Level
    BY Levels
  <2> QED
    BY <1>1, <1>2, <1>3, <2>1 DEF IsPushed, Executed, StillHolds, AtPass
<1>9. ASSUME NEW a \in Action, NEW i \in 1..(n - 1)
      PROVE  IsBehind(a, i)' <=> IsBehind(a, i) \/ (a = c /\ i = k)
  BY <1>6, <1>8, BehindIs
<1> QED
  BY <1>0, <1>7, <1>9, PausedOnceMore

(* The sentry resumes: the action was behind and now it is not. *)
LEMMA PauseResume ==
  ASSUME ChainInv, NEW th \in Thread, NEW c \in Action,
         RunsOn(th, c, "resume"), resuming[th] > 0, stage' = stage,
         Resume(th, m_queues[resuming[th]]),
         resuming' = [resuming EXCEPT ![th] = @ - 1]
  PROVE  PausedByWhatPassed'
<1> DEFINE k == resuming[th]
<1>0. /\ RInv /\ IInv /\ TypeOK /\ PausedByWhatPassed
      /\ n \in Level /\ TaskAt[c][n] \in Task
      /\ resuming \in [Thread -> 0..(n - 1)]
  BY Levels, LambdaIs DEF ChainInv, RInv, IInv, ChainTypeOK
<1>1. UNCHANGED <<running, pushed, executed, stage>>
  BY DEF Resume, history
<1>2. /\ stage[th] = "resume" /\ running[th] = TaskAt[c][n]
      /\ k \in 1..(n - 1) /\ resuming'[th] = k - 1
      /\ \A x \in Thread \ {th} : resuming'[x] = resuming[x]
  BY <1>0, Levels DEF RunsOn
<1>3. \A b \in Action : TaskAt[b][n] = TaskAt[c][n] => b = c
  BY <1>0, ChainAssumption
<1>4. \A x \in Thread : running[x] = TaskAt[c][n] => x = th
  BY <1>0, <1>2, RunningIsActive
<1>5. Executed(TaskAt[c][n])
  BY <1>0, <1>2, RunningWasPushed
<1>6. IsPushed(TaskAt[c][k + 1])
  BY <1>2, <1>5, NotYetDown
<1> HIDE DEF k
<1>7. StillHolds(th, c, k) /\ IsBehind(c, k)
  <2>1. StillHolds(th, c, k)
    BY <1>2, Levels DEF StillHolds, k
  <2> QED
    BY <1>2, <1>6, <2>1, BehindIs
<1>8. ASSUME NEW a \in Action, NEW i \in 1..(n - 1)
      PROVE  /\ IsPushed(TaskAt[a][i + 1])' <=> IsPushed(TaskAt[a][i + 1])
             /\ Executed(TaskAt[a][n])' <=> Executed(TaskAt[a][n])
             /\ \A x \in Thread : AtPass(x, a, i)' <=> AtPass(x, a, i)
             /\ \A x \in Thread : StillHolds(x, a, i)' <=> StillHolds(x, a, i) /\ ~(x = th /\ a = c /\ i = k)
  <2>1. /\ IsPushed(TaskAt[a][i + 1])' <=> IsPushed(TaskAt[a][i + 1])
        /\ Executed(TaskAt[a][n])' <=> Executed(TaskAt[a][n])
        /\ \A x \in Thread : AtPass(x, a, i)' <=> AtPass(x, a, i)
    BY <1>1 DEF IsPushed, Executed, AtPass
  <2>2. \A x \in Thread \ {th} : StillHolds(x, a, i)' <=> StillHolds(x, a, i)
    BY <1>1, <1>2 DEF StillHolds
  <2>3. StillHolds(th, a, i)' <=> StillHolds(th, a, i) /\ ~(a = c /\ i = k)
    <3>1. k \in Nat /\ i \in Nat /\ resuming[th] = k /\ (k - 1 < i <=> k < i \/ i = k)
      BY <1>2, Levels DEF k
    <3>2. CASE a = c
      BY <1>1, <1>2, <3>1, <3>2 DEF StillHolds
    <3>3. CASE a # c
      BY <1>1, <1>2, <1>3, <3>3 DEF StillHolds
    <3> QED
      BY <3>2, <3>3
  <2> QED
    BY <2>1, <2>2, <2>3
<1>9. ASSUME NEW a \in Action, NEW i \in 1..(n - 1)
      PROVE  IsBehind(a, i)' <=> IsBehind(a, i) /\ ~(a = c /\ i = k)
  <2>1. CASE a = c /\ i = k
    <3>1. \A x \in Thread : StillHolds(x, c, k) => x = th
      BY <1>4 DEF StillHolds
    <3> QED
      BY <1>2, <1>5, <1>8, <2>1, <3>1, BehindIs
  <2>2. CASE ~(a = c /\ i = k)
    BY <1>8, <2>2, BehindIs
  <2> QED
    BY <2>1, <2>2
<1> QED
  BY <1>0, <1>2, <1>7, <1>9, PausedOnceLess DEF k

(* No thread changes what the queues are paused for, nor does the history. *)
LEMMA BehindSame ==
  ASSUME PausedByWhatPassed, pauseCount' = pauseCount,
         \A a \in Action, i \in 1..(n - 1) :
           /\ IsPushed(TaskAt[a][i + 1])' <=> IsPushed(TaskAt[a][i + 1])
           /\ Executed(TaskAt[a][n])' <=> Executed(TaskAt[a][n])
           /\ \A x \in Thread : /\ AtPass(x, a, i)' <=> AtPass(x, a, i)
                                /\ StillHolds(x, a, i)' <=> StillHolds(x, a, i)
  PROVE  PausedByWhatPassed'
<1>1. ASSUME NEW a \in Action, NEW i \in 1..(n - 1)
      PROVE  IsBehind(a, i)' <=> IsBehind(a, i)
  BY BehindIs
<1> QED
  BY <1>1, PausesKept

(* A task enters its first queue: no queue of the chain is left behind.    *)
LEMMA PauseEnter ==
  ASSUME ChainInv, NEW th \in Thread, NEW t \in Task, Enters(th, t)
  PROVE  PausedByWhatPassed'
<1>0. RInv /\ PausedByWhatPassed /\ Push(th, t) /\ UNCHANGED <<stage, resuming>>
  BY DEF ChainInv, Enters, SameStages
<1>1. /\ UNCHANGED <<running, executed, pauseCount>>
      /\ \A u \in Task : IsPushed(u)' <=> IsPushed(u) \/ u = t
  BY <1>0, PushHistory
<1>2. ASSUME NEW a \in Action, NEW i \in 1..(n - 1)
      PROVE  IsPushed(TaskAt[a][i + 1])' <=> IsPushed(TaskAt[a][i + 1])
  <2>1. i + 1 \in Level /\ 1 \in Level /\ i + 1 # 1
    BY Levels
  <2>2. TaskAt[a][i + 1] \in Task /\ TaskAt[a][i + 1] # t
    BY <2>1, LambdaIs DEF Enters
  <2> QED
    BY <1>1, <2>2
<1>3. \A a \in Action, i \in 1..(n - 1), x \in Thread :
        /\ AtPass(x, a, i)' <=> AtPass(x, a, i)
        /\ StillHolds(x, a, i)' <=> StillHolds(x, a, i)
        /\ Executed(TaskAt[a][n])' <=> Executed(TaskAt[a][n])
  BY <1>0, <1>1 DEF AtPass, StillHolds, Executed
<1>4. \A a \in Action : Executed(TaskAt[a][n])' <=> Executed(TaskAt[a][n])
  BY <1>1 DEF Executed
<1> QED
  BY <1>0, <1>1, <1>2, <1>3, <1>4, BehindSame

(* The action arrives in the next queue: it stays behind in this one.      *)
LEMMA PauseDescend ==
  ASSUME ChainInv, NEW th \in Thread, NEW c \in Action, NEW k \in 1..(n - 1),
         PassesDown(th, c, k, "pass", "over"), Push(th, TaskAt[c][k + 1])
  PROVE  PausedByWhatPassed'
<1>0. /\ RInv /\ PausedByWhatPassed /\ stage \in [Thread -> Stage]
      /\ k \in Level /\ k + 1 \in Level /\ TaskAt[c][k + 1] \in Task
  BY Levels, LambdaIs DEF ChainInv, ChainTypeOK
<1>1. /\ UNCHANGED <<running, executed, pauseCount, resuming>>
      /\ \A u \in Task : IsPushed(u)' <=> IsPushed(u) \/ u = TaskAt[c][k + 1]
  BY <1>0, PushHistory DEF PassesDown
<1>2. /\ stage[th] = "pass" /\ running[th] = TaskAt[c][k] /\ stage'[th] = "over"
      /\ \A x \in Thread \ {th} : stage'[x] = stage[x]
  BY <1>0 DEF PassesDown, GoTo
<1>3. ASSUME NEW a \in Action, NEW i \in 1..(n - 1)
      PROVE  IsBehind(a, i)' <=> IsBehind(a, i)
  <2>1. /\ i \in Level /\ i + 1 \in Level /\ TaskAt[a][i + 1] \in Task
        /\ (TaskAt[a][i] = TaskAt[c][k] => a = c /\ i = k)
        /\ (TaskAt[a][i + 1] = TaskAt[c][k + 1] => a = c /\ i = k)
    BY <1>0, Levels, ChainAssumption
  <2>2. /\ Executed(TaskAt[a][n])' <=> Executed(TaskAt[a][n])
        /\ \A x \in Thread : StillHolds(x, a, i)' <=> StillHolds(x, a, i)
    BY <1>1, <1>2 DEF Executed, StillHolds
  <2>3. IsPushed(TaskAt[a][i + 1])' <=> IsPushed(TaskAt[a][i + 1]) \/ (a = c /\ i = k)
    BY <1>1, <2>1
  <2>4. \A x \in Thread : AtPass(x, a, i)' <=> AtPass(x, a, i) /\ x # th
    BY <1>1, <1>2 DEF AtPass
  <2>5. AtPass(th, a, i) <=> a = c /\ i = k
    BY <1>2, <2>1 DEF AtPass
  <2> QED
    BY <2>2, <2>3, <2>4, <2>5, BehindIs
<1> QED
  BY <1>0, <1>1, <1>3, PausesKept

(* A lambda begins: nothing is resumed before the action has run.          *)
LEMMA PauseBegin ==
  ASSUME ChainInv, NEW th \in Thread, NEW t \in Task, Begins(th, t),
         GoTo(th, FirstStage(t)), resuming' = resuming
  PROVE  PausedByWhatPassed'
<1>0. RInv /\ IInv /\ PausedByWhatPassed /\ stage \in [Thread -> Stage]
  BY DEF ChainInv, RInv, ChainTypeOK
<1>1. /\ pushed' = pushed /\ pauseCount' = pauseCount
      /\ running[th] = None /\ running'[th] = t
      /\ \A x \in Thread \ {th} : running'[x] = running[x]
      /\ \A u \in Task : Executed(u)' <=> Executed(u) \/ u = t
  BY <1>0, BeginHistory
<1>2. stage'[th] = FirstStage(t) /\ \A x \in Thread \ {th} : stage'[x] = stage[x]
  BY <1>0 DEF GoTo
<1>3. ~Executed(t)
  BY <1>0, BeginHands, HandedIsNew
<1>4. ASSUME NEW a \in Action, NEW i \in 1..(n - 1)
      PROVE  IsBehind(a, i)' <=> IsBehind(a, i)
  <2>1. /\ i \in Level /\ n \in Level /\ TaskAt[a][n] \in Task
        /\ TaskAt[a][n] # None /\ TaskAt[a][i] # None /\ LevelOf(TaskAt[a][n]) = n
        /\ TaskAt[a][n] \notin Direct
    BY Levels, LambdaIs
  <2>2. FirstStage(t) # "pass" /\ FirstStage(t) # "resume"
    BY DEF FirstStage
  <2>3. \A x \in Thread : AtPass(x, a, i)' <=> AtPass(x, a, i)
    BY <1>1, <1>2, <2>1, <2>2 DEF AtPass
  <2>4. IsPushed(TaskAt[a][i + 1])' <=> IsPushed(TaskAt[a][i + 1])
    BY <1>1 DEF IsPushed
  <2>5. /\ \A x \in Thread \ {th} : StillHolds(x, a, i)' <=> StillHolds(x, a, i)
        /\ ~StillHolds(th, a, i)
    BY <1>1, <1>2, <2>1 DEF StillHolds
  <2>6. CASE t = TaskAt[a][n]
    <3>1. stage'[th] = "action"
      BY <1>2, <2>1, <2>6 DEF FirstStage
    <3>2. StillHolds(th, a, i)'
      BY <1>1, <2>6, <3>1 DEF StillHolds
    <3> QED
      BY <1>3, <2>3, <2>4, <2>6, <3>2, BehindIs
  <2>7. CASE t # TaskAt[a][n]
    <3>1. ~StillHolds(th, a, i)'
      BY <1>1, <2>7 DEF StillHolds
    <3>2. Executed(TaskAt[a][n])' <=> Executed(TaskAt[a][n])
      BY <1>1, <2>1, <2>7
    <3> QED
      BY <2>3, <2>4, <2>5, <3>1, <3>2, BehindIs
  <2> QED
    BY <2>6, <2>7
<1> QED
  BY <1>0, <1>1, <1>4, PausesKept

(* The sentry takes over from the action, or is through with its queues.   *)
LEMMA PauseSentry ==
  ASSUME ChainInv, NEW th \in Thread, NEW c \in Action, UNCHANGED vars,
         \/ /\ RunsOn(th, c, "action") /\ GoTo(th, "resume")
            /\ resuming' = [resuming EXCEPT ![th] = n - 1]
         \/ /\ RunsOn(th, c, "resume") /\ resuming[th] = 0 /\ GoTo(th, "over")
            /\ resuming' = resuming
  PROVE  PausedByWhatPassed'
<1>0. /\ PausedByWhatPassed /\ stage \in [Thread -> Stage]
      /\ resuming \in [Thread -> 0..(n - 1)]
  BY DEF ChainInv, ChainTypeOK
<1>1. UNCHANGED <<running, pushed, executed, pauseCount>>
  BY DEF vars
<1>2. \A a \in Action, i \in 1..(n - 1) :
        /\ IsPushed(TaskAt[a][i + 1])' <=> IsPushed(TaskAt[a][i + 1])
        /\ Executed(TaskAt[a][n])' <=> Executed(TaskAt[a][n])
  BY <1>1 DEF IsPushed, Executed
<1>3. ASSUME NEW a \in Action, NEW i \in 1..(n - 1), NEW x \in Thread
      PROVE  AtPass(x, a, i)' <=> AtPass(x, a, i)
  BY <1>0, <1>1 DEF AtPass, RunsOn, GoTo
<1>4. ASSUME NEW a \in Action, NEW i \in 1..(n - 1), NEW x \in Thread
      PROVE  StillHolds(x, a, i)' <=> StillHolds(x, a, i)
  <2>0. i \in Nat /\ n \in Nat /\ i <= n - 1 /\ ~(n - 1 < i) /\ 0 < i
    BY Levels
  <2>1. CASE x # th
    BY <1>0, <1>1, <2>1 DEF StillHolds, GoTo
  <2>2. CASE x = th /\ stage[th] = "action"
    <3>1. stage'[th] = "resume" /\ resuming'[th] = n - 1
      BY <1>0, <2>2 DEF RunsOn, GoTo
    <3> QED
      BY <1>1, <2>0, <2>2, <3>1 DEF StillHolds
  <2>3. CASE x = th /\ stage[th] = "resume"
    <3>1. stage'[th] = "over" /\ resuming[th] = 0
      BY <1>0, <2>3 DEF RunsOn, GoTo
    <3> QED
      BY <1>1, <2>0, <2>3, <3>1 DEF StillHolds
  <2> QED
    BY <2>1, <2>2, <2>3 DEF RunsOn
<1> QED
  BY <1>0, <1>1, <1>2, <1>3, <1>4, BehindSame

(* A lambda that returns has nothing left to pass on or to resume.         *)
LEMMA PauseFinish ==
  ASSUME ChainInv, NEW th \in Thread, FinishTask(th), stage[th] \in {"over", "direct"},
         GoTo(th, "none"), resuming' = resuming
  PROVE  PausedByWhatPassed'
<1>0. /\ PausedByWhatPassed /\ stage \in [Thread -> Stage]
      /\ running \in [Thread -> Task \cup {None}]
  BY DEF ChainInv, RInv, IInv, TypeOK, ChainTypeOK
<1>1. /\ UNCHANGED <<pushed, executed, pauseCount>>
      /\ \A x \in Thread \ {th} : running'[x] = running[x]
  BY <1>0 DEF FinishTask, history
<1>2. stage'[th] = "none" /\ \A x \in Thread \ {th} : stage'[x] = stage[x]
  BY <1>0 DEF GoTo
<1>3. \A a \in Action, i \in 1..(n - 1) :
        /\ IsPushed(TaskAt[a][i + 1])' <=> IsPushed(TaskAt[a][i + 1])
        /\ Executed(TaskAt[a][n])' <=> Executed(TaskAt[a][n])
  BY <1>1 DEF IsPushed, Executed
<1>4. ASSUME NEW a \in Action, NEW i \in 1..(n - 1), NEW x \in Thread
      PROVE  /\ AtPass(x, a, i)' <=> AtPass(x, a, i)
             /\ StillHolds(x, a, i)' <=> StillHolds(x, a, i)
  <2>1. CASE x = th
    BY <1>2, <2>1 DEF AtPass, StillHolds
  <2>2. CASE x # th
    BY <1>1, <1>2, <2>2 DEF AtPass, StillHolds
  <2> QED
    BY <2>1, <2>2
<1> QED
  BY <1>0, <1>1, <1>3, <1>4, BehindSame

(* What leaves the queues' history and the lambdas alone.                  *)
LEMMA PauseQuiet ==
  ASSUME ChainInv, UNCHANGED <<pauseCount, running, pushed, executed>>, SameStages
  PROVE  PausedByWhatPassed'
<1>1. ASSUME NEW a \in Action, NEW i \in 1..(n - 1)
      PROVE  /\ IsPushed(TaskAt[a][i + 1])' <=> IsPushed(TaskAt[a][i + 1])
             /\ Executed(TaskAt[a][n])' <=> Executed(TaskAt[a][n])
             /\ \A x \in Thread : /\ AtPass(x, a, i)' <=> AtPass(x, a, i)
                                  /\ StillHolds(x, a, i)' <=> StillHolds(x, a, i)
  BY DEF IsPushed, Executed, AtPass, StillHolds, SameStages
<1> QED
  BY <1>1, BehindSame DEF ChainInv

(* Every step keeps the pauses in accord with the actions behind them.     *)
LEMMA PausesStep ==
  ASSUME ChainInv, NEW th \in Thread, ChainStep(th)
  PROVE  PausedByWhatPassed'
<1>1. CASE UNCHANGED vars /\ SameStages
  BY <1>1, PauseQuiet DEF vars
<1>2. CASE UNCHANGED <<pauseCount, running, history>> /\ SameStages
  BY <1>2, PauseQuiet DEF history
<1> QED
  BY <1>1, <1>2, PauseEnter, PauseBegin, PausePause, PauseDescend, PauseResume, PauseSentry,
     PauseFinish DEF ChainStep

----------------------------------------------------------------------------
(* The theorems                                                            *)

(* The inductive invariant holds initially. *)
LEMMA InitChainInv ==
  ChainInit => ChainInv
<1> SUFFICES ASSUME ChainInit
             PROVE  ChainInv
  OBVIOUS
<1>1. /\ Init /\ RInv
      /\ \A q \in Queue : pushed[q] = <<>> /\ executed[q] = <<>> /\ pauseCount[q] = 0
      /\ \A th \in Thread : running[th] = None /\ stage[th] = "none"
  BY InitRInv DEF ChainInit, Init
<1>2. RunLast
  BY <1>1 DEF RunLast, RunOwner
<1>3. ChainTypeOK
  <2>1. 0 \in 0..(n - 1) /\ "none" \in Stage
    BY Levels DEF Stage
  <2> QED
    BY <2>1 DEF ChainInit, ChainTypeOK
<1>4. StageOK
  <2>1. ASSUME NEW th \in Thread
        PROVE  StageOf(th)
    <3>1. running[th] = None /\ stage[th] = "none"
      BY <1>1
    <3> QED
      BY ONLY <3>1 DEF StageOf
  <2> QED
    BY ONLY <2>1, Zenon DEF StageOK, StageOf
<1>5. \A t \in Task : ~IsPushed(t)
  BY <1>1, ConstantsAssumption DEF IsPushed
<1>6. Chained
  BY <1>5, LambdaIs DEF Chained
<1>7. PushedHere /\ SameOrder
  <2>1. \A q \in Queue : DOMAIN pushed[q] = {}
    BY <1>1
  <2> QED
    BY <2>1, Levels DEF PushedHere, SameOrder, Before
<1>8. PausedByWhatPassed
  <2> SUFFICES ASSUME NEW i \in 1..(n - 1)
               PROVE  pauseCount[m_queues[i]] = Cardinality(Behind(i))
    BY DEF PausedByWhatPassed
  <2>1. \A a \in Action : ~Passed(a, i)
    BY <1>1, <1>5, Levels, LambdaIs DEF Passed
  <2>2. Behind(i) = {}
    BY <2>1 DEF Behind
  <2> QED
    BY <1>1, <2>2, FS_EmptySet, Levels
<1> QED
  BY <1>1, <1>2, <1>3, <1>4, <1>6, <1>7, <1>8 DEF ChainInv

(* Every step of the chain keeps the inductive invariant. *)
LEMMA NextChainInv ==
  ChainInv /\ [ChainNext]_allVars => ChainInv'
<1> SUFFICES ASSUME ChainInv, [ChainNext]_allVars
             PROVE  ChainInv'
  OBVIOUS
<1>0. RInv /\ RunLast
  BY DEF ChainInv
<1>1. ASSUME NEW th \in Thread, ChainStep(th)
      PROVE  /\ [Next]_vars /\ StageOK' /\ Chained' /\ PushedHere' /\ SameOrder'
             /\ PausedByWhatPassed'
  BY <1>1, ChainStepIsNext, StageStep, OrderStep, PausesStep
<1>2. CASE UNCHANGED allVars
  <2>1. UNCHANGED vars /\ SameStages
    BY <1>2 DEF allVars, chainVars, SameStages
  <2>2. UNCHANGED <<pauseCount, running, pushed, executed>> /\ stage' = stage
    BY <2>1 DEF vars, SameStages
  <2>3. PausedByWhatPassed'
    BY <2>1, <2>2, PauseQuiet
  <2>4. Chained' /\ PushedHere' /\ SameOrder'
    BY <2>2, OrderKept DEF ChainInv, Executed
  <2>5. StageOK'
    BY <2>2 DEF ChainInv, StageOK, IsPushed
  <2> QED
    BY <1>0, <2>1, <2>3, <2>4, <2>5, NextRInv, RunLastStep, ChainTypeStep DEF ChainInv
<1>3. CASE ChainNext
  <2>1. PICK th \in Thread : ChainStep(th)
    BY <1>3, ChainStepKinds
  <2>2. RInv' /\ RunLast'
    BY <1>0, <1>1, <2>1, NextRInv, RunLastStep
  <2> QED
    BY <1>1, <2>1, <2>2, ChainTypeStep DEF ChainInv
<1> QED
  BY <1>2, <1>3

(* The inductive invariant holds in every reachable state of the chain. *)
THEOREM ChainInvariance ==
  ChainSpec => []ChainInv
BY InitChainInv, NextChainInv, PTL DEF ChainSpec

(* Every queue of the chain is paused once for each action that has passed *)
(* it and not resumed it: passDownChain and the sentry of actionToRun      *)
(* balance, whatever other actions are under way.                          *)
THEOREM PausesMatch ==
  ChainSpec => []PausedByWhatPassed
<1>1. ChainInv => PausedByWhatPassed
  BY DEF ChainInv
<1> QED
  BY <1>1, ChainInvariance, PTL

(* Actions run in every queue in the order in which they were pushed into  *)
(* the first one.                                                          *)
THEOREM ActionsInOrder ==
  ChainSpec => []RunsInOrder
<1>1. ChainInv => RunsInOrder
  <2> SUFFICES ASSUME ChainInv, NEW i \in Level,
                      NEW j \in DOMAIN executed[m_queues[i]],
                      NEW k \in DOMAIN executed[m_queues[i]],
                      j < k, executed[m_queues[i]][j] \in Lambda,
                      executed[m_queues[i]][k] \in Lambda
               PROVE  \E x, y \in DOMAIN pushed[m_queues[1]] :
                        /\ x < y
                        /\ pushed[m_queues[1]][x] = TaskAt[ActionOf(executed[m_queues[i]][j])][1]
                        /\ pushed[m_queues[1]][y] = TaskAt[ActionOf(executed[m_queues[i]][k])][1]
    BY DEF RunsInOrder
  <2> DEFINE q == m_queues[i]
  <2>1. q \in Queue
    BY Levels
  <2>2. /\ pushed[q] \in Seq(Task) /\ executed[q] \in Seq(Task)
        /\ Len(executed[q]) <= Len(pushed[q])
        /\ \A x \in 1..Len(executed[q]) : pushed[q][x] = executed[q][x]
    BY <2>1, ExecutedFirst DEF ChainInv
  <2>3. /\ j \in DOMAIN pushed[q] /\ k \in DOMAIN pushed[q]
        /\ pushed[q][j] = executed[q][j] /\ pushed[q][k] = executed[q][k]
    BY <2>2
  <2>4. ASSUME NEW x \in DOMAIN pushed[q], pushed[q][x] \in Lambda
        PROVE  \E a \in Action : pushed[q][x] = TaskAt[a][i] /\ ActionOf(pushed[q][x]) = a
    <3>1. PICK a \in Action, l \in Level : pushed[q][x] = TaskAt[a][l]
      BY <2>4 DEF Lambda
    <3>2. m_queues[l] = q
      BY <2>1, <3>1, LambdaIs DEF ChainInv, PushedHere
    <3>3. l = i
      BY <3>2, ChainAssumption
    <3> QED
      BY <3>1, <3>3, LambdaIs
  <2>5. PICK a \in Action : pushed[q][j] = TaskAt[a][i] /\ ActionOf(pushed[q][j]) = a
    BY <2>3, <2>4
  <2>6. PICK b \in Action : pushed[q][k] = TaskAt[b][i] /\ ActionOf(pushed[q][k]) = b
    BY <2>3, <2>4
  <2>7. Before(a, b, i)
    BY <2>3, <2>5, <2>6 DEF Before
  <2>8. Before(a, b, 1)
    BY <2>7 DEF ChainInv, SameOrder
  <2> QED
    BY <2>3, <2>5, <2>6, <2>8 DEF Before
<1> QED
  BY <1>1, ChainInvariance, PTL

(* To its queues the chain is a client like any other: what is proved of   *)
(* SerialTaskQueue holds for the queues of a chain.                        *)
THEOREM ChainIsAClient ==
  ChainSpec => Spec
<1>1. ChainInit => Init
  BY DEF ChainInit
<1>2. ChainInv /\ [ChainNext]_allVars => [Next]_vars
  <2> SUFFICES ASSUME ChainInv, [ChainNext]_allVars
               PROVE  [Next]_vars
    OBVIOUS
  <2>1. CASE UNCHANGED allVars
    BY <2>1 DEF allVars
  <2>2. CASE ChainNext
    BY <2>2, ChainStepKinds, ChainStepIsNext
  <2> QED
    BY <2>1, <2>2
<1> QED
  BY <1>1, <1>2, ChainInvariance, PTL DEF ChainSpec, Spec

----------------------------------------------------------------------------
(* A chain at rest                                                         *)

(* The push of an action has begun, and the queues it went through are not *)
(* all resumed.                                                            *)
Holds(th, a) == running[th] = TaskAt[a][n] /\ stage[th] \in {"action", "resume"}

Outstanding(a) ==
  \/ \E th \in Thread : pushing[th] = a
  \/ /\ IsPushed(TaskAt[a][1])
     /\ ~Executed(TaskAt[a][n]) \/ \E th \in Thread : Holds(th, a)

(* outstandingTasks() is the number of those actions. *)
CountsOutstanding == outstandingTasks = Cardinality({a \in Action : Outstanding(a)})

(* Every call has returned, and no task is on its way to a thread. *)
AtRest == spawned = {} /\ \A th \in Thread : pc[th] = "out" /\ pushing[th] = None

(* A chain can only come to rest when all is done: no two actions can each *)
(* keep a queue paused that the other one waits for, no action is left in  *)
(* a queue on its way, and every pause was taken back.                     *)
RestsWhenDone ==
  AtRest => /\ outstandingTasks = 0
            /\ \A q \in Queue : pauseCount[q] = 0
            /\ \A t \in Task : IsPushed(t) => Finished(t)
            /\ \A a \in Action : IsPushed(TaskAt[a][1]) => Finished(TaskAt[a][n])

(* An action is pushed by one thread, once. *)
StillToPush(th) == pushing[th] # None => ~IsPushed(TaskAt[pushing[th]][1])

PushesOne ==
  /\ \A th \in Thread : StillToPush(th)
  /\ \A x, y \in Thread : pushing[x] # None /\ pushing[x] = pushing[y] => x = y

(* A lambda that began is in passDownChain, or has passed its action on.   *)
InPassDown(th, a, i) == running[th] = TaskAt[a][i] /\ stage[th] \in {"pause", "pass"}

GoesDown ==
  \A a \in Action : \A i \in 1..(n - 1) :
    Executed(TaskAt[a][i]) =>
      IsPushed(TaskAt[a][i + 1]) \/ \E th \in Thread : InPassDown(th, a, i)

(* Nothing pauses the last queue of the chain, or one that is not in it.   *)
OthersOpen ==
  \A q \in Queue : (\A i \in 1..(n - 1) : m_queues[i] # q) => pauseCount[q] = 0

DrainInv ==
  ChainInv /\ PushesOne /\ GoesDown /\ OthersOpen /\ CountsOutstanding

(* The sets of levels there are have a last one. *)
LEMMA LastLevel ==
  ASSUME NEW T, T \subseteq Level, T # {}
  PROVE  \E i \in T : \A j \in T : j <= i
<1> DEFINE R == OpToRel(<, Nat)
<1>1. IsWellFoundedOn(R, Nat)
  BY NatLessThanWellFounded, Zenon
<1>2. \A x, y \in Nat : <<x, y>> \in R <=> x < y
  BY DEF OpToRel
<1> HIDE DEF R
<1> DEFINE U == {n - i : i \in T}
<1>3. n \in Nat /\ \A i \in T : i \in Nat /\ i <= n /\ n - i \in Nat
  BY Levels DEF Level
<1>4. U \subseteq Nat /\ U # {}
  BY <1>3
<1> HIDE DEF U
<1>5. PICK x \in U : \A y \in U : ~(<<y, x>> \in R)
  BY <1>1, <1>4, WFMin
<1>6. \A y \in U : ~(y < x)
  BY <1>2, <1>4, <1>5, Zenon
<1>7. PICK i \in T : x = n - i
  BY DEF U
<1>8. ASSUME NEW j \in T
      PROVE  j <= i
  <2>1. ~(n - j < n - i)
    BY <1>6, <1>7 DEF U
  <2> QED
    BY <1>3, <2>1
<1> QED
  BY <1>8

(* No new lambda begins, and none leaves passDownChain but by its push.    *)
LEMMA DownKept ==
  ASSUME GoesDown, executed' = executed,
         \A u \in Task : IsPushed(u) => IsPushed(u)',
         \A x \in Thread, a \in Action, i \in 1..(n - 1) :
           InPassDown(x, a, i) => InPassDown(x, a, i)' \/ IsPushed(TaskAt[a][i + 1])'
  PROVE  GoesDown'
<1> SUFFICES ASSUME NEW a \in Action, NEW i \in 1..(n - 1), Executed(TaskAt[a][i])'
             PROVE  IsPushed(TaskAt[a][i + 1])' \/ \E th \in Thread : InPassDown(th, a, i)'
  BY DEF GoesDown
<1>1. Executed(TaskAt[a][i]) /\ TaskAt[a][i + 1] \in Task
  BY Levels, LambdaIs DEF Executed
<1>2. CASE IsPushed(TaskAt[a][i + 1])
  BY <1>1, <1>2
<1>3. CASE \E th \in Thread : InPassDown(th, a, i)
  BY <1>3
<1> QED
  BY <1>1, <1>2, <1>3 DEF GoesDown

(* Every lambda but the last passes its action on before it ends. *)
LEMMA DownStep ==
  ASSUME ChainInv, GoesDown, NEW th \in Thread, ChainStep(th)
  PROVE  GoesDown'
<1>0. /\ RInv /\ IInv /\ stage \in [Thread -> Stage] /\ running \in [Thread -> Task \cup {None}]
  BY DEF ChainInv, RInv, IInv, TypeOK, ChainTypeOK
<1>1. CASE UNCHANGED <<running, executed, pushed>> /\ stage' = stage
  BY <1>1, DownKept DEF IsPushed, InPassDown
<1>2. ASSUME NEW t \in Task, Push(th, t), stage' = stage
      PROVE  GoesDown'
  BY <1>0, <1>2, DownKept, PushHistory DEF InPassDown
<1>3. ASSUME NEW t \in Task, Begins(th, t), GoTo(th, FirstStage(t))
      PROVE  GoesDown'
  <2>1. /\ pushed' = pushed /\ running[th] = None /\ running'[th] = t
        /\ \A x \in Thread \ {th} : running'[x] = running[x]
        /\ \A u \in Task : Executed(u)' <=> Executed(u) \/ u = t
    BY <1>0, <1>3, BeginHistory
  <2>2. stage'[th] = FirstStage(t) /\ \A x \in Thread \ {th} : stage'[x] = stage[x]
    BY <1>0, <1>3 DEF GoTo
  <2> SUFFICES ASSUME NEW a \in Action, NEW i \in 1..(n - 1), Executed(TaskAt[a][i])'
               PROVE  IsPushed(TaskAt[a][i + 1])' \/ \E x \in Thread : InPassDown(x, a, i)'
    BY DEF GoesDown
  <2>3. /\ i \in Level /\ i # n /\ TaskAt[a][i] \in Task /\ TaskAt[a][i] # None
        /\ TaskAt[a][i] \notin Direct /\ LevelOf(TaskAt[a][i]) = i
    BY Levels, LambdaIs
  <2>4. CASE t = TaskAt[a][i]
    <3>1. FirstStage(t) = "pause"
      BY <2>3, <2>4 DEF FirstStage
    <3>2. InPassDown(th, a, i)'
      BY <2>1, <2>2, <2>4, <3>1 DEF InPassDown
    <3> QED
      BY <3>2
  <2>5. CASE t # TaskAt[a][i]
    <3>1. Executed(TaskAt[a][i])
      BY <2>1, <2>3, <2>5
    <3>2. \A x \in Thread : InPassDown(x, a, i) => InPassDown(x, a, i)'
      BY <2>1, <2>2, <2>3 DEF InPassDown
    <3>3. IsPushed(TaskAt[a][i + 1]) => IsPushed(TaskAt[a][i + 1])'
      BY <2>1 DEF IsPushed
    <3> QED
      BY <3>1, <3>2, <3>3 DEF GoesDown
  <2> QED
    BY <2>4, <2>5
<1>4. ASSUME NEW a \in Action, NEW i \in 1..(n - 1),
             PassesDown(th, a, i, "pause", "pass"), Pause(th, m_queues[i])
      PROVE  GoesDown'
  <2>1. UNCHANGED <<running, executed, pushed>>
    BY <1>4 DEF Pause, stack, history
  <2>2. stage'[th] = "pass" /\ \A x \in Thread \ {th} : stage'[x] = stage[x]
    BY <1>0, <1>4 DEF PassesDown, GoTo
  <2> QED
    BY <2>1, <2>2, DownKept DEF IsPushed, InPassDown
<1>5. ASSUME NEW a \in Action, NEW i \in 1..(n - 1),
             PassesDown(th, a, i, "pass", "over"), Push(th, TaskAt[a][i + 1])
      PROVE  GoesDown'
  <2>1. /\ i \in Level /\ TaskAt[a][i + 1] \in Task
        /\ \A b \in Action, j \in Level : TaskAt[b][j] = TaskAt[a][i] => b = a /\ j = i
    BY Levels, ChainAssumption
  <2>2. /\ UNCHANGED <<running, executed>> /\ running[th] = TaskAt[a][i]
        /\ \A u \in Task : IsPushed(u)' <=> IsPushed(u) \/ u = TaskAt[a][i + 1]
    BY <1>0, <1>5, <2>1, PushHistory DEF PassesDown
  <2>3. \A x \in Thread \ {th} : stage'[x] = stage[x]
    BY <1>0, <1>5 DEF PassesDown, GoTo
  <2>4. ASSUME NEW x \in Thread, NEW b \in Action, NEW j \in 1..(n - 1), InPassDown(x, b, j)
        PROVE  InPassDown(x, b, j)' \/ IsPushed(TaskAt[b][j + 1])'
    <3>1. CASE x # th
      BY <2>2, <2>3, <2>4, <3>1 DEF InPassDown
    <3>2. CASE x = th
      <4>1. b = a /\ j = i
        BY <2>1, <2>2, <2>4, <3>2, Levels DEF InPassDown
      <4> QED
        BY <2>1, <2>2, <4>1
    <3> QED
      BY <3>1, <3>2
  <2> QED
    BY <2>2, <2>4, DownKept
<1>6. ASSUME NEW s, GoTo(th, s), stage[th] \notin {"pause", "pass"}, UNCHANGED <<executed, pushed>>,
             \A x \in Thread \ {th} : running'[x] = running[x]
      PROVE  GoesDown'
  <2>1. \A x \in Thread \ {th} : stage'[x] = stage[x]
    BY <1>0, <1>6 DEF GoTo
  <2> QED
    BY <1>6, <2>1, DownKept DEF IsPushed, InPassDown
<1>7. CASE FinishTask(th) /\ stage[th] \in {"over", "direct"} /\ GoTo(th, "none")
  BY <1>0, <1>6, <1>7 DEF FinishTask, history
<1>8. ASSUME NEW a \in Action, NEW s, RunsOn(th, a, "action") \/ RunsOn(th, a, "resume"),
             GoTo(th, s), UNCHANGED vars
      PROVE  GoesDown'
  BY <1>6, <1>8 DEF RunsOn, vars
<1>9. ASSUME \/ UNCHANGED vars \/ UNCHANGED <<pauseCount, running, history>>
             \/ \E q : Resume(th, q)
      PROVE  UNCHANGED <<running, executed, pushed>>
  BY <1>9 DEF vars, history, Resume
<1> QED
  BY <1>1, <1>2, <1>3, <1>4, <1>5, <1>7, <1>8, <1>9 DEF ChainStep, SameStages, Enters

(* Only the queues before the last one are paused, and resumed.            *)
LEMMA OthersOpenStep ==
  ASSUME ChainInv, OthersOpen, NEW th \in Thread, ChainStep(th)
  PROVE  OthersOpen'
<1>0. /\ RInv /\ IInv /\ pauseCount \in [Queue -> 0..MaxPause]
      /\ resuming \in [Thread -> 0..(n - 1)]
  BY DEF ChainInv, RInv, IInv, TypeOK, ChainTypeOK
<1>1. CASE pauseCount' = pauseCount
  BY <1>1 DEF OthersOpen
<1>2. ASSUME NEW k \in 1..(n - 1), NEW c, pauseCount' = [pauseCount EXCEPT ![m_queues[k]] = c]
      PROVE  OthersOpen'
  BY <1>0, <1>2 DEF OthersOpen
<1>3. ASSUME NEW i \in 1..(n - 1), Pause(th, m_queues[i])
      PROVE  OthersOpen'
  BY <1>2, <1>3 DEF Pause
<1>4. ASSUME resuming[th] > 0, Resume(th, m_queues[resuming[th]])
      PROVE  OthersOpen'
  <2>1. resuming[th] \in 1..(n - 1)
    BY <1>0, <1>4, Levels
  <2> QED
    BY <1>2, <1>4, <2>1 DEF Resume
<1>5. ASSUME NEW t \in Task, Push(th, t) \/ Begins(th, t)
      PROVE  pauseCount' = pauseCount
  BY <1>0, <1>5, PushHistory, BeginHistory
<1>6. ASSUME UNCHANGED vars \/ FinishTask(th)
      PROVE  pauseCount' = pauseCount
  BY <1>6 DEF vars, FinishTask
<1>7. ASSUME NEW a \in Action, NEW i \in 1..(n - 1), Push(th, TaskAt[a][i + 1])
      PROVE  pauseCount' = pauseCount
  BY <1>5, <1>7, Levels, LambdaIs
<1> QED
  BY <1>1, <1>3, <1>4, <1>5, <1>6, <1>7 DEF ChainStep, Enters

(* What an action is outstanding for stays as it is. *)
LEMMA CountKept ==
  ASSUME CountsOutstanding, outstandingTasks' = outstandingTasks,
         \A a \in Action : Outstanding(a)' <=> Outstanding(a)
  PROVE  CountsOutstanding'
<1>1. {a \in Action : Outstanding(a)'} = {a \in Action : Outstanding(a)}
  OBVIOUS
<1> QED
  BY <1>1 DEF CountsOutstanding

(* The same, part by part. *)
LEMMA OutstandingSame ==
  ASSUME CountsOutstanding, outstandingTasks' = outstandingTasks, pushing' = pushing,
         \A a \in Action :
           /\ IsPushed(TaskAt[a][1])' <=> IsPushed(TaskAt[a][1])
           /\ Executed(TaskAt[a][n])' <=> Executed(TaskAt[a][n])
           /\ \A th \in Thread : Holds(th, a)' <=> Holds(th, a)
  PROVE  CountsOutstanding'
<1>1. ASSUME NEW a \in Action
      PROVE  Outstanding(a)' <=> Outstanding(a)
  BY DEF Outstanding
<1> QED
  BY <1>1, CountKept

(* One that was not outstanding now is, or the other way round. *)
LEMMA CountChanges ==
  ASSUME CountsOutstanding, NEW c \in Action,
         \A a \in Action \ {c} : Outstanding(a)' <=> Outstanding(a),
         \/ outstandingTasks' = outstandingTasks + 1 /\ ~Outstanding(c) /\ Outstanding(c)'
         \/ outstandingTasks' = outstandingTasks - 1 /\ Outstanding(c) /\ ~Outstanding(c)'
  PROVE  CountsOutstanding'
<1> DEFINE S == {a \in Action : Outstanding(a)}
           T == {a \in Action : Outstanding(a)'}
<1>1. IsFiniteSet(S)
  BY ChainAssumption, FS_Subset
<1>2. outstandingTasks = Cardinality(S) /\ (CountsOutstanding' <=> outstandingTasks' = Cardinality(T))
  BY DEF CountsOutstanding
<1>3. CASE outstandingTasks' = outstandingTasks + 1 /\ ~Outstanding(c) /\ Outstanding(c)'
  <2>1. T = S \cup {c} /\ c \notin S
    BY <1>3
  <2> HIDE DEF S, T
  <2> QED
    BY <1>1, <1>2, <1>3, <2>1, FS_AddElement
<1>4. CASE outstandingTasks' = outstandingTasks - 1 /\ Outstanding(c) /\ ~Outstanding(c)'
  <2>1. T = S \ {c} /\ c \in S
    BY <1>4
  <2> HIDE DEF S, T
  <2> QED
    BY <1>1, <1>2, <1>4, <2>1, FS_RemoveElement
<1> QED
  BY <1>3, <1>4

(* An action that is not in the first queue is in none. *)
LEMMA NotInFirst ==
  ASSUME ChainInv, NEW a \in Action, ~IsPushed(TaskAt[a][1])
  PROVE  ~Executed(TaskAt[a][n]) /\ \A th \in Thread : ~Holds(th, a)
<1>0. /\ RInv /\ 1 \in Level /\ n \in Level /\ (n = 1 \/ 1 < n)
      /\ TaskAt[a][1] \in Task /\ TaskAt[a][n] \in Task
  BY Levels, LambdaIs DEF ChainInv, Level
<1>1. ASSUME Executed(TaskAt[a][n])
      PROVE  FALSE
  <2>1. IsPushed(TaskAt[a][n])
    BY <1>0, <1>1, ExecutedWasPushed
  <2>2. Executed(TaskAt[a][1])
    BY <1>0, <1>1, <2>1 DEF ChainInv, Chained
  <2> QED
    BY <1>0, <2>2, ExecutedWasPushed
<1>2. \A th \in Thread : Holds(th, a) => Executed(TaskAt[a][n])
  BY <1>0, RunningWasPushed DEF Holds
<1> QED
  BY <1>1, <1>2

(* push counts an action that was not counted before. *)
LEMMA CountInStep ==
  ASSUME DrainInv, NEW th \in Thread, NEW c \in Action, CountIn(th, c)
  PROVE  PushesOne' /\ CountsOutstanding'
<1>0. /\ ChainInv /\ CountsOutstanding /\ pushing \in [Thread -> Action \cup {None}]
      /\ None \notin Action
  BY ChainAssumption DEF DrainInv, ChainInv, ChainTypeOK
<1>1. /\ ~IsPushed(TaskAt[c][1]) /\ UNCHANGED <<running, executed, pushed, stage>>
      /\ outstandingTasks' = outstandingTasks + 1
      /\ \A x \in Thread : pushing[x] # c
      /\ pushing[th] = None /\ pushing'[th] = c
      /\ \A x \in Thread \ {th} : pushing'[x] = pushing[x]
  BY <1>0 DEF CountIn, MayCall, vars
<1>2. \A a \in Action : /\ IsPushed(TaskAt[a][1])' <=> IsPushed(TaskAt[a][1])
                        /\ Executed(TaskAt[a][n])' <=> Executed(TaskAt[a][n])
                        /\ \A x \in Thread : Holds(x, a)' <=> Holds(x, a)
  BY <1>1 DEF IsPushed, Executed, Holds
<1>3. ASSUME NEW a \in Action \ {c}
      PROVE  Outstanding(a)' <=> Outstanding(a)
  <2>1. (\E x \in Thread : pushing'[x] = a) <=> (\E x \in Thread : pushing[x] = a)
    BY <1>0, <1>1
  <2> QED
    BY <1>2, <2>1 DEF Outstanding
<1>4. ~Outstanding(c) /\ Outstanding(c)'
  BY <1>1 DEF Outstanding
<1>5. PushesOne'
  <2>1. ASSUME NEW x \in Thread \ {th}
        PROVE  StillToPush(x)'
    <3>1. StillToPush(x)
      BY DEF DrainInv, PushesOne
    <3>2. pushed' = pushed /\ pushing'[x] = pushing[x]
      BY <1>1
    <3> QED
      BY ONLY <3>1, <3>2 DEF StillToPush, IsPushed
  <2>2. StillToPush(th)'
    BY <1>1 DEF StillToPush, IsPushed
  <2>3. \A x, y \in Thread : pushing'[x] # None /\ pushing'[x] = pushing'[y] => x = y
    BY <1>0, <1>1 DEF DrainInv, PushesOne
  <2> QED
    BY <2>1, <2>2, <2>3 DEF PushesOne
<1> QED
  BY <1>0, <1>1, <1>3, <1>4, <1>5, CountChanges

(* ... and it stays outstanding when the first queue has it. *)
LEMMA PushFirstStep ==
  ASSUME DrainInv, NEW th \in Thread, PushFirst(th)
  PROVE  PushesOne' /\ CountsOutstanding'
<1> DEFINE c == pushing[th]
<1>0. /\ ChainInv /\ RInv /\ PushesOne /\ CountsOutstanding
      /\ pushing \in [Thread -> Action \cup {None}] /\ None \notin Action
  BY ChainAssumption DEF DrainInv, ChainInv, ChainTypeOK
<1>1. c \in Action /\ TaskAt[c][1] \in Task /\ Push(th, TaskAt[c][1]) /\ stage' = stage
  BY <1>0, Levels, LambdaIs DEF PushFirst
<1>2. /\ ~IsPushed(TaskAt[c][1]) /\ UNCHANGED <<running, executed, outstandingTasks>>
      /\ \A u \in Task : IsPushed(u)' <=> IsPushed(u) \/ u = TaskAt[c][1]
  BY <1>0, <1>1, PushHistory DEF PushFirst
<1>3. pushing'[th] = None /\ \A x \in Thread \ {th} : pushing'[x] = pushing[x]
  BY <1>0 DEF PushFirst
<1>4. \A x \in Thread \ {th} : pushing[x] # c
  BY <1>0, <1>1 DEF PushesOne
<1> HIDE DEF c
<1>5. \A a \in Action : /\ TaskAt[a][1] \in Task
                        /\ TaskAt[a][1] = TaskAt[c][1] => a = c
  BY <1>1, Levels, ChainAssumption
<1>6. ASSUME NEW a \in Action
      PROVE  Outstanding(a)' <=> Outstanding(a)
  <2>1. /\ Executed(TaskAt[a][n])' <=> Executed(TaskAt[a][n])
        /\ \A x \in Thread : Holds(x, a)' <=> Holds(x, a)
    BY <1>1, <1>2 DEF Executed, Holds
  <2>2. CASE a = c
    <3>1. Outstanding(a)
      BY <2>2 DEF Outstanding, c
    <3>2. ~Executed(TaskAt[a][n]) /\ IsPushed(TaskAt[a][1])'
      BY <1>0, <1>2, <1>5, <2>2, NotInFirst
    <3> QED
      BY <2>1, <3>1, <3>2 DEF Outstanding
  <2>3. CASE a # c
    <3>1. IsPushed(TaskAt[a][1])' <=> IsPushed(TaskAt[a][1])
      BY <1>2, <1>5, <2>3
    <3>2. (\E x \in Thread : pushing'[x] = a) <=> (\E x \in Thread : pushing[x] = a)
      BY <1>0, <1>3, <2>3 DEF c
    <3> QED
      BY <2>1, <3>1, <3>2 DEF Outstanding
  <2> QED
    BY <2>2, <2>3
<1>7. PushesOne'
  <2>1. ASSUME NEW x \in Thread, pushing'[x] # None
        PROVE  StillToPush(x)'
    <3>1. x # th /\ pushing'[x] = pushing[x] /\ pushing[x] \in Action /\ pushing[x] # c
      BY <1>0, <1>3, <1>4, <2>1
    <3>2. ~IsPushed(TaskAt[pushing[x]][1]) /\ TaskAt[pushing[x]][1] # TaskAt[c][1]
      BY <1>0, <1>1, <1>5, <3>1 DEF PushesOne, StillToPush
    <3>3. ~IsPushed(TaskAt[pushing[x]][1])'
      BY <1>2, <1>5, <3>1, <3>2
    <3> QED
      BY ONLY <3>3 DEF StillToPush
  <2>2. \A x, y \in Thread : pushing'[x] # None /\ pushing'[x] = pushing'[y] => x = y
    BY <1>0, <1>3 DEF PushesOne
  <2> QED
    BY <2>1, <2>2 DEF PushesOne, StillToPush
<1> QED
  BY <1>0, <1>2, <1>6, <1>7, CountKept

(* A lambda of the chain or another client pushes into a queue: no action  *)
(* comes into the first one by this.                                       *)
LEMMA OtherPushStep ==
  ASSUME DrainInv, NEW th \in Thread, NEW t \in Task, Push(th, t),
         \A a \in Action : t # TaskAt[a][1],
         UNCHANGED <<outstandingTasks, pushing>>,
         \A a \in Action, x \in Thread : Holds(x, a)' <=> Holds(x, a)
  PROVE  PushesOne' /\ CountsOutstanding'
<1>0. RInv /\ PushesOne /\ CountsOutstanding /\ pushing \in [Thread -> Action \cup {None}]
  BY DEF DrainInv, ChainInv, ChainTypeOK
<1>1. /\ executed' = executed
      /\ \A u \in Task : IsPushed(u)' <=> IsPushed(u) \/ u = t
  BY <1>0, PushHistory
<1>2. \A a \in Action : /\ IsPushed(TaskAt[a][1])' <=> IsPushed(TaskAt[a][1])
                        /\ Executed(TaskAt[a][n])' <=> Executed(TaskAt[a][n])
  BY <1>1, Levels, LambdaIs DEF Executed
<1>3. PushesOne'
  BY <1>0, <1>2 DEF PushesOne, StillToPush
<1> QED
  BY <1>0, <1>2, <1>3, OutstandingSame

(* Without a push or a begin only the last stages of an action matter.     *)
LEMMA SameHistoryStep ==
  ASSUME DrainInv, UNCHANGED <<pushed, executed, pushing, outstandingTasks>>,
         \A a \in Action, x \in Thread : Holds(x, a)' <=> Holds(x, a)
  PROVE  PushesOne' /\ CountsOutstanding'
<1>1. \A a \in Action : /\ IsPushed(TaskAt[a][1])' <=> IsPushed(TaskAt[a][1])
                        /\ Executed(TaskAt[a][n])' <=> Executed(TaskAt[a][n])
  BY DEF IsPushed, Executed
<1>2. PushesOne'
  BY DEF DrainInv, PushesOne, StillToPush, IsPushed
<1> QED
  BY <1>1, <1>2, OutstandingSame DEF DrainInv

(* A lambda begins: an action is outstanding until its last one is through *)
(* with the queues.                                                        *)
LEMMA BeginCounts ==
  ASSUME DrainInv, NEW th \in Thread, NEW t \in Task, Begins(th, t),
         GoTo(th, FirstStage(t)), UNCHANGED <<pushing, outstandingTasks>>
  PROVE  PushesOne' /\ CountsOutstanding'
<1>0. IInv /\ RInv /\ PushesOne /\ CountsOutstanding /\ stage \in [Thread -> Stage]
  BY DEF DrainInv, ChainInv, RInv, ChainTypeOK
<1>1. /\ pushed' = pushed /\ running[th] = None /\ running'[th] = t
      /\ \A x \in Thread \ {th} : running'[x] = running[x]
      /\ \A u \in Task : Executed(u)' <=> Executed(u) \/ u = t
  BY <1>0, BeginHistory
<1>2. stage'[th] = FirstStage(t) /\ \A x \in Thread \ {th} : stage'[x] = stage[x]
  BY <1>0 DEF GoTo
<1>3. ~Executed(t)
  BY <1>0, BeginHands, HandedIsNew
<1>4. ASSUME NEW a \in Action
      PROVE  Outstanding(a)' <=> Outstanding(a)
  <2>1. /\ TaskAt[a][n] \in Task /\ TaskAt[a][n] # None
        /\ TaskAt[a][n] \notin Direct /\ LevelOf(TaskAt[a][n]) = n
    BY Levels, LambdaIs
  <2>2. /\ \A x \in Thread \ {th} : Holds(x, a)' <=> Holds(x, a)
        /\ ~Holds(th, a)
    BY <1>1, <1>2, <2>1 DEF Holds
  <2>3. /\ IsPushed(TaskAt[a][1])' <=> IsPushed(TaskAt[a][1])
        /\ (\E x \in Thread : pushing[x] = a)' <=> (\E x \in Thread : pushing[x] = a)
    BY <1>1 DEF IsPushed
  <2>4. CASE t = TaskAt[a][n]
    <3>1. Holds(th, a)'
      BY <1>1, <1>2, <2>1, <2>4 DEF Holds, FirstStage
    <3> QED
      BY <1>3, <2>3, <2>4, <3>1 DEF Outstanding
  <2>5. CASE t # TaskAt[a][n]
    <3>1. ~Holds(th, a)' /\ (Executed(TaskAt[a][n])' <=> Executed(TaskAt[a][n]))
      BY <1>1, <2>1, <2>5 DEF Holds
    <3> QED
      BY <2>2, <2>3, <3>1 DEF Outstanding
  <2> QED
    BY <2>4, <2>5
<1>5. PushesOne'
  BY <1>0, <1>1 DEF PushesOne, StillToPush, IsPushed
<1> QED
  BY <1>0, <1>4, <1>5, CountKept

(* The sentry is through with the queues: the action is counted out once.  *)
LEMMA CountOutStep ==
  ASSUME DrainInv, NEW th \in Thread, CountOut(th)
  PROVE  PushesOne' /\ CountsOutstanding'
<1>0. /\ ChainInv /\ RInv /\ IInv /\ PushesOne /\ CountsOutstanding /\ stage \in [Thread -> Stage]
      /\ pushing \in [Thread -> Action \cup {None}] /\ None \notin Action
  BY ChainAssumption DEF DrainInv, ChainInv, RInv, ChainTypeOK
<1>1. PICK c \in Action : running[th] = TaskAt[c][n]
  BY <1>0 DEF CountOut, InBody, ChainInv, StageOK
<1>2. /\ UNCHANGED <<running, pushed, executed, pushing>>
      /\ outstandingTasks' = outstandingTasks - 1
      /\ stage[th] = "resume" /\ stage'[th] = "over"
      /\ \A x \in Thread \ {th} : stage'[x] = stage[x]
  BY <1>0 DEF CountOut, InBody, GoTo, vars
<1>3. /\ TaskAt[c][n] \in Task /\ TaskAt[c][n] # None
      /\ \A a \in Action : TaskAt[a][n] = TaskAt[c][n] => a = c
  BY Levels, LambdaIs, ChainAssumption
<1>4. \A x \in Thread \ {th} : running[x] # TaskAt[c][n]
  BY <1>0, <1>1, <1>3, RunningIsActive
<1>5. Executed(TaskAt[c][n])
  BY <1>0, <1>1, <1>3, RunningWasPushed
<1>6. IsPushed(TaskAt[c][1])
  BY <1>0, <1>5, NotInFirst
<1>7. \A a \in Action : /\ IsPushed(TaskAt[a][1])' <=> IsPushed(TaskAt[a][1])
                        /\ Executed(TaskAt[a][n])' <=> Executed(TaskAt[a][n])
  BY <1>2 DEF IsPushed, Executed
<1>8. \A a \in Action \ {c} : Outstanding(a)' <=> Outstanding(a)
  <2>1. \A a \in Action \ {c}, x \in Thread : Holds(x, a)' <=> Holds(x, a)
    BY <1>1, <1>2, <1>3 DEF Holds
  <2> QED
    BY <1>2, <1>7, <2>1 DEF Outstanding
<1>9. Outstanding(c)
  BY <1>1, <1>2, <1>6 DEF Outstanding, Holds
<1>10. ~Outstanding(c)'
  <2>1. \A x \in Thread : ~Holds(x, c)'
    BY <1>2, <1>4 DEF Holds
  <2>2. ASSUME NEW x \in Thread, pushing[x] = c
        PROVE  FALSE
    <3>1. StillToPush(x) /\ c # None
      BY <1>0 DEF PushesOne
    <3> QED
      BY <1>6, <2>2, <3>1 DEF StillToPush
  <2> QED
    BY <1>2, <1>5, <1>7, <2>1, <2>2 DEF Outstanding
<1>11. PushesOne'
  BY <1>0, <1>2 DEF PushesOne, StillToPush, IsPushed
<1> QED
  BY <1>0, <1>2, <1>8, <1>9, <1>10, <1>11, CountChanges

(* Every step of the chain keeps count of the actions. *)
LEMMA CountsStep ==
  ASSUME DrainInv, ChainNext
  PROVE  PushesOne' /\ CountsOutstanding'
<1> PICK th \in Thread : \/ \E a \in Action : CountIn(th, a)
                         \/ \E t \in Direct : PushDirect(th, t)
                         \/ StartBody(th) \/ GoOn(th) \/ Return(th)
  BY DEF ChainNext
<1>0. /\ ChainInv /\ RInv /\ IInv /\ TypeOK /\ stage \in [Thread -> Stage]
      /\ running \in [Thread -> Task \cup {None}]
  BY DEF DrainInv, ChainInv, RInv, IInv, TypeOK, ChainTypeOK
<1>1. ASSUME NEW s \in Stage, GoTo(th, s), running' = running,
             stage[th] \in {"action", "resume"} <=> s \in {"action", "resume"}
      PROVE  \A a \in Action, x \in Thread : Holds(x, a)' <=> Holds(x, a)
  BY <1>0, <1>1 DEF GoTo, Holds
<1>2. CASE \E a \in Action : CountIn(th, a)
  BY <1>2, CountInStep
<1>3. ASSUME NEW t \in Direct, PushDirect(th, t)
      PROVE  PushesOne' /\ CountsOutstanding'
  <2>1. t \in Task /\ Push(th, t) /\ UNCHANGED chainVars
    BY <1>3 DEF PushDirect, Direct
  <2>2. \A a \in Action : t # TaskAt[a][1]
    BY Levels, LambdaIs
  <2>3. \A a \in Action, x \in Thread : Holds(x, a)' <=> Holds(x, a)
    BY <1>0, <2>1, PushHistory DEF chainVars, Holds
  <2> QED
    BY <2>1, <2>2, <2>3, OtherPushStep DEF chainVars
<1>4. CASE PushFirst(th)
  BY <1>4, PushFirstStep
<1>5. ASSUME NEW t \in Task, Begins(th, t), BeginBody(th)
      PROVE  PushesOne' /\ CountsOutstanding'
  <2>1. running'[th] = t
    BY <1>0, <1>5, BeginHistory
  <2> QED
    BY <1>5, <2>1, BeginCounts DEF BeginBody
<1>6. CASE StartBody(th)
  <2>1. PICK t \in spawned : /\ pc[th] = "out" /\ spawned' = spawned \ {t}
                             /\ Execute(th, t)
                             /\ UNCHANGED <<members, queue, caller, found, pushed>>
    BY <1>6 DEF StartBody, Start
  <2>2. t \in Task /\ Begins(th, t)
    BY <1>0, <2>1 DEF Begins, TypeOK
  <2> QED
    BY <1>5, <1>6, <2>2 DEF StartBody
<1>7. CASE NextBody(th)
  <2>1. found[th] \in Task
    BY <1>0, <1>7 DEF NextBody, RunNext, IInv, StackOK, Consistent, Client, TypeOK
  <2>2. Begins(th, found[th])
    BY <1>7 DEF NextBody, Begins
  <2> QED
    BY <1>5, <1>7, <2>1, <2>2 DEF NextBody
<1>8. CASE PassPush(th)
  <2>1. PICK a \in Action, i \in 1..(n - 1) : running[th] = TaskAt[a][i]
    BY <1>0, <1>8 DEF PassPush, InBody, ChainInv, StageOK
  <2>2. ActionOf(running[th]) = a /\ LevelOf(running[th]) = i
    BY <2>1, Levels, LambdaIs
  <2> DEFINE t == TaskAt[a][i + 1]
  <2>3. Push(th, t) /\ GoTo(th, "over") /\ stage[th] = "pass"
    BY <1>8, <2>2 DEF PassPush, InBody
  <2>4. t \in Task /\ \A b \in Action : t # TaskAt[b][1]
    <3>1. i + 1 \in Level /\ 1 \in Level /\ i + 1 # 1
      BY Levels
    <3> QED
      BY <3>1, LambdaIs
  <2> HIDE DEF t
  <2>5. \A b \in Action, x \in Thread : Holds(x, b)' <=> Holds(x, b)
    <3>1. "over" \in Stage /\ running' = running
      BY <1>0, <2>3, <2>4, PushHistory DEF Stage
    <3> QED
      BY <1>1, <2>3, <3>1
  <2> QED
    BY <1>8, <2>3, <2>4, <2>5, OtherPushStep DEF PassPush
<1>9. CASE PassPause(th) \/ EndAction(th)
  <2>1. PICK s \in Stage : /\ GoTo(th, s)
                           /\ stage[th] \in {"action", "resume"} <=> s \in {"action", "resume"}
    BY <1>9 DEF PassPause, EndAction, InBody, Stage
  <2>2. UNCHANGED <<pushed, executed, running, pushing, outstandingTasks>>
    BY <1>9 DEF PassPause, EndAction, Pause, vars, stack, history
  <2> QED
    BY <1>1, <2>1, <2>2, SameHistoryStep
<1>10. CASE ResumeQueue(th) \/ QueueStep(th)
  <2>1. UNCHANGED <<pushed, executed, running, pushing, stage, outstandingTasks>>
    BY <1>10 DEF ResumeQueue, Resume, QueueStep, Pick, CheckPause, Acquire, Choose, Pop, Unchoose,
       Release, Spawn, history, chainVars
  <2> QED
    BY <2>1, SameHistoryStep DEF Holds
<1>11. CASE CountOut(th)
  BY <1>11, CountOutStep
<1>12. CASE EndBody(th)
  <2>1. UNCHANGED <<pushed, executed, pushing, outstandingTasks>>
    BY <1>12 DEF EndBody, FinishTask, history
  <2>2. /\ \A x \in Thread \ {th} : running'[x] = running[x] /\ stage'[x] = stage[x]
        /\ stage[th] \in {"over", "direct"} /\ stage'[th] = "none"
    BY <1>0, <1>12 DEF EndBody, FinishTask, GoTo
  <2>3. ASSUME NEW a \in Action, NEW x \in Thread
        PROVE  Holds(x, a)' <=> Holds(x, a)
    BY <2>2 DEF Holds
  <2> QED
    BY <2>1, <2>3, SameHistoryStep
<1> QED
  BY <1>2, <1>3, <1>4, <1>6, <1>7, <1>8, <1>9, <1>10, <1>11, <1>12 DEF GoOn, Return

(* The invariant of the chain and its counter holds initially. *)
LEMMA InitDrainInv ==
  ChainInit => DrainInv
<1> SUFFICES ASSUME ChainInit
             PROVE  DrainInv
  OBVIOUS
<1>1. ChainInv
  BY InitChainInv
<1>2. /\ \A q \in Queue : pushed[q] = <<>> /\ executed[q] = <<>> /\ pauseCount[q] = 0
      /\ \A th \in Thread : pushing[th] = None
      /\ outstandingTasks = 0 /\ None \notin Action
  BY ChainAssumption DEF ChainInit, Init
<1>3. \A t \in Task : ~IsPushed(t) /\ ~Executed(t)
  BY <1>2, ConstantsAssumption DEF IsPushed, Executed
<1>4. PushesOne /\ OthersOpen
  BY <1>2 DEF PushesOne, StillToPush, OthersOpen
<1>5. GoesDown
  BY <1>3, Levels, LambdaIs DEF GoesDown
<1>6. CountsOutstanding
  <2>1. \A a \in Action : ~Outstanding(a)
    BY <1>2, <1>3, Levels, LambdaIs DEF Outstanding
  <2>2. {a \in Action : Outstanding(a)} = {}
    BY <2>1
  <2> QED
    BY <1>2, <2>2, FS_EmptySet DEF CountsOutstanding
<1> QED
  BY <1>1, <1>4, <1>5, <1>6 DEF DrainInv

(* Every step keeps it. *)
LEMMA NextDrainInv ==
  DrainInv /\ [ChainNext]_allVars => DrainInv'
<1> SUFFICES ASSUME DrainInv, [ChainNext]_allVars
             PROVE  DrainInv'
  OBVIOUS
<1>1. ChainInv'
  BY NextChainInv DEF DrainInv
<1>2. CASE ChainNext
  <2>1. PICK th \in Thread : ChainStep(th)
    BY <1>2, ChainStepKinds DEF DrainInv
  <2>2. GoesDown' /\ OthersOpen'
    BY <2>1, DownStep, OthersOpenStep DEF DrainInv
  <2> QED
    BY <1>1, <1>2, <2>2, CountsStep DEF DrainInv
<1>3. CASE UNCHANGED allVars
  <2>1. UNCHANGED <<pushed, executed, running, pauseCount, pushing, stage, outstandingTasks>>
    BY <1>3 DEF allVars, vars, chainVars
  <2>2. PushesOne' /\ CountsOutstanding'
    BY <2>1, SameHistoryStep DEF Holds
  <2>3. GoesDown' /\ OthersOpen'
    BY <2>1, DownKept DEF DrainInv, OthersOpen, IsPushed, InPassDown
  <2> QED
    BY <1>1, <2>2, <2>3 DEF DrainInv
<1> QED
  BY <1>2, <1>3

(* At rest nothing runs in any queue, or is on its way to it. *)
LEMMA RestIsIdle ==
  ASSUME IInv, AtRest
  PROVE  (\A th \in Thread : running[th] = None) /\ \A q \in Queue : Idle(q)
<1>1. ASSUME NEW th \in Thread
      PROVE  running[th] = None /\ queue[th] = None /\ found[th] = None
  BY DEF AtRest, IInv, StackOK, Consistent, Client
<1> SUFFICES ASSUME NEW q \in Queue
             PROVE  Idle(q)
  BY <1>1
<1>2. q # None
  BY ConstantsAssumption
<1>3. ASSUME NEW th \in Thread
      PROVE  queue[th] # q /\ ~PickOwner(th, q) /\ ~RunOwner(th, q)
  BY <1>1, <1>2 DEF PickOwner, RunOwner
<1>4. \A t \in Task : ~SpawnOwner(t, q)
  BY DEF AtRest, SpawnOwner
<1>5. Owners(q) = {}
  BY <1>3, <1>4 DEF Owners
<1> QED
  BY <1>3, <1>5 DEF Idle

(* Of the actions that are not through, look at one that came farthest.    *)
(* No other is ahead of it, so that its queue is not paused and has begun  *)
(* its lambda: it went on, or was in the last queue and is through.        *)
LEMMA NoneIsLeft ==
  ASSUME DrainInv, AtRest, NEW a \in Action, NEW i \in Level, IsPushed(TaskAt[a][i])
  PROVE  Executed(TaskAt[a][n])
<1> DEFINE Left == {j \in Level : \E b \in Action :
                                    IsPushed(TaskAt[b][j]) /\ ~Executed(TaskAt[b][n])}
<1>0. RInv /\ IInv /\ ChainInv
  BY DEF DrainInv, ChainInv, RInv
<1>1. (\A th \in Thread : running[th] = None) /\ \A q \in Queue : Idle(q)
  BY <1>0, RestIsIdle
<1>2. ASSUME NEW j \in Left, \A k \in Left : k <= j
      PROVE  FALSE
  <2>1. PICK b \in Action : IsPushed(TaskAt[b][j]) /\ ~Executed(TaskAt[b][n])
    OBVIOUS
  <2>2. j \in Level /\ m_queues[j] \in Queue /\ Idle(m_queues[j])
    BY <1>1, Levels
  <2>3. /\ TaskAt[b][j] \in Task /\ QueueOf[TaskAt[b][j]] = m_queues[j]
        /\ \A c \in Action, k \in Level : TaskAt[c][k] \in Task /\ TaskAt[c][k] # None
    BY <2>2, LambdaIs
  <2>4. CASE j = n
    <3>1. \A k \in 1..(n - 1) : m_queues[k] # m_queues[j]
      BY <2>4, Levels, ChainAssumption
    <3>2. pauseCount[m_queues[j]] = 0
      BY <2>2, <3>1 DEF DrainInv, OthersOpen
    <3>3. Finished(TaskAt[b][j])
      BY <1>0, <2>1, <2>2, <2>3, <3>2, OpenIdleIsDone
    <3> QED
      BY <2>1, <2>4, <3>3 DEF Finished
  <2>5. CASE j # n
    <3>1. /\ j \in 1..(n - 1) /\ j + 1 \in Level /\ ~(j + 1 <= j)
      BY <2>2, <2>5, Levels DEF Level
    <3>2. \A c \in Action : IsPushed(TaskAt[c][j + 1]) => Executed(TaskAt[c][n])
      BY <1>2, <3>1
    <3>3. ASSUME NEW c \in Action, Passed(c, j)
          PROVE  Resumed(c, j)
      <4>1. Executed(TaskAt[c][n])
        BY <1>1, <2>2, <2>3, <3>2, <3>3 DEF Passed
      <4> QED
        BY <1>1, <2>3, <4>1, Levels DEF Resumed
    <3>4. Behind(j) = {}
      BY <3>3 DEF Behind
    <3>5. pauseCount[m_queues[j]] = 0
      BY <1>0, <3>1, <3>4, FS_EmptySet DEF ChainInv, PausedByWhatPassed
    <3>6. Executed(TaskAt[b][j])
      BY <1>0, <2>1, <2>2, <2>3, <3>5, OpenIdleIsDone DEF Finished
    <3>7. TaskAt[b][j] # None
      BY <2>2, <2>3
    <3>8. ASSUME NEW th \in Thread, InPassDown(th, b, j)
          PROVE  FALSE
      <4>1. running[th] = None
        BY <1>1
      <4> QED
        BY <3>7, <3>8, <4>1 DEF InPassDown
    <3>9. IsPushed(TaskAt[b][j + 1])
      BY <3>1, <3>6, <3>8 DEF DrainInv, GoesDown
    <3> QED
      BY <2>1, <3>2, <3>9
  <2> QED
    BY <2>4, <2>5
<1>3. Left = {}
  <2> SUFFICES ASSUME Left # {}
               PROVE  FALSE
    OBVIOUS
  <2>1. Left \subseteq Level
    OBVIOUS
  <2> HIDE DEF Left
  <2>2. PICK j \in Left : \A k \in Left : k <= j
    BY <2>1, LastLevel
  <2> QED
    BY <1>2, <2>2
<1> QED
  BY <1>3

(* So nothing is behind, all queues are open, and all they had is done.    *)
LEMMA RestMeansDone ==
  DrainInv => RestsWhenDone
<1> SUFFICES ASSUME DrainInv, AtRest
             PROVE  /\ outstandingTasks = 0
                    /\ \A q \in Queue : pauseCount[q] = 0
                    /\ \A t \in Task : IsPushed(t) => Finished(t)
                    /\ \A a \in Action : IsPushed(TaskAt[a][1]) => Finished(TaskAt[a][n])
  BY DEF RestsWhenDone
<1>0. RInv /\ IInv /\ ChainInv
  BY DEF DrainInv, ChainInv, RInv
<1>1. (\A th \in Thread : running[th] = None) /\ \A q \in Queue : Idle(q)
  BY <1>0, RestIsIdle
<1>2. \A a \in Action, i \in Level : TaskAt[a][i] \in Task /\ TaskAt[a][i] # None
  BY LambdaIs
<1>3. ASSUME NEW i \in 1..(n - 1)
      PROVE  pauseCount[m_queues[i]] = 0
  <2>1. i \in Level /\ i + 1 \in Level /\ n \in Level
    BY Levels
  <2>2. ASSUME NEW c \in Action, Passed(c, i)
        PROVE  Resumed(c, i)
    <3>1. IsPushed(TaskAt[c][i + 1])
      BY <1>1, <1>2, <2>1, <2>2 DEF Passed
    <3>2. Executed(TaskAt[c][n])
      BY <2>1, <3>1, NoneIsLeft
    <3> QED
      BY <1>1, <1>2, <2>1, <3>2 DEF Resumed
  <2>3. Behind(i) = {}
    BY <2>2 DEF Behind
  <2> QED
    BY <1>0, <2>3, FS_EmptySet DEF ChainInv, PausedByWhatPassed
<1>4. \A q \in Queue : pauseCount[q] = 0
  BY <1>3 DEF DrainInv, OthersOpen
<1>5. \A t \in Task : IsPushed(t) => Finished(t)
  BY <1>0, <1>1, <1>4, OpenIdleIsDone, ConstantsAssumption
<1>6. \A a \in Action : IsPushed(TaskAt[a][1]) => Finished(TaskAt[a][n])
  BY <1>1, <1>2, NoneIsLeft, Levels DEF Finished
<1>7. outstandingTasks = 0
  <2>1. ASSUME NEW a \in Action, Outstanding(a)
        PROVE  FALSE
    <3>1. IsPushed(TaskAt[a][1]) /\ \A th \in Thread : ~Holds(th, a)
      BY <1>1, <1>2, <2>1, ChainAssumption, Levels DEF Outstanding, AtRest, Holds
    <3>2. ~Executed(TaskAt[a][n])
      BY <1>1, <2>1, <3>1, ChainAssumption DEF Outstanding, AtRest
    <3> QED
      BY <1>6, <3>1, <3>2 DEF Finished
  <2>2. {a \in Action : Outstanding(a)} = {}
    BY <2>1
  <2> QED
    BY <2>2, FS_EmptySet DEF DrainInv, CountsOutstanding
<1> QED
  BY <1>4, <1>5, <1>6, <1>7

(* outstandingTasks() tells how many actions were pushed and have not yet  *)
(* run and resumed the queues behind them, at every moment.                *)
THEOREM CountIsRight ==
  ChainSpec => []CountsOutstanding
<1>1. DrainInv => CountsOutstanding
  BY DEF DrainInv
<1> QED
  BY <1>1, InitDrainInv, NextDrainInv, PTL DEF ChainSpec

(* The chain never blocks itself: when all threads have left the queues    *)
(* everything that was pushed is done, no queue is left paused and none is *)
(* outstanding, whatever order the actions and other clients came in.      *)
THEOREM ChainLeavesNothing ==
  ChainSpec => []RestsWhenDone
BY RestMeansDone, InitDrainInv, NextDrainInv, PTL DEF ChainSpec
=============================================================================
