------------------------- MODULE LimitedTaskQueueProofs -------------------------
(***************************************************************************)
(* Proofs about LimitedTaskQueue, for any number of threads, actions and   *)
(* queues and any bound on the copies of a Resumer.  All steps are steps   *)
(* of the queues, so that what SerialTaskQueueProofs shows of those holds. *)
(***************************************************************************)
EXTENDS LimitedTaskQueue, SerialTaskQueueProofs, FiniteSetTheorems

Stage == {"none", "test", "pause", "action", "over"}

LimitedTypeOK ==
  /\ set_to_run \in [Action -> BOOLEAN]
  /\ pushing \in [Thread -> Action \cup {None}]
  /\ stage \in [Thread -> Stage]
  /\ resumers \in [Action -> 0..MaxResumers]
  /\ m_queue \in [Action -> Queue \cup {None}]
  /\ begun \in [Action -> Nat]

(* Whoever sets the flag begins the action. *)
BegunWithFlag == \A a \in Action : begun[a] = IF set_to_run[a] THEN 1 ELSE 0

PausesFor(th, a) ==
  stage[th] = "pause" /\ running[th] # None /\ ActionOf(running[th]) = a

(* A lambda that is about to pause its queue is the one that set the flag, *)
(* and there is no Resumer of its action yet.                              *)
FirstResumer ==
  /\ \A th \in Thread : stage[th] = "pause" => running[th] # None
  /\ \A th \in Thread, a \in Action : PausesFor(th, a) => set_to_run[a] /\ resumers[a] = 0
  /\ \A x, y \in Thread, a \in Action : PausesFor(x, a) /\ PausesFor(y, a) => x = y
  /\ \A a \in Action : ~set_to_run[a] => resumers[a] = 0
  /\ \A a \in Action : resumers[a] > 0 => m_queue[a] \in Queue

LimitedInv ==
  /\ IInv
  /\ LimitedTypeOK
  /\ BegunWithFlag
  /\ FirstResumer
  /\ PausedByResumers

----------------------------------------------------------------------------
(* A lambda knows its action and its queue.                                *)
LEMMA ActionOfTask ==
  ASSUME NEW t \in Task
  PROVE  ActionOf(t) \in Action /\ QueueOf[t] \in Queue
<1>1. PICK a \in Action, i \in Position : LambdaOf[a][i] = t
  BY LimitedAssumption
<1>2. QueueOf[t] \in Queue
  BY ConstantsAssumption
<1> QED
  BY <1>1, <1>2 DEF ActionOf

(* The lambda in whose body a thread is. *)
LEMMA BodyRuns ==
  ASSUME IInv, NEW th \in Thread, pc[th] = "body"
  PROVE  running[th] \in Task
<1>1. running[th] # None
  BY DEF IInv, StackOK, Consistent
<1> QED
  BY <1>1 DEF IInv, TypeOK

(* Every step is one of a queue, or leaves the queues alone.               *)
LEMMA LimitedStepsAreNext ==
  ASSUME LimitedInv, [LimitedNext]_allVars
  PROVE  [Next]_vars
<1> USE DEF Next, ClientCall
<1>1. ASSUME NEW th \in Thread, NEW a, NEW i \in Position, a \in Action, PushInto(th, a, i)
      PROVE  Next
  BY <1>1, LimitedAssumption DEF PushInto
<1>2. ASSUME NEW th \in Thread, NEW a \in Action, CopyResumer(th, a) \/ DropResumer(th, a)
      PROVE  Next
  <2>1. resumers[a] \in Nat /\ resumers[a] > 0
    BY <1>2, LimitedAssumption DEF CopyResumer, DropResumer, LimitedInv, LimitedTypeOK
  <2>2. m_queue[a] \in Queue
    BY <2>1 DEF LimitedInv, FirstResumer
  <2> QED
    BY <1>2, <2>2 DEF CopyResumer, DropResumer
<1>3. ASSUME NEW th \in Thread, PauseForAction(th)
      PROVE  Next
  <2>1. QueueOf[running[th]] \in Queue
    BY <1>3, BodyRuns, ActionOfTask DEF PauseForAction, InBody, LimitedInv
  <2> QED
    BY <1>3, <2>1 DEF PauseForAction
<1>4. ASSUME NEW th \in Thread, GoOn(th)
      PROVE  [Next]_vars
  <2>1. CASE PushOn(th)
    <3>1. pushing[th] \in Action \cup {None}
      BY DEF LimitedInv, LimitedTypeOK
    <3> QED
      BY <1>1, <2>1, <3>1 DEF PushOn
  <2>2. CASE TestAndSet(th)
    BY <2>2 DEF TestAndSet
  <2>3. CASE QueueStep(th) \/ NextBody(th)
    BY <2>3 DEF QueueStep, NextBody, Internal
  <2> QED
    BY <1>3, <1>4, <2>1, <2>2, <2>3 DEF GoOn
<1>5. ASSUME NEW th \in Thread, NEW a \in Action, BeginPush(th, a)
      PROVE  Next
  <2>1. PICK i \in Position : i = 1 /\ PushInto(th, a, i)
    BY <1>5 DEF BeginPush, PushInto, ToPush
  <2> QED
    BY <1>1, <2>1
<1>6. ASSUME NEW th \in Thread, StartBody(th) \/ EndBody(th)
      PROVE  Next
  BY <1>6 DEF StartBody, EndBody
<1>7. ASSUME UNCHANGED allVars
      PROVE  UNCHANGED vars
  BY <1>7 DEF allVars
<1> QED
  BY <1>2, <1>4, <1>5, <1>6, <1>7 DEF LimitedNext

----------------------------------------------------------------------------
(* Types, the flag and the first Resumer                                   *)

(* The variables of the limited queue keep their types. *)
LEMMA LimitedTypeStep ==
  ASSUME LimitedInv, [LimitedNext]_allVars
  PROVE  LimitedTypeOK'
<1> USE LimitedAssumption DEF LimitedInv, LimitedTypeOK, Stage, GoTo
<1>1. ASSUME NEW th \in Thread, NEW a, NEW i \in Position, a \in Action, PushInto(th, a, i)
      PROVE  LimitedTypeOK'
  BY <1>1 DEF PushInto
<1>2. ASSUME NEW th \in Thread, NEW a \in Action, CopyResumer(th, a)
      PROVE  LimitedTypeOK'
  <2>1. resumers' \in [Action -> 0..MaxResumers]
    BY <1>2 DEF CopyResumer
  <2> QED
    BY <1>2, <2>1 DEF CopyResumer
<1>3. ASSUME NEW th \in Thread, NEW a \in Action, DropResumer(th, a)
      PROVE  LimitedTypeOK'
  <2>1. resumers' \in [Action -> 0..MaxResumers]
    BY <1>3 DEF DropResumer
  <2> QED
    BY <1>3, <2>1 DEF DropResumer
<1>4. ASSUME NEW th \in Thread, TestAndSet(th)
      PROVE  LimitedTypeOK'
  <2> DEFINE a == ActionOf(running[th])
  <2>1. a \in Action
    BY <1>4, BodyRuns, ActionOfTask DEF TestAndSet, InBody
  <2> HIDE DEF a
  <2>2. begun' \in [Action -> Nat]
    BY ONLY LimitedTypeOK, TestAndSet(th), <2>1 DEF TestAndSet, Begin, LimitedTypeOK, a
  <2>3. stage' \in [Thread -> Stage]
    BY ONLY LimitedTypeOK, TestAndSet(th), <2>1
       DEF TestAndSet, Begin, LimitedTypeOK, GoTo, Stage, a
  <2> QED
    BY <1>4, <2>1, <2>2, <2>3 DEF TestAndSet, a
<1>5. ASSUME NEW th \in Thread, PauseForAction(th)
      PROVE  LimitedTypeOK'
  <2>1. QueueOf[running[th]] \in Queue
    BY <1>5, BodyRuns, ActionOfTask DEF PauseForAction, InBody
  <2>2. 1 \in 0..MaxResumers
    BY LimitedAssumption
  <2> DEFINE a == ActionOf(running[th])
  <2>3. resumers' \in [Action -> 0..MaxResumers]
    <3>1. resumers' = [resumers EXCEPT ![a] = 1]
      BY <1>5 DEF PauseForAction
    <3> HIDE DEF a
    <3> QED
      BY ONLY LimitedTypeOK, <2>2, <3>1 DEF LimitedTypeOK
  <2>4. m_queue' \in [Action -> Queue \cup {None}]
    BY ONLY LimitedTypeOK, PauseForAction(th), <2>1 DEF PauseForAction, LimitedTypeOK
  <2> QED
    BY <1>5, <2>3, <2>4 DEF PauseForAction
<1>6. ASSUME NEW th \in Thread, StartBody(th) \/ NextBody(th) \/ EndBody(th)
      PROVE  LimitedTypeOK'
  <2>1. /\ UNCHANGED <<set_to_run, pushing, resumers, m_queue, begun>>
        /\ stage' = [stage EXCEPT ![th] = "test"] \/ stage' = [stage EXCEPT ![th] = "none"]
    BY ONLY <1>6 DEF StartBody, NextBody, EndBody, BeginBody, GoTo
  <2> QED
    BY ONLY LimitedTypeOK, <2>1 DEF LimitedTypeOK, Stage
<1>7. ASSUME UNCHANGED limitedVars
      PROVE  LimitedTypeOK'
  BY <1>7 DEF limitedVars
<1>8. ASSUME NEW th \in Thread, PushOn(th) \/ \E a \in Action : BeginPush(th, a)
      PROVE  LimitedTypeOK'
  <2>1. CASE PushOn(th)
    BY <1>1, <2>1 DEF PushOn
  <2>2. CASE \E a \in Action : BeginPush(th, a)
    BY ONLY <1>1, <2>2 DEF BeginPush, PushInto, ToPush
  <2> QED
    BY <1>8, <2>1, <2>2
<1> QED
  BY <1>2, <1>3, <1>4, <1>5, <1>6, <1>7, <1>8 DEF LimitedNext, GoOn, QueueStep, allVars

(* Only the lambda that finds the flag clear begins the action, and it     *)
(* sets the flag.                                                          *)
LEMMA BegunStep ==
  ASSUME LimitedInv, [LimitedNext]_allVars
  PROVE  BegunWithFlag'
<1> USE DEF LimitedInv, LimitedTypeOK, BegunWithFlag
<1>1. ASSUME NEW th \in Thread, TestAndSet(th)
      PROVE  BegunWithFlag'
  BY <1>1 DEF TestAndSet, Begin
<1>2. ASSUME UNCHANGED <<set_to_run, begun>>
      PROVE  BegunWithFlag'
  BY <1>2
<1> QED
  BY <1>1, <1>2
     DEF LimitedNext, GoOn, BeginPush, PushOn, PushInto, PauseForAction, QueueStep,
         NextBody, StartBody, BeginBody, EndBody, CopyResumer, DropResumer, allVars, limitedVars

(* Steps that leave the Resumers, the flags and the lambdas' stages alone. *)
Quiet == UNCHANGED <<stage, running, set_to_run, resumers, m_queue, pauseCount>>

(* A thread enters or leaves the body of a lambda. *)
Turn(th) ==
  /\ UNCHANGED <<set_to_run, resumers, m_queue, pauseCount>>
  /\ stage'[th] \notin {"pause", "action"}
  /\ \A x \in Thread : x # th => stage'[x] = stage[x] /\ running'[x] = running[x]

(* What each kind of step does to the variables of FirstResumer. *)
LEMMA LimitedStepKinds ==
  ASSUME LimitedInv, [LimitedNext]_allVars
  PROVE  \/ Quiet
         \/ \E th \in Thread : \/ Turn(th) \/ TestAndSet(th) \/ PauseForAction(th)
                               \/ \E a \in Action : CopyResumer(th, a) \/ DropResumer(th, a)
<1> USE DEF members, stack, history
<1>1. ASSUME NEW th \in Thread, NEW a, NEW i, PushInto(th, a, i)
      PROVE  Quiet
  BY <1>1 DEF PushInto, Push, Quiet
<1>2. ASSUME NEW th \in Thread, QueueStep(th)
      PROVE  Quiet
  <2>1. ASSUME Pick(th)
        PROVE  UNCHANGED <<running, pauseCount>>
    BY <2>1 DEF Pick, CheckPause, Acquire, Choose, Pop, Unchoose, Release
  <2>2. ASSUME Spawn(th)
        PROVE  UNCHANGED <<running, pauseCount>>
    BY <2>2 DEF Spawn
  <2> QED
    BY <1>2, <2>1, <2>2 DEF QueueStep, Quiet, limitedVars
<1>3. ASSUME NEW th \in Thread, StartBody(th) \/ NextBody(th) \/ EndBody(th)
      PROVE  Turn(th)
  <2>1. /\ UNCHANGED <<set_to_run, resumers, m_queue>>
        /\ stage' = [stage EXCEPT ![th] = "test"] \/ stage' = [stage EXCEPT ![th] = "none"]
    BY <1>3 DEF StartBody, NextBody, EndBody, BeginBody, GoTo
  <2>2. /\ UNCHANGED pauseCount
        /\ \/ \E t \in Task : running' = [running EXCEPT ![th] = t]
           \/ running' = [running EXCEPT ![th] = None]
           \/ running' = [running EXCEPT ![th] = found[th]]
    BY <1>3 DEF StartBody, NextBody, EndBody, Start, RunNext, FinishTask, Execute,
                LimitedInv, IInv, TypeOK
  <2>3. stage \in [Thread -> Stage] /\ running \in [Thread -> Task \cup {None}]
    BY DEF LimitedInv, LimitedTypeOK, IInv, TypeOK
  <2> QED
    BY <2>1, <2>2, <2>3 DEF Turn
<1>4. ASSUME UNCHANGED allVars
      PROVE  Quiet
  BY <1>4 DEF allVars, vars, limitedVars, Quiet
<1> QED
  BY <1>1, <1>2, <1>3, <1>4 DEF LimitedNext, GoOn, BeginPush, PushOn

(* At most one lambda of an action pauses its queue, before there is any   *)
(* Resumer.                                                                *)
LEMMA FirstResumerStep ==
  ASSUME LimitedInv, [LimitedNext]_allVars
  PROVE  FirstResumer'
<1> USE DEF FirstResumer, PausesFor
<1>0. /\ FirstResumer /\ LimitedTypeOK /\ IInv /\ running \in [Thread -> Task \cup {None}]
      /\ MaxResumers \in Nat \ {0}
  BY LimitedAssumption DEF LimitedInv, IInv, TypeOK
<1>1. CASE Quiet
  BY ONLY <1>0, <1>1 DEF Quiet
<1>2. ASSUME NEW th \in Thread, Turn(th)
      PROVE  FirstResumer'
  BY ONLY <1>0, <1>2 DEF Turn
<1>3. ASSUME NEW th \in Thread, TestAndSet(th)
      PROVE  FirstResumer'
  <2> DEFINE a == ActionOf(running[th])
  <2>1. a \in Action /\ running[th] # None
    BY <1>3, <1>0, BodyRuns, ActionOfTask, ConstantsAssumption DEF TestAndSet, InBody
  <2>2. /\ UNCHANGED <<running, resumers, m_queue>>
        /\ set_to_run' = [set_to_run EXCEPT ![a] = TRUE]
        /\ \/ ~set_to_run[a] /\ \E s \in {"pause", "action"} : stage' = [stage EXCEPT ![th] = s]
           \/ stage' = [stage EXCEPT ![th] = "over"]
    BY <1>3 DEF TestAndSet, Begin, GoTo, vars
  <2>3. stage[th] = "test"
    BY <1>3 DEF TestAndSet, InBody
  <2>4. /\ set_to_run'[a] /\ \A b \in Action : b # a => set_to_run'[b] = set_to_run[b]
        /\ \A x \in Thread : x # th => stage'[x] = stage[x]
        /\ stage'[th] = "pause" => ~set_to_run[a]
    BY <1>0, <2>1, <2>2 DEF LimitedTypeOK
  <2>5. ASSUME NEW x \in Thread, NEW b \in Action, PausesFor(x, b)'
        PROVE  \/ x = th /\ b = a /\ ~set_to_run[a]
               \/ x # th /\ PausesFor(x, b)
    BY <2>2, <2>4, <2>5
  <2> HIDE DEF a
  <2> QED
    BY ONLY <1>0, <2>1, <2>2, <2>4, <2>5
<1>4. ASSUME NEW th \in Thread, PauseForAction(th)
      PROVE  FirstResumer'
  <2> DEFINE a == ActionOf(running[th])
             p == QueueOf[running[th]]
  <2>1. a \in Action /\ p \in Queue /\ running[th] # None
    BY <1>4, <1>0, BodyRuns, ActionOfTask, ConstantsAssumption DEF PauseForAction, InBody
  <2>2. /\ UNCHANGED <<running, set_to_run>>
        /\ resumers' = [resumers EXCEPT ![a] = 1]
        /\ m_queue' = [m_queue EXCEPT ![a] = p]
        /\ stage' = [stage EXCEPT ![th] = "action"]
        /\ PausesFor(th, a)
    BY <1>4, <2>1 DEF PauseForAction, GoTo, InBody, Pause, stack
  <2> HIDE DEF a, p
  <2> QED
    BY ONLY <1>0, <2>1, <2>2 DEF LimitedTypeOK
<1>5. ASSUME NEW th \in Thread, NEW a \in Action, CopyResumer(th, a) \/ DropResumer(th, a)
      PROVE  FirstResumer'
  <2>1. /\ UNCHANGED <<running, set_to_run, stage, m_queue>>
        /\ resumers[a] > 0
        /\ \E n \in Nat : resumers' = [resumers EXCEPT ![a] = n]
    <3>1. resumers[a] \in Nat
      BY <1>0 DEF LimitedTypeOK
    <3> QED
      BY <1>5, <3>1 DEF CopyResumer, DropResumer, Pause, Resume, stack
  <2> QED
    BY ONLY <1>0, <2>1 DEF LimitedTypeOK
<1> QED
  BY <1>1, <1>2, <1>3, <1>4, <1>5, LimitedStepKinds

----------------------------------------------------------------------------
(* Counting the Resumers of a queue                                        *)

(* They are finitely many, now and after any step. *)
LEMMA ResumersFinite ==
  ASSUME NEW q
  PROVE  IsFiniteSet(ResumersOf(q)) /\ IsFiniteSet(ResumersOf(q)')
<1>1. IsFiniteSet(Resumer)
  <2>1. IsFiniteSet(1..MaxResumers)
    BY LimitedAssumption, FS_Interval
  <2> QED
    BY <2>1, LimitedAssumption, FS_Product DEF Resumer
<1>2. ResumersOf(q) \in SUBSET Resumer /\ ResumersOf(q)' \in SUBSET Resumer
  BY DEF ResumersOf
<1> QED
  BY <1>1, <1>2, FS_Subset

(* One more Resumer of action a: it points to queue p, as the others do.   *)
OneMore(a, p) ==
  /\ resumers[a] < MaxResumers
  /\ resumers' = [resumers EXCEPT ![a] = @ + 1]
  /\ m_queue' = [m_queue EXCEPT ![a] = p]
  /\ resumers[a] > 0 => m_queue[a] = p
  /\ pauseCount' = [pauseCount EXCEPT ![p] = @ + 1]

OneLess(a, p) ==
  /\ resumers[a] > 0
  /\ resumers' = [resumers EXCEPT ![a] = @ - 1]
  /\ m_queue' = m_queue
  /\ m_queue[a] = p
  /\ pauseCount' = [pauseCount EXCEPT ![p] = @ - 1]

(* A Resumer that comes with a pause keeps the count right. *)
LEMMA MoreCounts ==
  ASSUME LimitedInv, NEW a \in Action, NEW p \in Queue, OneMore(a, p)
  PROVE  PausedByResumers'
<1>1. /\ resumers \in [Action -> 0..MaxResumers] /\ m_queue \in [Action -> Queue \cup {None}]
      /\ MaxResumers \in Nat \ {0} /\ pauseCount \in [Queue -> 0..MaxPause]
  BY LimitedAssumption DEF LimitedInv, LimitedTypeOK, IInv, TypeOK
<1> DEFINE r == <<a, resumers[a] + 1>>
<1>2. r \in Resumer /\ r \notin ResumersOf(p)
  BY <1>1 DEF OneMore, Resumer, ResumersOf
<1>3. \A x \in Resumer : x[1] \in Action /\ x[2] \in 1..MaxResumers /\ x = <<x[1], x[2]>>
  BY DEF Resumer
<1>4. /\ resumers'[a] = resumers[a] + 1 /\ m_queue'[a] = p
      /\ \A b \in Action : b # a => resumers'[b] = resumers[b] /\ m_queue'[b] = m_queue[b]
      /\ \A b \in Action : resumers[b] \in Nat
  BY <1>1 DEF OneMore
<1>5. ResumersOf(p)' = ResumersOf(p) \cup {r}
  <2>1. ASSUME NEW x \in Resumer, x \in ResumersOf(p)'
        PROVE  x \in ResumersOf(p) \cup {r}
    BY <1>3, <1>4, <2>1 DEF ResumersOf, OneMore
  <2>2. ASSUME NEW x \in Resumer, x \in ResumersOf(p)
        PROVE  x \in ResumersOf(p)'
    BY <1>3, <1>4, <2>2 DEF ResumersOf, OneMore
  <2>3. r \in ResumersOf(p)'
    BY <1>2, <1>4 DEF ResumersOf
  <2> QED
    BY <2>1, <2>2, <2>3 DEF ResumersOf
<1>6. ASSUME NEW q \in Queue, q # p
      PROVE  ResumersOf(q)' = ResumersOf(q)
  BY <1>3, <1>4, <1>6 DEF ResumersOf, OneMore
<1>7. ASSUME NEW q \in Queue
      PROVE  pauseCount[q] = Cardinality(ResumersOf(q)) /\ pauseCount[q] \in Nat
  BY <1>1 DEF LimitedInv, PausedByResumers
<1>8. Cardinality(ResumersOf(p)') = Cardinality(ResumersOf(p)) + 1
  BY <1>2, <1>5, ResumersFinite, FS_AddElement
<1> SUFFICES ASSUME NEW q \in Queue
             PROVE  pauseCount'[q] = Cardinality(ResumersOf(q)')
  BY DEF PausedByResumers
<1>9. CASE q = p
  BY <1>1, <1>7, <1>8, <1>9 DEF OneMore
<1>10. CASE q # p
  BY <1>1, <1>6, <1>7, <1>10 DEF OneMore
<1> QED
  BY <1>9, <1>10

(* A Resumer that goes with a resume keeps the count right. *)
LEMMA LessCounts ==
  ASSUME LimitedInv, NEW a \in Action, NEW p \in Queue, OneLess(a, p)
  PROVE  PausedByResumers'
<1>1. /\ resumers \in [Action -> 0..MaxResumers] /\ m_queue \in [Action -> Queue \cup {None}]
      /\ MaxResumers \in Nat \ {0} /\ pauseCount \in [Queue -> 0..MaxPause]
  BY LimitedAssumption DEF LimitedInv, LimitedTypeOK, IInv, TypeOK
<1> DEFINE r == <<a, resumers[a]>>
<1>2. r \in ResumersOf(p)
  BY <1>1 DEF OneLess, Resumer, ResumersOf
<1>3. \A x \in Resumer : x[1] \in Action /\ x[2] \in 1..MaxResumers /\ x = <<x[1], x[2]>>
  BY DEF Resumer
<1>4. /\ resumers'[a] = resumers[a] - 1 /\ m_queue' = m_queue
      /\ \A b \in Action : b # a => resumers'[b] = resumers[b]
      /\ \A b \in Action : resumers[b] \in Nat
  BY <1>1 DEF OneLess
<1>5. ResumersOf(p)' = ResumersOf(p) \ {r}
  <2>1. ASSUME NEW x \in Resumer, x \in ResumersOf(p)'
        PROVE  x \in ResumersOf(p) \ {r}
    BY <1>3, <1>4, <2>1 DEF ResumersOf, OneLess
  <2>2. ASSUME NEW x \in Resumer, x \in ResumersOf(p), x # r
        PROVE  x \in ResumersOf(p)'
    BY <1>3, <1>4, <2>2 DEF ResumersOf, OneLess
  <2> QED
    BY <2>1, <2>2 DEF ResumersOf
<1>6. ASSUME NEW q \in Queue, q # p
      PROVE  ResumersOf(q)' = ResumersOf(q)
  BY <1>3, <1>4, <1>6 DEF ResumersOf, OneLess
<1>7. ASSUME NEW q \in Queue
      PROVE  pauseCount[q] = Cardinality(ResumersOf(q)) /\ pauseCount[q] \in Nat
  BY <1>1 DEF LimitedInv, PausedByResumers
<1>8. Cardinality(ResumersOf(p)') = Cardinality(ResumersOf(p)) - 1
  BY <1>2, <1>5, ResumersFinite, FS_RemoveElement
<1> SUFFICES ASSUME NEW q \in Queue
             PROVE  pauseCount'[q] = Cardinality(ResumersOf(q)')
  BY DEF PausedByResumers
<1>9. CASE q = p
  BY <1>1, <1>7, <1>8, <1>9 DEF OneLess
<1>10. CASE q # p
  BY <1>1, <1>6, <1>7, <1>10 DEF OneLess
<1> QED
  BY <1>9, <1>10

(* Every step keeps the pause counts and the Resumers together. *)
LEMMA PausedStep ==
  ASSUME LimitedInv, [LimitedNext]_allVars
  PROVE  PausedByResumers'
<1>0. /\ resumers \in [Action -> 0..MaxResumers] /\ m_queue \in [Action -> Queue \cup {None}]
      /\ MaxResumers \in Nat \ {0} /\ FirstResumer
  BY LimitedAssumption DEF LimitedInv, LimitedTypeOK
<1>1. ASSUME UNCHANGED <<resumers, m_queue, pauseCount>>
      PROVE  PausedByResumers'
  BY <1>1 DEF LimitedInv, PausedByResumers, ResumersOf
<1>2. ASSUME NEW th \in Thread, PauseForAction(th)
      PROVE  PausedByResumers'
  <2> DEFINE a == ActionOf(running[th])
             p == QueueOf[running[th]]
  <2>1. a \in Action /\ p \in Queue /\ running[th] # None
    BY <1>2, BodyRuns, ActionOfTask, ConstantsAssumption DEF PauseForAction, InBody, LimitedInv
  <2>2. resumers[a] = 0
    BY <1>0, <1>2, <2>1 DEF PauseForAction, InBody, FirstResumer, PausesFor
  <2>3. /\ resumers' = [resumers EXCEPT ![a] = 1]
        /\ m_queue' = [m_queue EXCEPT ![a] = p]
        /\ pauseCount' = [pauseCount EXCEPT ![p] = @ + 1]
    BY <1>2 DEF PauseForAction, Pause
  <2> HIDE DEF a, p
  <2>4. OneMore(a, p)
    BY <1>0, <2>1, <2>2, <2>3 DEF OneMore
  <2> QED
    BY <2>1, <2>4, MoreCounts
<1>3. ASSUME NEW th \in Thread, NEW a \in Action, CopyResumer(th, a)
      PROVE  PausedByResumers'
  <2>1. m_queue[a] \in Queue
    BY <1>0, <1>3 DEF CopyResumer, FirstResumer
  <2>2. OneMore(a, m_queue[a])
    BY <1>0, <1>3 DEF CopyResumer, Pause, OneMore
  <2> QED
    BY <2>1, <2>2, MoreCounts
<1>4. ASSUME NEW th \in Thread, NEW a \in Action, DropResumer(th, a)
      PROVE  PausedByResumers'
  <2>1. m_queue[a] \in Queue
    BY <1>0, <1>4 DEF DropResumer, FirstResumer
  <2>2. OneLess(a, m_queue[a])
    BY <1>0, <1>4 DEF DropResumer, Resume, OneLess
  <2> QED
    BY <2>1, <2>2, LessCounts
<1>5. ASSUME NEW th \in Thread, TestAndSet(th)
      PROVE  PausedByResumers'
  BY <1>1, <1>5 DEF TestAndSet, vars
<1> QED
  BY <1>1, <1>2, <1>3, <1>4, <1>5, LimitedStepKinds DEF Quiet, Turn

----------------------------------------------------------------------------
(* The invariant holds at the start. *)
LEMMA InitLimitedInv ==
  LimitedInit => LimitedInv
<1> SUFFICES ASSUME LimitedInit
             PROVE  LimitedInv
  OBVIOUS
<1> USE DEF LimitedInit
<1>1. IInv
  BY InitIInv
<1>2. LimitedTypeOK /\ BegunWithFlag /\ FirstResumer
  BY LimitedAssumption
     DEF LimitedTypeOK, Stage, BegunWithFlag, FirstResumer, PausesFor
<1>3. ASSUME NEW q \in Queue
      PROVE  pauseCount[q] = Cardinality(ResumersOf(q))
  <2>1. ResumersOf(q) = {}
    BY LimitedAssumption DEF ResumersOf, Resumer
  <2> QED
    BY <1>3, <2>1, FS_EmptySet DEF Init
<1> QED
  BY <1>1, <1>2, <1>3 DEF LimitedInv, PausedByResumers

(* Every step preserves the invariant. *)
LEMMA NextLimitedInv ==
  LimitedInv /\ [LimitedNext]_allVars => LimitedInv'
<1> SUFFICES ASSUME LimitedInv, [LimitedNext]_allVars
             PROVE  LimitedInv'
  OBVIOUS
<1>1. IInv'
  BY LimitedStepsAreNext, NextIInv DEF LimitedInv
<1> QED
  BY <1>1, LimitedTypeStep, BegunStep, FirstResumerStep, PausedStep DEF LimitedInv

(* The invariant holds in every reachable state. *)
THEOREM LimitedInvariance ==
  LimitedSpec => []LimitedInv
BY InitLimitedInv, NextLimitedInv, PTL DEF LimitedSpec

(* The queues inside a limited queue behave as serial queues: all that is  *)
(* proved of Spec holds of them, in particular that none strands a lambda. *)
THEOREM QueuesAreSerial ==
  LimitedSpec => Spec
<1>1. LimitedInit => Init
  BY DEF LimitedInit
<1>2. LimitedInv /\ [LimitedNext]_allVars => [Next]_vars
  BY LimitedStepsAreNext
<1> QED
  BY <1>1, <1>2, LimitedInvariance, PTL DEF LimitedSpec, Spec

(* An action is begun by one of its lambdas only. *)
THEOREM BegunAtMostOnce ==
  LimitedSpec => []BegunOnce
<1>1. LimitedInv => BegunOnce
  BY DEF LimitedInv, LimitedTypeOK, BegunWithFlag, BegunOnce
<1> QED
  BY <1>1, LimitedInvariance, PTL

(* Each queue is paused once for every Resumer that points to it. *)
THEOREM ResumersPause ==
  LimitedSpec => []PausedByResumers
<1>1. LimitedInv => PausedByResumers
  BY DEF LimitedInv
<1> QED
  BY <1>1, LimitedInvariance, PTL

(* What the class is for: the threads that run an action, or any lambda,   *)
(* are never more than the limit the queue was constructed with.           *)
LimitKept ==
  /\ IsFiniteSet({th \in Thread : running[th] # None})
  /\ Cardinality({th \in Thread : running[th] # None}) <= Len(m_queues)

(* Each lambda runs in a queue of its own, and there are no more queues.   *)
LEMMA QueuesLimit ==
  ASSUME IInv
  PROVE  LimitKept
<1> DEFINE busy == {th \in Thread : running[th] # None}
           at == [th \in busy |-> QueueOf[running[th]]]
           numbered == [i \in Position |-> m_queues[i]]
<1>1. numbered \in Surjection(Position, Queue)
  <2>1. numbered \in [Position -> Queue]
    BY LimitedAssumption DEF Position
  <2>2. ASSUME NEW q \in Queue PROVE \E i \in Position : numbered[i] = q
    BY LimitedAssumption
  <2> HIDE DEF numbered
  <2> QED
    BY ONLY <2>1, <2>2 DEF Surjection
<1>2. IsFiniteSet(Position) /\ Cardinality(Position) = Len(m_queues)
  <2>1. 1 \in Int /\ Len(m_queues) \in Int /\ Len(m_queues) \in Nat
    BY LimitedAssumption
  <2>2. /\ IsFiniteSet(1..Len(m_queues))
        /\ Cardinality(1..Len(m_queues))
             = IF 1 > Len(m_queues) THEN 0 ELSE Len(m_queues) - 1 + 1
    BY <2>1, FS_Interval
  <2> QED
    BY <2>1, <2>2 DEF Position
<1>3. IsFiniteSet(Queue) /\ Cardinality(Queue) <= Len(m_queues)
  BY <1>1, <1>2, FS_Surjection
<1>4. at \in [busy -> Queue]
  BY ConstantsAssumption DEF IInv, TypeOK
<1>5. ASSUME NEW x \in busy, NEW y \in busy, at[x] = at[y]
      PROVE  x = y
  <2>1. QueueOf[running[x]] \in Queue
    BY ConstantsAssumption DEF IInv, TypeOK
  <2>2. RunOwner(x, QueueOf[running[x]]) /\ RunOwner(y, QueueOf[running[x]])
    BY <1>5 DEF RunOwner
  <2> QED
    BY <2>1, <2>2 DEF IInv, OneOwner
<1>6. at \in Injection(busy, Queue)
  <2> HIDE DEF at, busy
  <2> QED
    BY ONLY <1>4, <1>5 DEF Injection, IsInjective
<1>7. IsFiniteSet(busy) /\ Cardinality(busy) <= Cardinality(Queue)
  BY <1>3, <1>6, FS_Injection
<1>8. Cardinality(busy) \in Nat /\ Cardinality(Queue) \in Nat /\ Len(m_queues) \in Nat
  BY <1>3, <1>7, FS_CardinalityType, LimitedAssumption
<1> QED
  BY <1>3, <1>7, <1>8 DEF LimitKept

(* At most as many actions at a time as the limit says: each runs in a     *)
(* queue of its own.                                                       *)
THEOREM AtMostTheLimit ==
  LimitedSpec => []LimitKept
<1>1. LimitedInv => LimitKept
  BY QueuesLimit DEF LimitedInv
<1> QED
  BY <1>1, LimitedInvariance, PTL

----------------------------------------------------------------------------
(* The refinement                                                          *)

(* An action is on one thread, since the lambda there set its flag. *)
ActsOnce ==
  /\ \A th \in Thread, a \in Action : Acts(th, a) => set_to_run[a]
  /\ \A x, y \in Thread, a \in Action : Acts(x, a) /\ Acts(y, a) => x = y

BegunSubmitted == \A a \in Action : begun[a] > 0 => Submitted(a)

ExecutorInv == LimitedInv /\ RInv /\ ActsOnce /\ BegunSubmitted

(* The first steps that put an action on a thread, or take it off, are     *)
(* those that begin and end it.                                            *)
SameActs == \A th \in Thread, a \in Action : Acts(th, a)' <=> Acts(th, a)

LEMMA QuietActs ==
  ASSUME UNCHANGED <<stage, running>>
  PROVE  SameActs
BY DEF SameActs, Acts

(* A lambda that tests the flag takes on its action if it finds it clear. *)
LEMMA TestActs ==
  ASSUME LimitedInv, NEW th \in Thread, NEW a \in Action, TestAndSet(th),
         a = ActionOf(running[th])
  PROVE  /\ UNCHANGED pushed
         /\ \A b \in Action : ~Acts(th, b)
         /\ set_to_run' = [set_to_run EXCEPT ![a] = TRUE]
         /\ \/ /\ ~set_to_run[a] /\ begun' = [begun EXCEPT ![a] = @ + 1]
               /\ \A x \in Thread, b \in Action : Acts(x, b)' <=> Acts(x, b) \/ (x = th /\ b = a)
            \/ SameActs /\ UNCHANGED begun
<1>1. /\ stage[th] = "test" /\ stage \in [Thread -> Stage]
      /\ running[th] # None /\ UNCHANGED <<running, pushed>>
  BY BodyRuns, ConstantsAssumption
     DEF TestAndSet, InBody, LimitedInv, LimitedTypeOK, vars
<1>2. set_to_run' = [set_to_run EXCEPT ![a] = TRUE]
  BY DEF TestAndSet
<1>3. CASE ~set_to_run[a] /\ Begin(th, a)
  <2>1. \A x \in Thread : x # th => stage'[x] = stage[x]
    BY <1>1, <1>3 DEF Begin, GoTo
  <2>2. stage'[th] \in {"pause", "action"}
    BY <1>1, <1>3 DEF Begin, GoTo
  <2>3. begun' = [begun EXCEPT ![a] = @ + 1]
    BY <1>3 DEF Begin
  <2>4. \A x \in Thread, b \in Action : Acts(x, b)' <=> Acts(x, b) \/ (x = th /\ b = a)
    BY <1>1, <2>1, <2>2 DEF Acts
  <2> QED
    BY <1>1, <1>2, <1>3, <2>3, <2>4 DEF Acts
<1>4. CASE GoTo(th, "over") /\ UNCHANGED begun
  <2>1. \A x \in Thread : x # th => stage'[x] = stage[x]
    BY <1>1, <1>4 DEF GoTo
  <2>2. stage'[th] = "over"
    BY <1>1, <1>4 DEF GoTo
  <2> QED
    BY <1>1, <1>2, <1>4, <2>1, <2>2 DEF Acts, SameActs
<1> QED
  BY <1>3, <1>4 DEF TestAndSet

(* The pause before an action is part of it. *)
LEMMA PauseActs ==
  ASSUME LimitedInv, NEW th \in Thread, PauseForAction(th)
  PROVE  SameActs /\ UNCHANGED <<pushed, begun, set_to_run>>
<1>1. /\ stage[th] = "pause" /\ stage \in [Thread -> Stage]
      /\ stage' = [stage EXCEPT ![th] = "action"]
      /\ UNCHANGED <<running, pushed, begun, set_to_run>>
  BY DEF PauseForAction, InBody, GoTo, Pause, stack, history, LimitedInv, LimitedTypeOK
<1> QED
  BY <1>1 DEF SameActs, Acts

(* A lambda that is started has not come to its action. *)
LEMMA StartActs ==
  ASSUME LimitedInv, NEW th \in Thread, StartBody(th) \/ NextBody(th)
  PROVE  SameActs /\ UNCHANGED <<pushed, begun, set_to_run>>
<1>1. /\ stage \in [Thread -> Stage] /\ running \in [Thread -> Task \cup {None}]
      /\ stage' = [stage EXCEPT ![th] = "test"]
      /\ UNCHANGED <<pushed, begun, set_to_run>>
  BY DEF StartBody, NextBody, BeginBody, GoTo, Start, RunNext, LimitedInv, LimitedTypeOK,
         IInv, TypeOK
<1>2. running[th] = None
  BY DEF StartBody, NextBody, Start, RunNext, StaysInLoop, LimitedInv, IInv, StackOK, Consistent
<1>3. \A x \in Thread : x # th => running'[x] = running[x]
  BY <1>1 DEF StartBody, NextBody, Start, RunNext, Execute
<1>4. \A x \in Thread : x # th => stage'[x] = stage[x]
  BY <1>1
<1>5. stage'[th] = "test"
  BY <1>1
<1> QED
  BY <1>1, <1>2, <1>3, <1>4, <1>5 DEF SameActs, Acts

(* With the lambda that runs it an action ends. *)
LEMMA EndActs ==
  ASSUME LimitedInv, NEW th \in Thread, EndBody(th)
  PROVE  /\ UNCHANGED <<pushed, begun, set_to_run>>
         /\ \A x \in Thread, b \in Action : Acts(x, b)' <=> Acts(x, b) /\ x # th
         /\ Acts(th, ActionOf(running[th])) \/ \A b \in Action : ~Acts(th, b)
<1>1. /\ stage \in [Thread -> Stage] /\ running \in [Thread -> Task \cup {None}]
      /\ stage' = [stage EXCEPT ![th] = "none"]
      /\ running' = [running EXCEPT ![th] = None]
      /\ UNCHANGED <<pushed, begun, set_to_run>>
      /\ stage[th] \in {"action", "over"}
  BY DEF EndBody, GoTo, FinishTask, history, LimitedInv, LimitedTypeOK, IInv, TypeOK
<1>2. running[th] # None
  BY BodyRuns, ConstantsAssumption DEF EndBody, FinishTask, LimitedInv
<1> QED
  BY <1>1, <1>2 DEF Acts

(* The queues' own steps and those of Resumers begin and end nothing. *)
LEMMA OtherActs ==
  ASSUME NEW th \in Thread,
         QueueStep(th) \/ \E a \in Action : CopyResumer(th, a) \/ DropResumer(th, a)
  PROVE  SameActs /\ UNCHANGED <<pushed, begun, set_to_run>>
<1>1. CASE QueueStep(th)
  <2>1. UNCHANGED <<stage, begun, set_to_run>>
    BY <1>1 DEF QueueStep, limitedVars
  <2>2. ASSUME Pick(th)
        PROVE  UNCHANGED <<running, pushed>>
    BY <2>2 DEF Pick, CheckPause, Acquire, Choose, Pop, Unchoose, Release, history
  <2>3. ASSUME Spawn(th)
        PROVE  UNCHANGED <<running, pushed>>
    BY <2>3 DEF Spawn, history
  <2> QED
    BY <1>1, <2>1, <2>2, <2>3, QuietActs DEF QueueStep
<1>2. ASSUME NEW a \in Action, CopyResumer(th, a) \/ DropResumer(th, a)
      PROVE  SameActs /\ UNCHANGED <<pushed, begun, set_to_run>>
  BY <1>2, QuietActs DEF CopyResumer, DropResumer, Pause, Resume, stack, history
<1> QED
  BY <1>1, <1>2

(* A round of the push loop pushes its lambda and no other. *)
LEMMA PushPushes ==
  ASSUME IInv, NEW th \in Thread, NEW a \in Action, NEW i, PushInto(th, a, i)
  PROVE  \A u \in Task : IsPushed(u)' <=> IsPushed(u) \/ u = LambdaOf[a][i]
<1> DEFINE t == LambdaOf[a][i]
<1>1. i \in Position /\ LambdaOf[a][i] \in Task
  BY LimitedAssumption DEF PushInto, ToPush
<1>2. /\ t \in Task /\ QueueOf[t] \in Queue
      /\ pushed' = [pushed EXCEPT ![QueueOf[t]] = Append(@, t)]
      /\ pushed \in [Queue -> Seq(Task)]
  BY <1>1, ConstantsAssumption DEF PushInto, Push, IInv, TypeOK
<1>3. ASSUME NEW u \in Task
      PROVE  IsPushed(u)' <=> IsPushed(u) \/ u = t
  <2> DEFINE s == pushed[QueueOf[u]]
  <2>1. QueueOf[u] \in Queue /\ s \in Seq(Task)
    BY <1>2, ConstantsAssumption
  <2>2. CASE QueueOf[u] = QueueOf[t]
    <3>1. pushed'[QueueOf[u]] = Append(s, t)
      BY <1>2, <2>1, <2>2
    <3>2. /\ DOMAIN Append(s, t) = 1..(Len(s) + 1) /\ DOMAIN s = 1..Len(s)
          /\ Append(s, t)[Len(s) + 1] = t
          /\ \A k \in 1..Len(s) : Append(s, t)[k] = s[k]
          /\ Len(s) \in Nat
      BY <2>1
    <3>3. \A k \in 1..(Len(s) + 1) : k \in 1..Len(s) \/ k = Len(s) + 1
      BY <3>2
    <3>4. Len(s) + 1 \in 1..(Len(s) + 1) /\ \A k \in 1..Len(s) : k \in 1..(Len(s) + 1)
      BY <3>2
    <3>5. (\E k \in DOMAIN Append(s, t) : Append(s, t)[k] = u)
            <=> (\E k \in DOMAIN s : s[k] = u) \/ u = t
      BY <3>2, <3>3, <3>4
    <3> QED
      BY <3>1, <3>5 DEF IsPushed
  <2>3. CASE QueueOf[u] # QueueOf[t]
    <3>1. pushed'[QueueOf[u]] = s /\ u # t
      BY <1>2, <2>1, <2>3
    <3> QED
      BY <3>1 DEF IsPushed
  <2> QED
    BY <2>2, <2>3
<1> QED
  BY <1>3

(* A round of the push loop submits the action, if it is the first. *)
LEMMA PushSubmitsAction ==
  ASSUME LimitedInv, NEW th \in Thread, NEW a \in Action, NEW i, PushInto(th, a, i)
  PROVE  /\ SameActs /\ UNCHANGED <<begun, set_to_run>>
         /\ \A b \in Action : Submitted(b)' <=> Submitted(b) \/ b = a
<1>1. SameActs /\ UNCHANGED <<begun, set_to_run>>
  BY QuietActs DEF PushInto, Push
<1>2. i \in Position /\ LambdaOf[a][i] \in Task
  BY LimitedAssumption DEF PushInto, ToPush
<1> DEFINE t == LambdaOf[a][i]
<1>4. \A u \in Task : IsPushed(u)' <=> IsPushed(u) \/ u = t
  BY PushPushes DEF LimitedInv
<1>5. ASSUME NEW b \in Action
      PROVE  Submitted(b)' <=> Submitted(b) \/ b = a
  <2>1. \A j \in Position : LambdaOf[b][j] \in Task
    BY LimitedAssumption
  <2>2. \A j \in Position : LambdaOf[b][j] = t => b = a
    BY <1>2, LimitedAssumption
  <2>3. ASSUME NEW j \in Position
        PROVE  IsPushed(LambdaOf[b][j])' <=> IsPushed(LambdaOf[b][j]) \/ LambdaOf[b][j] = t
    BY <1>4, <2>1
  <2> QED
    BY <1>2, <2>2, <2>3 DEF Submitted
<1> QED
  BY <1>1, <1>5

(* What a step does to the actions, kind by kind. *)
SubmitsOrPushesOn(a) ==
  /\ SameActs /\ UNCHANGED <<begun, set_to_run>>
  /\ \A b \in Action : Submitted(b)' <=> Submitted(b) \/ b = a

Ends(th) ==
  /\ UNCHANGED <<pushed, begun, set_to_run>>
  /\ \A x \in Thread, b \in Action : Acts(x, b)' <=> Acts(x, b) /\ x # th
  /\ Acts(th, ActionOf(running[th])) \/ \A b \in Action : ~Acts(th, b)

LEMMA ActionSteps ==
  ASSUME LimitedInv, [LimitedNext]_allVars
  PROVE  \/ SameActs /\ UNCHANGED <<pushed, begun, set_to_run>>
         \/ \E a \in Action : SubmitsOrPushesOn(a)
         \/ \E th \in Thread : TestAndSet(th)
         \/ \E th \in Thread : EndBody(th) /\ Ends(th)
<1>1. ASSUME NEW th \in Thread, NEW a, NEW i, a \in Action, PushInto(th, a, i)
      PROVE  SubmitsOrPushesOn(a)
  BY <1>1, PushSubmitsAction DEF SubmitsOrPushesOn
<1>2. ASSUME NEW th \in Thread, PushOn(th) \/ \E a \in Action : BeginPush(th, a)
      PROVE  \E a \in Action : SubmitsOrPushesOn(a)
  <2>1. CASE PushOn(th)
    <3>1. pushing[th] \in Action \cup {None}
      BY DEF LimitedInv, LimitedTypeOK
    <3> QED
      BY <1>1, <2>1, <3>1 DEF PushOn
  <2>2. CASE \E a \in Action : BeginPush(th, a)
    BY <1>1, <2>2 DEF BeginPush
  <2> QED
    BY <1>2, <2>1, <2>2
<1>3. ASSUME NEW th \in Thread, EndBody(th)
      PROVE  Ends(th)
  BY <1>3, EndActs DEF Ends
<1>4. CASE UNCHANGED allVars
  BY <1>4, QuietActs DEF allVars, vars, limitedVars
<1> QED
  BY <1>2, <1>3, <1>4, OtherActs, StartActs, PauseActs DEF LimitedNext, GoOn

----------------------------------------------------------------------------
(* The lambda that runs was pushed, and with it its action submitted. *)
LEMMA RunningSubmitted ==
  ASSUME RInv, NEW th \in Thread, running[th] # None
  PROVE  running[th] \in Task /\ Submitted(ActionOf(running[th]))
<1>1. running[th] \in Task
  BY DEF RInv, IInv, TypeOK
<1>2. IsPushed(running[th])
  BY <1>1, NewIsNew DEF RInv, RunningBegan
<1>3. \E a \in Action : \E i \in Position : LambdaOf[a][i] = running[th]
  BY <1>1, LimitedAssumption
<1>4. \E i \in Position : LambdaOf[ActionOf(running[th])][i] = running[th]
  BY <1>3 DEF ActionOf
<1> QED
  BY <1>1, <1>2, <1>4 DEF Submitted

(* What was submitted stays so. *)
LEMMA SubmittedStays ==
  ASSUME LimitedInv, [LimitedNext]_allVars, NEW a \in Action, Submitted(a)
  PROVE  Submitted(a)'
<1>1. ASSUME UNCHANGED pushed
      PROVE  Submitted(a)'
  BY <1>1 DEF Submitted, IsPushed
<1>2. ASSUME NEW th \in Thread, TestAndSet(th)
      PROVE  UNCHANGED pushed
  BY <1>2 DEF TestAndSet, vars
<1>3. ASSUME NEW th \in Thread, Ends(th)
      PROVE  UNCHANGED pushed
  BY <1>3 DEF Ends
<1>4. ASSUME NEW b \in Action, SubmitsOrPushesOn(b)
      PROVE  Submitted(a)'
  BY <1>4 DEF SubmitsOrPushesOn
<1> QED
  BY <1>1, <1>2, <1>3, <1>4, ActionSteps

(* Only the action whose flag was clear comes to a thread, and only there. *)
LEMMA ActsOnceStep ==
  ASSUME ExecutorInv, [LimitedNext]_allVars
  PROVE  ActsOnce'
<1>0. LimitedInv /\ ActsOnce /\ set_to_run \in [Action -> BOOLEAN]
  BY DEF ExecutorInv, LimitedInv, LimitedTypeOK
<1>1. ASSUME SameActs, UNCHANGED set_to_run
      PROVE  ActsOnce'
  BY <1>0, <1>1 DEF SameActs, ActsOnce
<1>2. ASSUME NEW th \in Thread, TestAndSet(th)
      PROVE  ActsOnce'
  <2> DEFINE a == ActionOf(running[th])
  <2>1. a \in Action
    BY <1>2, <1>0, BodyRuns, ActionOfTask DEF TestAndSet, InBody, LimitedInv
  <2> HIDE DEF a
  <2>2. /\ \A b \in Action : ~Acts(th, b)
        /\ set_to_run' = [set_to_run EXCEPT ![a] = TRUE]
        /\ \/ /\ ~set_to_run[a]
              /\ \A x \in Thread, b \in Action : Acts(x, b)' <=> Acts(x, b) \/ (x = th /\ b = a)
           \/ SameActs
    BY <1>0, <1>2, <2>1, TestActs DEF a
  <2>3. \A b \in Action : set_to_run[b] \/ b = a => set_to_run'[b]
    BY <1>0, <2>1, <2>2
  <2> QED
    BY <1>0, <2>1, <2>2, <2>3 DEF ActsOnce, SameActs
<1>3. ASSUME NEW th \in Thread, Ends(th)
      PROVE  ActsOnce'
  BY <1>0, <1>3 DEF Ends, ActsOnce
<1>4. ASSUME NEW a \in Action, SubmitsOrPushesOn(a)
      PROVE  ActsOnce'
  BY <1>1, <1>4 DEF SubmitsOrPushesOn
<1> QED
  BY <1>0, <1>1, <1>2, <1>3, <1>4, ActionSteps

(* What is begun was submitted. *)
LEMMA BegunSubmittedStep ==
  ASSUME ExecutorInv, [LimitedNext]_allVars
  PROVE  BegunSubmitted'
<1>0. /\ LimitedInv /\ RInv /\ BegunSubmitted /\ begun \in [Action -> Nat]
      /\ \A a \in Action : Submitted(a) => Submitted(a)'
  BY SubmittedStays DEF ExecutorInv, LimitedInv, LimitedTypeOK
<1>1. ASSUME UNCHANGED begun
      PROVE  BegunSubmitted'
  BY <1>0, <1>1 DEF BegunSubmitted
<1>2. ASSUME NEW th \in Thread, TestAndSet(th)
      PROVE  BegunSubmitted'
  <2> DEFINE a == ActionOf(running[th])
  <2>1. a \in Action /\ running[th] # None
    BY <1>2, <1>0, BodyRuns, ActionOfTask, ConstantsAssumption DEF TestAndSet, InBody, LimitedInv
  <2>2. Submitted(a)
    BY <1>0, <2>1, RunningSubmitted
  <2> HIDE DEF a
  <2>3. begun' = [begun EXCEPT ![a] = @ + 1] \/ UNCHANGED begun
    BY <1>0, <1>2, <2>1, TestActs DEF a
  <2> QED
    BY <1>0, <2>1, <2>2, <2>3 DEF BegunSubmitted
<1>3. ASSUME NEW th \in Thread, Ends(th)
      PROVE  UNCHANGED begun
  BY <1>3 DEF Ends
<1>4. ASSUME NEW a \in Action, SubmitsOrPushesOn(a)
      PROVE  UNCHANGED begun
  BY <1>4 DEF SubmitsOrPushesOn
<1> QED
  BY <1>0, <1>1, <1>2, <1>3, <1>4, ActionSteps

LEMMA InitExecutorInv ==
  LimitedInit => ExecutorInv
<1> SUFFICES ASSUME LimitedInit
             PROVE  ExecutorInv
  OBVIOUS
<1>1. LimitedInv /\ RInv
  BY InitLimitedInv, InitRInv DEF LimitedInit
<1> QED
  BY <1>1 DEF LimitedInit, ExecutorInv, ActsOnce, Acts, BegunSubmitted

LEMMA NextExecutorInv ==
  ExecutorInv /\ [LimitedNext]_allVars => ExecutorInv'
<1> SUFFICES ASSUME ExecutorInv, [LimitedNext]_allVars
             PROVE  ExecutorInv'
  OBVIOUS
<1>1. LimitedInv' /\ RInv'
  BY LimitedStepsAreNext, NextLimitedInv, NextRInv DEF ExecutorInv
<1> QED
  BY <1>1, ActsOnceStep, BegunSubmittedStep DEF ExecutorInv

----------------------------------------------------------------------------
(* There is room for the action of a lambda that tests its flag: its       *)
(* thread is one of those LimitKept counts, and acts for nobody yet.       *)
LEMMA RoomForOne ==
  ASSUME IInv, NEW th \in Thread, running[th] # None, \A a \in Action : ~Acts(th, a)
  PROVE  Cardinality(ActiveActions) < Len(m_queues)
<1> DEFINE busy == {x \in Thread : running[x] # None}
           others == busy \ {th}
           acting == {x \in Thread : \E a \in Action : Acts(x, a)}
           does == [x \in acting |-> ActionOf(running[x])]
<1>1. IsFiniteSet(busy) /\ Cardinality(busy) <= Len(m_queues)
  BY QueuesLimit DEF LimitKept
<1>2. th \in busy
  OBVIOUS
<1>3. acting \in SUBSET others
  BY DEF Acts
<1>4. \A x \in acting, a \in Action : Acts(x, a) <=> a = does[x]
  BY DEF Acts
<1>5. does \in Surjection(acting, ActiveActions)
  <2>1. does \in [acting -> ActiveActions]
    BY DEF Acts, ActiveActions
  <2>2. ASSUME NEW a \in ActiveActions
        PROVE  \E x \in acting : does[x] = a
    <3>1. PICK x \in Thread : Acts(x, a)
      BY DEF ActiveActions
    <3>2. a \in Action
      BY DEF ActiveActions
    <3>3. x \in acting
      BY <3>1, <3>2
    <3> HIDE DEF does, acting
    <3> QED
      BY <1>4, <3>1, <3>2, <3>3
  <2> HIDE DEF does, acting
  <2> QED
    BY ONLY <2>1, <2>2 DEF Surjection
<1> HIDE DEF busy, acting, does
<1>6. IsFiniteSet(others) /\ Cardinality(others) = Cardinality(busy) - 1
  BY <1>1, <1>2, FS_RemoveElement
<1>7. IsFiniteSet(acting) /\ Cardinality(acting) <= Cardinality(others)
  BY <1>3, <1>6, FS_Subset
<1>8. IsFiniteSet(ActiveActions) /\ Cardinality(ActiveActions) <= Cardinality(acting)
  BY <1>5, <1>7, FS_Surjection
<1>9. /\ Cardinality(busy) \in Nat /\ Cardinality(others) \in Nat
      /\ Cardinality(acting) \in Nat /\ Cardinality(ActiveActions) \in Nat
      /\ Len(m_queues) \in Nat
  BY <1>1, <1>6, <1>7, <1>8, FS_CardinalityType, LimitedAssumption
<1> QED
  BY ONLY <1>1, <1>6, <1>7, <1>8, <1>9

(* The executor counts as the queues do: its Cardinality is the same one. *)
LEMMA SameCardinality ==
  ASSUME NEW S
  PROVE  LE!Cardinality(S) = Cardinality(S)
BY DEF LE!Cardinality, Cardinality

(* The flag clear means: not begun, hence waiting, neither active nor done. *)
LEMMA TestBegins ==
  ASSUME ExecutorInv, NEW th \in Thread, TestAndSet(th)
  PROVE  LE!Next \/ UNCHANGED LE!vars
<1> DEFINE a == ActionOf(running[th])
<1>0. LimitedInv /\ RInv /\ IInv /\ ActsOnce /\ BegunWithFlag /\ begun \in [Action -> Nat]
  BY DEF ExecutorInv, LimitedInv, LimitedTypeOK
<1>1. a \in Action /\ running[th] # None /\ Submitted(a)
  BY <1>0, BodyRuns, ActionOfTask, RunningSubmitted, ConstantsAssumption
     DEF TestAndSet, InBody
<1> HIDE DEF a
<1>2. /\ UNCHANGED pushed
      /\ \A b \in Action : ~Acts(th, b)
      /\ \/ /\ ~set_to_run[a] /\ begun' = [begun EXCEPT ![a] = @ + 1]
            /\ \A x \in Thread, b \in Action : Acts(x, b)' <=> Acts(x, b) \/ (x = th /\ b = a)
         \/ SameActs /\ UNCHANGED begun
  BY <1>0, <1>1, TestActs DEF a
<1>3. \A b \in Action : Submitted(b)' <=> Submitted(b)
  BY <1>2 DEF Submitted, IsPushed
<1>4. CASE SameActs /\ UNCHANGED begun
  BY <1>3, <1>4 DEF SameActs, WaitingActions, ActiveActions, DoneActions, LE!vars
<1>5. CASE /\ ~set_to_run[a] /\ begun' = [begun EXCEPT ![a] = @ + 1]
           /\ \A x \in Thread, b \in Action : Acts(x, b)' <=> Acts(x, b) \/ (x = th /\ b = a)
  <2>1. /\ begun[a] = 0 /\ begun'[a] = 1
        /\ \A b \in Action : b # a => begun'[b] = begun[b]
    BY <1>0, <1>1, <1>5 DEF BegunWithFlag
  <2>2. Cardinality(ActiveActions) < Len(m_queues)
    BY <1>0, <1>1, <1>2, RoomForOne
  <2>3. a \in WaitingActions /\ WaitingActions' = WaitingActions \ {a}
    BY <1>1, <1>3, <2>1 DEF WaitingActions
  <2>4. ActiveActions' = ActiveActions \cup {a}
    <3>1. ASSUME NEW b \in Action
          PROVE  (\E x \in Thread : Acts(x, b)') <=> (\E x \in Thread : Acts(x, b)) \/ b = a
      BY <1>5
    <3> QED
      BY <1>1, <3>1 DEF ActiveActions
  <2>5. DoneActions' = DoneActions
    BY <1>1, <2>1, <2>4 DEF DoneActions
  <2>6. LE!Begin(a)
    BY <2>2, <2>3, <2>4, <2>5, SameCardinality DEF LE!Begin
  <2> QED
    BY <1>1, <2>6 DEF LE!Next
<1> QED
  BY <1>2, <1>4, <1>5

(* Every step of the code is one of the executor, or none. *)
LEMMA StepImplementsExecutor ==
  ExecutorInv /\ [LimitedNext]_allVars => [LE!Next]_(LE!vars)
<1> SUFFICES ASSUME ExecutorInv, [LimitedNext]_allVars
             PROVE  LE!Next \/ UNCHANGED LE!vars
  OBVIOUS
<1>0. /\ LimitedInv /\ ActsOnce /\ BegunSubmitted /\ BegunWithFlag
      /\ begun \in [Action -> Nat] /\ IInv
  BY DEF ExecutorInv, LimitedInv, LimitedTypeOK
<1>1. ASSUME SameActs, UNCHANGED begun
      PROVE  ActiveActions' = ActiveActions /\ DoneActions' = DoneActions
  BY <1>1 DEF SameActs, ActiveActions, DoneActions
<1>2. ASSUME UNCHANGED pushed, UNCHANGED begun
      PROVE  WaitingActions' = WaitingActions
  BY <1>2 DEF WaitingActions, Submitted, IsPushed
<1>3. CASE SameActs /\ UNCHANGED <<pushed, begun, set_to_run>>
  BY <1>1, <1>2, <1>3 DEF LE!vars
<1>4. ASSUME NEW a \in Action, SubmitsOrPushesOn(a)
      PROVE  LE!Next \/ UNCHANGED LE!vars
  <2>1. /\ ActiveActions' = ActiveActions /\ DoneActions' = DoneActions /\ UNCHANGED begun
        /\ \A b \in Action : Submitted(b)' <=> Submitted(b) \/ b = a
    BY <1>1, <1>4 DEF SubmitsOrPushesOn
  <2>2. CASE Submitted(a)
    BY <2>1, <2>2 DEF WaitingActions, LE!vars
  <2>3. CASE ~Submitted(a)
    <3>1. begun[a] = 0 /\ ~set_to_run[a]
      BY <1>0, <2>3 DEF BegunSubmitted, BegunWithFlag
    <3>2. a \notin WaitingActions \cup ActiveActions \cup DoneActions
      BY <1>0, <2>3, <3>1 DEF ActsOnce, WaitingActions, ActiveActions, DoneActions
    <3>3. WaitingActions' = WaitingActions \cup {a}
      BY <2>1, <3>1 DEF WaitingActions
    <3> QED
      BY <2>1, <3>2, <3>3 DEF LE!Next, LE!Submit
  <2> QED
    BY <2>2, <2>3
<1>5. ASSUME NEW th \in Thread, EndBody(th), Ends(th)
      PROVE  LE!Next \/ UNCHANGED LE!vars
  <2> DEFINE a == ActionOf(running[th])
  <2>1. a \in Action
    BY <1>0, <1>5, BodyRuns, ActionOfTask DEF EndBody, FinishTask
  <2> HIDE DEF a
  <2>2. WaitingActions' = WaitingActions
    BY <1>2, <1>5 DEF Ends
  <2>3. CASE Acts(th, a)
    <3>1. begun[a] > 0 /\ UNCHANGED begun
      BY <1>0, <1>5, <2>1, <2>3 DEF ActsOnce, BegunWithFlag, Ends
    <3>2. a \in ActiveActions
      BY <2>1, <2>3 DEF ActiveActions
    <3>3. ActiveActions' = ActiveActions \ {a}
      <4>1. \A x \in Thread : Acts(x, a) => x = th
        BY <1>0, <2>1, <2>3 DEF ActsOnce
      <4>2. \A b \in Action : Acts(th, b) => b = a
        BY DEF Acts, a
      <4>3. \A x \in Thread, b \in Action : Acts(x, b)' <=> Acts(x, b) /\ x # th
        BY <1>5 DEF Ends
      <4> QED
        BY <4>1, <4>2, <4>3 DEF ActiveActions
    <3>4. DoneActions' = DoneActions \cup {a}
      BY <2>1, <3>1, <3>3 DEF DoneActions
    <3> QED
      BY <2>1, <2>2, <3>2, <3>3, <3>4 DEF LE!Next, LE!End
  <2>4. CASE ~Acts(th, a)
    <3>1. SameActs /\ UNCHANGED begun
      BY <1>5, <2>4 DEF Ends, SameActs, a
    <3> QED
      BY <1>1, <2>2, <3>1 DEF LE!vars
  <2> QED
    BY <2>3, <2>4
<1> QED
  BY <1>0, <1>3, <1>4, <1>5, TestBegins, ActionSteps

(* At the start nothing was submitted. *)
LEMMA InitImplementsExecutor ==
  LimitedInit => LE!Init
<1> SUFFICES ASSUME LimitedInit
             PROVE  LE!Init
  OBVIOUS
<1>1. \A t \in Task : ~IsPushed(t)
  BY ConstantsAssumption DEF LimitedInit, Init, IsPushed
<1>2. WaitingActions = {}
  BY <1>1, LimitedAssumption DEF WaitingActions, Submitted
<1>3. ActiveActions = {}
  BY DEF LimitedInit, ActiveActions, Acts
<1>4. DoneActions = {}
  BY DEF LimitedInit, DoneActions
<1> QED
  BY <1>2, <1>3, <1>4 DEF LE!Init

(* For any number of queues, threads and actions, pushed from anywhere,    *)
(* paused and kept as the actions like, the class is an executor with the  *)
(* limit it was constructed with: an action waits from its push, is begun  *)
(* by one of its copies, with less than the limit active, and ends.        *)
THEOREM ImplementsLimit ==
  LimitedSpec => ImplementsLimitedExecutor
<1>1. LimitedInit => ExecutorInv /\ LE!Init
  BY InitExecutorInv, InitImplementsExecutor
<1> QED
  BY <1>1, NextExecutorInv, StepImplementsExecutor, PTL
     DEF LimitedSpec, ImplementsLimitedExecutor, LE!Spec

----------------------------------------------------------------------------
(* One queue is enough                                                     *)

(* What OneQueueWillDo comes to without fairness: an open queue that has   *)
(* come to rest has left no action behind that was pushed, whatever        *)
(* Resumers are kept and whatever the other queues are doing.              *)
NoneWaitsForOthers ==
  \A a \in Action, q \in Queue :
    /\ Idle(q) /\ pauseCount[q] = 0
    /\ Submitted(a) /\ \A th \in Thread : pushing[th] # a
    => begun[a] > 0

(* A push that was begun is carried through all queues. *)
PushGoesOn ==
  \A a \in Action : Submitted(a) /\ ToPush(a) # {} => \E th \in Thread : pushing[th] = a

Tests(th, t) == running[th] = t /\ stage[th] = "test"

(* A lambda that was started sets the flag, if no other did, before it     *)
(* ends.                                                                   *)
StartedTests ==
  \A t \in Task : Executed(t) => set_to_run[ActionOf(t)] \/ \E th \in Thread : Tests(th, t)

RestInv == ExecutorInv /\ PushGoesOn /\ StartedTests

(* The action of the lambda that is numbered is the one it is numbered for. *)
LEMMA ActionOfLambda ==
  ASSUME NEW a \in Action, NEW i \in Position
  PROVE  LambdaOf[a][i] \in Task /\ ActionOf(LambdaOf[a][i]) = a
<1>1. LambdaOf[a][i] \in Task
  BY LimitedAssumption
<1>2. \A b \in Action : (\E j \in Position : LambdaOf[b][j] = LambdaOf[a][i]) => b = a
  BY LimitedAssumption
<1> QED
  BY <1>1, <1>2 DEF ActionOf

(* Each round of the loop puts in one lambda, and the last ends the call. *)
LEMMA PushGoesOnStep ==
  ASSUME RestInv, [LimitedNext]_allVars
  PROVE  PushGoesOn'
<1>0. /\ LimitedInv /\ PushGoesOn /\ pushing \in [Thread -> Action \cup {None}]
      /\ None \notin Action /\ IInv
  BY LimitedAssumption DEF RestInv, ExecutorInv, LimitedInv, LimitedTypeOK
<1>1. ASSUME UNCHANGED <<pushed, pushing>>
      PROVE  PushGoesOn'
  BY <1>0, <1>1 DEF PushGoesOn, Submitted, ToPush, IsPushed
<1>2. ASSUME NEW th \in Thread, NEW a \in Action, NEW i, PushInto(th, a, i),
             pushing[th] \in {None, a}
      PROVE  PushGoesOn'
  <2>1. /\ i \in Position /\ \A j \in ToPush(a) : i <= j
        /\ pushing' = [pushing EXCEPT ![th] = IF i = Len(m_queues) THEN None ELSE a]
    BY <1>2 DEF PushInto, ToPush
  <2>2. \A u \in Task : IsPushed(u)' <=> IsPushed(u) \/ u = LambdaOf[a][i]
    BY <1>0, <1>2, PushPushes
  <2>3. ASSUME NEW b \in Action, b # a, Submitted(b)', ToPush(b)' # {}
        PROVE  \E x \in Thread : pushing'[x] = b
    <3>1. \A j \in Position : IsPushed(LambdaOf[b][j])' <=> IsPushed(LambdaOf[b][j])
      BY <2>1, <2>2, <2>3, ActionOfLambda
    <3>2. PICK x \in Thread : pushing[x] = b
      BY <1>0, <2>3, <3>1 DEF PushGoesOn, Submitted, ToPush
    <3>3. pushing'[x] = b
      BY <1>0, <1>2, <2>1, <2>3, <3>2
    <3> QED
      BY <3>3
  <2>4. ASSUME ToPush(a)' # {}
        PROVE  pushing'[th] = a
    <3>1. PICK j \in Position : ~IsPushed(LambdaOf[a][j])'
      BY <2>4 DEF ToPush
    <3>2. j \in ToPush(a) /\ j # i
      BY <2>2, <3>1, ActionOfLambda DEF ToPush
    <3>3. i # Len(m_queues)
      BY <2>1, <3>2, LimitedAssumption DEF Position
    <3> QED
      BY <1>0, <2>1, <3>3
  <2> QED
    BY <2>3, <2>4 DEF PushGoesOn
<1>3. ASSUME NEW th \in Thread, PushOn(th) \/ \E a \in Action : BeginPush(th, a)
      PROVE  PushGoesOn'
  BY <1>0, <1>2, <1>3 DEF PushOn, BeginPush, MayCall
<1>4. ASSUME NEW th \in Thread, QueueStep(th) \/ NextBody(th) \/ StartBody(th) \/ EndBody(th)
      PROVE  UNCHANGED <<pushed, pushing>>
  <2>1. CASE QueueStep(th)
    BY <2>1, OtherActs DEF QueueStep, limitedVars
  <2>2. CASE NextBody(th) \/ StartBody(th)
    BY <2>2, <1>0, StartActs DEF NextBody, StartBody, BeginBody
  <2>3. CASE EndBody(th)
    BY <2>3, <1>0, EndActs DEF EndBody
  <2> QED
    BY <1>4, <2>1, <2>2, <2>3
<1>5. ASSUME NEW th \in Thread, TestAndSet(th) \/ PauseForAction(th)
      PROVE  UNCHANGED <<pushed, pushing>>
  BY <1>5, <1>0, PauseActs DEF TestAndSet, PauseForAction, vars
<1>6. ASSUME NEW th \in Thread, NEW a \in Action, CopyResumer(th, a) \/ DropResumer(th, a)
      PROVE  UNCHANGED <<pushed, pushing>>
  BY <1>6, OtherActs DEF CopyResumer, DropResumer
<1>7. CASE UNCHANGED allVars
  BY <1>1, <1>7 DEF allVars, vars, limitedVars
<1> QED
  BY <1>1, <1>3, <1>4, <1>5, <1>6, <1>7 DEF LimitedNext, GoOn

(* A lambda that is started goes to the test, and from there only with the *)
(* flag set.                                                               *)
LEMMA StartedTestsStep ==
  ASSUME RestInv, [LimitedNext]_allVars
  PROVE  StartedTests'
<1>0. /\ LimitedInv /\ IInv /\ StartedTests /\ set_to_run \in [Action -> BOOLEAN]
      /\ stage \in [Thread -> Stage] /\ running \in [Thread -> Task \cup {None}]
  BY DEF RestInv, ExecutorInv, LimitedInv, LimitedTypeOK, IInv, TypeOK
<1>1. ASSUME NEW th \in Thread, UNCHANGED executed,
             \A x \in Thread : x # th => stage'[x] = stage[x] /\ running'[x] = running[x],
             stage[th] = "test" => UNCHANGED <<stage, running>>,
             UNCHANGED set_to_run
      PROVE  StartedTests'
  <2>1. ASSUME NEW t \in Task, NEW x \in Thread, Tests(x, t)
        PROVE  Tests(x, t)'
    BY <1>1, <2>1 DEF Tests
  <2> QED
    BY <1>0, <1>1, <2>1 DEF StartedTests, Executed
<1>2. ASSUME NEW th \in Thread, TestAndSet(th)
      PROVE  StartedTests'
  <2>1. /\ UNCHANGED <<executed, running>> /\ \A x \in Thread : x # th => stage'[x] = stage[x]
        /\ set_to_run' = [set_to_run EXCEPT ![ActionOf(running[th])] = TRUE]
    BY <1>0, <1>2 DEF TestAndSet, Begin, GoTo, vars
  <2>2. ASSUME NEW t \in Task, Executed(t)
        PROVE  set_to_run'[ActionOf(t)] \/ \E x \in Thread : Tests(x, t)'
    <3>1. ActionOf(t) \in Action
      BY ActionOfTask
    <3>2. CASE set_to_run[ActionOf(t)]
      BY <1>0, <2>1, <3>1, <3>2
    <3>3. ASSUME NEW x \in Thread, Tests(x, t)
          PROVE  set_to_run'[ActionOf(t)] \/ Tests(x, t)'
      BY <1>0, <2>1, <3>1, <3>3 DEF Tests
    <3> QED
      BY <1>0, <2>2, <3>2, <3>3 DEF StartedTests
  <2> QED
    BY <2>1, <2>2 DEF StartedTests, Executed
<1>3. ASSUME NEW th \in Thread, StartBody(th) \/ NextBody(th)
      PROVE  StartedTests'
  <2>1. PICK t \in Task : Begins(th, t)
    BY <1>0, <1>3 DEF StartBody, NextBody, Start, RunNext, StaysInLoop, Begins, IInv, StackOK,
                      Consistent, TypeOK
  <2>2. /\ running[th] = None /\ running'[th] = t
        /\ \A x \in Thread \ {th} : running'[x] = running[x]
        /\ \A u \in Task : Executed(u)' <=> Executed(u) \/ u = t
    BY <1>0, <2>1, BeginHistory
  <2>3. stage' = [stage EXCEPT ![th] = "test"] /\ UNCHANGED set_to_run
    BY <1>3 DEF StartBody, NextBody, BeginBody, GoTo
  <2>4. Tests(th, t)' /\ \A x \in Thread, u \in Task : Tests(x, u) => Tests(x, u)'
    BY <1>0, <2>2, <2>3, ConstantsAssumption DEF Tests
  <2> QED
    BY <1>0, <2>2, <2>3, <2>4 DEF StartedTests
<1>4. ASSUME NEW th \in Thread, QueueStep(th) \/ PushOn(th) \/ PauseForAction(th) \/ EndBody(th)
                                \/ \E a \in Action : BeginPush(th, a) \/ CopyResumer(th, a)
                                                       \/ DropResumer(th, a)
      PROVE  StartedTests'
  <2>1. ASSUME UNCHANGED <<executed, stage, running, set_to_run>>
        PROVE  StartedTests'
    BY <1>1, <2>1
  <2>2. CASE QueueStep(th)
    <3>1. UNCHANGED <<executed, running>>
      BY <2>2 DEF QueueStep, Pick, CheckPause, Acquire, Choose, Pop, Unchoose, Release, Spawn,
                  history
    <3> QED
      BY <2>1, <2>2, <3>1 DEF QueueStep, limitedVars
  <2>3. CASE PushOn(th) \/ \E a \in Action : BeginPush(th, a)
    <3>1. ASSUME NEW a, NEW i, PushInto(th, a, i)
          PROVE  UNCHANGED <<executed, stage, running, set_to_run>>
      BY <3>1 DEF PushInto, Push
    <3>2. CASE PushOn(th)
      BY <2>1, <3>1, <3>2 DEF PushOn
    <3>3. CASE \E a \in Action : BeginPush(th, a)
      BY <2>1, <3>1, <3>3 DEF BeginPush
    <3> QED
      BY <2>3, <3>2, <3>3
  <2>4. CASE \E a \in Action : CopyResumer(th, a) \/ DropResumer(th, a)
    BY <2>1, <2>4 DEF CopyResumer, DropResumer, Pause, Resume, stack, history
  <2>5. CASE PauseForAction(th)
    <3>1. /\ UNCHANGED <<executed, running, set_to_run>> /\ stage[th] = "pause"
          /\ stage' = [stage EXCEPT ![th] = "action"]
      BY <2>5 DEF PauseForAction, InBody, GoTo, Pause, stack, history
    <3> QED
      BY <1>0, <1>1, <3>1
  <2>6. CASE EndBody(th)
    <3>1. /\ UNCHANGED <<executed, set_to_run>> /\ stage[th] \in {"action", "over"}
          /\ stage' = [stage EXCEPT ![th] = "none"]
          /\ running' = [running EXCEPT ![th] = None]
      BY <2>6 DEF EndBody, GoTo, FinishTask, history
    <3> QED
      BY <1>0, <1>1, <3>1
  <2> QED
    BY <1>4, <2>2, <2>3, <2>4, <2>5, <2>6
<1>5. CASE UNCHANGED allVars
  BY <1>0, <1>5 DEF allVars, vars, limitedVars, StartedTests, Executed, Tests
<1> QED
  BY <1>2, <1>3, <1>4, <1>5 DEF LimitedNext, GoOn

(* In a queue at rest all lambdas were started, so that of an action that  *)
(* was pushed everywhere the lambda of this queue has seen to the flag.    *)
LEMMA RestMeansBegun ==
  ASSUME RestInv
  PROVE  NoneWaitsForOthers
<1> SUFFICES ASSUME NEW a \in Action, NEW q \in Queue, Idle(q), pauseCount[q] = 0,
                    Submitted(a), \A th \in Thread : pushing[th] # a
             PROVE  begun[a] > 0
  BY DEF NoneWaitsForOthers
<1>1. RInv /\ BegunWithFlag
  BY DEF RestInv, ExecutorInv, LimitedInv
<1>2. PICK i \in Position : m_queues[i] = q
  BY LimitedAssumption
<1> DEFINE t == LambdaOf[a][i]
<1>3. t \in Task /\ QueueOf[t] = q /\ ActionOf(t) = a
  BY <1>2, ActionOfLambda, LimitedAssumption
<1>4. IsPushed(t)
  BY DEF RestInv, PushGoesOn, ToPush
<1> HIDE DEF t
<1>5. Finished(t)
  BY <1>1, <1>3, <1>4, OpenIdleIsDone
<1>6. Executed(t) /\ \A th \in Thread : ~Tests(th, t)
  BY <1>5 DEF Finished, Tests
<1>7. set_to_run[a]
  BY <1>3, <1>6 DEF RestInv, StartedTests
<1> QED
  BY <1>1, <1>7 DEF BegunWithFlag

(* An open queue at rest has run all that it was given: as long as one is  *)
(* left open no action is kept from beginning by Resumers of the others.   *)
THEOREM OneOpenQueueIsEnough ==
  LimitedSpec => []NoneWaitsForOthers
<1>1. LimitedInit => RestInv
  <2> SUFFICES ASSUME LimitedInit
               PROVE  RestInv
    OBVIOUS
  <2>1. ExecutorInv
    BY InitExecutorInv
  <2>2. \A t \in Task : ~IsPushed(t) /\ ~Executed(t)
    BY ConstantsAssumption DEF LimitedInit, Init, IsPushed, Executed
  <2>3. \A a \in Action : ~Submitted(a)
    BY <2>2, ActionOfLambda DEF Submitted
  <2> QED
    BY <2>1, <2>2, <2>3 DEF RestInv, PushGoesOn, StartedTests
<1>2. RestInv /\ [LimitedNext]_allVars => RestInv'
  <2> SUFFICES ASSUME RestInv, [LimitedNext]_allVars
               PROVE  RestInv'
    OBVIOUS
  <2>1. ExecutorInv'
    BY NextExecutorInv DEF RestInv
  <2> QED
    BY <2>1, PushGoesOnStep, StartedTestsStep DEF RestInv
<1>3. RestInv => NoneWaitsForOthers
  BY RestMeansBegun
<1> QED
  BY <1>1, <1>2, <1>3, PTL DEF LimitedSpec

=============================================================================
