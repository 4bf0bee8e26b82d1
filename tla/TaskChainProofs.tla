---------------------------- MODULE TaskChainProofs ----------------------------
(***************************************************************************)
(* Proofs about WaitingTask, for any number of threads, holders, tasks and *)
(* exceptions; then about TaskChain and the SyncWait it runs under, for    *)
(* chains of any length and functors of any kinds and conditions: what     *)
(* syncWait waits for and returns, and that a chain forgets no functor.    *)
(***************************************************************************)
EXTENDS TaskChain, TLAPS, FiniteSetTheorems, WellFoundedInduction

----------------------------------------------------------------------------
(* WaitingTask                                                             *)

(* The slots are the holders and the threads, finitely many of them. *)
LEMMA Slots ==
  /\ \A h \in Holder : h \in Slot
  /\ \A th \in Thread : th \in Slot
  /\ \A h \in Holder, th \in Thread : h # th
  /\ None \notin Task /\ None \notin Holder /\ None \notin Thread
  /\ None \notin Exception
  /\ IsFiniteSet(Slot)
<1>1. IsFiniteSet(Slot)
  BY HolderAssumption, FS_Union DEF Slot
<1> QED
  BY <1>1, HolderAssumption DEF Slot

----------------------------------------------------------------------------
(* Counting the slots that point to a task                                 *)

RefsIn(f, t) == {s \in Slot : f[s] = t}

(* g is f but for one slot; g is f with the contents of two slots exchanged. *)
SameBut(f, g, s) == \A x \in Slot : x # s => g[x] = f[x]

Exchanged(f, g, a, b) ==
  \A x \in Slot : g[x] = IF x = b THEN f[a] ELSE IF x = a THEN f[b] ELSE f[x]

(* The slots that point to a task are finitely many. *)
LEMMA RefsFinite ==
  ASSUME NEW f, NEW t
  PROVE  /\ IsFiniteSet(RefsIn(f, t))
         /\ Cardinality(RefsIn(f, t)) \in Nat
         /\ Cardinality(RefsIn(f, t)) = 0 <=> RefsIn(f, t) = {}
<1>1. RefsIn(f, t) \in SUBSET Slot
  BY DEF RefsIn
<1>2. IsFiniteSet(RefsIn(f, t))
  BY <1>1, Slots, FS_Subset
<1> QED
  BY <1>2, FS_CardinalityType, FS_EmptySet

(* A slot that is filled adds one reference to its new task. *)
LEMMA GainCounts ==
  ASSUME NEW f, NEW g, NEW s \in Slot, SameBut(f, g, s),
         NEW u \in Task, f[s] = None, g[s] = u
  PROVE  /\ \A t \in Task : t # u => RefsIn(g, t) = RefsIn(f, t)
         /\ RefsIn(g, u) # {}
         /\ Cardinality(RefsIn(g, u)) = Cardinality(RefsIn(f, u)) + 1
<1>1. \A t \in Task : t # u => RefsIn(g, t) = RefsIn(f, t)
  BY Slots DEF RefsIn, SameBut
<1>2. RefsIn(g, u) = RefsIn(f, u) \cup {s}
  BY Slots DEF RefsIn, SameBut
<1>3. s \notin RefsIn(f, u)
  BY Slots DEF RefsIn, SameBut
<1>4. Cardinality(RefsIn(g, u)) = Cardinality(RefsIn(f, u)) + 1
  <2>1. IsFiniteSet(RefsIn(f, u))
    BY RefsFinite
  <2> HIDE DEF RefsIn
  <2> QED
    BY ONLY <1>2, <1>3, <2>1, FS_AddElement
<1> QED
  BY <1>1, <1>2, <1>4

(* A slot that is emptied takes one reference from its old task. *)
LEMMA LoseCounts ==
  ASSUME NEW f, NEW g, NEW s \in Slot, SameBut(f, g, s),
         NEW u \in Task, f[s] = u, g[s] = None
  PROVE  /\ \A t \in Task : t # u => RefsIn(g, t) = RefsIn(f, t)
         /\ RefsIn(f, u) # {}
         /\ Cardinality(RefsIn(g, u)) = Cardinality(RefsIn(f, u)) - 1
<1>1. \A t \in Task : t # u => RefsIn(g, t) = RefsIn(f, t)
  BY Slots DEF RefsIn, SameBut
<1>2. RefsIn(g, u) = RefsIn(f, u) \ {s}
  BY Slots DEF RefsIn, SameBut
<1>3. s \in RefsIn(f, u)
  BY DEF RefsIn
<1>4. Cardinality(RefsIn(g, u)) = Cardinality(RefsIn(f, u)) - 1
  BY <1>2, <1>3, RefsFinite, FS_RemoveElement
<1> QED
  BY <1>1, <1>3, <1>4

(* Two slots that exchange what they point to leave all counts alone. *)
LEMMA SwapCounts ==
  ASSUME NEW f, NEW g, NEW a \in Slot, NEW b \in Slot,
         a # b, Exchanged(f, g, a, b), NEW t \in Task
  PROVE  /\ Cardinality(RefsIn(g, t)) = Cardinality(RefsIn(f, t))
         /\ RefsIn(g, t) = {} <=> RefsIn(f, t) = {}
<1> DEFINE F == RefsIn(f, t)
           G == RefsIn(g, t)
<1>0. \A s \in Slot : g[s] = IF s = b THEN f[a] ELSE IF s = a THEN f[b] ELSE f[s]
  BY DEF Exchanged
<1>1. CASE f[a] = f[b]
  BY <1>0, <1>1 DEF RefsIn
<1>2. CASE f[a] # t /\ f[b] # t
  BY <1>0, <1>2 DEF RefsIn
<1>3. CASE f[a] = t /\ f[b] # t
  <2>1. G = (F \ {a}) \cup {b} /\ a \in F /\ b \notin F /\ b \in G
    BY <1>0, <1>3 DEF RefsIn
  <2>2. IsFiniteSet(F \ {a}) /\ Cardinality(F \ {a}) = Cardinality(F) - 1
    BY <2>1, RefsFinite, FS_RemoveElement
  <2>3. Cardinality(G) = Cardinality(F \ {a}) + 1
    BY <2>1, <2>2, FS_AddElement
  <2> HIDE DEF F, G
  <2>4. Cardinality(F) \in Nat
    BY RefsFinite DEF F
  <2>5. Cardinality(G) = Cardinality(F) /\ G # {} /\ F # {}
    BY <2>1, <2>2, <2>3, <2>4
  <2> QED
    BY <2>5 DEF F, G
<1>4. CASE f[a] # t /\ f[b] = t
  <2>1. G = (F \ {b}) \cup {a} /\ b \in F /\ a \notin F /\ a \in G
    BY <1>0, <1>4 DEF RefsIn
  <2>2. IsFiniteSet(F \ {b}) /\ Cardinality(F \ {b}) = Cardinality(F) - 1
    BY <2>1, RefsFinite, FS_RemoveElement
  <2>3. Cardinality(G) = Cardinality(F \ {b}) + 1
    BY <2>1, <2>2, FS_AddElement
  <2> HIDE DEF F, G
  <2>4. Cardinality(F) \in Nat
    BY RefsFinite DEF F
  <2>5. Cardinality(G) = Cardinality(F) /\ G # {} /\ F # {}
    BY <2>1, <2>2, <2>3, <2>4
  <2> QED
    BY <2>5 DEF F, G
<1> QED
  BY <1>1, <1>2, <1>3, <1>4
----------------------------------------------------------------------------
(* The parts of the invariant                                              *)

(* The invariants about references, in terms of the holders' contents. *)
LEMMA CountedIn ==
  /\ Counted <=> \A t \in Task : refCount[t] = Cardinality(RefsIn(holds, t))
  /\ Counted' <=> \A t \in Task : refCount'[t] = Cardinality(RefsIn(holds', t))
  /\ HeldWhileReferenced
       <=> \A t \in Task : stage[t] = "held" <=> RefsIn(holds, t) # {}
  /\ HeldWhileReferenced'
       <=> \A t \in Task : stage'[t] = "held" <=> RefsIn(holds', t) # {}
BY DEF Counted, HeldWhileReferenced, Refs, RefsIn

(* Every step keeps the types; a count that goes down was not 0. *)
LEMMA TypeStep ==
  TypeOK /\ CallOK /\ Counted /\ [Next]_vars => TypeOK'
<1> SUFFICES ASSUME TypeOK, CallOK, Counted, [Next]_vars
             PROVE  TypeOK'
  OBVIOUS
<1> USE Slots DEF TypeOK
<1>1. ASSUME NEW th \in Thread, NEW h \in Holder, NEW t \in Task,
            Construct(th, h, t)
      PROVE  TypeOK'
  BY <1>1 DEF Construct, Increment, slot, call, Stage
<1>2. ASSUME NEW th \in Thread, NEW h \in Holder, NEW from \in Holder,
            Copy(th, h, from)
      PROVE  TypeOK'
  <2>1. holds[from] \in Task
    BY <1>2 DEF Copy
  <2> QED
    BY <1>2, <2>1 DEF Copy, Increment, slot, call
<1>3. ASSUME NEW th \in Thread, NEW h \in Holder, NEW from \in Holder,
            Move(th, h, from)
      PROVE  TypeOK'
  BY <1>3 DEF Move, slot, call
<1>4. ASSUME NEW th \in Thread, NEW h \in Holder, NEW from \in Holder,
            CopyAssign(th, h, from)
      PROVE  TypeOK'
  <2>1. holds[from] \in Task
    BY <1>4 DEF CopyAssign
  <2> QED
    BY <1>4, <2>1 DEF CopyAssign, StartAssign, Increment, slot, call
<1>5. ASSUME NEW th \in Thread, NEW h \in Holder, NEW from \in Holder,
            MoveAssign(th, h, from)
      PROVE  TypeOK'
  BY <1>5 DEF MoveAssign, StartAssign, slot, call
<1>6. ASSUME NEW th \in Thread, NEW h \in Holder, Done(th, h)
      PROVE  TypeOK'
  BY <1>6 DEF Done, TakeTask, slot, call
<1>7. ASSUME NEW th \in Thread, NEW h \in Holder, NEW e \in Exception,
            NEW last \in BOOLEAN, Report(th, h, e, last)
      PROVE  TypeOK'
  BY <1>7 DEF Report, slot
<1>8. ASSUME NEW th \in Thread, FinishAssign(th)
      PROVE  TypeOK'
  <2>1. arg[th] \in Holder
    BY <1>8 DEF FinishAssign, CallOK
  <2>2. holds' \in [Slot -> Task \cup {None}]
    BY <1>8, <2>1 DEF FinishAssign
  <2>3. pc' = [pc EXCEPT ![th] = "release"] \/ pc' = [pc EXCEPT ![th] = "idle"]
    BY <1>8 DEF FinishAssign, Return
  <2>4. UNCHANGED <<arg, given, releases>> \/ Return(th)
    BY <1>8 DEF FinishAssign
  <2>5. /\ arg' \in [Thread -> Holder \cup {None}]
        /\ given' \in [Thread -> Exception \cup {None}]
        /\ releases' \in [Thread -> BOOLEAN]
    BY <2>4 DEF Return
  <2>6. UNCHANGED <<refCount, ptr, ptrSet, stage, seen, reported>>
    BY <1>8 DEF FinishAssign, slot
  <2> QED
    BY <2>2, <2>3, <2>5, <2>6
<1>9. ASSUME NEW th \in Thread, Release(th)
      PROVE  TypeOK'
  <2>1. holds[th] \in Task /\ th \in RefsIn(holds, holds[th])
    BY <1>9 DEF Release, CallOK, RefsIn
  <2>2. refCount[holds[th]] # 0
    BY <2>1, RefsFinite, CountedIn
  <2>3. refCount' \in [Task -> Nat]
    BY <1>9, <2>1, <2>2 DEF Release
  <2> QED
    BY <1>9, <2>1, <2>3 DEF Release, Return, slot, Stage
<1>10. ASSUME NEW th \in Thread, Store(th)
      PROVE  TypeOK'
  BY <1>10 DEF Store, slot, call
<1>11. ASSUME NEW th \in Thread, Publish(th)
      PROVE  TypeOK'
  BY <1>11 DEF Publish, slot, call
<1>12. ASSUME NEW th \in Thread, Told(th)
      PROVE  TypeOK'
  <2>1. arg[th] \in Holder
    BY <1>12 DEF Told, CallOK
  <2>2. UNCHANGED <<refCount, ptr, ptrSet, stage, seen, reported>>
    BY <1>12 DEF Told, slot
  <2>3. CASE releases[th]
    <3>1. holds' \in [Slot -> Task \cup {None}] /\ pc' = [pc EXCEPT ![th] = "release"]
      BY <1>12, <2>1, <2>3 DEF Told, TakeTask
    <3> QED
      BY <1>12, <2>2, <2>3, <3>1 DEF Told
  <2>4. CASE ~releases[th]
    BY <1>12, <2>2, <2>4 DEF Told, Return
  <2> QED
    BY <2>3, <2>4
<1>13. ASSUME NEW t \in Task, Execute(t)
      PROVE  TypeOK'
  BY <1>13 DEF Execute, slot, call, Stage
<1>14. ASSUME NEW t \in Task, Recycle(t)
      PROVE  TypeOK'
  BY <1>14 DEF Recycle, slot, call, Stage
<1>15. CASE UNCHANGED vars
  BY <1>15 DEF vars, slot, call
<1> QED
  BY <1>1, <1>2, <1>3, <1>4, <1>5, <1>6, <1>7, <1>8, <1>9, <1>10, <1>11, <1>12, <1>13, <1>14, <1>15
     DEF Next, NewCall, GoOn

(* A holder stays with one call, and the local of a thread is empty between
   calls. *)
LEMMA UseStep ==
  TypeOK /\ CallOK /\ OneUser /\ [Next]_vars => CallOK' /\ OneUser'
<1> SUFFICES ASSUME TypeOK, CallOK, OneUser, [Next]_vars
             PROVE  CallOK' /\ OneUser'
  OBVIOUS
<1> USE Slots DEF TypeOK
<1>1. ASSUME NEW th \in Thread, NEW h \in Holder, NEW t \in Task,
            Construct(th, h, t)
      PROVE  CallOK' /\ OneUser'
  <2>1. CallOK'
    BY <1>1 DEF Construct, MayUse, call, CallOK, OneUser
  <2>2. OneUser'
    BY <1>1 DEF Construct, MayUse, call, CallOK, OneUser
  <2> QED
    BY <2>1, <2>2
<1>2. ASSUME NEW th \in Thread, NEW h \in Holder, NEW from \in Holder,
            Copy(th, h, from)
      PROVE  CallOK' /\ OneUser'
  <2>1. CallOK'
    BY <1>2 DEF Copy, MayUse, call, CallOK, OneUser
  <2>2. OneUser'
    BY <1>2 DEF Copy, MayUse, call, CallOK, OneUser
  <2> QED
    BY <2>1, <2>2
<1>3. ASSUME NEW th \in Thread, NEW h \in Holder, NEW from \in Holder,
            Move(th, h, from)
      PROVE  CallOK' /\ OneUser'
  <2>1. CallOK'
    BY <1>3 DEF Move, MayUse, call, CallOK, OneUser
  <2>2. OneUser'
    BY <1>3 DEF Move, MayUse, call, CallOK, OneUser
  <2> QED
    BY <2>1, <2>2
<1>4. ASSUME NEW th \in Thread, NEW h \in Holder, NEW from \in Holder,
            CopyAssign(th, h, from)
      PROVE  CallOK' /\ OneUser'
  <2>1. CallOK'
    BY <1>4 DEF CopyAssign, MayUse, StartAssign, CallOK, OneUser
  <2>2. OneUser'
    BY <1>4 DEF CopyAssign, MayUse, StartAssign, CallOK, OneUser
  <2> QED
    BY <2>1, <2>2
<1>5. ASSUME NEW th \in Thread, NEW h \in Holder, NEW from \in Holder,
            MoveAssign(th, h, from)
      PROVE  CallOK' /\ OneUser'
  <2>1. CallOK'
    BY <1>5 DEF MoveAssign, MayUse, StartAssign, CallOK, OneUser
  <2>2. OneUser'
    BY <1>5 DEF MoveAssign, MayUse, StartAssign, CallOK, OneUser
  <2> QED
    BY <2>1, <2>2
<1>6. ASSUME NEW th \in Thread, NEW h \in Holder, Done(th, h)
      PROVE  CallOK' /\ OneUser'
  <2>1. CallOK'
    BY <1>6 DEF Done, TakeTask, MayUse, CallOK, OneUser
  <2>2. OneUser'
    BY <1>6 DEF Done, TakeTask, MayUse, CallOK, OneUser
  <2> QED
    BY <2>1, <2>2
<1>7. ASSUME NEW th \in Thread, NEW h \in Holder, NEW e \in Exception,
            NEW last \in BOOLEAN, Report(th, h, e, last)
      PROVE  CallOK' /\ OneUser'
  <2>1. CallOK'
    BY <1>7 DEF Report, MayUse, CallOK, OneUser
  <2>2. OneUser'
    BY <1>7 DEF Report, MayUse, CallOK, OneUser
  <2> QED
    BY <2>1, <2>2
<1>8. ASSUME NEW th \in Thread, FinishAssign(th)
      PROVE  CallOK' /\ OneUser'
  <2>1. CallOK'
    BY <1>8 DEF FinishAssign, Return, CallOK, OneUser
  <2>2. OneUser'
    BY <1>8 DEF FinishAssign, Return, CallOK, OneUser
  <2> QED
    BY <2>1, <2>2
<1>9. ASSUME NEW th \in Thread, Release(th)
      PROVE  CallOK' /\ OneUser'
  <2>1. CallOK'
    BY <1>9 DEF Release, Return, CallOK, OneUser
  <2>2. OneUser'
    BY <1>9 DEF Release, Return, CallOK, OneUser
  <2> QED
    BY <2>1, <2>2
<1>10. ASSUME NEW th \in Thread, Store(th)
      PROVE  CallOK' /\ OneUser'
  <2>1. CallOK'
    BY <1>10 DEF Store, CallOK, OneUser
  <2>2. OneUser'
    BY <1>10 DEF Store, CallOK, OneUser
  <2> QED
    BY <2>1, <2>2
<1>11. ASSUME NEW th \in Thread, Publish(th)
      PROVE  CallOK' /\ OneUser'
  <2>1. CallOK'
    BY <1>11 DEF Publish, CallOK, OneUser
  <2>2. OneUser'
    BY <1>11 DEF Publish, CallOK, OneUser
  <2> QED
    BY <2>1, <2>2
<1>12. ASSUME NEW th \in Thread, Told(th)
      PROVE  CallOK' /\ OneUser'
  <2>1. CallOK'
    BY <1>12 DEF Told, TakeTask, Return, CallOK, OneUser
  <2>2. OneUser'
    BY <1>12 DEF Told, TakeTask, Return, CallOK, OneUser
  <2> QED
    BY <2>1, <2>2
<1>13. ASSUME NEW t \in Task, Execute(t)
      PROVE  CallOK' /\ OneUser'
  <2>1. CallOK'
    BY <1>13 DEF Execute, call, CallOK, OneUser
  <2>2. OneUser'
    BY <1>13 DEF Execute, call, CallOK, OneUser
  <2> QED
    BY <2>1, <2>2
<1>14. ASSUME NEW t \in Task, Recycle(t)
      PROVE  CallOK' /\ OneUser'
  <2>1. CallOK'
    BY <1>14 DEF Recycle, call, CallOK, OneUser
  <2>2. OneUser'
    BY <1>14 DEF Recycle, call, CallOK, OneUser
  <2> QED
    BY <2>1, <2>2
<1>15. CASE UNCHANGED vars
  <2>1. CallOK'
    BY <1>15 DEF vars, call, CallOK, OneUser
  <2>2. OneUser'
    BY <1>15 DEF vars, call, CallOK, OneUser
  <2> QED
    BY <2>1, <2>2
<1> QED
  BY <1>1, <1>2, <1>3, <1>4, <1>5, <1>6, <1>7, <1>8, <1>9, <1>10, <1>11, <1>12, <1>13, <1>14, <1>15
     DEF Next, NewCall, GoOn

(* A slot that is filled, with the count increased, keeps the counts right. *)
LEMMA Gained ==
  ASSUME TypeOK, Counted, HeldWhileReferenced,
         NEW s \in Slot, holds[s] = None, NEW u \in Task,
         SameBut(holds, holds', s), holds'[s] = u, Increment(u),
         \A t \in Task : stage'[t] = IF t = u THEN "held" ELSE stage[t]
  PROVE  Counted' /\ HeldWhileReferenced'
<1> SUFFICES ASSUME NEW t \in Task
             PROVE  /\ refCount'[t] = Cardinality(RefsIn(holds', t))
                    /\ stage'[t] = "held" <=> RefsIn(holds', t) # {}
  BY CountedIn
<1>1. /\ refCount[t] = Cardinality(RefsIn(holds, t))
      /\ stage[t] = "held" <=> RefsIn(holds, t) # {}
  BY CountedIn
<1>2. /\ t # u => RefsIn(holds', t) = RefsIn(holds, t)
      /\ t = u => /\ RefsIn(holds', t) # {}
                  /\ Cardinality(RefsIn(holds', t)) = Cardinality(RefsIn(holds, t)) + 1
  BY GainCounts
<1>3. refCount'[t] = IF t = u THEN refCount[t] + 1 ELSE refCount[t]
  BY DEF TypeOK, Increment
<1> QED
  BY <1>1, <1>2, <1>3

(* Slots that exchange their contents leave the counts right. *)
LEMMA Swapped ==
  ASSUME TypeOK, Counted, HeldWhileReferenced,
         NEW a \in Slot, NEW b \in Slot, a # b,
         holds' = [holds EXCEPT ![a] = holds[b], ![b] = holds[a]],
         UNCHANGED <<refCount, stage>>
  PROVE  Counted' /\ HeldWhileReferenced'
<1> SUFFICES ASSUME NEW t \in Task
             PROVE  /\ refCount'[t] = Cardinality(RefsIn(holds', t))
                    /\ stage'[t] = "held" <=> RefsIn(holds', t) # {}
  BY CountedIn
<1>1. /\ refCount[t] = Cardinality(RefsIn(holds, t))
      /\ stage[t] = "held" <=> RefsIn(holds, t) # {}
  BY CountedIn
<1>2. /\ Cardinality(RefsIn(holds', t)) = Cardinality(RefsIn(holds, t))
      /\ RefsIn(holds', t) = {} <=> RefsIn(holds, t) = {}
  <2>1. Exchanged(holds, holds', a, b)
    BY DEF TypeOK, Exchanged
  <2> QED
    BY <2>1, SwapCounts
<1> QED
  BY <1>1, <1>2

(* A step that moves no reference and neither holds nor releases a task. *)
LEMMA RefsKept ==
  ASSUME Counted, HeldWhileReferenced, UNCHANGED <<holds, refCount>>,
         \A t \in Task : stage'[t] = "held" <=> stage[t] = "held"
  PROVE  Counted' /\ HeldWhileReferenced'
BY CountedIn

(* The last reference taken away, and only that, spawns the task. *)
LEMMA Lost ==
  ASSUME TypeOK, CallOK, Counted, HeldWhileReferenced,
         NEW th \in Thread, Release(th)
  PROVE  Counted' /\ HeldWhileReferenced'
<1> DEFINE u == holds[th]
<1>0. /\ th \in Slot /\ u \in Task
      /\ holds'[th] = None /\ SameBut(holds, holds', th)
  BY Slots DEF TypeOK, CallOK, Release, SameBut
<1> SUFFICES ASSUME NEW t \in Task
             PROVE  /\ refCount'[t] = Cardinality(RefsIn(holds', t))
                    /\ stage'[t] = "held" <=> RefsIn(holds', t) # {}
  BY CountedIn
<1>1. /\ refCount[t] = Cardinality(RefsIn(holds, t))
      /\ stage[t] = "held" <=> RefsIn(holds, t) # {}
  BY CountedIn
<1>2. /\ t # u => RefsIn(holds', t) = RefsIn(holds, t)
      /\ t = u => /\ RefsIn(holds, t) # {}
                  /\ Cardinality(RefsIn(holds', t)) = Cardinality(RefsIn(holds, t)) - 1
  BY <1>0, LoseCounts
<1>3. refCount'[t] = IF t = u THEN refCount[t] - 1 ELSE refCount[t]
  BY <1>0 DEF TypeOK, Release
<1>4. stage'[t] = IF t = u /\ refCount[u] = 1 THEN "spawned" ELSE stage[t]
  BY <1>0 DEF TypeOK, Release
<1>5. /\ Cardinality(RefsIn(holds', t)) \in Nat
      /\ Cardinality(RefsIn(holds', t)) = 0 <=> RefsIn(holds', t) = {}
      /\ Cardinality(RefsIn(holds, t)) \in Nat
  BY RefsFinite
<1> QED
  BY <1>1, <1>2, <1>3, <1>4, <1>5

(* A task that a slot points to is held. *)
LEMMA ReferencedIsHeld ==
  ASSUME HeldWhileReferenced, NEW s \in Slot, holds[s] \in Task
  PROVE  stage[holds[s]] = "held"
<1>1. s \in RefsIn(holds, holds[s])
  BY DEF RefsIn
<1> QED
  BY <1>1, CountedIn

(* Every step keeps the counts of the references, and tasks held. *)
LEMMA CountStep ==
  TypeOK /\ CallOK /\ Counted /\ HeldWhileReferenced /\ [Next]_vars => Counted' /\ HeldWhileReferenced'
<1> SUFFICES ASSUME TypeOK, CallOK, Counted, HeldWhileReferenced, [Next]_vars
             PROVE  Counted' /\ HeldWhileReferenced'
  OBVIOUS
<1>1. ASSUME NEW th \in Thread, NEW h \in Holder, NEW t \in Task,
            Construct(th, h, t)
      PROVE  Counted' /\ HeldWhileReferenced'
  <2>1. \A u \in Task : stage'[u] = IF u = t THEN "held" ELSE stage[u]
    BY <1>1 DEF Construct, TypeOK
  <2> QED
    BY <1>1, <2>1, Slots, Gained DEF Construct, TypeOK, SameBut
<1>2. ASSUME NEW th \in Thread, NEW h \in Holder, NEW from \in Holder,
            Copy(th, h, from)
      PROVE  Counted' /\ HeldWhileReferenced'
  <2>1. from \in Slot /\ h \in Slot /\ holds[from] \in Task
    BY <1>2, Slots DEF Copy, TypeOK
  <2>2. stage[holds[from]] = "held"
    BY <2>1, ReferencedIsHeld
  <2> QED
    BY <1>2, <2>1, <2>2, Gained DEF Copy, TypeOK, SameBut
<1>3. ASSUME NEW th \in Thread, NEW h \in Holder, NEW from \in Holder,
            Move(th, h, from)
      PROVE  Counted' /\ HeldWhileReferenced'
  <2>1. holds' = [holds EXCEPT ![h] = holds[from], ![from] = holds[h]]
    BY <1>3 DEF Move
  <2> QED
    BY <1>3, <2>1, Slots, Swapped DEF Move
<1>4. ASSUME NEW th \in Thread, NEW h \in Holder, NEW from \in Holder,
            CopyAssign(th, h, from)
      PROVE  Counted' /\ HeldWhileReferenced'
  <2>1. from \in Slot /\ th \in Slot /\ holds[from] \in Task
    BY <1>4, Slots DEF CopyAssign, TypeOK
  <2>2. stage[holds[from]] = "held"
    BY <2>1, ReferencedIsHeld
  <2>3. holds[th] = None
    BY <1>4 DEF CopyAssign, MayUse, CallOK
  <2> QED
    BY <1>4, <2>1, <2>2, <2>3, Gained DEF CopyAssign, TypeOK, SameBut
<1>5. ASSUME NEW th \in Thread, NEW h \in Holder, NEW from \in Holder,
            MoveAssign(th, h, from)
      PROVE  Counted' /\ HeldWhileReferenced'
  <2>1. holds' = [holds EXCEPT ![th] = holds[from], ![from] = holds[th]]
    BY <1>5 DEF MoveAssign, MayUse, CallOK
  <2> QED
    BY <1>5, <2>1, Slots, Swapped DEF MoveAssign
<1>6. ASSUME NEW th \in Thread, NEW h \in Holder, Done(th, h)
      PROVE  Counted' /\ HeldWhileReferenced'
  <2>1. holds' = [holds EXCEPT ![h] = holds[th], ![th] = holds[h]]
    BY <1>6 DEF Done, TakeTask, MayUse, CallOK
  <2> QED
    BY <1>6, <2>1, Slots, Swapped DEF Done
<1>7. ASSUME NEW th \in Thread, NEW h \in Holder, NEW e \in Exception,
            NEW last \in BOOLEAN, Report(th, h, e, last)
      PROVE  Counted' /\ HeldWhileReferenced'
  BY <1>7, RefsKept DEF Report
<1>8. ASSUME NEW th \in Thread, FinishAssign(th)
      PROVE  Counted' /\ HeldWhileReferenced'
  <2>1. arg[th] \in Holder
    BY <1>8 DEF FinishAssign, CallOK
  <2> QED
    BY <1>8, <2>1, Slots, Swapped DEF FinishAssign
<1>9. ASSUME NEW th \in Thread, Release(th)
      PROVE  Counted' /\ HeldWhileReferenced'
  BY <1>9, Lost
<1>10. ASSUME NEW th \in Thread, Store(th)
      PROVE  Counted' /\ HeldWhileReferenced'
  BY <1>10, RefsKept DEF Store
<1>11. ASSUME NEW th \in Thread, Publish(th)
      PROVE  Counted' /\ HeldWhileReferenced'
  BY <1>11, RefsKept DEF Publish
<1>12. ASSUME NEW th \in Thread, Told(th)
      PROVE  Counted' /\ HeldWhileReferenced'
  <2>1. arg[th] \in Holder
    BY <1>12 DEF Told, CallOK
  <2>2. CASE releases[th] /\ TakeTask(th, arg[th])
    <3>1. holds' = [holds EXCEPT ![arg[th]] = holds[th], ![th] = holds[arg[th]]]
      BY <1>12, <2>2 DEF Told, TakeTask, CallOK
    <3> QED
      BY <1>12, <2>1, <3>1, Slots, Swapped DEF Told
  <2>3. CASE UNCHANGED holds
    BY <1>12, <2>3, RefsKept DEF Told
  <2> QED
    BY <1>12, <2>2, <2>3 DEF Told
<1>13. ASSUME NEW t \in Task, Execute(t)
      PROVE  Counted' /\ HeldWhileReferenced'
  <2>1. \A u \in Task : stage'[u] = "held" <=> stage[u] = "held"
    BY <1>13 DEF Execute, TypeOK
  <2> QED
    BY <1>13, <2>1, RefsKept DEF Execute
<1>14. ASSUME NEW t \in Task, Recycle(t)
      PROVE  Counted' /\ HeldWhileReferenced'
  <2>1. \A u \in Task : stage'[u] = "held" <=> stage[u] = "held"
    BY <1>14 DEF Recycle, TypeOK
  <2> QED
    BY <1>14, <2>1, RefsKept DEF Recycle
<1>15. CASE UNCHANGED vars
  BY <1>15, RefsKept DEF vars
<1> QED
  BY <1>1, <1>2, <1>3, <1>4, <1>5, <1>6, <1>7, <1>8, <1>9, <1>10, <1>11, <1>12, <1>13, <1>14, <1>15
     DEF Next, NewCall, GoOn

----------------------------------------------------------------------------
(* The exception of a task                                                 *)

(* The threads that have won the exchange of a task and what they were given
   are the same after the step. *)
WritersKept ==
  \A th \in Thread :
    /\ pc'[th] \in {"store", "publish"} <=> pc[th] \in {"store", "publish"}
    /\ pc[th] \in {"store", "publish"}
         => /\ pc'[th] = pc[th]
            /\ given'[th] = given[th]
            /\ holds'[arg'[th]] = holds[arg[th]]

(* A step that is not about exceptions leaves them as they should be. *)
LEMMA ExceptionKept ==
  ASSUME OneWriter, ExceptionOK, WritersKept, UNCHANGED <<ptr, ptrSet, reported>>
  PROVE  OneWriter' /\ ExceptionOK'
<1>1. ASSUME NEW th \in Thread, NEW t \in Task
      PROVE  /\ Storing(th, t)' <=> Storing(th, t)
             /\ Storing(th, t) => given'[th] = given[th] /\ pc'[th] = pc[th]
  BY DEF WritersKept, Storing
<1> QED
  BY <1>1 DEF OneWriter, ExceptionOK

(* Nothing changes for the tasks that were executed. *)
LEMMA SeenKept ==
  ASSUME SeesReportedException, UNCHANGED <<seen, reported>>,
         \A t \in Task : stage'[t] \in {"executing", "deleted"}
                          => stage[t] \in {"executing", "deleted"}
  PROVE  SeesReportedException'
BY DEF SeesReportedException

(* Every step keeps the exceptions: the first is stored by one thread, which
   holds a reference until it is published. *)
LEMMA ExceptionStep ==
  TypeOK /\ CallOK /\ OneUser /\ HeldWhileReferenced /\ OneWriter /\ ExceptionOK /\ SeesReportedException /\ [Next]_vars => OneWriter' /\ ExceptionOK' /\ SeesReportedException'
<1> SUFFICES ASSUME TypeOK, CallOK, OneUser, HeldWhileReferenced, OneWriter, ExceptionOK, SeesReportedException, [Next]_vars
             PROVE  OneWriter' /\ ExceptionOK' /\ SeesReportedException'
  OBVIOUS
<1> USE Slots DEF TypeOK
<1>1. ASSUME NEW th \in Thread, NEW h \in Holder, NEW t \in Task,
            Construct(th, h, t)
      PROVE  OneWriter' /\ ExceptionOK' /\ SeesReportedException'
  <2>1. WritersKept
    BY <1>1 DEF Construct, MayUse, call, WritersKept, CallOK, OneUser
  <2>2. UNCHANGED <<ptr, ptrSet, reported, seen>>
    BY <1>1 DEF Construct, slot
  <2>3. \A u \in Task : stage'[u] \in {"executing", "deleted"}
                         => stage[u] \in {"executing", "deleted"}
    BY <1>1 DEF Construct
  <2> QED
    BY <2>1, <2>2, <2>3, ExceptionKept, SeenKept
<1>2. ASSUME NEW th \in Thread, NEW h \in Holder, NEW from \in Holder,
            Copy(th, h, from)
      PROVE  OneWriter' /\ ExceptionOK' /\ SeesReportedException'
  <2>1. WritersKept
    BY <1>2 DEF Copy, MayUse, call, WritersKept, CallOK, OneUser
  <2>2. UNCHANGED <<ptr, ptrSet, reported, seen>>
    BY <1>2 DEF Copy, slot
  <2>3. \A u \in Task : stage'[u] \in {"executing", "deleted"}
                         => stage[u] \in {"executing", "deleted"}
    BY <1>2 DEF Copy
  <2> QED
    BY <2>1, <2>2, <2>3, ExceptionKept, SeenKept
<1>3. ASSUME NEW th \in Thread, NEW h \in Holder, NEW from \in Holder,
            Move(th, h, from)
      PROVE  OneWriter' /\ ExceptionOK' /\ SeesReportedException'
  <2>1. WritersKept
    BY <1>3 DEF Move, MayUse, call, WritersKept, CallOK, OneUser
  <2>2. UNCHANGED <<ptr, ptrSet, reported, seen>>
    BY <1>3 DEF Move, slot
  <2>3. \A u \in Task : stage'[u] \in {"executing", "deleted"}
                         => stage[u] \in {"executing", "deleted"}
    BY <1>3 DEF Move
  <2> QED
    BY <2>1, <2>2, <2>3, ExceptionKept, SeenKept
<1>4. ASSUME NEW th \in Thread, NEW h \in Holder, NEW from \in Holder,
            CopyAssign(th, h, from)
      PROVE  OneWriter' /\ ExceptionOK' /\ SeesReportedException'
  <2>1. WritersKept
    BY <1>4 DEF CopyAssign, MayUse, StartAssign, WritersKept, CallOK, OneUser
  <2>2. UNCHANGED <<ptr, ptrSet, reported, seen>>
    BY <1>4 DEF CopyAssign, slot
  <2>3. \A u \in Task : stage'[u] \in {"executing", "deleted"}
                         => stage[u] \in {"executing", "deleted"}
    BY <1>4 DEF CopyAssign
  <2> QED
    BY <2>1, <2>2, <2>3, ExceptionKept, SeenKept
<1>5. ASSUME NEW th \in Thread, NEW h \in Holder, NEW from \in Holder,
            MoveAssign(th, h, from)
      PROVE  OneWriter' /\ ExceptionOK' /\ SeesReportedException'
  <2>1. WritersKept
    BY <1>5 DEF MoveAssign, MayUse, StartAssign, WritersKept, CallOK, OneUser
  <2>2. UNCHANGED <<ptr, ptrSet, reported, seen>>
    BY <1>5 DEF MoveAssign, slot
  <2>3. \A u \in Task : stage'[u] \in {"executing", "deleted"}
                         => stage[u] \in {"executing", "deleted"}
    BY <1>5 DEF MoveAssign
  <2> QED
    BY <2>1, <2>2, <2>3, ExceptionKept, SeenKept
<1>6. ASSUME NEW th \in Thread, NEW h \in Holder, Done(th, h)
      PROVE  OneWriter' /\ ExceptionOK' /\ SeesReportedException'
  <2>1. WritersKept
    BY <1>6 DEF Done, TakeTask, MayUse, WritersKept, CallOK, OneUser
  <2>2. UNCHANGED <<ptr, ptrSet, reported, seen>>
    BY <1>6 DEF Done, slot
  <2>3. \A u \in Task : stage'[u] \in {"executing", "deleted"}
                         => stage[u] \in {"executing", "deleted"}
    BY <1>6 DEF Done
  <2> QED
    BY <2>1, <2>2, <2>3, ExceptionKept, SeenKept
<1>7. ASSUME NEW th \in Thread, NEW h \in Holder, NEW e \in Exception,
            NEW last \in BOOLEAN, Report(th, h, e, last)
      PROVE  OneWriter' /\ ExceptionOK' /\ SeesReportedException'
  <2>0. PICK t \in Task : t = holds[h] /\ stage[t] = "held"
    BY <1>7, ReferencedIsHeld, Slots DEF Report
  <2>1. SeesReportedException'
    BY <1>7, <2>0 DEF Report, SeesReportedException
  <2>2. ASSUME NEW x \in Thread, NEW u \in Task, x # th
        PROVE  /\ Storing(x, u)' <=> Storing(x, u)
               /\ pc'[x] = pc[x] /\ given'[x] = given[x]
    BY <1>7, <2>2 DEF Report, Storing
  <2>3. ASSUME NEW u \in Task
        PROVE  ~Storing(th, u)
    BY <1>7 DEF Report, MayUse, Storing
  <2>4. /\ \A u \in Task : u # t => ptrSet'[u] = ptrSet[u] /\ reported'[u] = reported[u]
        /\ ptr' = ptr
        /\ reported'[t] = reported[t] \cup {e} /\ given'[th] = e
    BY <1>7, <2>0 DEF Report
  <2>5. CASE ptrSet[t] = "kUnset"
    <3>1. pc'[th] = "store" /\ ptrSet'[t] = "kSetting"
      BY <1>7, <2>0, <2>5 DEF Report
    <3>2. \A u \in Task : Storing(th, u)' <=> u = t
      BY <1>7, <2>0, <3>1 DEF Storing, Report
    <3>3. \A x \in Thread : ~Storing(x, t)
      BY <2>0, <2>5 DEF ExceptionOK
    <3>4. OneWriter'
      BY <2>2, <3>2, <3>3 DEF OneWriter
    <3>5. ASSUME NEW u \in Task, u # t
          PROVE  /\ ptrSet'[u] = ptrSet[u] /\ reported'[u] = reported[u]
                 /\ \A x \in Thread :
                      /\ Storing(x, u)' <=> Storing(x, u)
                      /\ Storing(x, u) => given'[x] = given[x] /\ pc'[x] = pc[x]
      BY <3>5, <2>2, <2>3, <2>4, <3>2
    <3>6. \A x \in Thread : Storing(x, t)' <=> x = th
      BY <2>0, <2>2, <3>2, <3>3
    <3>7. ExceptionOK'
      BY <2>0, <2>4, <3>1, <3>5, <3>6 DEF ExceptionOK
    <3> QED
      BY <2>1, <3>4, <3>7
  <2>6. CASE ptrSet[t] # "kUnset"
    <3>1. pc'[th] = "told" /\ ptrSet' = ptrSet
      BY <1>7, <2>0, <2>6 DEF Report
    <3>2. \A x \in Thread, u \in Task :
            /\ Storing(x, u)' <=> Storing(x, u)
            /\ Storing(x, u) => given'[x] = given[x] /\ pc'[x] = pc[x]
      <4>1. \A u \in Task : ~Storing(th, u)'
        BY <3>1 DEF Storing
      <4> QED
        BY <4>1, <2>2, <2>3
    <3>3. OneWriter'
      BY <3>2 DEF OneWriter
    <3>4. \A u \in Task : reported[u] \subseteq reported'[u]
      BY <2>4
    <3>5. ExceptionOK'
      BY <2>0, <2>4, <2>6, <3>1, <3>2, <3>4 DEF ExceptionOK
    <3> QED
      BY <2>1, <3>3, <3>5
  <2> QED
    BY <2>5, <2>6
<1>8. ASSUME NEW th \in Thread, FinishAssign(th)
      PROVE  OneWriter' /\ ExceptionOK' /\ SeesReportedException'
  <2>1. WritersKept
    BY <1>8 DEF FinishAssign, Return, WritersKept, CallOK, OneUser
  <2>2. UNCHANGED <<ptr, ptrSet, reported, seen>>
    BY <1>8 DEF FinishAssign, slot
  <2>3. \A u \in Task : stage'[u] \in {"executing", "deleted"}
                         => stage[u] \in {"executing", "deleted"}
    BY <1>8 DEF FinishAssign
  <2> QED
    BY <2>1, <2>2, <2>3, ExceptionKept, SeenKept
<1>9. ASSUME NEW th \in Thread, Release(th)
      PROVE  OneWriter' /\ ExceptionOK' /\ SeesReportedException'
  <2>1. WritersKept
    BY <1>9 DEF Release, Return, WritersKept, CallOK, OneUser
  <2>2. UNCHANGED <<ptr, ptrSet, reported, seen>>
    BY <1>9 DEF Release, slot
  <2>3. \A u \in Task : stage'[u] \in {"executing", "deleted"}
                         => stage[u] \in {"executing", "deleted"}
    BY <1>9 DEF Release
  <2> QED
    BY <2>1, <2>2, <2>3, ExceptionKept, SeenKept
<1>10. ASSUME NEW th \in Thread, Store(th)
      PROVE  OneWriter' /\ ExceptionOK' /\ SeesReportedException'
  <2>0. PICK t \in Task : t = holds[arg[th]] /\ Storing(th, t)
    BY <1>10 DEF Store, CallOK, Storing
  <2>1. /\ ptr' = [ptr EXCEPT ![t] = given[th]] /\ pc'[th] = "publish"
        /\ UNCHANGED <<ptrSet, given, reported, seen, stage, holds, arg>>
    BY <1>10, <2>0 DEF Store
  <2>2. \A x \in Thread, u \in Task : Storing(x, u)' <=> Storing(x, u)
    BY <1>10 DEF Store, Storing
  <2>3. OneWriter'
    BY <2>2 DEF OneWriter
  <2>4. \A u \in Task : u # t => ptr'[u] = ptr[u]
    BY <2>1
  <2>5. ptr'[t] = given[th] /\ ptrSet[t] = "kSetting"
    BY <2>0, <2>1 DEF ExceptionOK
  <2>6. \A x \in Thread : Storing(x, t) => x = th
    BY <2>0 DEF OneWriter
  <2>7. \A x \in Thread : x # th => pc'[x] = pc[x]
    BY <1>10 DEF Store
  <2>8. \A u \in Task : u # t => ~Storing(th, u)
    BY <2>0 DEF Storing
  <2>9. ASSUME NEW u \in Task
        PROVE  /\ ptrSet'[u] = "kUnset" => ptr'[u] = None /\ reported'[u] = {}
               /\ ptrSet'[u] = "kSetting" <=> \E x \in Thread : Storing(x, u)'
               /\ ptrSet'[u] = "kSet" => ptr'[u] \in reported'[u]
    BY <2>1, <2>2, <2>4, <2>5 DEF ExceptionOK
  <2>10. ASSUME NEW u \in Task, NEW x \in Thread, Storing(x, u)
         PROVE  /\ given'[x] \in reported'[u]
                /\ pc'[x] = "publish" => ptr'[u] = given'[x]
    <3>1. given[x] \in reported[u] /\ (pc[x] = "publish" => ptr[u] = given[x])
      BY <2>10 DEF ExceptionOK
    <3>2. CASE u = t
      BY <2>10, <2>1, <2>5, <2>6, <3>1, <3>2
    <3>3. CASE u # t
      BY <2>10, <2>1, <2>4, <2>7, <2>8, <3>1, <3>3
    <3> QED
      BY <3>2, <3>3
  <2>11. ExceptionOK'
    BY <2>2, <2>9, <2>10 DEF ExceptionOK
  <2> QED
    BY <2>1, <2>3, <2>11, SeenKept
<1>11. ASSUME NEW th \in Thread, Publish(th)
      PROVE  OneWriter' /\ ExceptionOK' /\ SeesReportedException'
  <2>0. PICK t \in Task : t = holds[arg[th]] /\ Storing(th, t)
    BY <1>11 DEF Publish, CallOK, Storing
  <2>1. /\ ptrSet' = [ptrSet EXCEPT ![t] = "kSet"] /\ pc'[th] = "told"
        /\ UNCHANGED <<ptr, given, reported, seen, stage, holds, arg>>
    BY <1>11, <2>0 DEF Publish
  <2>2. \A x \in Thread, u \in Task : x # th => (Storing(x, u)' <=> Storing(x, u))
    BY <1>11 DEF Publish, Storing
  <2>3. \A u \in Task : ~Storing(th, u)'
    BY <2>1 DEF Storing
  <2>4. OneWriter'
    BY <2>2, <2>3 DEF OneWriter
  <2>5. \A x \in Thread : ~Storing(x, t)'
    BY <2>0, <2>2, <2>3 DEF OneWriter
  <2>6. ptrSet'[t] = "kSet" /\ ptr[t] \in reported[t]
    BY <1>11, <2>0, <2>1 DEF ExceptionOK, Publish
  <2>7. ASSUME NEW u \in Task, u # t
        PROVE  /\ ptrSet'[u] = ptrSet[u]
               /\ \A x \in Thread : Storing(x, u)' <=> Storing(x, u)
    <3>1. ~Storing(th, u)
      BY <2>0, <2>7 DEF Storing
    <3> QED
      BY <2>7, <3>1, <2>1, <2>2, <2>3
  <2>8. \A x \in Thread : x # th => pc'[x] = pc[x]
    BY <1>11 DEF Publish
  <2>9. ExceptionOK'
    <3> SUFFICES ASSUME NEW u \in Task
                 PROVE  /\ ptrSet'[u] = "kUnset" => ptr'[u] = None /\ reported'[u] = {}
                        /\ ptrSet'[u] = "kSetting" <=> \E x \in Thread : Storing(x, u)'
                        /\ ptrSet'[u] = "kSet" => ptr'[u] \in reported'[u]
                        /\ \A x \in Thread :
                             Storing(x, u)' => /\ given'[x] \in reported'[u]
                                               /\ pc'[x] = "publish" => ptr'[u] = given'[x]
      BY DEF ExceptionOK
    <3>1. CASE u = t
      BY <2>1, <2>5, <2>6, <3>1
    <3>2. CASE u # t
      BY <2>1, <2>3, <2>7, <2>8, <3>2 DEF ExceptionOK
    <3> QED
      BY <3>1, <3>2
  <2> QED
    BY <2>1, <2>4, <2>9, SeenKept
<1>12. ASSUME NEW th \in Thread, Told(th)
      PROVE  OneWriter' /\ ExceptionOK' /\ SeesReportedException'
  <2>1. WritersKept
    BY <1>12 DEF Told, TakeTask, Return, WritersKept, CallOK, OneUser
  <2>2. UNCHANGED <<ptr, ptrSet, reported, seen>>
    BY <1>12 DEF Told, slot
  <2>3. \A u \in Task : stage'[u] \in {"executing", "deleted"}
                         => stage[u] \in {"executing", "deleted"}
    BY <1>12 DEF Told
  <2> QED
    BY <2>1, <2>2, <2>3, ExceptionKept, SeenKept
<1>13. ASSUME NEW t \in Task, Execute(t)
      PROVE  OneWriter' /\ ExceptionOK' /\ SeesReportedException'
  <2>1. WritersKept
    BY <1>13 DEF Execute, call, WritersKept
  <2>2. UNCHANGED <<ptr, ptrSet, reported>>
    BY <1>13 DEF Execute, slot
  <2>3. OneWriter' /\ ExceptionOK'
    BY <2>1, <2>2, ExceptionKept
  <2>4. \A x \in Thread : ~Storing(x, t)
    BY <1>13, ReferencedIsHeld, Slots DEF Execute, Storing, CallOK
  <2>5. IF reported[t] = {} THEN ptr[t] = None ELSE ptr[t] \in reported[t]
    BY <2>4 DEF ExceptionOK, TypeOK
  <2>6. /\ seen'[t] = ptr[t] /\ reported' = reported
        /\ \A u \in Task : u # t => seen'[u] = seen[u] /\ stage'[u] = stage[u]
    BY <1>13 DEF Execute, TypeOK
  <2>7. SeesReportedException'
    BY <2>5, <2>6 DEF SeesReportedException
  <2> QED
    BY <2>3, <2>7
<1>14. ASSUME NEW t \in Task, Recycle(t)
      PROVE  OneWriter' /\ ExceptionOK' /\ SeesReportedException'
  <2>1. WritersKept
    BY <1>14 DEF Recycle, call, WritersKept, CallOK, OneUser
  <2>2. UNCHANGED <<ptr, ptrSet, reported, seen>>
    BY <1>14 DEF Recycle, slot
  <2>3. \A u \in Task : stage'[u] \in {"executing", "deleted"}
                         => stage[u] \in {"executing", "deleted"}
    BY <1>14 DEF Recycle
  <2> QED
    BY <2>1, <2>2, <2>3, ExceptionKept, SeenKept
<1>15. CASE UNCHANGED vars
  <2>1. WritersKept
    BY <1>15 DEF vars, call, WritersKept, CallOK, OneUser
  <2>2. UNCHANGED <<ptr, ptrSet, reported, seen>>
    BY <1>15 DEF vars
  <2>3. \A u \in Task : stage'[u] \in {"executing", "deleted"}
                         => stage[u] \in {"executing", "deleted"}
    BY <1>15 DEF vars
  <2> QED
    BY <2>1, <2>2, <2>3, ExceptionKept, SeenKept
<1> QED
  BY <1>1, <1>2, <1>3, <1>4, <1>5, <1>6, <1>7, <1>8, <1>9, <1>10, <1>11, <1>12, <1>13, <1>14, <1>15
     DEF Next, NewCall, GoOn

----------------------------------------------------------------------------
(* The theorems                                                            *)

(* Initially nothing is held, reported or executed. *)
LEMMA InitInv ==
  Init => IInv
<1> SUFFICES ASSUME Init
             PROVE  IInv
  OBVIOUS
<1> USE Slots DEF Init
<1>1. TypeOK
  BY DEF TypeOK, Stage
<1>2. CallOK /\ OneUser
  BY DEF CallOK, OneUser
<1>3. \A t \in Task : RefsIn(holds, t) = {}
  BY DEF RefsIn
<1>4. Counted /\ HeldWhileReferenced
  BY <1>3, CountedIn, RefsFinite
<1>5. OneWriter /\ ExceptionOK
  BY DEF OneWriter, ExceptionOK, Storing
<1>6. SeesReportedException
  BY DEF SeesReportedException
<1> QED
  BY <1>1, <1>2, <1>4, <1>5, <1>6 DEF IInv

(* Every step keeps the inductive invariant. *)
LEMMA NextInv ==
  IInv /\ [Next]_vars => IInv'
<1> SUFFICES ASSUME IInv, [Next]_vars
             PROVE  IInv'
  OBVIOUS
<1>1. /\ TypeOK /\ CallOK /\ OneUser /\ Counted /\ HeldWhileReferenced
      /\ OneWriter /\ ExceptionOK /\ SeesReportedException
  BY DEF IInv
<1>2. TypeOK'
  BY <1>1, TypeStep
<1>3. CallOK' /\ OneUser'
  BY <1>1, UseStep
<1>4. Counted' /\ HeldWhileReferenced'
  BY <1>1, CountStep
<1>5. OneWriter' /\ ExceptionOK' /\ SeesReportedException'
  BY <1>1, ExceptionStep
<1> QED
  BY <1>2, <1>3, <1>4, <1>5 DEF IInv

(* Whatever the calls of dependentTaskFailed, in whatever order: an exception
   that was published is not replaced. *)
LEMMA PublishedStays ==
  IInv /\ [Next]_vars
    => [\A t \in Task : ptrSet[t] = "kSet"
                          => ptr'[t] = ptr[t] /\ ptrSet'[t] = "kSet"]_vars
<1> SUFFICES ASSUME IInv, [Next]_vars, NEW t \in Task, ptrSet[t] = "kSet"
             PROVE  ptr'[t] = ptr[t] /\ ptrSet'[t] = "kSet"
  OBVIOUS
<1>1. TypeOK /\ CallOK /\ ExceptionOK
  BY DEF IInv
<1>2. \A th \in Thread : ~Storing(th, t)
  BY <1>1 DEF ExceptionOK
<1>3. CASE \E th \in Thread : Store(th) \/ Publish(th)
  <2> PICK th \in Thread : Store(th) \/ Publish(th)
    BY <1>3
  <2>1. holds[arg[th]] # t
    BY <1>2 DEF Store, Publish, Storing
  <2> QED
    BY <2>1, <1>1 DEF Store, Publish, TypeOK
<1>4. CASE \E th \in Thread, h \in Holder, e \in Exception, last \in BOOLEAN :
             Report(th, h, e, last)
  BY <1>1, <1>4 DEF Report, TypeOK
<1>5. CASE UNCHANGED slot
  BY <1>5 DEF slot
<1>6. \/ UNCHANGED slot
      \/ \E th \in Thread : Store(th) \/ Publish(th)
      \/ \E th \in Thread, h \in Holder, e \in Exception, last \in BOOLEAN :
           Report(th, h, e, last)
  BY DEF Next, NewCall, GoOn, Construct, Copy, Move, CopyAssign, MoveAssign, Done,
         FinishAssign, Release, Told, Execute, Recycle, vars, slot
<1> QED
  BY <1>3, <1>4, <1>5, <1>6

(* The invariant of TaskBase, WaitingTask and WaitingTaskHolder together. *)
THEOREM Invariance == Spec => []IInv
BY InitInv, NextInv, PTL DEF Spec

(* The members keep their types; no reference count goes below 0. *)
THEOREM TypeCorrect == Spec => []TypeOK
<1>1. IInv => TypeOK
  BY DEF IInv
<1> QED
  BY <1>1, Invariance, PTL

(* doneWaiting, the destructor and the assignments hand a task to its group
   exactly when its last reference is gone. *)
THEOREM SpawnedWhenUnreferenced == Spec => []HeldWhileReferenced
<1>1. IInv => HeldWhileReferenced
  BY DEF IInv
<1> QED
  BY <1>1, Invariance, PTL

(* The unchecked read of m_ptr in execute finds an exception that was
   reported, if one was. *)
THEOREM ExceptionReachesTask == Spec => []SeesReportedException
<1>1. IInv => SeesReportedException
  BY DEF IInv
<1> QED
  BY <1>1, Invariance, PTL

(* The first exception dependentTaskFailed publishes stays. *)
THEOREM FirstExceptionWins == Spec => FirstExceptionStays
BY Invariance, PublishedStays, PTL DEF Spec, FirstExceptionStays

----------------------------------------------------------------------------
(* TaskChain: the inductive invariant                                      *)

ChainTypeOK ==
  /\ enqueued \in SUBSET Task
  /\ handle \in {"deferred", "queued", "run"}
  /\ func \in {"queued", "running", "returned"}
  /\ waiter \in {"waiting", "returned"}
  /\ result \in Exception \cup {None}
  /\ kind \in [Functor -> {"auto", "handlesExceptions"}]
  /\ wanted \in [Functor -> BOOLEAN] /\ wanted[Chain[1]]
  /\ built \in {"no", "lastTask", "runLast"}
  /\ running \in [Thread -> Functor \cup {None}]
  /\ phase \in [Thread -> {"f_", "except_", "out"}]

(* Until the chain is built only iFunc has a holder, that of the final task. *)
BeforeBuilt ==
  /\ func = "queued" => built = "no" /\ holds[Start] = None
  /\ func = "returned" => built # "no"
  /\ built = "no" =>
       /\ func = "running" => holds[Start] = Final
       /\ \A s \in Slot : s # Start => holds[s] = None
       /\ \A th \in Thread : arg[th] \in Free \cup {None} /\ running[th] = None
       /\ \A t \in Functor : stage[t] = "new"

(* Tasks are made for functors that are wanted, and for nothing else. *)
TaskMade ==
  \A t \in Task : stage[t] = "new" \/ t = Final \/ (t \in Functor /\ wanted[t])

(* A functor is run by one thread, as a task or as the direct call of runLast. *)
RunsOK ==
  /\ \A th \in Thread : running[th] # None =>
       LET t == running[th] IN
       /\ wanted[t]
       /\ \/ stage[t] = "executing"
          \/ stage[t] = "new" /\ built = "runLast" /\ t = Chain[1] /\ phase[th] # "except_"
  /\ \A a, b \in Thread : running[a] = running[b] /\ running[a] # None => a = b

(* The holder that the lambda of t captured was not touched yet: t has not *)
(* run, or is at the point where its wrapper still keeps the holder.       *)
Intact(t) ==
  \/ stage[t] \in {"held", "spawned"}
  \/ \E th \in Thread :
       /\ running[th] = t
       /\ phase[th] = "except_" \/ (phase[th] = "f_" /\ kind[t] = "auto")

(* While it is, it keeps the next task, and with it all that follow, from  *)
(* being spawned.                                                          *)
CapturesKept ==
  \A t \in Functor : Intact(t) =>
    /\ holds[Capture[t]] = After(t)
    /\ \A th \in Thread : arg[th] # Capture[t]

FollowersHeld ==
  \A t \in Functor : Intact(t) =>
    \A u \in Behind(t) \cup {Final} : stage[u] = "held"

(* What t was executed with reaches the task after it before t is deleted. *)
PassesOn ==
  /\ \A t \in Task : stage[t] = "new" => reported[t] = {}
  /\ \A th \in Thread : running[th] # None =>
       LET t == running[th] IN
       /\ phase[th] = "except_" => seen[t] \in Exception
       /\ phase[th] = "f_" /\ kind[t] = "auto" => reported[t] = {}
       /\ phase[th] = "out" /\ kind[t] = "auto" /\ reported[t] # {}
            => reported[After(t)] # {}
  /\ \A t \in Functor :
       stage[t] = "deleted" /\ kind[t] = "auto" /\ reported[t] # {}
         => reported[After(t)] # {}

(* The handle is deferred until the final task is deleted, and syncWait    *)
(* returns after iFunc.                                                    *)
WaitOK ==
  /\ handle = "deferred" <=> stage[Final] # "deleted"
  /\ waiter = "returned" => func = "returned"

ChainInv ==
  /\ IInv /\ ChainTypeOK /\ BeforeBuilt /\ TaskMade /\ RunsOK /\ CapturesKept
  /\ FollowersHeld /\ PassesOn /\ WaitOK /\ WaitsForAll /\ FailuresReachWaiter

----------------------------------------------------------------------------
(* The order of the functors                                               *)

(* Every nonempty set of natural numbers has a least one. *)
LEMMA NatMin ==
  ASSUME NEW T, T \subseteq Nat, T # {}
  PROVE  \E n \in T : \A m \in T : n <= m
<1> DEFINE R == OpToRel(<, Nat)
<1>1. IsWellFoundedOn(R, Nat)
  BY NatLessThanWellFounded
<1>2. \A x, y \in Nat : <<x, y>> \in R <=> x < y
  BY DEF OpToRel
<1> HIDE DEF R
<1>3. \E x \in T : \A y \in T : ~(<<y, x>> \in R)
  BY <1>1, WFMin
<1>4. PICK n \in T : \A y \in T : ~(<<y, n>> \in R)
  BY <1>3
<1>5. \A m \in T : ~(m < n)
  BY <1>2, <1>4, Zenon
<1>6. n \in Nat /\ \A m \in T : m \in Nat
  OBVIOUS
<1>7. \A m \in T : n <= m
  BY <1>5, <1>6
<1> QED
  BY <1>7

(* Every nonempty set of numbers up to n has a greatest one. *)
LEMMA NatMax ==
  ASSUME NEW n \in Nat, NEW T, T \subseteq 0..n, T # {}
  PROVE  \E k \in T : \A m \in T : m <= k
<1> DEFINE D == {d \in Nat : \E k \in T : d = n - k}
<1>1. \A k \in T : k \in Int /\ n - k \in Nat
  OBVIOUS
<1>2. \A k \in T : n - k \in D
  BY <1>1
<1>3. D \subseteq Nat /\ D # {}
  BY <1>2
<1>4. PICK d \in D : \A e \in D : d <= e
  BY <1>3, NatMin
<1>5. PICK k \in T : d = n - k
  OBVIOUS
<1>6. \A m \in T : d <= n - m
  BY <1>2, <1>4
<1>7. \A m \in T : m <= k
  <2> SUFFICES ASSUME NEW m \in T
               PROVE  m <= k
    OBVIOUS
  <2>1. n - k <= n - m /\ k \in Int /\ m \in Int
    BY <1>1, <1>5, <1>6
  <2> QED
    BY <2>1
<1> QED
  BY <1>7

(* The positions of the functors, one each; the final task is none of them. *)
LEMMA Positions ==
  /\ Len(Chain) \in Nat /\ 1 \in 1..Len(Chain) /\ DOMAIN Chain = 1..Len(Chain)
  /\ \A i \in 1..Len(Chain) : Chain[i] \in Functor
  /\ \A t \in Functor : \E i \in 1..Len(Chain) : Chain[i] = t
  /\ \A i, j \in 1..Len(Chain) : Chain[i] = Chain[j] => i = j
  /\ Functor \subseteq Task /\ Final \in Task /\ Final \notin Functor
  /\ Chain[1] \in Functor
<1>1. Chain \in Seq(Task \ {Final}) /\ Chain # <<>> /\ IsInjective(Chain)
  BY ChainAssumption
<1>2. Len(Chain) \in Nat /\ 1 \in 1..Len(Chain) /\ DOMAIN Chain = 1..Len(Chain)
  BY <1>1
<1>3. Functor = {Chain[i] : i \in 1..Len(Chain)}
  BY <1>2 DEF Functor, ToSet
<1>4. \A i \in 1..Len(Chain) : Chain[i] \in Task \ {Final}
  BY <1>1
<1>5. \A i, j \in 1..Len(Chain) : Chain[i] = Chain[j] => i = j
  BY <1>1, <1>2 DEF IsInjective
<1> QED
  BY <1>2, <1>3, <1>4, <1>5, SyncWaitAssumption

(* After(t) in terms of the position of t: the next wanted one, if any. *)
LEMMA AfterAt ==
  ASSUME NEW j \in 1..Len(Chain)
  PROVE  LET later == {i \in 1..Len(Chain) : wanted[Chain[i]] /\ j < i}
         IN /\ later = {} => After(Chain[j]) = Final
            /\ later # {} => \E i \in later : /\ After(Chain[j]) = Chain[i]
                                             /\ \A k \in later : i <= k
<1> DEFINE later == {i \in 1..Len(Chain) : wanted[Chain[i]] /\ j < i}
           defined == {i \in 1..Len(Chain) : /\ wanted[Chain[i]]
                                             /\ \E k \in 1..(i - 1) : Chain[k] = Chain[j]}
<1>1. \A i \in 1..Len(Chain) : (\E k \in 1..(i - 1) : Chain[k] = Chain[j]) <=> j < i
  <2> SUFFICES ASSUME NEW i \in 1..Len(Chain)
               PROVE  (\E k \in 1..(i - 1) : Chain[k] = Chain[j]) <=> j < i
    OBVIOUS
  <2>1. Len(Chain) \in Nat
    BY Positions
  <2>2. ASSUME NEW k \in 1..(i - 1), Chain[k] = Chain[j]
        PROVE  j < i
    <3>1. k \in 1..Len(Chain)
      BY <2>1
    <3>2. k = j
      BY <2>2, <3>1, Positions
    <3> QED
      BY <2>1, <3>2
  <2>3. j < i => j \in 1..(i - 1)
    BY <2>1
  <2> QED
    BY <2>2, <2>3
<1>2. defined = later
  BY <1>1
<1>3. After(Chain[j]) = IF defined = {} THEN Final ELSE Chain[Min(defined)]
  BY DEF After
<1>4. After(Chain[j]) = IF later = {} THEN Final ELSE Chain[Min(later)]
  BY <1>2, <1>3
<1>5. ASSUME later # {}
      PROVE  \E i \in later : After(Chain[j]) = Chain[i] /\ \A k \in later : i <= k
  <2>1. later \subseteq Nat
    BY Positions
  <2>2. \E i \in later : \A k \in later : i <= k
    BY <1>5, <2>1, NatMin
  <2>3. Min(later) \in later /\ \A k \in later : Min(later) <= k
    BY <2>2 DEF Min
  <2> QED
    BY <1>4, <1>5, <2>3
<1> QED
  BY <1>4, <1>5

(* The functors behind the one at a position, by their positions. *)
LEMMA BehindAt ==
  ASSUME NEW j \in 1..Len(Chain)
  PROVE  /\ Behind(Chain[j]) \subseteq Functor
         /\ \A i \in 1..Len(Chain) :
              Chain[i] \in Behind(Chain[j]) <=> wanted[Chain[i]] /\ j < i
<1> USE Positions
<1>1. Behind(Chain[j]) \subseteq Functor
  BY DEF Behind
<1>2. ASSUME NEW i \in 1..Len(Chain)
      PROVE  Chain[i] \in Behind(Chain[j]) <=> wanted[Chain[i]] /\ j < i
  <2>1. ASSUME Chain[i] \in Behind(Chain[j])
        PROVE  wanted[Chain[i]] /\ j < i
    <3>1. PICK k \in 1..Len(Chain), m \in 1..Len(Chain) :
                 k > m /\ Chain[k] = Chain[i] /\ Chain[m] = Chain[j]
      BY <2>1 DEF Behind
    <3>2. k = i /\ m = j
      BY <3>1
    <3> QED
      BY <2>1, <3>1, <3>2 DEF Behind
  <2>2. ASSUME wanted[Chain[i]], j < i
        PROVE  Chain[i] \in Behind(Chain[j])
    BY <2>2 DEF Behind
  <2> QED
    BY <2>1, <2>2
<1> QED
  BY <1>1, <1>2

(* What is behind t, or final, comes directly after t or after one behind t. *)
LEMMA Predecessor ==
  ASSUME NEW t \in Functor, NEW u \in Behind(t) \cup {Final}
  PROVE  \E p \in {t} \cup Behind(t) : After(p) = u
<1>1. PICK j \in 1..Len(Chain) : Chain[j] = t
  BY Positions
<1>2. PICK n \in Nat : /\ n <= Len(Chain) + 1 /\ j < n
                       /\ n <= Len(Chain) => wanted[Chain[n]] /\ Chain[n] = u
                       /\ n = Len(Chain) + 1 => u = Final
  <2>1. CASE u = Final
    BY <2>1, Positions
  <2>2. CASE u \in Behind(t)
    <3>1. u \in Functor
      BY <1>1, <2>2, BehindAt
    <3>2. PICK i \in 1..Len(Chain) : Chain[i] = u
      BY <3>1, Positions
    <3>3. wanted[Chain[i]] /\ j < i
      BY <1>1, <2>2, <3>2, BehindAt
    <3>4. i \in Nat /\ i <= Len(Chain) + 1 /\ i # Len(Chain) + 1
      BY Positions
    <3> QED
      BY <3>2, <3>3, <3>4
  <2> QED
    BY <2>1, <2>2
<1> DEFINE T == {k \in 1..Len(Chain) : k < n /\ (k = j \/ (wanted[Chain[k]] /\ j < k))}
<1>3. Len(Chain) \in Nat /\ T \subseteq 0..Len(Chain) /\ j \in T
  BY <1>2, Positions
<1>4. PICK k \in T : \A m \in T : m <= k
  BY <1>3, NatMax
<1>5. Chain[k] \in {t} \cup Behind(t)
  BY <1>1, <1>4, BehindAt
<1>6. j <= k /\ k < n
  BY <1>3, <1>4
<1> DEFINE later == {i \in 1..Len(Chain) : wanted[Chain[i]] /\ k < i}
<1>7. \A i \in later : n <= i
  <2> SUFFICES ASSUME NEW i \in later, i < n
               PROVE  FALSE
    BY <1>2, Positions
  <2>1. i \in T
    BY <1>3, <1>6
  <2> QED
    BY <1>3, <1>4, <2>1
<1>8. After(Chain[k]) = u
  <2>1. CASE n = Len(Chain) + 1
    <3>1. later = {}
      BY <1>3, <1>7, <2>1
    <3> QED
      BY <1>2, <2>1, <3>1, AfterAt
  <2>2. CASE n <= Len(Chain)
    <3>1. n \in later
      BY <1>2, <1>3, <1>6, <2>2
    <3>2. PICK i \in later : After(Chain[k]) = Chain[i] /\ \A m \in later : i <= m
      BY <3>1, AfterAt
    <3>3. i = n
      BY <1>7, <3>1, <3>2
    <3> QED
      BY <1>2, <2>2, <3>2, <3>3
  <2> QED
    BY <1>2, <1>3, <2>1, <2>2
<1> QED
  BY <1>5, <1>8

(* What comes after a functor is behind it, or final. *)
LEMMA AfterIsBehind ==
  ASSUME NEW t \in Functor
  PROVE  /\ After(t) \in Behind(t) \cup {Final} /\ After(t) \in Task
         /\ After(t) # Chain[1]
         /\ After(t) # Final => /\ Behind(After(t)) \subseteq Behind(t)
                               /\ wanted[After(t)]
<1> USE Positions
<1>1. PICK j \in 1..Len(Chain) : Chain[j] = t
  OBVIOUS
<1>2. CASE After(t) = Final
  BY <1>2
<1>3. CASE After(t) # Final
  <2>1. PICK i \in 1..Len(Chain) : wanted[Chain[i]] /\ j < i /\ After(t) = Chain[i]
    BY <1>1, <1>3, AfterAt
  <2>2. After(t) \in Behind(t)
    BY <1>1, <2>1, BehindAt
  <2>3. i # 1
    BY <2>1
  <2>4. ASSUME NEW u \in Behind(After(t))
        PROVE  u \in Behind(t)
    <3>1. u \in Functor
      BY <2>1, BehindAt
    <3>2. PICK k \in 1..Len(Chain) : Chain[k] = u
      BY <3>1
    <3>3. wanted[u] /\ i < k
      BY <2>1, <3>2, BehindAt
    <3>4. j < k
      BY <2>1, <3>3
    <3> QED
      BY <1>1, <3>2, <3>3, <3>4, BehindAt
  <2> QED
    BY <2>1, <2>2, <2>3, <2>4
<1> QED
  BY <1>2, <1>3

(* No two wanted functors are before the same task. *)
LEMMA OneBefore ==
  ASSUME NEW p \in Functor, NEW q \in Functor, wanted[p], wanted[q],
         After(p) = After(q)
  PROVE  p = q
<1> USE Positions
<1>1. ASSUME NEW i \in 1..Len(Chain), NEW j \in 1..Len(Chain), i < j,
             wanted[Chain[j]]
      PROVE  After(Chain[i]) # After(Chain[j])
  <2>1. PICK m \in 1..Len(Chain) : After(Chain[i]) = Chain[m] /\ m <= j
    BY <1>1, AfterAt
  <2>2. CASE After(Chain[j]) = Final
    BY <2>1, <2>2
  <2>3. CASE After(Chain[j]) # Final
    <3>1. PICK n \in 1..Len(Chain) : After(Chain[j]) = Chain[n] /\ j < n
      BY <2>3, AfterAt
    <3>2. m # n
      BY <2>1, <3>1
    <3> QED
      BY <2>1, <3>1, <3>2
  <2> QED
    BY <2>2, <2>3
<1>2. PICK i \in 1..Len(Chain), j \in 1..Len(Chain) : Chain[i] = p /\ Chain[j] = q
  OBVIOUS
<1>3. ~(i < j) /\ ~(j < i)
  BY <1>1, <1>2
<1>4. i = j
  BY <1>3
<1> QED
  BY <1>2, <1>4

(* The slots: the holder iFunc gets, those captured, one for each functor, *)
(* those that functors may keep, and the locals of the threads.            *)
LEMMA ChainSlots ==
  /\ Start \in Slot /\ Start \in Holder /\ Start \notin Captures /\ Start \notin Free
  /\ \A t \in Functor : /\ Capture[t] \in Slot /\ Capture[t] \in Holder
                        /\ Capture[t] \notin ArenaHolder
                        /\ Capture[t] \in Captures /\ Capture[t] \notin Free
                        /\ Capture[t] # Start /\ Capture[t] \notin Thread
  /\ \A t, u \in Functor : Capture[t] = Capture[u] => t = u
  /\ \A th \in Thread : th # Start /\ th \notin Captures
  /\ Free \subseteq Holder /\ Free \subseteq Slot
  /\ \A h \in Captures : \E t \in Functor : h = Capture[t]
<1>1. /\ Capture \in [Functor -> Holder \ (ArenaHolder \cup {Start})]
      /\ \A t, u \in Functor : Capture[t] = Capture[u] => t = u
  BY ChainAssumption DEF IsInjective, Functor
<1> QED
  BY <1>1, Slots, SyncWaitAssumption DEF Captures, Free

(* wanted stays, and with it the order of the functors. *)
LEMMA OrderKept ==
  ASSUME wanted' = wanted
  PROVE  /\ \A t : After(t)' = After(t)
         /\ \A t : Behind(t)' = Behind(t)
BY DEF After, Behind

----------------------------------------------------------------------------
(* The steps that WaitingTask does not have keep its invariant             *)

(* The first half of makeWaitingTaskHolderAndRelease counts a reference. *)
LEMMA MakeHolderInv ==
  ASSUME IInv, NEW th \in Thread, NEW from \in Holder, MakeHolder(th, from)
  PROVE  IInv'
<1> USE Slots DEF TypeOK
<1>1. /\ TypeOK /\ CallOK /\ OneUser /\ Counted /\ HeldWhileReferenced
      /\ OneWriter /\ ExceptionOK /\ SeesReportedException
  BY DEF IInv
<1>2. /\ pc[th] = "idle" /\ holds[th] = None /\ holds[from] \in Task
      /\ \A x \in Thread : arg[x] # from
  BY <1>1 DEF MakeHolder, MayUse, CallOK
<1>3. TypeOK'
  BY <1>1, <1>2 DEF MakeHolder, Increment, slot
<1>4. CallOK'
  BY <1>1, <1>2 DEF MakeHolder, CallOK
<1>5. OneUser'
  BY <1>1, <1>2 DEF MakeHolder, OneUser
<1>6. stage[holds[from]] = "held"
  BY <1>1, <1>2, ReferencedIsHeld
<1>7. Counted' /\ HeldWhileReferenced'
  BY <1>1, <1>2, <1>6, Gained DEF MakeHolder, SameBut
<1>8. WritersKept
  BY <1>1, <1>2 DEF MakeHolder, WritersKept, CallOK
<1>9. OneWriter' /\ ExceptionOK'
  BY <1>1, <1>8, ExceptionKept DEF MakeHolder, slot
<1>10. SeesReportedException'
  BY <1>1, SeenKept DEF MakeHolder
<1> QED
  BY <1>3, <1>4, <1>5, <1>7, <1>9, <1>10 DEF IInv

(* The second half takes the reference of the old holder away; the one just
   counted is that of the new holder. *)
LEMMA AndReleaseInv ==
  ASSUME IInv, NEW th \in Thread, NEW h \in Holder, AndRelease(th, h)
  PROVE  IInv'
<1> USE Slots DEF TypeOK
<1>1. /\ TypeOK /\ CallOK /\ OneUser /\ Counted /\ HeldWhileReferenced
      /\ OneWriter /\ ExceptionOK /\ SeesReportedException
  BY DEF IInv
<1> DEFINE t == holds[th]
           from == arg[th]
           f == [holds EXCEPT ![th] = None]
<1>2. /\ t \in Task /\ from \in Holder /\ holds[from] = t /\ holds[h] = None
      /\ from # h /\ stage[t] = "held"
      /\ \A x \in Thread : arg[x] # h
      /\ \A x \in Thread : x # th => arg[x] # from
  <2>1. t \in Task /\ from \in Holder /\ holds[from] = t /\ holds[h] = None
    BY <1>1 DEF AndRelease, CallOK
  <2>2. from # h
    BY <2>1
  <2>3. stage[t] = "held"
    BY <1>1, <2>1, ReferencedIsHeld
  <2>4. \A x \in Thread : arg[x] # h
    BY <2>1, <2>2 DEF AndRelease
  <2>5. \A x \in Thread : x # th => arg[x] # from
    BY <1>1, <2>1 DEF OneUser
  <2> QED
    BY <2>1, <2>2, <2>3, <2>4, <2>5
<1>3. /\ holds' = [holds EXCEPT ![from] = None, ![th] = None, ![h] = t]
      /\ refCount' = [refCount EXCEPT ![t] = @ - 1] /\ Return(th)
      /\ UNCHANGED <<ptr, ptrSet, stage, seen, reported>>
  BY DEF AndRelease, slot
<1>4. /\ SameBut(holds, f, th) /\ f[th] = None
      /\ Exchanged(f, holds', from, h)
  BY <1>1, <1>2, <1>3 DEF SameBut, Exchanged
<1>5. ASSUME NEW u \in Task
      PROVE  /\ refCount'[u] = Cardinality(RefsIn(holds', u)) /\ refCount'[u] \in Nat
             /\ stage'[u] = "held" <=> RefsIn(holds', u) # {}
  <2>1. /\ refCount[u] = Cardinality(RefsIn(holds, u))
        /\ stage[u] = "held" <=> RefsIn(holds, u) # {}
    BY <1>1, CountedIn
  <2>2. /\ u # t => RefsIn(f, u) = RefsIn(holds, u)
        /\ u = t => Cardinality(RefsIn(f, u)) = Cardinality(RefsIn(holds, u)) - 1
    <3> HIDE DEF f
    <3>1. th \in Slot /\ holds[th] = t /\ t \in Task
      BY <1>2
    <3> QED
      BY <3>1, <1>4, LoseCounts
  <2>3. /\ Cardinality(RefsIn(holds', u)) = Cardinality(RefsIn(f, u))
        /\ RefsIn(holds', u) = {} <=> RefsIn(f, u) = {}
    <3> HIDE DEF f
    <3>1. from \in Slot /\ h \in Slot /\ from # h
      BY <1>2
    <3> QED
      BY <3>1, <1>4, SwapCounts
  <2>4. u = t => from \in RefsIn(f, u)
    BY <1>2, <1>1 DEF RefsIn
  <2>5. refCount'[u] = IF u = t THEN refCount[u] - 1 ELSE refCount[u]
    BY <1>1, <1>2, <1>3
  <2>6. Cardinality(RefsIn(holds', u)) \in Nat
    BY RefsFinite
  <2> HIDE DEF f
  <2>7. refCount'[u] = Cardinality(RefsIn(holds', u))
    BY <2>1, <2>2, <2>3, <2>5
  <2>8. stage'[u] = "held" <=> RefsIn(holds', u) # {}
    BY <1>2, <1>3, <2>1, <2>2, <2>3, <2>4
  <2> QED
    BY <2>6, <2>7, <2>8
<1>6. Counted' /\ HeldWhileReferenced'
  BY <1>5, CountedIn
<1>7. TypeOK'
  <2>1. refCount' \in [Task -> Nat]
    BY <1>1, <1>3, <1>5
  <2>2. holds' \in [Slot -> Task \cup {None}]
    BY <1>1, <1>2, <1>3
  <2> QED
    BY <1>1, <1>3, <2>1, <2>2 DEF Return
<1>8. CallOK'
  BY <1>1, <1>2, <1>3 DEF CallOK, Return
<1>9. OneUser'
  BY <1>1, <1>3 DEF OneUser, Return
<1>10. WritersKept
  <2>1. pc[th] = "convert" /\ pc'[th] = "idle"
    BY <1>1, <1>3 DEF AndRelease, Return
  <2>2. \A x \in Thread : x # th => /\ pc'[x] = pc[x] /\ arg'[x] = arg[x]
                                   /\ given'[x] = given[x]
    BY <1>1, <1>3 DEF Return
  <2>3. \A x \in Thread : x # th /\ pc[x] \in {"store", "publish"} => holds'[arg[x]] = holds[arg[x]]
    BY <1>1, <1>2, <1>3 DEF CallOK
  <2> QED
    BY <2>1, <2>2, <2>3 DEF WritersKept
<1>11. OneWriter' /\ ExceptionOK'
  BY <1>1, <1>3, <1>10, ExceptionKept
<1>12. SeesReportedException'
  BY <1>1, <1>3, SeenKept
<1> QED
  BY <1>6, <1>7, <1>8, <1>9, <1>11, <1>12 DEF IInv

(* Making the tasks of the chain changes no call and no exception. *)
LEMMA BuildKeeps ==
  ASSUME IInv, BeforeBuilt, NEW th \in Thread, NEW tasks, tasks \subseteq Functor,
         BuildTasks(th, tasks), TypeOK',
         \A x \in Thread : holds'[x] = holds[x]
  PROVE  CallOK' /\ OneUser' /\ OneWriter' /\ ExceptionOK' /\ SeesReportedException'
<1> USE Slots DEF TypeOK
<1>1. /\ TypeOK /\ CallOK /\ OneUser /\ OneWriter /\ ExceptionOK /\ SeesReportedException
  BY DEF IInv
<1>2. /\ UNCHANGED <<ptr, ptrSet, seen, reported, pc, arg, given, releases>>
      /\ built = "no"
      /\ \A t \in Task : stage'[t] = IF t \in tasks THEN "held" ELSE stage[t]
  BY DEF BuildTasks, slot, call
<1>3. ASSUME NEW x \in Thread
      PROVE  /\ holds[x] = None /\ holds'[x] = None
             /\ arg[x] \in Holder => holds[arg[x]] = None
             /\ pc[x] \in {"idle", "assign"}
  <2>1. holds[x] = None /\ x # Start
    BY <1>2, ChainSlots DEF BeforeBuilt
  <2>2. arg[x] \in Holder => holds[arg[x]] = None
    BY <1>2, ChainSlots DEF BeforeBuilt
  <2>3. pc[x] \in {"idle", "assign"}
    BY <1>1, <2>1, <2>2 DEF CallOK
  <2> QED
    BY <2>1, <2>2, <2>3
<1>4. CallOK'
  BY <1>1, <1>2, <1>3 DEF CallOK
<1>5. OneUser'
  BY <1>1, <1>2 DEF OneUser
<1>6. WritersKept
  BY <1>2, <1>3 DEF WritersKept
<1>7. OneWriter' /\ ExceptionOK'
  BY <1>1, <1>2, <1>6, ExceptionKept
<1>8. SeesReportedException'
  BY <1>1, <1>2, SeenKept
<1> QED
  BY <1>4, <1>5, <1>7, <1>8

(* What is held when the chain is built, and nothing else: the final task,
   once, by the holder of iFunc. *)
LEMMA BuildFrom ==
  ASSUME IInv, BeforeBuilt, built = "no", func = "running"
  PROVE  /\ holds[Start] = Final
         /\ \A s \in Slot : s # Start => holds[s] = None
         /\ \A t \in Functor : stage[t] = "new"
         /\ \A t \in Task : /\ RefsIn(holds, t) = IF t = Final THEN {Start} ELSE {}
                            /\ refCount[t] = IF t = Final THEN 1 ELSE 0
                            /\ stage[t] = "held" <=> t = Final
<1>1. /\ holds[Start] = Final /\ \A s \in Slot : s # Start => holds[s] = None
      /\ \A t \in Functor : stage[t] = "new"
  BY DEF BeforeBuilt
<1>2. ASSUME NEW t \in Task
      PROVE  /\ RefsIn(holds, t) = IF t = Final THEN {Start} ELSE {}
             /\ refCount[t] = IF t = Final THEN 1 ELSE 0
             /\ stage[t] = "held" <=> t = Final
  <2>1. RefsIn(holds, t) = IF t = Final THEN {Start} ELSE {}
    BY <1>1, Slots, ChainSlots DEF RefsIn
  <2>2. refCount[t] = Cardinality(RefsIn(holds, t)) /\ (stage[t] = "held" <=> RefsIn(holds, t) # {})
    BY CountedIn DEF IInv
  <2>3. Cardinality({Start}) = 1 /\ Cardinality({}) = 0
    BY FS_Singleton, FS_EmptySet
  <2> QED
    BY <2>1, <2>2, <2>3
<1> QED
  BY <1>1, <1>2

(* What the holders of the chain point to after lastTask. *)
LEMMA LastTaskHolds ==
  ASSUME TypeOK, NEW th \in Thread, LastTask(th)
  PROVE  /\ holds'[Start] = Chain[1]
         /\ \A t \in Selected : holds'[Capture[t]] = After(t)
         /\ \A s \in Slot : (s # Start /\ \A t \in Selected : Capture[t] # s)
                              => holds'[s] = holds[s]
         /\ holds' \in [Slot -> Task \cup {None}]
<1>1. \A h \in Slot :
        holds'[h] = IF h = Start THEN Chain[1]
                    ELSE IF \E t \in Selected : Capture[t] = h
                         THEN After(CHOOSE t \in Selected : Capture[t] = h)
                         ELSE holds[h]
  BY DEF LastTask
<1>2. Selected \subseteq Functor
  BY DEF Selected
<1>3. ASSUME NEW t \in Selected
      PROVE  (CHOOSE u \in Selected : Capture[u] = Capture[t]) = t
  <2> DEFINE c == CHOOSE u \in Selected : Capture[u] = Capture[t]
  <2>1. c \in Selected /\ Capture[c] = Capture[t]
    OBVIOUS
  <2> HIDE DEF c
  <2>2. c = t
    BY <1>2, <2>1, ChainSlots
  <2> QED
    BY <2>2 DEF c
<1>4. \A t \in Selected : holds'[Capture[t]] = After(t)
  BY <1>1, <1>2, <1>3, ChainSlots
<1>5. /\ holds'[Start] = Chain[1]
      /\ \A s \in Slot : (s # Start /\ \A t \in Selected : Capture[t] # s)
                           => holds'[s] = holds[s]
  BY <1>1, ChainSlots
<1>6. \A s \in Slot : holds'[s] \in Task \cup {None}
  <2> SUFFICES ASSUME NEW s \in Slot
               PROVE  holds'[s] \in Task \cup {None}
    OBVIOUS
  <2>1. CASE s = Start
    BY <1>5, <2>1, Positions
  <2>2. CASE \E t \in Selected : Capture[t] = s
    BY <1>2, <1>4, <2>2, AfterIsBehind
  <2>3. CASE s # Start /\ \A t \in Selected : Capture[t] # s
    BY <1>5, <2>3 DEF TypeOK
  <2> QED
    BY <2>1, <2>2, <2>3
<1>7. holds' = [h \in Slot |-> holds'[h]]
  BY DEF LastTask
<1> QED
  BY <1>4, <1>5, <1>6, <1>7

(* lastTask leaves one reference to each task it makes, and to the final
   task. *)
LEMMA LastTaskInv ==
  ASSUME IInv, ChainTypeOK, BeforeBuilt, NEW th \in Thread, LastTask(th)
  PROVE  IInv'
<1>1. /\ BuildTasks(th, Selected) /\ Selected \subseteq Functor
      /\ \A t \in Task : stage'[t] = IF t \in Selected THEN "held" ELSE stage[t]
      /\ \A t \in Task : refCount'[t] = IF t \in Selected THEN 1 ELSE refCount[t]
      /\ built = "no" /\ func = "running"
  BY DEF LastTask, BuildTasks, Selected
<1>2. TypeOK
  BY DEF IInv
<1>3. /\ holds'[Start] = Chain[1]
      /\ \A t \in Selected : holds'[Capture[t]] = After(t)
      /\ \A s \in Slot : (s # Start /\ \A t \in Selected : Capture[t] # s)
                           => holds'[s] = None
      /\ holds' \in [Slot -> Task \cup {None}]
  BY <1>1, <1>2, LastTaskHolds, BuildFrom
<1>4. TypeOK'
  <2>1. refCount' \in [Task -> Nat]
    BY <1>2 DEF LastTask, TypeOK
  <2>2. stage' \in [Task -> Stage]
    BY <1>1, <1>2 DEF BuildTasks, TypeOK, Stage
  <2>3. UNCHANGED <<ptr, ptrSet, pc, arg, given, releases, seen, reported>>
    BY <1>1 DEF BuildTasks, slot, call
  <2> QED
    BY <1>2, <1>3, <2>1, <2>2, <2>3 DEF TypeOK
<1>5. \A x \in Thread : holds'[x] = holds[x]
  BY <1>1, <1>2, LastTaskHolds, ChainSlots, Slots
<1>6. CallOK' /\ OneUser' /\ OneWriter' /\ ExceptionOK' /\ SeesReportedException'
  BY <1>1, <1>4, <1>5, BuildKeeps
<1>7. /\ \A t \in Task : refCount[t] = IF t = Final THEN 1 ELSE 0
      /\ \A t \in Task : stage[t] = "held" <=> t = Final
  BY <1>1, BuildFrom
<1>8. Chain[1] \in Selected
  BY Positions DEF Selected, ChainTypeOK
<1>9. ASSUME NEW t \in Task
      PROVE  /\ refCount'[t] = Cardinality(RefsIn(holds', t))
             /\ stage'[t] = "held" <=> RefsIn(holds', t) # {}
  <2>1. CASE t = Chain[1]
    <3>1. RefsIn(holds', t) = {Start}
      <4>1. \A u \in Selected : holds'[Capture[u]] # Chain[1]
        BY <1>1, <1>3, AfterIsBehind
      <4>2. \A s \in Slot : holds'[s] = Chain[1] <=> s = Start
        BY <1>3, <4>1, Slots, Positions
      <4> QED
        BY <2>1, <4>2, ChainSlots DEF RefsIn
    <3> QED
      BY <1>1, <1>8, <2>1, <3>1, FS_Singleton
  <2>2. CASE t \in (Selected \ {Chain[1]}) \cup {Final}
    <3>1. t \in Behind(Chain[1]) \cup {Final}
      <4>1. CASE t \in Selected \ {Chain[1]}
        <5>1. PICK i \in 1..Len(Chain) : Chain[i] = t
          BY <1>1, <4>1, Positions
        <5>2. 1 < i /\ wanted[Chain[i]]
          BY <4>1, <5>1 DEF Selected
        <5> QED
          BY <5>1, <5>2, BehindAt, Positions
      <4> QED
        BY <2>2, <4>1
    <3>2. PICK p \in {Chain[1]} \cup Behind(Chain[1]) : After(p) = t
      BY <3>1, Predecessor, Positions
    <3>3. p \in Selected
      BY <1>8, <3>2 DEF Behind, Selected
    <3>4. \A q \in Selected : After(q) = t <=> q = p
      BY <3>2, <3>3, OneBefore DEF Selected
    <3>5. t # Chain[1]
      BY <2>2, Positions
    <3>6. \A s \in Slot : holds'[s] = t <=> s = Capture[p]
      BY <1>1, <1>3, <3>3, <3>4, <3>5, Slots
    <3>7. RefsIn(holds', t) = {Capture[p]}
      BY <1>1, <3>3, <3>6, ChainSlots DEF RefsIn
    <3>8. refCount'[t] = 1 /\ stage'[t] = "held"
      BY <1>1, <1>7, <2>2, Positions
    <3> QED
      BY <3>7, <3>8, FS_Singleton
  <2>3. CASE t \notin Selected \cup {Final}
    <3>1. \A u \in Selected : After(u) # t
      <4> SUFFICES ASSUME NEW u \in Selected, After(u) = t
                   PROVE  FALSE
        OBVIOUS
      <4>1. t \in Behind(u) \cup {Final}
        BY <1>1, AfterIsBehind
      <4> QED
        BY <2>3, <4>1 DEF Behind, Selected
    <3>2. \A s \in Slot : holds'[s] # t
      BY <1>3, <1>8, <2>3, <3>1, Slots
    <3>3. RefsIn(holds', t) = {}
      BY <3>2 DEF RefsIn
    <3> QED
      BY <1>1, <1>7, <2>3, <3>3, FS_EmptySet
  <2> QED
    BY <2>1, <2>2, <2>3
<1>10. Counted' /\ HeldWhileReferenced'
  BY <1>9, CountedIn
<1> QED
  BY <1>4, <1>6, <1>10 DEF IInv

(* What the holders of the chain point to in runLast. *)
LEMMA RunLastHolds ==
  ASSUME TypeOK, NEW th \in Thread, RunLast(th)
  PROVE  /\ holds'[Start] = None
         /\ \A t \in Functor : holds'[Capture[t]] = After(t)
         /\ \A s \in Slot : s # Start /\ s \notin Captures => holds'[s] = holds[s]
         /\ holds' \in [Slot -> Task \cup {None}]
<1>1. \A h \in Slot :
        holds'[h] = IF h = Start THEN None
                    ELSE IF h \in Captures
                         THEN After(CHOOSE t \in Functor : Capture[t] = h)
                         ELSE holds[h]
  BY DEF RunLast
<1>2. ASSUME NEW t \in Functor
      PROVE  (CHOOSE u \in Functor : Capture[u] = Capture[t]) = t
  <2> DEFINE c == CHOOSE u \in Functor : Capture[u] = Capture[t]
  <2>1. c \in Functor /\ Capture[c] = Capture[t]
    OBVIOUS
  <2> HIDE DEF c
  <2>2. c = t
    BY <2>1, ChainSlots
  <2> QED
    BY <2>2 DEF c
<1>3. \A t \in Functor : holds'[Capture[t]] = After(t)
  BY <1>1, <1>2, ChainSlots
<1>4. /\ holds'[Start] = None
      /\ \A s \in Slot : s # Start /\ s \notin Captures => holds'[s] = holds[s]
  BY <1>1, ChainSlots
<1>5. \A s \in Slot : holds'[s] \in Task \cup {None}
  <2> SUFFICES ASSUME NEW s \in Slot
               PROVE  holds'[s] \in Task \cup {None}
    OBVIOUS
  <2>1. CASE s = Start
    BY <1>4, <2>1
  <2>2. CASE s \in Captures
    BY <1>3, <2>2, ChainSlots, AfterIsBehind
  <2>3. CASE s # Start /\ s \notin Captures
    BY <1>4, <2>3 DEF TypeOK
  <2> QED
    BY <2>1, <2>2, <2>3
<1>6. holds' = [h \in Slot |-> holds'[h]]
  BY DEF RunLast
<1> QED
  BY <1>3, <1>4, <1>5, <1>6

(* runLast leaves a reference to a task for each functor it comes after. *)
LEMMA RunLastInv ==
  ASSUME IInv, ChainTypeOK, BeforeBuilt, NEW th \in Thread, RunLast(th)
  PROVE  IInv'
<1> DEFINE made == Selected \ {Chain[1]}
           next == {After(t) : t \in Functor}
           Before(t) == {f \in Functor : After(f) = t}
<1>1. /\ BuildTasks(th, made) /\ made \subseteq Functor
      /\ \A t \in Task : stage'[t] = IF t \in made THEN "held" ELSE stage[t]
      /\ \A t \in Task : refCount'[t] = IF t \in next THEN Cardinality(Before(t)) ELSE refCount[t]
      /\ built = "no" /\ func = "running"
  BY DEF RunLast, BuildTasks, Selected
<1>2. TypeOK
  BY DEF IInv
<1>3. /\ holds'[Start] = None
      /\ \A t \in Functor : holds'[Capture[t]] = After(t)
      /\ \A s \in Slot : s # Start /\ s \notin Captures => holds'[s] = None
      /\ holds' \in [Slot -> Task \cup {None}]
  BY <1>1, <1>2, RunLastHolds, BuildFrom
<1>4. ASSUME NEW t \in Task
      PROVE  RefsIn(holds', t) = {Capture[f] : f \in Before(t)}
  BY <1>3, Slots, ChainSlots DEF RefsIn
<1>5. ASSUME NEW t \in Task
      PROVE  /\ IsFiniteSet(Before(t)) /\ Cardinality(Before(t)) \in Nat
             /\ Cardinality(RefsIn(holds', t)) = Cardinality(Before(t))
  <2> DEFINE F == Before(t)
             G == RefsIn(holds', t)
             m == [f \in F |-> Capture[f]]
  <2>1. m \in [F -> G]
    BY <1>4
  <2>2. \A a, b \in F : m[a] = m[b] => a = b
    BY ChainSlots
  <2>3. \A g \in G : \E f \in F : m[f] = g
    BY <1>4
  <2> DEFINE n == [g \in G |-> CHOOSE f \in F : m[f] = g]
  <2>4. \A g \in G : n[g] \in F /\ m[n[g]] = g
    BY <2>3
  <2>5. n \in Bijection(G, F)
    <3> HIDE DEF m, F, G
    <3>1. n \in [G -> F]
      BY <2>4
    <3>2. \A a, b \in G : n[a] = n[b] => a = b
      BY <2>4
    <3>3. \A f \in F : n[m[f]] = f /\ m[f] \in G
      BY <2>1, <2>2, <2>4
    <3> HIDE DEF n
    <3>4. n \in Injection(G, F)
      BY <3>1, <3>2 DEF Injection, IsInjective
    <3>5. n \in Surjection(G, F)
      BY <3>1, <3>3 DEF Surjection
    <3> QED
      BY <3>4, <3>5 DEF Bijection
  <2>6. IsFiniteSet(G) /\ Cardinality(G) \in Nat
    BY RefsFinite
  <2> HIDE DEF n, m, F, G
  <2>7. ExistsBijection(G, F)
    BY <2>5 DEF ExistsBijection
  <2>8. IsFiniteSet(F) /\ Cardinality(F) = Cardinality(G)
    BY <2>6, <2>7, FS_Bijection
  <2> QED
    BY <2>6, <2>8 DEF F, G
<1>6. TypeOK'
  <2>1. refCount' \in [Task -> Nat]
    <3>1. \A t \in Task : refCount'[t] \in Nat
      <4> HIDE DEF next, made, Before
      <4>1. \A t \in Task : Cardinality(Before(t)) \in Nat /\ refCount[t] \in Nat
        BY <1>2, <1>5 DEF TypeOK
      <4> QED
        BY <1>1, <4>1
    <3>2. refCount' = [t \in Task |-> refCount'[t]]
      BY DEF RunLast
    <3> QED
      BY <3>1, <3>2
  <2>2. stage' \in [Task -> Stage]
    BY <1>1, <1>2 DEF BuildTasks, TypeOK, Stage
  <2>3. UNCHANGED <<ptr, ptrSet, pc, arg, given, releases, seen, reported>>
    BY <1>1 DEF BuildTasks, slot, call
  <2> QED
    BY <1>2, <1>3, <2>1, <2>2, <2>3 DEF TypeOK
<1>7. \A x \in Thread : holds'[x] = holds[x]
  BY <1>2, RunLastHolds, ChainSlots, Slots
<1>8. CallOK' /\ OneUser' /\ OneWriter' /\ ExceptionOK' /\ SeesReportedException'
  BY <1>1, <1>6, <1>7, BuildKeeps
<1>9. /\ \A t \in Task : refCount[t] = IF t = Final THEN 1 ELSE 0
      /\ \A t \in Task : stage[t] = "held" <=> t = Final
  BY <1>1, BuildFrom
<1>10. \A t \in Task : t \in next <=> t \in made \cup {Final}
  <2>1. ASSUME NEW t \in Functor
        PROVE  After(t) \in made \cup {Final}
    BY AfterIsBehind DEF Behind, Selected
  <2>2. ASSUME NEW t \in made \cup {Final}
        PROVE  t \in next
    <3>1. t \in Behind(Chain[1]) \cup {Final}
      <4>1. CASE t \in made
        <5>1. PICK i \in 1..Len(Chain) : Chain[i] = t
          BY <1>1, <4>1, Positions
        <5>2. 1 < i /\ wanted[Chain[i]]
          BY <4>1, <5>1 DEF Selected
        <5> QED
          BY <5>1, <5>2, BehindAt, Positions
      <4> QED
        BY <4>1
    <3>2. PICK p \in {Chain[1]} \cup Behind(Chain[1]) : After(p) = t
      BY <3>1, Predecessor, Positions
    <3>3. p \in Functor
      BY <3>2, Positions DEF Behind
    <3> QED
      BY <3>2, <3>3
  <2> QED
    BY <2>1, <2>2
<1>11. ASSUME NEW t \in Task
       PROVE  /\ refCount'[t] = Cardinality(RefsIn(holds', t))
              /\ stage'[t] = "held" <=> RefsIn(holds', t) # {}
  <2>1. t \in next <=> RefsIn(holds', t) # {}
    BY <1>4
  <2>2. CASE t \in next
    <3>1. refCount'[t] = Cardinality(RefsIn(holds', t))
      BY <1>1, <1>5, <2>2
    <3>2. stage'[t] = "held"
      BY <1>1, <1>9, <1>10, <2>2
    <3> QED
      BY <2>1, <2>2, <3>1, <3>2
  <2>3. CASE t \notin next
    <3>1. stage'[t] # "held" /\ refCount'[t] = 0
      BY <1>1, <1>9, <1>10, <2>3
    <3>2. RefsIn(holds', t) = {}
      BY <2>1, <2>3
    <3> QED
      BY <3>1, <3>2, FS_EmptySet
  <2> QED
    BY <2>2, <2>3
<1>12. Counted' /\ HeldWhileReferenced'
  BY <1>11, CountedIn
<1> QED
  BY <1>6, <1>8, <1>12 DEF IInv

(***************************************************************************)
(* Steps of calls on holders                                               *)
(***************************************************************************)

(* A step of a call by which functors and other threads pass holders on,   *)
(* let go of them or report exceptions: no functor is started or ended,    *)
(* tasks are spawned or hear of exceptions only while they are held, and   *)
(* a captured holder is not touched while it is intact.                    *)
HolderStep ==
  /\ UNCHANGED <<chainVars, handle, func, waiter, result, seen>>
  /\ enqueued' \in SUBSET Task
  /\ \A t \in Task : \/ stage'[t] = stage[t]
                     \/ stage[t] = "held" /\ stage'[t] = "spawned"
  /\ \A t \in Task : reported'[t] = reported[t] \/ stage[t] = "held"
  /\ \A t \in Task : reported[t] \subseteq reported'[t]
  /\ \A t \in Functor : Intact(t) =>
       /\ holds'[Capture[t]] = holds[Capture[t]]
       /\ \A x \in Thread : arg'[x] # Capture[t]
  /\ built = "no" => /\ \A s \in Slot : holds'[s] = holds[s]
                     /\ \A x \in Thread : arg'[x] \in Free \cup {None}

(* What a functor owns is not the holder captured by an intact one. *)
LEMMA OwnedIsNotIntact ==
  ASSUME RunsOK, NEW h, Owned(h), NEW t \in Functor, Intact(t)
  PROVE  h # Capture[t]
<1> SUFFICES ASSUME h = Capture[t]
             PROVE  FALSE
  OBVIOUS
<1>1. \E u \in Functor : Capture[u] = Capture[t] /\ InFunctor(u)
  BY ChainSlots DEF Owned, MayCopy
<1>2. InFunctor(t) /\ kind[t] = "handlesExceptions"
  BY <1>1, ChainSlots DEF Owned
<1>3. PICK th \in Thread : running[th] = t /\ phase[th] = "f_"
  BY <1>2 DEF InFunctor
<1>4. t # None
  BY Positions, Slots
<1>5. stage[t] \in {"executing", "new"}
  BY <1>3, <1>4 DEF RunsOK
<1>6. PICK x \in Thread : running[x] = t /\ (phase[x] = "except_" \/ kind[t] = "auto")
  BY <1>5 DEF Intact
<1>7. x = th
  BY <1>3, <1>4, <1>6 DEF RunsOK
<1> QED
  BY <1>2, <1>3, <1>6, <1>7

(* An intact functor is one that is wanted. *)
LEMMA IntactIsWanted ==
  ASSUME RunsOK, TaskMade, NEW t \in Functor, Intact(t)
  PROVE  wanted[t]
<1>1. t \in Task /\ t # Final /\ t # None
  BY Positions, Slots
<1>2. CASE stage[t] \in {"held", "spawned"}
  BY <1>1, <1>2 DEF TaskMade
<1>3. CASE \E th \in Thread : running[th] = t
  BY <1>1, <1>3 DEF RunsOK
<1> QED
  BY <1>2, <1>3 DEF Intact

(* Before the chain is built there are only assignments of empty holders. *)
LEMMA EarlyCalls ==
  ASSUME TypeOK, CallOK, BeforeBuilt, built = "no"
  PROVE  /\ \A h \in Free : holds[h] = None
         /\ \A h : MayCopy(h) => h \in Free
         /\ \A x \in Thread : /\ holds[x] = None /\ running[x] = None
                             /\ arg[x] \in Free \cup {None}
                             /\ pc[x] \in {"idle", "assign"}
<1>1. \A h \in Free : holds[h] = None
  BY ChainSlots DEF BeforeBuilt
<1>2. \A h : MayCopy(h) => h \in Free
  BY Positions, Slots DEF MayCopy, InFunctor, BeforeBuilt
<1>3. ASSUME NEW x \in Thread
      PROVE  /\ holds[x] = None /\ running[x] = None
             /\ arg[x] \in Free \cup {None}
             /\ pc[x] \in {"idle", "assign"}
  <2>1. holds[x] = None /\ running[x] = None /\ arg[x] \in Free \cup {None}
    BY ChainSlots, Slots DEF BeforeBuilt
  <2>2. arg[x] \in Holder => holds[arg[x]] = None
    BY <2>1, <1>1, Slots
  <2>3. pc[x] \in {"idle", "assign"}
    BY <2>1, <2>2 DEF CallOK, TypeOK
  <2> QED
    BY <2>1, <2>3
<1> QED
  BY <1>1, <1>2, <1>3

(* A copy is made of a holder that stays. *)
LEMMA CopyStep ==
  ASSUME TypeOK, CallOK, HeldWhileReferenced, ChainTypeOK,
         BeforeBuilt, TaskMade, RunsOK, CapturesKept,
         NEW th \in Thread, NEW h \in Free, NEW from \in Holder,
         Copy(th, h, from), MayCopy(from), UNCHANGED <<syncVars, chainVars>>
  PROVE  HolderStep
<1> USE Slots, ChainSlots DEF TypeOK
<1>0. /\ UNCHANGED <<chainVars, handle, func, waiter, result, seen>>
      /\ enqueued' \in SUBSET Task
  BY DEF Copy, syncVars, ChainTypeOK
<1>1. \A t \in Task : \/ stage'[t] = stage[t]
                      \/ stage[t] = "held" /\ stage'[t] = "spawned"
  BY DEF Copy, MayUse, slot, call
<1>2. /\ \A t \in Task : reported'[t] = reported[t] \/ stage[t] = "held"
      /\ \A t \in Task : reported[t] \subseteq reported'[t]
  BY DEF Copy, MayUse, slot, call
<1>3. ASSUME NEW t \in Functor, Intact(t)
      PROVE  holds'[Capture[t]] = holds[Capture[t]] /\ \A x \in Thread : arg'[x] # Capture[t]
  <2>1. \A x \in Thread : arg[x] # Capture[t]
    BY <1>3 DEF CapturesKept
  <2> QED
    BY <1>3, <2>1 DEF Copy, MayUse, slot, call
<1>4. ASSUME built = "no"
      PROVE  /\ \A s \in Slot : holds'[s] = holds[s]
             /\ \A x \in Thread : arg'[x] \in Free \cup {None}
  BY <1>4, EarlyCalls DEF Copy, MayUse, slot, call
<1> QED
  BY <1>0, <1>1, <1>2, <1>3, <1>4 DEF HolderStep

(* What is owned may be moved. *)
LEMMA MoveStep ==
  ASSUME TypeOK, CallOK, HeldWhileReferenced, ChainTypeOK,
         BeforeBuilt, TaskMade, RunsOK, CapturesKept,
         NEW th \in Thread, NEW h \in Free, NEW from \in Holder,
         Move(th, h, from), Owned(from), UNCHANGED <<syncVars, chainVars>>
  PROVE  HolderStep
<1> USE Slots, ChainSlots DEF TypeOK
<1>0. /\ UNCHANGED <<chainVars, handle, func, waiter, result, seen>>
      /\ enqueued' \in SUBSET Task
  BY DEF Move, syncVars, ChainTypeOK
<1>1. \A t \in Task : \/ stage'[t] = stage[t]
                      \/ stage[t] = "held" /\ stage'[t] = "spawned"
  BY DEF Move, MayUse, slot, call
<1>2. /\ \A t \in Task : reported'[t] = reported[t] \/ stage[t] = "held"
      /\ \A t \in Task : reported[t] \subseteq reported'[t]
  BY DEF Move, MayUse, slot, call
<1>3. ASSUME NEW t \in Functor, Intact(t)
      PROVE  holds'[Capture[t]] = holds[Capture[t]] /\ \A x \in Thread : arg'[x] # Capture[t]
  <2>1. \A x \in Thread : arg[x] # Capture[t]
    BY <1>3 DEF CapturesKept
  <2> QED
    BY <1>3, <2>1, OwnedIsNotIntact DEF Move, MayUse, slot, call
<1>4. ASSUME built = "no"
      PROVE  /\ \A s \in Slot : holds'[s] = holds[s]
             /\ \A x \in Thread : arg'[x] \in Free \cup {None}
  <2>1. from \in Free /\ holds[from] = None /\ holds[h] = None /\ holds[th] = None
    BY <1>4, EarlyCalls DEF Owned
  <2> QED
    BY <1>4, <2>1, EarlyCalls DEF Move, MayUse, slot, call
<1> QED
  BY <1>0, <1>1, <1>2, <1>3, <1>4 DEF HolderStep

(* The same for copy assignment ... *)
LEMMA CopyAssignStep ==
  ASSUME TypeOK, CallOK, HeldWhileReferenced, ChainTypeOK,
         BeforeBuilt, TaskMade, RunsOK, CapturesKept,
         NEW th \in Thread, NEW h \in Free, NEW from \in Holder,
         CopyAssign(th, h, from), MayCopy(from), UNCHANGED <<syncVars, chainVars>>
  PROVE  HolderStep
<1> USE Slots, ChainSlots DEF TypeOK
<1>0. /\ UNCHANGED <<chainVars, handle, func, waiter, result, seen>>
      /\ enqueued' \in SUBSET Task
  BY DEF CopyAssign, syncVars, ChainTypeOK
<1>1. \A t \in Task : \/ stage'[t] = stage[t]
                      \/ stage[t] = "held" /\ stage'[t] = "spawned"
  BY DEF CopyAssign, StartAssign, MayUse, slot
<1>2. /\ \A t \in Task : reported'[t] = reported[t] \/ stage[t] = "held"
      /\ \A t \in Task : reported[t] \subseteq reported'[t]
  BY DEF CopyAssign, StartAssign, MayUse, slot
<1>3. ASSUME NEW t \in Functor, Intact(t)
      PROVE  holds'[Capture[t]] = holds[Capture[t]] /\ \A x \in Thread : arg'[x] # Capture[t]
  <2>1. \A x \in Thread : arg[x] # Capture[t]
    BY <1>3 DEF CapturesKept
  <2> QED
    BY <1>3, <2>1 DEF CopyAssign, StartAssign, MayUse, slot
<1>4. ASSUME built = "no"
      PROVE  /\ \A s \in Slot : holds'[s] = holds[s]
             /\ \A x \in Thread : arg'[x] \in Free \cup {None}
  BY <1>4, EarlyCalls DEF CopyAssign, StartAssign, MayUse, slot
<1> QED
  BY <1>0, <1>1, <1>2, <1>3, <1>4 DEF HolderStep

(* ... and for move assignment. *)
LEMMA MoveAssignStep ==
  ASSUME TypeOK, CallOK, HeldWhileReferenced, ChainTypeOK,
         BeforeBuilt, TaskMade, RunsOK, CapturesKept,
         NEW th \in Thread, NEW h \in Free, NEW from \in Holder,
         MoveAssign(th, h, from), Owned(from), UNCHANGED <<syncVars, chainVars>>
  PROVE  HolderStep
<1> USE Slots, ChainSlots DEF TypeOK
<1>0. /\ UNCHANGED <<chainVars, handle, func, waiter, result, seen>>
      /\ enqueued' \in SUBSET Task
  BY DEF MoveAssign, syncVars, ChainTypeOK
<1>1. \A t \in Task : \/ stage'[t] = stage[t]
                      \/ stage[t] = "held" /\ stage'[t] = "spawned"
  BY DEF MoveAssign, StartAssign, MayUse, slot
<1>2. /\ \A t \in Task : reported'[t] = reported[t] \/ stage[t] = "held"
      /\ \A t \in Task : reported[t] \subseteq reported'[t]
  BY DEF MoveAssign, StartAssign, MayUse, slot
<1>3. ASSUME NEW t \in Functor, Intact(t)
      PROVE  holds'[Capture[t]] = holds[Capture[t]] /\ \A x \in Thread : arg'[x] # Capture[t]
  <2>1. \A x \in Thread : arg[x] # Capture[t]
    BY <1>3 DEF CapturesKept
  <2> QED
    BY <1>3, <2>1, OwnedIsNotIntact DEF MoveAssign, StartAssign, MayUse, slot
<1>4. ASSUME built = "no"
      PROVE  /\ \A s \in Slot : holds'[s] = holds[s]
             /\ \A x \in Thread : arg'[x] \in Free \cup {None}
  <2>1. from \in Free /\ holds[from] = None /\ holds[h] = None /\ holds[th] = None
    BY <1>4, EarlyCalls DEF Owned
  <2> QED
    BY <1>4, <2>1, EarlyCalls DEF MoveAssign, StartAssign, MayUse, slot
<1> QED
  BY <1>0, <1>1, <1>2, <1>3, <1>4 DEF HolderStep

(* makeWaitingTaskHolderAndRelease of a holder that is kept ... *)
LEMMA MakeHolderStep ==
  ASSUME TypeOK, CallOK, HeldWhileReferenced, ChainTypeOK,
         BeforeBuilt, TaskMade, RunsOK, CapturesKept,
         NEW th \in Thread, NEW from \in Free,
         MakeHolder(th, from), UNCHANGED chainVars
  PROVE  HolderStep
<1> USE Slots, ChainSlots DEF TypeOK
<1>0. /\ UNCHANGED <<chainVars, handle, func, waiter, result, seen>>
      /\ enqueued' \in SUBSET Task
  BY DEF MakeHolder, syncVars, ChainTypeOK
<1>1. \A t \in Task : \/ stage'[t] = stage[t]
                      \/ stage[t] = "held" /\ stage'[t] = "spawned"
  BY DEF MakeHolder, MayUse, slot
<1>2. /\ \A t \in Task : reported'[t] = reported[t] \/ stage[t] = "held"
      /\ \A t \in Task : reported[t] \subseteq reported'[t]
  BY DEF MakeHolder, MayUse, slot
<1>3. ASSUME NEW t \in Functor, Intact(t)
      PROVE  holds'[Capture[t]] = holds[Capture[t]] /\ \A x \in Thread : arg'[x] # Capture[t]
  <2>1. \A x \in Thread : arg[x] # Capture[t]
    BY <1>3 DEF CapturesKept
  <2> QED
    BY <1>3, <2>1 DEF MakeHolder, MayUse, slot
<1>4. ASSUME built = "no"
      PROVE  /\ \A s \in Slot : holds'[s] = holds[s]
             /\ \A x \in Thread : arg'[x] \in Free \cup {None}
  BY <1>4, EarlyCalls DEF MakeHolder, MayUse, slot
<1> QED
  BY <1>0, <1>1, <1>2, <1>3, <1>4 DEF HolderStep

(* ... and its second half. *)
LEMMA AndReleaseStep ==
  ASSUME TypeOK, CallOK, HeldWhileReferenced, ChainTypeOK,
         BeforeBuilt, TaskMade, RunsOK, CapturesKept,
         NEW th \in Thread, NEW h \in Free,
         AndRelease(th, h), UNCHANGED chainVars
  PROVE  HolderStep
<1> USE Slots, ChainSlots DEF TypeOK
<1>0. /\ UNCHANGED <<chainVars, handle, func, waiter, result, seen>>
      /\ enqueued' \in SUBSET Task
  BY DEF AndRelease, syncVars, ChainTypeOK
<1>1. \A t \in Task : \/ stage'[t] = stage[t]
                      \/ stage[t] = "held" /\ stage'[t] = "spawned"
  BY DEF AndRelease, Return, slot
<1>2. /\ \A t \in Task : reported'[t] = reported[t] \/ stage[t] = "held"
      /\ \A t \in Task : reported[t] \subseteq reported'[t]
  BY DEF AndRelease, Return, slot
<1>3. ASSUME NEW t \in Functor, Intact(t)
      PROVE  holds'[Capture[t]] = holds[Capture[t]] /\ \A x \in Thread : arg'[x] # Capture[t]
  <2>1. \A x \in Thread : arg[x] # Capture[t]
    BY <1>3 DEF CapturesKept
  <2> QED
    BY <1>3, <2>1 DEF AndRelease, Return, slot
<1>4. ASSUME built = "no"
      PROVE  /\ \A s \in Slot : holds'[s] = holds[s]
             /\ \A x \in Thread : arg'[x] \in Free \cup {None}
  BY <1>4, EarlyCalls DEF AndRelease, Return, slot
<1> QED
  BY <1>0, <1>1, <1>2, <1>3, <1>4 DEF HolderStep

(* The swap of an assignment, of holders that are kept. *)
LEMMA FinishAssignStep ==
  ASSUME TypeOK, CallOK, HeldWhileReferenced, ChainTypeOK,
         BeforeBuilt, TaskMade, RunsOK, CapturesKept,
         NEW th \in Thread,
         FinishAssign(th), UNCHANGED <<syncVars, chainVars>>
  PROVE  HolderStep
<1> USE Slots, ChainSlots DEF TypeOK
<1>0. /\ UNCHANGED <<chainVars, handle, func, waiter, result, seen>>
      /\ enqueued' \in SUBSET Task
  BY DEF FinishAssign, syncVars, ChainTypeOK
<1>1. \A t \in Task : \/ stage'[t] = stage[t]
                      \/ stage[t] = "held" /\ stage'[t] = "spawned"
  BY DEF FinishAssign, Return, slot, CallOK
<1>2. /\ \A t \in Task : reported'[t] = reported[t] \/ stage[t] = "held"
      /\ \A t \in Task : reported[t] \subseteq reported'[t]
  BY DEF FinishAssign, Return, slot, CallOK
<1>3. ASSUME NEW t \in Functor, Intact(t)
      PROVE  holds'[Capture[t]] = holds[Capture[t]] /\ \A x \in Thread : arg'[x] # Capture[t]
  <2>1. \A x \in Thread : arg[x] # Capture[t]
    BY <1>3 DEF CapturesKept
  <2> QED
    BY <1>3, <2>1 DEF FinishAssign, Return, slot, CallOK
<1>4. ASSUME built = "no"
      PROVE  /\ \A s \in Slot : holds'[s] = holds[s]
             /\ \A x \in Thread : arg'[x] \in Free \cup {None}
  BY <1>4, EarlyCalls DEF FinishAssign, Return, slot, CallOK
<1> QED
  BY <1>0, <1>1, <1>2, <1>3, <1>4 DEF HolderStep

(* The thread that won the exchange stores the exception ... *)
LEMMA StoreStep ==
  ASSUME TypeOK, CallOK, HeldWhileReferenced, ChainTypeOK,
         BeforeBuilt, TaskMade, RunsOK, CapturesKept,
         NEW th \in Thread,
         Store(th), UNCHANGED <<syncVars, chainVars>>
  PROVE  HolderStep
<1> USE Slots, ChainSlots DEF TypeOK
<1>0. /\ UNCHANGED <<chainVars, handle, func, waiter, result, seen>>
      /\ enqueued' \in SUBSET Task
  BY DEF Store, syncVars, ChainTypeOK
<1>1. \A t \in Task : \/ stage'[t] = stage[t]
                      \/ stage[t] = "held" /\ stage'[t] = "spawned"
  BY DEF Store, slot
<1>2. /\ \A t \in Task : reported'[t] = reported[t] \/ stage[t] = "held"
      /\ \A t \in Task : reported[t] \subseteq reported'[t]
  BY DEF Store, slot
<1>3. ASSUME NEW t \in Functor, Intact(t)
      PROVE  holds'[Capture[t]] = holds[Capture[t]] /\ \A x \in Thread : arg'[x] # Capture[t]
  <2>1. \A x \in Thread : arg[x] # Capture[t]
    BY <1>3 DEF CapturesKept
  <2> QED
    BY <1>3, <2>1 DEF Store, slot
<1>4. ASSUME built = "no"
      PROVE  /\ \A s \in Slot : holds'[s] = holds[s]
             /\ \A x \in Thread : arg'[x] \in Free \cup {None}
  BY <1>4, EarlyCalls DEF Store, slot
<1> QED
  BY <1>0, <1>1, <1>2, <1>3, <1>4 DEF HolderStep

(* ... and publishes it. *)
LEMMA PublishStep ==
  ASSUME TypeOK, CallOK, HeldWhileReferenced, ChainTypeOK,
         BeforeBuilt, TaskMade, RunsOK, CapturesKept,
         NEW th \in Thread,
         Publish(th), UNCHANGED <<syncVars, chainVars>>
  PROVE  HolderStep
<1> USE Slots, ChainSlots DEF TypeOK
<1>0. /\ UNCHANGED <<chainVars, handle, func, waiter, result, seen>>
      /\ enqueued' \in SUBSET Task
  BY DEF Publish, syncVars, ChainTypeOK
<1>1. \A t \in Task : \/ stage'[t] = stage[t]
                      \/ stage[t] = "held" /\ stage'[t] = "spawned"
  BY DEF Publish, slot
<1>2. /\ \A t \in Task : reported'[t] = reported[t] \/ stage[t] = "held"
      /\ \A t \in Task : reported[t] \subseteq reported'[t]
  BY DEF Publish, slot
<1>3. ASSUME NEW t \in Functor, Intact(t)
      PROVE  holds'[Capture[t]] = holds[Capture[t]] /\ \A x \in Thread : arg'[x] # Capture[t]
  <2>1. \A x \in Thread : arg[x] # Capture[t]
    BY <1>3 DEF CapturesKept
  <2> QED
    BY <1>3, <2>1 DEF Publish, slot
<1>4. ASSUME built = "no"
      PROVE  /\ \A s \in Slot : holds'[s] = holds[s]
             /\ \A x \in Thread : arg'[x] \in Free \cup {None}
  BY <1>4, EarlyCalls DEF Publish, slot
<1> QED
  BY <1>0, <1>1, <1>2, <1>3, <1>4 DEF HolderStep

(* The exception is told; doneWaiting goes on. *)
LEMMA ToldStep ==
  ASSUME TypeOK, CallOK, HeldWhileReferenced, ChainTypeOK,
         BeforeBuilt, TaskMade, RunsOK, CapturesKept,
         NEW th \in Thread,
         Told(th), UNCHANGED <<syncVars, chainVars>>
  PROVE  HolderStep
<1> USE Slots, ChainSlots DEF TypeOK
<1>0. /\ UNCHANGED <<chainVars, handle, func, waiter, result, seen>>
      /\ enqueued' \in SUBSET Task
  BY DEF Told, syncVars, ChainTypeOK
<1>1. \A t \in Task : \/ stage'[t] = stage[t]
                      \/ stage[t] = "held" /\ stage'[t] = "spawned"
  BY DEF Told, TakeTask, Return, slot, CallOK
<1>2. /\ \A t \in Task : reported'[t] = reported[t] \/ stage[t] = "held"
      /\ \A t \in Task : reported[t] \subseteq reported'[t]
  BY DEF Told, TakeTask, Return, slot, CallOK
<1>3. ASSUME NEW t \in Functor, Intact(t)
      PROVE  holds'[Capture[t]] = holds[Capture[t]] /\ \A x \in Thread : arg'[x] # Capture[t]
  <2>1. \A x \in Thread : arg[x] # Capture[t]
    BY <1>3 DEF CapturesKept
  <2> QED
    BY <1>3, <2>1 DEF Told, TakeTask, Return, slot, CallOK
<1>4. ASSUME built = "no"
      PROVE  /\ \A s \in Slot : holds'[s] = holds[s]
             /\ \A x \in Thread : arg'[x] \in Free \cup {None}
  BY <1>4, EarlyCalls DEF Told, TakeTask, Return, slot, CallOK
<1> QED
  BY <1>0, <1>1, <1>2, <1>3, <1>4 DEF HolderStep

(* A holder is let go of that is not the one captured by an intact functor. *)
LEMMA DoneStep ==
  ASSUME TypeOK, CallOK, HeldWhileReferenced, ChainTypeOK,
         BeforeBuilt, TaskMade, RunsOK, CapturesKept,
         NEW th \in Thread, NEW h \in Holder,
         Done(th, h), UNCHANGED <<syncVars, chainVars>>,
         \A t \in Functor : Intact(t) => h # Capture[t],
         built = "no" => MayCopy(h)
  PROVE  HolderStep
<1> USE Slots, ChainSlots DEF TypeOK
<1>0. /\ UNCHANGED <<chainVars, handle, func, waiter, result, seen>>
      /\ enqueued' \in SUBSET Task
  BY DEF Done, syncVars, ChainTypeOK
<1>1. \A t \in Task : \/ stage'[t] = stage[t]
                      \/ stage[t] = "held" /\ stage'[t] = "spawned"
  BY DEF Done, TakeTask, MayUse, slot
<1>2. /\ \A t \in Task : reported'[t] = reported[t] \/ stage[t] = "held"
      /\ \A t \in Task : reported[t] \subseteq reported'[t]
  BY DEF Done, TakeTask, MayUse, slot
<1>3. ASSUME NEW t \in Functor, Intact(t)
      PROVE  holds'[Capture[t]] = holds[Capture[t]] /\ \A x \in Thread : arg'[x] # Capture[t]
  <2>1. \A x \in Thread : arg[x] # Capture[t]
    BY <1>3 DEF CapturesKept
  <2> QED
    BY <1>3, <2>1 DEF Done, TakeTask, MayUse, slot
<1>4. ASSUME built = "no"
      PROVE  /\ \A s \in Slot : holds'[s] = holds[s]
             /\ \A x \in Thread : arg'[x] \in Free \cup {None}
  <2>1. h \in Free
    BY <1>4, EarlyCalls
  <2> QED
    BY <1>4, <2>1, EarlyCalls DEF Done, TakeTask, MayUse, slot
<1> QED
  BY <1>0, <1>1, <1>2, <1>3, <1>4 DEF HolderStep

(* An exception is reported by such a holder. *)
LEMMA FailStep ==
  ASSUME TypeOK, CallOK, HeldWhileReferenced, ChainTypeOK,
         BeforeBuilt, TaskMade, RunsOK, CapturesKept,
         NEW th \in Thread, NEW h \in Holder, NEW e \in Exception, NEW last \in BOOLEAN,
         Report(th, h, e, last), UNCHANGED <<syncVars, chainVars>>,
         \A t \in Functor : Intact(t) => h # Capture[t],
         built = "no" => MayCopy(h)
  PROVE  HolderStep
<1> USE Slots, ChainSlots DEF TypeOK
<1>0. /\ UNCHANGED <<chainVars, handle, func, waiter, result, seen>>
      /\ enqueued' \in SUBSET Task
  BY DEF Report, syncVars, ChainTypeOK
<1>a. holds[h] \in Task /\ stage[holds[h]] = "held"
  BY ReferencedIsHeld DEF Report
<1>1. \A t \in Task : \/ stage'[t] = stage[t]
                      \/ stage[t] = "held" /\ stage'[t] = "spawned"
  BY DEF Report
<1>2. /\ \A t \in Task : reported'[t] = reported[t] \/ stage[t] = "held"
      /\ \A t \in Task : reported[t] \subseteq reported'[t]
  BY <1>a DEF Report
<1>3. ASSUME NEW t \in Functor, Intact(t)
      PROVE  holds'[Capture[t]] = holds[Capture[t]] /\ \A x \in Thread : arg'[x] # Capture[t]
  <2>1. \A x \in Thread : arg[x] # Capture[t]
    BY <1>3 DEF CapturesKept
  <2> QED
    BY <1>3, <2>1 DEF Report, MayUse, slot
<1>4. ASSUME built = "no"
      PROVE  /\ \A s \in Slot : holds'[s] = holds[s]
             /\ \A x \in Thread : arg'[x] \in Free \cup {None}
  <2>1. h \in Free
    BY <1>4, EarlyCalls
  <2> QED
    BY <1>4, <2>1, EarlyCalls DEF Report, MayUse, slot
<1> QED
  BY <1>0, <1>1, <1>2, <1>3, <1>4 DEF HolderStep

(* A reference is taken away. *)
LEMMA ReleaseStep ==
  ASSUME TypeOK, CallOK, HeldWhileReferenced, ChainTypeOK,
         BeforeBuilt, TaskMade, RunsOK, CapturesKept,
         NEW th \in Thread,
         ReleaseTo(th), UNCHANGED chainVars
  PROVE  HolderStep
<1> USE Slots, ChainSlots DEF TypeOK
<1>0. /\ UNCHANGED <<chainVars, handle, func, waiter, result, seen>>
      /\ enqueued' \in SUBSET Task
  <2>1. holds[th] \in Task
    BY DEF ReleaseTo, Release, CallOK
  <2> QED
    BY <2>1 DEF ReleaseTo, Release, ChainTypeOK
<1>a. holds[th] \in Task /\ stage[holds[th]] = "held"
  <2>1. holds[th] \in Task
    BY DEF ReleaseTo, Release, CallOK
  <2> QED
    BY <2>1, ReferencedIsHeld
<1>1. \A t \in Task : \/ stage'[t] = stage[t]
                      \/ stage[t] = "held" /\ stage'[t] = "spawned"
  BY <1>a DEF ReleaseTo, Release
<1>2. /\ \A t \in Task : reported'[t] = reported[t] \/ stage[t] = "held"
      /\ \A t \in Task : reported[t] \subseteq reported'[t]
  BY DEF ReleaseTo, Release
<1>3. ASSUME NEW t \in Functor, Intact(t)
      PROVE  holds'[Capture[t]] = holds[Capture[t]] /\ \A x \in Thread : arg'[x] # Capture[t]
  <2>1. \A x \in Thread : arg[x] # Capture[t]
    BY <1>3 DEF CapturesKept
  <2> QED
    BY <1>3, <2>1 DEF ReleaseTo, Release, Return
<1>4. ASSUME built = "no"
      PROVE  /\ \A s \in Slot : holds'[s] = holds[s]
             /\ \A x \in Thread : arg'[x] \in Free \cup {None}
  BY <1>4, EarlyCalls DEF ReleaseTo, Release, Return
<1> QED
  BY <1>0, <1>1, <1>2, <1>3, <1>4 DEF HolderStep

(* All the steps of calls on holders, but for those of functors with what  *)
(* they have captured.                                                     *)
HolderCall(th) ==
  \/ Pass(th) /\ UNCHANGED chainVars
  \/ \E h \in Holder : LetGo(th, h)
  \/ \E last \in BOOLEAN : Fail(th, last)
  \/ Continue(th)
  \/ \E t \in Functor : Unwind(th, t)

LEMMA HolderCallStep ==
  ASSUME TypeOK, CallOK, HeldWhileReferenced, ChainTypeOK,
         BeforeBuilt, TaskMade, RunsOK, CapturesKept,
         NEW th \in Thread, HolderCall(th)
  PROVE  HolderStep
<1>1. CASE Pass(th) /\ UNCHANGED chainVars
  <2>1. PICK h \in Free, from \in Holder :
          \/ MayCopy(from) /\ SameClass(h, from) /\ Copy(th, h, from) /\ UNCHANGED syncVars
          \/ Owned(from) /\ SameClass(h, from) /\ Move(th, h, from) /\ UNCHANGED syncVars
          \/ MayCopy(from) /\ SameClass(h, from) /\ CopyAssign(th, h, from) /\ UNCHANGED syncVars
          \/ Owned(from) /\ SameClass(h, from) /\ MoveAssign(th, h, from) /\ UNCHANGED syncVars
          \/ Owned(from) /\ AttachArena(th, h, from)
          \/ h = from /\ MakeHolder(th, from)
    BY <1>1 DEF Pass
  <2>2. \/ MayCopy(from) /\ Copy(th, h, from) /\ UNCHANGED syncVars
        \/ Owned(from) /\ Move(th, h, from) /\ UNCHANGED syncVars
        \/ MayCopy(from) /\ CopyAssign(th, h, from) /\ UNCHANGED syncVars
        \/ Owned(from) /\ MoveAssign(th, h, from) /\ UNCHANGED syncVars
        \/ from \in Free /\ MakeHolder(th, from)
    BY <2>1 DEF AttachArena
  <2> QED
    BY <1>1, <2>2, CopyStep, MoveStep, CopyAssignStep, MoveAssignStep, MakeHolderStep
<1>2. CASE \E h \in Holder : LetGo(th, h)
  <2>1. PICK h \in Holder : Owned(h) /\ Done(th, h) /\ UNCHANGED <<syncVars, chainVars>>
    BY <1>2 DEF LetGo
  <2>2. \A t \in Functor : Intact(t) => h # Capture[t]
    BY <2>1, OwnedIsNotIntact
  <2> QED
    BY <2>1, <2>2, DoneStep DEF Owned
<1>3. CASE \E last \in BOOLEAN : Fail(th, last)
  <2>1. PICK last \in BOOLEAN, h \in Holder, e \in Exception :
          Owned(h) /\ Report(th, h, e, last) /\ UNCHANGED <<syncVars, chainVars>>
    BY <1>3 DEF Fail
  <2>2. \A t \in Functor : Intact(t) => h # Capture[t]
    BY <2>1, OwnedIsNotIntact
  <2> QED
    BY <2>1, <2>2, FailStep DEF Owned
<1>4. CASE Continue(th)
  <2>1. /\ UNCHANGED chainVars
        /\ \/ FinishAssign(th) /\ UNCHANGED syncVars
           \/ Store(th) /\ UNCHANGED syncVars
           \/ Publish(th) /\ UNCHANGED syncVars
           \/ Told(th) /\ UNCHANGED syncVars
           \/ ReleaseTo(th)
           \/ \E h \in Free : AndRelease(th, h)
    BY <1>4 DEF Continue
  <2> QED
    BY <2>1, FinishAssignStep, StoreStep, PublishStep, ToldStep, ReleaseStep, AndReleaseStep
<1>5. CASE \E t \in Functor : Unwind(th, t)
  <2>1. PICK u \in Functor : /\ built = "runLast" /\ ~wanted[u] /\ Done(th, Capture[u])
                             /\ UNCHANGED <<syncVars, chainVars>>
    BY <1>5 DEF Unwind
  <2>2. \A t \in Functor : Intact(t) => Capture[u] # Capture[t]
    BY <2>1, IntactIsWanted, ChainSlots
  <2> QED
    BY <2>1, <2>2, DoneStep, ChainSlots
<1> QED
  BY <1>1, <1>2, <1>3, <1>4, <1>5 DEF HolderCall

----------------------------------------------------------------------------
(* Every step keeps the invariant of WaitingTask                           *)

(* A functor reports by the holder that it has captured. *)
FunctorReports(th) ==
  \E t \in Functor, e \in Exception : Report(th, Capture[t], e, TRUE)

(* The steps of the chain are steps of WaitingTask, but for four. *)
LEMMA ChainSteps ==
  ASSUME ChainTypeOK, PassesOn, [NextChain]_allVars
  PROVE  \/ [Next]_vars
         \/ \E th \in Thread, h \in Holder : MakeHolder(th, h) \/ AndRelease(th, h)
         \/ \E th \in Thread : LastTask(th) \/ RunLast(th)
<1> USE Positions, ChainSlots
<1>1. ASSUME NEW th \in Thread, Progress(th) \/ Another(th)
      PROVE  \/ [Next]_vars
             \/ \E h \in Holder : MakeHolder(th, h) \/ AndRelease(th, h)
             \/ LastTask(th) \/ RunLast(th)
  <2>1. CASE RunFunc(th)
    BY <2>1, SyncWaitAssumption DEF RunFunc, Next, NewCall
  <2>2. CASE \E t \in Functor : RunTask(th, t) \/ Unwind(th, t)
    <3> PICK t \in Functor : RunTask(th, t) \/ Unwind(th, t)
      BY <2>2
    <3>1. t \in Task /\ (Execute(t) \/ Done(th, Capture[t])) /\ Capture[t] \in Holder
      BY DEF RunTask, Unwind
    <3> QED
      BY <3>1 DEF Next, NewCall
  <2>3. CASE PassOn(th) \/ ReturnFrom(th) \/ \E e \in Exception : Throw(th, e)
    <3>1. running[th] \in Functor /\ Capture[running[th]] \in Holder
      <4>1. running[th] # None
        BY ONLY <2>3 DEF PassOn, ReturnFrom, Throw, At
      <4> QED
        BY <4>1 DEF ChainTypeOK
    <3>2. PassOn(th) => seen[running[th]] \in Exception
      BY DEF PassOn, At, PassesOn
    <3>3. \/ \E e \in Exception, last \in BOOLEAN : Report(th, Capture[running[th]], e, last)
          \/ Done(th, Capture[running[th]])
          \/ UNCHANGED vars
      BY <2>3, <3>2 DEF PassOn, ReturnFrom, Throw
    <3> QED
      BY <3>1, <3>3 DEF Next, NewCall
  <2>4. CASE Leave(th)
    <3>1. running[th] \in Task /\ (Recycle(running[th]) \/ UNCHANGED vars)
      BY <2>4 DEF Leave, At, ChainTypeOK
    <3> QED
      BY <3>1 DEF Next
  <2>5. CASE Continue(th)
    <3>1. \/ FinishAssign(th) \/ Store(th) \/ Publish(th) \/ Told(th)
          \/ Release(th)
          \/ \E h \in Free : AndRelease(th, h)
      BY <2>5 DEF Continue, ReleaseTo
    <3> QED
      BY <3>1 DEF Next, GoOn
  <2>6. CASE \E h \in Holder : LetGo(th, h)
    BY <2>6 DEF LetGo, Next, NewCall
  <2>7. CASE \E last \in BOOLEAN : Fail(th, last)
    BY <2>7 DEF Fail, Next, NewCall
  <2>8. CASE Pass(th)
    <3>1. PICK h \in Free, from \in Holder :
            \/ Copy(th, h, from) \/ Move(th, h, from)
            \/ CopyAssign(th, h, from) \/ MoveAssign(th, h, from)
            \/ MakeHolder(th, from)
      BY <2>8 DEF Pass, AttachArena
    <3> QED
      BY <3>1 DEF Next, NewCall
  <2> QED
    BY <1>1, <2>1, <2>2, <2>3, <2>4, <2>5, <2>6, <2>7, <2>8 DEF Progress, Another
<1>2. CASE RunFinal \/ FuncReturns \/ Scheduling
  <2>1. \/ Execute(Final) \/ Recycle(Final) \/ UNCHANGED vars
    BY <1>2 DEF RunFinal, FuncReturns, Scheduling, RunEnqueued, RecycleFinal, RunHandle,
                WaitOver
  <2> QED
    BY <2>1 DEF Next
<1>3. CASE UNCHANGED allVars
  BY <1>3 DEF allVars
<1> QED
  BY <1>1, <1>2, <1>3 DEF NextChain, Onward

(* Every step keeps what WaitingTask promises. *)
LEMMA ChainKeepsIInv ==
  ASSUME IInv, ChainTypeOK, BeforeBuilt, PassesOn, [NextChain]_allVars
  PROVE  IInv'
BY ChainSteps, NextInv, MakeHolderInv, AndReleaseInv, LastTaskInv, RunLastInv

----------------------------------------------------------------------------
(* What the steps have in common                                           *)

(* A task that a slot points to after the step is held then. *)
LEMMA ReferencedIsHeldAfter ==
  ASSUME HeldWhileReferenced', NEW s \in Slot, holds'[s] \in Task
  PROVE  stage'[holds'[s]] = "held"
<1>1. s \in RefsIn(holds', holds'[s])
  BY DEF RefsIn
<1> QED
  BY <1>1, CountedIn

(* While captured holders are kept all that follows an intact functor stays
   held. *)
LEMMA FollowersStep ==
  ASSUME FollowersHeld, CapturesKept', HeldWhileReferenced', wanted' = wanted,
         \A t \in Functor : Intact(t)' => Intact(t),
         \A t \in Functor : stage[t] = "held" => stage'[t] \in {"held", "spawned"}
  PROVE  FollowersHeld'
<1> SUFFICES ASSUME NEW t \in Functor, Intact(t)',
                    NEW u \in Behind(t) \cup {Final}
             PROVE  stage'[u] = "held"
  BY OrderKept DEF FollowersHeld
<1>1. PICK p \in {t} \cup Behind(t) : After(p) = u
  BY Predecessor
<1>2. p \in Functor /\ Intact(p)'
  <2>1. CASE p = t
    BY <2>1
  <2>2. CASE p \in Behind(t)
    <3>1. p \in Functor
      BY <2>2 DEF Behind
    <3>2. stage[p] = "held"
      BY <2>2 DEF FollowersHeld
    <3> QED
      BY <3>1, <3>2 DEF Intact
  <2> QED
    BY <2>1, <2>2
<1>3. holds'[Capture[p]] = u
  BY <1>1, <1>2, OrderKept DEF CapturesKept
<1>4. u \in Task
  BY <1>1, <1>2, AfterIsBehind
<1> QED
  BY <1>2, <1>3, <1>4, ChainSlots, ReferencedIsHeldAfter

(* Once syncWait has returned nothing it promised changes. *)
LEMMA AfterReturn ==
  ASSUME WaitsForAll, FailuresReachWaiter,
         waiter' = "returned" =>
           /\ waiter = "returned"
           /\ UNCHANGED <<result, kind, wanted>>
           /\ \A t \in Task : stage'[t] = stage[t] /\ reported'[t] = reported[t]
  PROVE  WaitsForAll' /\ FailuresReachWaiter'
<1> SUFFICES ASSUME waiter' = "returned"
             PROVE  WaitsForAll' /\ FailuresReachWaiter'
  BY DEF WaitsForAll, FailuresReachWaiter
<1>1. WaitsForAll'
  BY Positions DEF WaitsForAll
<1> DEFINE heard == {t \in Functor \cup {Final} :
                       /\ \A u \in {t} \cup Behind(t) : u # Final => kind[u] = "auto"
                       /\ reported[t] # {}}
<1>2. heard' = heard
  BY Positions, OrderKept
<1>3. IF heard = {} THEN result = None ELSE \E t \in heard : result \in reported[t]
  BY DEF FailuresReachWaiter
<1>4. heard \subseteq Task
  BY Positions
<1>5. IF heard = {} THEN result' = None ELSE \E t \in heard : result' \in reported'[t]
  <2> HIDE DEF heard
  <2> QED
    BY <1>3, <1>4
<1>6. IF heard' = {} THEN result' = None ELSE \E t \in heard' : result' \in reported'[t]
  BY <1>2, <1>5
<1>7. FailuresReachWaiter'
  BY <1>6 DEF FailuresReachWaiter
<1> QED
  BY <1>1, <1>7

(* What was reported to t, once t has run, is the same after the step, and
   what reached the task after it is not lost. *)
LEMMA PassesOnStep ==
  ASSUME PassesOn, UNCHANGED <<seen, kind, wanted, running, phase>>,
         ChainTypeOK, RunsOK,
         \A t \in Task : /\ stage'[t] = "new" => stage[t] = "new"
                         /\ stage'[t] = "deleted" => stage[t] = "deleted"
                         /\ reported'[t] = reported[t] \/ stage[t] = "held"
                         /\ reported[t] \subseteq reported'[t]
  PROVE  PassesOn'
<1> USE Positions
<1>1. \A t \in Task : stage'[t] = "new" => reported'[t] = {}
  BY DEF PassesOn
<1>2. \A t \in Functor : After(t)' = After(t) /\ After(t) \in Task
  BY OrderKept, AfterIsBehind
<1>3. ASSUME NEW th \in Thread, running[th] # None
      PROVE  /\ phase'[th] = "except_" => seen'[running[th]] \in Exception
             /\ phase'[th] = "f_" /\ kind[running[th]] = "auto" => reported'[running[th]] = {}
             /\ phase'[th] = "out" /\ kind[running[th]] = "auto" /\ reported'[running[th]] # {}
                  => reported'[After(running[th])] # {}
  <2>1. running[th] \in Functor
    BY <1>3 DEF ChainTypeOK
  <2>2. reported'[running[th]] = reported[running[th]]
    BY <1>3, <2>1 DEF RunsOK
  <2>3. reported[After(running[th])] \subseteq reported'[After(running[th])]
    BY <2>1, <1>2
  <2> QED
    BY <1>3, <2>2, <2>3 DEF PassesOn
<1>4. ASSUME NEW t \in Functor, stage'[t] = "deleted", kind[t] = "auto", reported'[t] # {}
      PROVE  reported'[After(t)] # {}
  <2>1. stage[t] = "deleted" /\ reported'[t] = reported[t]
    BY <1>4
  <2>2. reported[After(t)] # {} /\ reported[After(t)] \subseteq reported'[After(t)]
    BY <1>2, <1>4, <2>1 DEF PassesOn
  <2> QED
    BY <2>2
<1>5. \A th \in Thread : After(running[th])' = After(running[th])
  BY DEF After
<1>6. \A th \in Thread : running[th] # None =>
        /\ phase'[th] = "except_" => seen'[running'[th]] \in Exception
        /\ phase'[th] = "f_" /\ kind'[running'[th]] = "auto" => reported'[running'[th]] = {}
        /\ phase'[th] = "out" /\ kind'[running'[th]] = "auto" /\ reported'[running'[th]] # {}
             => reported'[After(running[th])'] # {}
  BY <1>3, <1>5
<1>7. \A t \in Functor :
        stage'[t] = "deleted" /\ kind'[t] = "auto" /\ reported'[t] # {}
          => reported'[After(t)'] # {}
  BY <1>2, <1>4
<1> QED
  BY <1>1, <1>6, <1>7 DEF PassesOn

----------------------------------------------------------------------------
(* The steps keep the invariant of the chain                               *)

(* The parts that a step with the invariant of WaitingTask has yet to keep. *)
LEMMA Parts ==
  ASSUME ChainInv
  PROVE  /\ IInv /\ ChainTypeOK /\ BeforeBuilt /\ TaskMade /\ RunsOK /\ CapturesKept
         /\ FollowersHeld /\ PassesOn /\ WaitOK /\ WaitsForAll /\ FailuresReachWaiter
         /\ TypeOK /\ CallOK /\ HeldWhileReferenced /\ SeesReportedException
BY DEF ChainInv, IInv

(* A thread runs a functor, which is a task and not None. *)
LEMMA RunningIsTask ==
  ASSUME ChainTypeOK, NEW th \in Thread, running[th] # None
  PROVE  running[th] \in Functor /\ running[th] \in Task /\ running[th] # Final
BY Positions DEF ChainTypeOK

(* The calls on holders that are not captured by an intact functor. *)
LEMMA HolderInv ==
  ASSUME ChainInv, IInv', HolderStep
  PROVE  ChainInv'
<1> USE Parts, Positions
<1>0. /\ UNCHANGED <<kind, wanted, built, running, phase, handle, func, waiter, result, seen>>
      /\ \A t \in Task : \/ stage'[t] = stage[t]
                         \/ stage[t] = "held" /\ stage'[t] = "spawned"
  BY DEF HolderStep, chainVars
<1>1. ChainTypeOK'
  BY <1>0 DEF HolderStep, ChainTypeOK
<1>2. BeforeBuilt'
  <2>1. CASE built = "no"
    <3>1. \A s \in Slot : holds'[s] = holds[s]
      BY <2>1 DEF HolderStep
    <3>2. \A x \in Thread : arg'[x] \in Free \cup {None}
      BY <2>1 DEF HolderStep
    <3>3. \A t \in Functor : stage'[t] = "new"
      BY <1>0, <2>1 DEF BeforeBuilt
    <3> QED
      BY <1>0, <2>1, <3>1, <3>2, <3>3, ChainSlots DEF BeforeBuilt
  <2>2. CASE built # "no"
    BY <1>0, <2>2 DEF BeforeBuilt
  <2> QED
    BY <2>1, <2>2
<1>3. TaskMade'
  BY <1>0 DEF TaskMade
<1>4. RunsOK'
  <2>1. \A th \in Thread : running[th] # None => stage'[running[th]] = stage[running[th]]
    BY <1>0, RunningIsTask DEF RunsOK
  <2> QED
    BY <1>0, <2>1 DEF RunsOK
<1>5. \A t \in Functor : Intact(t)' => Intact(t)
  BY <1>0 DEF Intact
<1>6. CapturesKept'
  <2>1. ASSUME NEW t \in Functor, Intact(t)'
        PROVE  holds'[Capture[t]] = After(t)' /\ \A x \in Thread : arg'[x] # Capture[t]
    <3>1. holds'[Capture[t]] = holds[Capture[t]] /\ \A x \in Thread : arg'[x] # Capture[t]
      BY <1>5, <2>1 DEF HolderStep
    <3> QED
      BY <1>0, <1>5, <2>1, <3>1, OrderKept DEF CapturesKept
  <2> QED
    BY <2>1 DEF CapturesKept
<1>7. FollowersHeld'
  <2>1. HeldWhileReferenced'
    BY DEF IInv
  <2> QED
    BY <1>0, <1>5, <1>6, <2>1, FollowersStep
<1>8. PassesOn'
  BY <1>0, PassesOnStep DEF HolderStep
<1>9. WaitOK'
  BY <1>0 DEF WaitOK
<1>10. WaitsForAll' /\ FailuresReachWaiter'
  <2>1. ASSUME waiter = "returned", NEW t \in Task
        PROVE  stage'[t] = stage[t] /\ reported'[t] = reported[t]
    <3>1. stage[t] # "held"
      BY <2>1 DEF WaitsForAll
    <3> QED
      BY <1>0, <3>1 DEF HolderStep
  <2> QED
    BY <1>0, <2>1, AfterReturn
<1> QED
  BY <1>1, <1>2, <1>3, <1>4, <1>6, <1>7, <1>8, <1>9, <1>10 DEF ChainInv

(* The first holder of the final task. *)
LEMMA RunFuncInv ==
  ASSUME ChainInv, IInv', NEW th \in Thread, RunFunc(th), UNCHANGED chainVars
  PROVE  ChainInv'
<1> USE Parts, Positions
<1>0. /\ UNCHANGED <<kind, wanted, built, running, phase, handle, enqueued, waiter, result,
                    seen, reported, arg>>
      /\ func = "queued" /\ func' = "running" /\ built = "no"
      /\ \A t \in Task : t # Final => stage'[t] = stage[t]
      /\ stage[Final] = "new" /\ stage'[Final] = "held"
      /\ holds'[Start] = Final
      /\ \A s \in Slot : s # Start => holds'[s] = holds[s]
  BY ChainSlots DEF RunFunc, Construct, chainVars, call, BeforeBuilt, TypeOK
<1>1. ChainTypeOK'
  BY <1>0 DEF ChainTypeOK
<1>2. BeforeBuilt'
  BY <1>0 DEF BeforeBuilt
<1>3. TaskMade'
  BY <1>0 DEF TaskMade
<1>4. \A x \in Thread : running'[x] = None
  BY <1>0 DEF BeforeBuilt
<1>5. RunsOK'
  BY <1>4 DEF RunsOK
<1>6. \A t \in Functor : ~Intact(t)'
  <2>1. \A t \in Functor : stage'[t] = "new" /\ t # None
    BY <1>0, Slots DEF BeforeBuilt
  <2> QED
    BY <1>4, <2>1 DEF Intact
<1>7. CapturesKept' /\ FollowersHeld'
  BY <1>6 DEF CapturesKept, FollowersHeld
<1>8. PassesOn'
  <2>1. \A t \in Functor : stage'[t] = "new"
    BY <1>0 DEF BeforeBuilt
  <2> QED
    BY <1>0, <1>4, <2>1 DEF PassesOn
<1>9. WaitOK'
  BY <1>0 DEF WaitOK
<1>10. WaitsForAll' /\ FailuresReachWaiter'
  BY <1>0 DEF WaitsForAll, FailuresReachWaiter, WaitOK
<1> QED
  BY <1>1, <1>2, <1>3, <1>5, <1>7, <1>8, <1>9, <1>10 DEF ChainInv

(* The chain is built: the tasks are held, each by the holder captured     *)
(* before it.                                                              *)
LEMMA BuildInv ==
  ASSUME ChainInv, IInv', NEW th \in Thread, NEW tasks, BuildTasks(th, tasks),
         tasks \subseteq Selected, Selected \ {Chain[1]} \subseteq tasks,
         \A t \in Selected : holds'[Capture[t]] = After(t),
         built' \in {"lastTask", "runLast"},
         \/ tasks = Selected /\ UNCHANGED <<running, phase>>
         \/ /\ built' = "runLast" /\ Chain[1] \notin tasks
            /\ running' = [running EXCEPT ![th] = Chain[1]]
            /\ phase' = [phase EXCEPT ![th] = "f_"]
  PROVE  ChainInv'
<1> USE Parts, Positions
<1>0. /\ UNCHANGED <<kind, wanted, func, handle, enqueued, waiter, result, seen, reported, arg>>
      /\ func = "running" /\ built = "no"
      /\ \A t \in Task : stage'[t] = IF t \in tasks THEN "held" ELSE stage[t]
      /\ Selected \subseteq Functor
  BY DEF BuildTasks, syncVars, call, Selected
<1>1. /\ \A t \in Functor : stage[t] = "new"
      /\ \A x \in Thread : running[x] = None /\ arg[x] \in Free \cup {None}
      /\ stage[Final] = "held" /\ stage'[Final] = "held"
  <2>1. stage[Final] = "held"
    BY <1>0, BuildFrom
  <2> QED
    BY <1>0, <2>1 DEF BeforeBuilt
<1>2. \A x \in Thread : running'[x] # None =>
        /\ running'[x] = Chain[1] /\ x = th /\ phase'[x] = "f_" /\ built' = "runLast"
        /\ Chain[1] \notin tasks
  BY <1>1 DEF ChainTypeOK
<1>3. ChainTypeOK'
  BY <1>0 DEF ChainTypeOK
<1>4. BeforeBuilt'
  BY <1>0 DEF BeforeBuilt
<1>5. TaskMade'
  BY <1>0 DEF TaskMade, Selected
<1>6. RunsOK'
  <2>1. Chain[1] \notin tasks => stage'[Chain[1]] = "new"
    BY <1>0, <1>1
  <2>2. wanted'[Chain[1]]
    BY <1>3 DEF ChainTypeOK
  <2> QED
    BY <1>2, <2>1, <2>2 DEF RunsOK
<1>7. \A t \in Functor : Intact(t)' => t \in Selected
  <2>1. ASSUME NEW t \in Functor, Intact(t)'
        PROVE  t \in Selected
    <3>1. CASE stage'[t] \in {"held", "spawned"}
      BY <1>0, <1>1, <3>1
    <3>2. CASE \E x \in Thread : running'[x] = t
      <4>1. t = Chain[1]
        BY <1>2, <3>2, Slots
      <4> QED
        BY <4>1 DEF Selected, ChainTypeOK
    <3> QED
      BY <2>1, <3>1, <3>2 DEF Intact
  <2> QED
    BY <2>1
<1>8. CapturesKept'
  <2>1. \A t \in Functor : After(t)' = After(t)
    BY <1>0, OrderKept
  <2>2. \A t \in Functor, x \in Thread : arg'[x] # Capture[t]
    BY <1>0, <1>1, ChainSlots, Slots
  <2> QED
    BY <1>7, <2>1, <2>2 DEF CapturesKept
<1>9. FollowersHeld'
  <2>1. ASSUME NEW t \in Functor, NEW u \in Behind(t)
        PROVE  u \in tasks
    <3>1. PICK j \in 1..Len(Chain) : Chain[j] = t
      OBVIOUS
    <3>2. u \in Functor
      BY <3>1, BehindAt
    <3>3. PICK i \in 1..Len(Chain) : Chain[i] = u
      BY <3>2
    <3>4. wanted[u] /\ j < i
      BY <3>1, <3>3, BehindAt
    <3>5. u # Chain[1]
      BY <3>3, <3>4
    <3> QED
      BY <3>2, <3>4, <3>5 DEF Selected
  <2>2. \A t \in Functor : \A u \in Behind(t) : stage'[u] = "held"
    BY <1>0, <2>1
  <2>3. \A t \in Functor : Behind(t)' = Behind(t)
    BY <1>0, OrderKept
  <2> QED
    BY <1>1, <2>2, <2>3 DEF FollowersHeld
<1>10. PassesOn'
  <2>1. \A t \in Task : stage'[t] = "new" => reported'[t] = {}
    BY <1>0 DEF PassesOn
  <2>2. reported'[Chain[1]] = {}
    BY <1>0, <1>1 DEF PassesOn
  <2>3. \A t \in Functor : stage'[t] # "deleted"
    BY <1>0, <1>1
  <2>4. ASSUME NEW x \in Thread, running'[x] # None
        PROVE  phase'[x] = "f_" /\ reported'[running'[x]] = {}
    BY <2>2, <2>4, <1>2
  <2> QED
    BY <2>1, <2>3, <2>4 DEF PassesOn
<1>11. WaitOK'
  BY <1>0, <1>1 DEF WaitOK
<1>12. WaitsForAll' /\ FailuresReachWaiter'
  BY <1>0 DEF WaitsForAll, FailuresReachWaiter, WaitOK
<1> QED
  BY <1>3, <1>4, <1>5, <1>6, <1>8, <1>9, <1>10, <1>11, <1>12 DEF ChainInv

(* lastTask and runLast are the two ways to build it. *)
LEMMA ChainBuilt ==
  ASSUME ChainInv, IInv', NEW th \in Thread, LastTask(th) \/ RunLast(th)
  PROVE  ChainInv'
<1> USE Parts
<1>1. CASE LastTask(th)
  <2>1. \A t \in Selected : holds'[Capture[t]] = After(t)
    BY <1>1, LastTaskHolds
  <2> QED
    BY <1>1, <2>1, BuildInv DEF LastTask
<1>2. CASE RunLast(th)
  <2>1. \A t \in Selected : holds'[Capture[t]] = After(t)
    BY <1>2, RunLastHolds DEF Selected
  <2> QED
    <3>1. /\ BuildTasks(th, Selected \ {Chain[1]}) /\ built' = "runLast"
          /\ running' = [running EXCEPT ![th] = Chain[1]]
          /\ phase' = [phase EXCEPT ![th] = "f_"]
      BY ONLY <1>2 DEF RunLast
    <3> QED
      BY <2>1, <3>1, BuildInv
<1> QED
  BY <1>1, <1>2

(* A task is executed: its functor runs. *)
LEMMA RunTaskInv ==
  ASSUME ChainInv, IInv', NEW th \in Thread, NEW t \in Functor, RunTask(th, t)
  PROVE  ChainInv'
<1> USE Parts, Positions
<1>0. /\ UNCHANGED <<kind, wanted, built, func, handle, enqueued, waiter, result, reported,
                    arg, holds>>
      /\ t \in Task /\ t # None /\ running[th] = None
      /\ stage[t] = "spawned" /\ stage'[t] = "executing" /\ seen'[t] = ptr[t]
      /\ \A u \in Task : u # t => stage'[u] = stage[u] /\ seen'[u] = seen[u]
      /\ running'[th] = t
      /\ phase'[th] = IF ptr[t] = None \/ kind[t] = "handlesExceptions" THEN "f_" ELSE "except_"
      /\ \A x \in Thread : x # th => running'[x] = running[x] /\ phase'[x] = phase[x]
      /\ running' \in [Thread -> Functor \cup {None}]
      /\ phase' \in [Thread -> {"f_", "except_", "out"}]
  BY Slots DEF RunTask, Execute, syncVars, call, TypeOK, ChainTypeOK
<1>1. \A x \in Thread : running[x] # t
  BY <1>0 DEF RunsOK
<1>2. ChainTypeOK'
  BY <1>0 DEF ChainTypeOK
<1>3. BeforeBuilt'
  BY <1>0 DEF BeforeBuilt
<1>4. TaskMade'
  BY <1>0 DEF TaskMade
<1>5. RunsOK'
  <2>1. wanted[t]
    BY <1>0 DEF TaskMade
  <2>2. ASSUME NEW x \in Thread, x # th, running[x] # None
        PROVE  running[x] # t /\ stage'[running[x]] = stage[running[x]]
    BY <1>0, <1>1, <2>2, RunningIsTask
  <2> QED
    BY <1>0, <1>1, <2>1, <2>2 DEF RunsOK
<1>6. \A u \in Functor : Intact(u)' => Intact(u)
  BY <1>0 DEF Intact
<1>7. CapturesKept'
  BY <1>0, <1>6, OrderKept DEF CapturesKept
<1>8. FollowersHeld'
  <2>1. \A u \in Functor : stage[u] = "held" => stage'[u] \in {"held", "spawned"}
    BY <1>0
  <2> QED
    BY <1>0, <1>6, <1>7, <2>1, FollowersStep DEF IInv
<1>9. PassesOn'
  <2>1. IF reported'[t] = {} THEN seen'[t] = None ELSE seen'[t] \in reported'[t]
    BY <1>0 DEF IInv, SeesReportedException
  <2>2. reported'[t] \subseteq Exception /\ None \notin Exception
    BY <1>0, Slots DEF TypeOK
  <2>3. phase'[th] = "except_" => seen'[t] \in Exception
    BY <1>0, <2>1, <2>2
  <2>4. phase'[th] = "f_" /\ kind[t] = "auto" => reported'[t] = {}
    BY <1>0, <2>1, <2>2
  <2>5. \A u \in Functor : After(u)' = After(u)
    BY <1>0, OrderKept
  <2>6. ASSUME NEW x \in Thread, x # th, running'[x] # None
        PROVE  /\ phase'[x] = "except_" => seen'[running'[x]] \in Exception
               /\ phase'[x] = "f_" /\ kind'[running'[x]] = "auto" => reported'[running'[x]] = {}
               /\ phase'[x] = "out" /\ kind'[running'[x]] = "auto" /\ reported'[running'[x]] # {}
                    => reported'[After(running[x])] # {}
    <3>1. running[x] \in Task /\ running[x] # t
      BY <1>0, <1>1, <2>6, RunningIsTask
    <3> QED
      BY <1>0, <2>6, <3>1 DEF PassesOn
  <2>7. ASSUME NEW x \in Thread, running'[x] # None
        PROVE  /\ phase'[x] = "except_" => seen'[running'[x]] \in Exception
               /\ phase'[x] = "f_" /\ kind'[running'[x]] = "auto" => reported'[running'[x]] = {}
               /\ phase'[x] = "out" /\ kind'[running'[x]] = "auto" /\ reported'[running'[x]] # {}
                    => reported'[After(running[x])'] # {}
    <3>1. CASE x = th
      BY <1>0, <2>3, <2>4, <3>1
    <3>2. CASE x # th
      <4>1. running[x] \in Functor
        BY <1>0, <2>7, <3>2 DEF ChainTypeOK
      <4>2. running'[x] = running[x]
        BY <1>0, <3>2
      <4>3. After(running[x])' = After(running[x])
        BY <1>0, <4>2 DEF After
      <4> QED
        BY <2>6, <2>7, <3>2, <4>3
    <3> QED
      BY <3>1, <3>2
  <2>8. \A u \in Task : stage'[u] = "new" => reported'[u] = {}
    BY <1>0 DEF PassesOn
  <2>9. \A u \in Functor : stage'[u] = "deleted" /\ kind'[u] = "auto" /\ reported'[u] # {}
                             => reported'[After(u)'] # {}
    BY <1>0, <2>5 DEF PassesOn
  <2> QED
    BY <2>7, <2>8, <2>9 DEF PassesOn
<1>10. WaitOK'
  BY <1>0 DEF WaitOK
<1>11. WaitsForAll' /\ FailuresReachWaiter'
  BY <1>0 DEF WaitsForAll, FailuresReachWaiter
<1> QED
  BY <1>2, <1>3, <1>4, <1>5, <1>7, <1>8, <1>9, <1>10, <1>11 DEF ChainInv

(* The functor is over, by return, by an exception or without being called: *)
(* the captured holder is about to be released, and the task after it has   *)
(* heard of the exception, if there is one.                                 *)
LEMMA EndOfFunctorInv ==
  ASSUME ChainInv, IInv', NEW th \in Thread, running[th] # None,
         UNCHANGED <<syncVars, kind, wanted, built, running, stage, seen>>,
         phase' = [phase EXCEPT ![th] = "out"],
         \A u \in Task : /\ reported'[u] = reported[u] \/ stage[u] = "held"
                         /\ reported[u] \subseteq reported'[u],
         \A s \in Slot : s # Capture[running[th]] /\ s # th => holds'[s] = holds[s],
         \A x \in Thread : arg'[x] = arg[x] \/ arg'[x] = Capture[running[th]],
         kind[running[th]] = "auto" /\ reported[running[th]] # {}
           => reported'[After(running[th])] # {}
  PROVE  ChainInv'
<1> USE Parts, Positions
<1> DEFINE t == running[th]
<1>0. /\ t \in Functor /\ t \in Task /\ t # None
      /\ UNCHANGED <<func, handle, enqueued, waiter, result>>
      /\ phase'[th] = "out"
      /\ \A x \in Thread : x # th => phase'[x] = phase[x] /\ running[x] # t
      /\ phase' \in [Thread -> {"f_", "except_", "out"}]
  BY RunningIsTask DEF syncVars, ChainTypeOK, RunsOK
<1>1. ChainTypeOK'
  BY <1>0 DEF ChainTypeOK
<1>2. BeforeBuilt'
  BY <1>0 DEF BeforeBuilt
<1>3. TaskMade'
  BY DEF TaskMade
<1>4. RunsOK'
  BY <1>0 DEF RunsOK
<1>5. \A u \in Functor : Intact(u)' => Intact(u) /\ u # t
  <2>1. stage[t] \in {"executing", "new"}
    BY <1>0 DEF RunsOK
  <2>2. ASSUME NEW u \in Functor, Intact(u)'
        PROVE  Intact(u) /\ u # t
    <3>1. CASE stage'[u] \in {"held", "spawned"}
      BY <2>1, <3>1 DEF Intact
    <3>2. CASE \E x \in Thread : /\ running'[x] = u
                                 /\ phase'[x] = "except_" \/ (phase'[x] = "f_" /\ kind'[u] = "auto")
      <4>1. PICK x \in Thread : /\ running[x] = u
                                /\ phase'[x] = "except_" \/ (phase'[x] = "f_" /\ kind[u] = "auto")
        BY <3>2
      <4>2. x # th
        BY <1>0, <4>1
      <4> QED
        BY <1>0, <4>1, <4>2 DEF Intact
    <3> QED
      BY <2>2, <3>1, <3>2 DEF Intact
  <2> QED
    BY <2>2
<1>6. CapturesKept'
  <2>1. ASSUME NEW u \in Functor, Intact(u)'
        PROVE  holds'[Capture[u]] = After(u)' /\ \A x \in Thread : arg'[x] # Capture[u]
    <3>1. Intact(u) /\ Capture[u] # Capture[t] /\ Capture[u] # th /\ Capture[u] \in Slot
      BY <1>0, <1>5, <2>1, ChainSlots
    <3>2. holds'[Capture[u]] = holds[Capture[u]]
      BY <3>1
    <3>3. \A x \in Thread : arg'[x] # Capture[u]
      BY <3>1 DEF CapturesKept
    <3> QED
      BY <3>1, <3>2, <3>3, OrderKept DEF CapturesKept
  <2> QED
    BY <2>1 DEF CapturesKept
<1>7. FollowersHeld'
  <2>1. HeldWhileReferenced'
    BY DEF IInv
  <2> QED
    BY <1>5, <1>6, <2>1, FollowersStep
<1>8. PassesOn'
  <2>1. \A u \in Task : stage'[u] = "new" => reported'[u] = {}
    BY DEF PassesOn
  <2>2. \A u \in Functor : After(u)' = After(u) /\ After(u) \in Task
    BY OrderKept, AfterIsBehind
  <2>3. ASSUME NEW x \in Thread, running[x] # None
        PROVE  /\ phase'[x] = "except_" => seen'[running[x]] \in Exception
               /\ phase'[x] = "f_" /\ kind[running[x]] = "auto" => reported'[running[x]] = {}
               /\ phase'[x] = "out" /\ kind[running[x]] = "auto" /\ reported'[running[x]] # {}
                    => reported'[After(running[x])] # {}
    <3>1. running[x] \in Functor /\ running[x] \in Task
      BY <2>3, RunningIsTask
    <3>2. reported'[running[x]] = reported[running[x]]
      BY <2>3, <3>1 DEF RunsOK
    <3>3. reported[After(running[x])] \subseteq reported'[After(running[x])]
      BY <2>2, <3>1
    <3>4. CASE x = th
      BY <1>0, <3>2, <3>4
    <3>5. CASE x # th
      BY <1>0, <2>3, <3>2, <3>3, <3>5 DEF PassesOn
    <3> QED
      BY <3>4, <3>5
  <2>4. ASSUME NEW u \in Functor, stage'[u] = "deleted", kind[u] = "auto", reported'[u] # {}
        PROVE  reported'[After(u)] # {}
    <3>1. stage[u] = "deleted" /\ reported'[u] = reported[u]
      BY <2>4
    <3>2. reported[After(u)] # {} /\ reported[After(u)] \subseteq reported'[After(u)]
      BY <2>2, <2>4, <3>1 DEF PassesOn
    <3> QED
      BY <3>2
  <2>5. \A x \in Thread : After(running[x])' = After(running[x])
    BY DEF After
  <2>6. \A x \in Thread : running'[x] # None =>
          /\ phase'[x] = "except_" => seen'[running'[x]] \in Exception
          /\ phase'[x] = "f_" /\ kind'[running'[x]] = "auto" => reported'[running'[x]] = {}
          /\ phase'[x] = "out" /\ kind'[running'[x]] = "auto" /\ reported'[running'[x]] # {}
               => reported'[After(running[x])'] # {}
    BY <2>3, <2>5
  <2>7. \A u \in Functor :
          stage'[u] = "deleted" /\ kind'[u] = "auto" /\ reported'[u] # {}
            => reported'[After(u)'] # {}
    BY <2>2, <2>4
  <2> QED
    BY <2>1, <2>6, <2>7 DEF PassesOn
<1>9. WaitOK'
  BY <1>0 DEF WaitOK
<1>10. WaitsForAll' /\ FailuresReachWaiter'
  <2>1. ASSUME waiter = "returned", NEW u \in Task
        PROVE  stage'[u] = stage[u] /\ reported'[u] = reported[u]
    <3>1. stage[u] # "held"
      BY <2>1 DEF WaitsForAll
    <3> QED
      BY <3>1
  <2> QED
    BY <1>0, <2>1, AfterReturn
<1> QED
  BY <1>1, <1>2, <1>3, <1>4, <1>6, <1>7, <1>8, <1>9, <1>10 DEF ChainInv

(* What an intact functor has captured is the holder of the task after it. *)
LEMMA ReportsToNext ==
  ASSUME ChainInv, NEW t \in Functor, Intact(t), NEW th \in Thread, NEW e, NEW last,
         Report(th, Capture[t], e, last)
  PROVE  reported'[After(t)] # {}
<1>1. holds[Capture[t]] = After(t) /\ After(t) \in Task
  BY AfterIsBehind DEF ChainInv, CapturesKept
<1>2. reported'[After(t)] = reported[After(t)] \cup {e}
  BY <1>1 DEF Report, ChainInv, IInv, TypeOK
<1> QED
  BY <1>2

(* except_, an exception of f_ and the return of f_ end a functor. *)
LEMMA FunctorEnds ==
  ASSUME ChainInv, IInv', NEW th \in Thread,
         PassOn(th) \/ ReturnFrom(th) \/ \E e \in Exception : Throw(th, e)
  PROVE  ChainInv'
<1> USE Parts, Positions
<1> DEFINE t == running[th]
           h == Capture[t]
<1>0. /\ t # None /\ pc[th] = "idle"
      /\ UNCHANGED <<syncVars, kind, wanted, built, running>>
      /\ phase' = [phase EXCEPT ![th] = "out"]
      /\ phase[th] = "except_" \/ phase[th] = "f_"
  BY DEF PassOn, ReturnFrom, Throw, At, Goto
<1>1. t \in Functor /\ h \in Holder /\ h \in Slot
  BY <1>0, RunningIsTask, ChainSlots
<1>2. CASE \E e : Report(th, h, e, TRUE) /\ (phase[th] = "except_" \/ kind[t] = "auto")
  <2>1. PICK e : Report(th, h, e, TRUE)
    BY <1>2
  <2>2. Intact(t)
    BY <1>0, <1>2 DEF Intact
  <2>3. reported'[After(t)] # {}
    BY <1>1, <2>1, <2>2, ReportsToNext
  <2>4. holds[h] \in Task /\ stage[holds[h]] = "held"
    BY <1>1, <2>1, ReferencedIsHeld, Slots DEF Report, TypeOK
  <2>5. \A u \in Task : /\ reported'[u] = reported[u] \/ stage[u] = "held"
                        /\ reported[u] \subseteq reported'[u]
    BY <2>1, <2>4 DEF Report, TypeOK
  <2>6. UNCHANGED <<stage, seen, holds>>
    BY <2>1 DEF Report
  <2>7. \A x \in Thread : arg'[x] = arg[x] \/ arg'[x] = h
    BY <2>1 DEF Report, TypeOK
  <2> QED
    BY <1>0, <2>3, <2>5, <2>6, <2>7, EndOfFunctorInv
<1>3. CASE phase[th] = "f_" /\ (Done(th, h) \/ UNCHANGED vars)
  <2>1. kind[t] = "auto" => reported[t] = {}
    BY <1>0, <1>3 DEF PassesOn
  <2>2. UNCHANGED <<stage, seen, reported>>
    BY <1>3 DEF Done, vars
  <2>3. \A s \in Slot : s # h /\ s # th => holds'[s] = holds[s]
    BY <1>3, <1>1, Slots DEF Done, TakeTask, vars, TypeOK
  <2>4. \A x \in Thread : arg'[x] = arg[x] \/ arg'[x] = h
    BY <1>3 DEF Done, vars, TypeOK
  <2> QED
    BY <1>0, <2>1, <2>2, <2>3, <2>4, EndOfFunctorInv
<1>4. \/ \E e : Report(th, h, e, TRUE) /\ (phase[th] = "except_" \/ kind[t] = "auto")
      \/ phase[th] = "f_" /\ (Done(th, h) \/ UNCHANGED vars)
  <2>1. CASE PassOn(th)
    BY <2>1 DEF PassOn, At
  <2>2. CASE \E e \in Exception : Throw(th, e)
    <3>1. kind[t] = "auto"
      BY <1>1, <2>2 DEF Throw, ChainTypeOK
    <3> QED
      BY <2>2, <3>1 DEF Throw
  <2>3. CASE ReturnFrom(th)
    BY <2>3 DEF ReturnFrom, At
  <2> QED
    BY <2>1, <2>2, <2>3
<1> QED
  BY <1>2, <1>3, <1>4

(* The task of a functor is deleted, or the direct call is over. *)
LEMMA LeaveInv ==
  ASSUME ChainInv, IInv', NEW th \in Thread, Leave(th)
  PROVE  ChainInv'
<1> USE Parts, Positions
<1> DEFINE t == running[th]
<1>0. /\ t # None /\ phase[th] = "out"
      /\ UNCHANGED <<syncVars, kind, wanted, built, phase>>
      /\ running' = [running EXCEPT ![th] = None]
      /\ UNCHANGED <<holds, arg, reported, seen>>
      /\ (stage[t] = "executing" /\ Recycle(t)) \/ (stage[t] = "new" /\ stage' = stage)
  BY DEF Leave, At, Recycle, vars, call
<1>1. /\ t \in Functor /\ t \in Task /\ t # Final
      /\ running'[th] = None /\ \A x \in Thread : x # th => running'[x] = running[x] /\ running[x] # t
      /\ \A u \in Task : u # t => stage'[u] = stage[u]
      /\ stage'[t] = IF stage[t] = "executing" THEN "deleted" ELSE stage[t]
      /\ stage[t] \in {"executing", "new"}
      /\ UNCHANGED <<func, handle, enqueued, waiter, result>>
  BY <1>0, RunningIsTask DEF Recycle, TypeOK, ChainTypeOK, RunsOK, syncVars
<1>2. ChainTypeOK'
  BY <1>0, <1>1 DEF ChainTypeOK
<1>3. BeforeBuilt'
  BY <1>0, <1>1 DEF BeforeBuilt
<1>4. TaskMade'
  BY <1>0, <1>1 DEF TaskMade
<1>5. RunsOK'
  <2>1. ASSUME NEW x \in Thread, x # th, running[x] # None
        PROVE  stage'[running[x]] = stage[running[x]]
    BY <1>1, <2>1, RunningIsTask
  <2> QED
    BY <1>0, <1>1, <2>1 DEF RunsOK
<1>6. \A u \in Functor : Intact(u)' => Intact(u)
  <2>1. ASSUME NEW u \in Functor, Intact(u)'
        PROVE  Intact(u)
    <3>1. CASE stage'[u] \in {"held", "spawned"}
      BY <1>1, <3>1 DEF Intact
    <3>2. CASE \E x \in Thread : /\ running'[x] = u
                                 /\ phase'[x] = "except_" \/ (phase'[x] = "f_" /\ kind'[u] = "auto")
      <4>1. PICK x \in Thread : /\ running'[x] = u
                                /\ phase[x] = "except_" \/ (phase[x] = "f_" /\ kind[u] = "auto")
        BY <1>0, <3>2
      <4>2. running[x] = u
        BY <1>1, <4>1, Slots
      <4> QED
        BY <4>1, <4>2 DEF Intact
    <3> QED
      BY <2>1, <3>1, <3>2 DEF Intact
  <2> QED
    BY <2>1
<1>7. CapturesKept'
  BY <1>0, <1>6, OrderKept DEF CapturesKept
<1>8. FollowersHeld'
  <2>1. \A u \in Functor : stage[u] = "held" => stage'[u] \in {"held", "spawned"}
    BY <1>1
  <2> QED
    BY <1>0, <1>6, <1>7, <2>1, FollowersStep DEF IInv
<1>9. PassesOn'
  <2>1. \A u \in Task : stage'[u] = "new" => reported'[u] = {}
    BY <1>0, <1>1 DEF PassesOn
  <2>2. \A u \in Functor : After(u)' = After(u)
    BY <1>0, OrderKept
  <2>3. ASSUME NEW x \in Thread, running'[x] # None
        PROVE  /\ phase'[x] = "except_" => seen'[running'[x]] \in Exception
               /\ phase'[x] = "f_" /\ kind'[running'[x]] = "auto" => reported'[running'[x]] = {}
               /\ phase'[x] = "out" /\ kind'[running'[x]] = "auto" /\ reported'[running'[x]] # {}
                    => reported'[After(running[x])'] # {}
    <3>1. x # th /\ running'[x] = running[x]
      BY <1>1, <2>3
    <3>2. After(running[x])' = After(running[x])
      BY <1>0, <3>1 DEF After
    <3> QED
      BY <1>0, <2>3, <3>1, <3>2 DEF PassesOn
  <2>4. ASSUME NEW u \in Functor, stage'[u] = "deleted", kind[u] = "auto", reported[u] # {}
        PROVE  reported[After(u)] # {}
    <3>1. CASE u = t
      BY <1>0, <2>4, <3>1 DEF PassesOn
    <3>2. CASE u # t
      BY <1>1, <2>4, <3>2 DEF PassesOn
    <3> QED
      BY <3>1, <3>2
  <2>5. \A u \in Functor :
          stage'[u] = "deleted" /\ kind'[u] = "auto" /\ reported'[u] # {}
            => reported'[After(u)'] # {}
    BY <1>0, <2>2, <2>4
  <2> QED
    BY <2>1, <2>3, <2>5 DEF PassesOn
<1>10. WaitOK'
  BY <1>1 DEF WaitOK
<1>11. WaitsForAll' /\ FailuresReachWaiter'
  <2>1. ASSUME waiter = "returned", NEW u \in Task
        PROVE  stage'[u] = stage[u] /\ reported'[u] = reported[u]
    <3>1. stage[u] # "executing"
      BY <2>1 DEF WaitsForAll
    <3> QED
      BY <1>0, <1>1, <3>1
  <2> QED
    BY <1>0, <1>1, <2>1, AfterReturn
<1> QED
  BY <1>2, <1>3, <1>4, <1>5, <1>7, <1>8, <1>9, <1>10, <1>11 DEF ChainInv

(* The final task runs and is deleted, which has the handle queued. *)
LEMMA FinalInv ==
  ASSUME ChainInv, IInv', RunFinal \/ (RecycleFinal /\ UNCHANGED chainVars)
  PROVE  ChainInv'
<1> USE Parts, Positions
<1>0. /\ UNCHANGED <<kind, wanted, built, running, phase, holds, arg, reported, func, enqueued,
                    waiter, result>>
      /\ \A t \in Task : t # Final => stage'[t] = stage[t] /\ seen'[t] = seen[t]
      /\ \/ stage[Final] = "spawned" /\ stage'[Final] = "executing" /\ handle' = handle
         \/ stage[Final] = "executing" /\ stage'[Final] = "deleted" /\ handle' = "queued"
  BY DEF RunFinal, RecycleFinal, Execute, Recycle, syncVars, chainVars, call, TypeOK
<1>1. ChainTypeOK'
  BY <1>0 DEF ChainTypeOK
<1>2. BeforeBuilt'
  BY <1>0 DEF BeforeBuilt
<1>3. TaskMade'
  BY <1>0 DEF TaskMade
<1>4. ASSUME NEW x \in Thread, running[x] # None
      PROVE  stage'[running[x]] = stage[running[x]] /\ seen'[running[x]] = seen[running[x]]
  BY <1>0, <1>4, RunningIsTask
<1>5. RunsOK'
  BY <1>0, <1>4 DEF RunsOK
<1>6. \A u \in Functor : Intact(u)' => Intact(u)
  BY <1>0 DEF Intact
<1>7. CapturesKept'
  BY <1>0, <1>6, OrderKept DEF CapturesKept
<1>8. FollowersHeld'
  <2>1. \A u \in Functor : stage[u] = "held" => stage'[u] \in {"held", "spawned"}
    BY <1>0
  <2> QED
    BY <1>0, <1>6, <1>7, <2>1, FollowersStep DEF IInv
<1>9. PassesOn'
  <2>1. \A u \in Task : stage'[u] = "new" => reported'[u] = {}
    BY <1>0 DEF PassesOn
  <2>2. \A u \in Functor : After(u)' = After(u)
    BY <1>0, OrderKept
  <2>3. \A x \in Thread : After(running[x])' = After(running[x])
    BY <1>0 DEF After
  <2>4. \A x \in Thread : running'[x] # None =>
          /\ phase'[x] = "except_" => seen'[running'[x]] \in Exception
          /\ phase'[x] = "f_" /\ kind'[running'[x]] = "auto" => reported'[running'[x]] = {}
          /\ phase'[x] = "out" /\ kind'[running'[x]] = "auto" /\ reported'[running'[x]] # {}
               => reported'[After(running[x])'] # {}
    BY <1>0, <1>4, <2>3 DEF PassesOn
  <2>5. \A u \in Functor :
          stage'[u] = "deleted" /\ kind'[u] = "auto" /\ reported'[u] # {}
            => reported'[After(u)'] # {}
    BY <1>0, <2>2 DEF PassesOn
  <2> QED
    BY <2>1, <2>4, <2>5 DEF PassesOn
<1>10. WaitOK'
  BY <1>0 DEF WaitOK
<1>11. WaitsForAll' /\ FailuresReachWaiter'
  BY <1>0 DEF WaitsForAll, FailuresReachWaiter
<1> QED
  BY <1>1, <1>2, <1>3, <1>5, <1>7, <1>8, <1>9, <1>10, <1>11 DEF ChainInv

----------------------------------------------------------------------------
(* The return of syncWait                                                  *)

(* When the group has nothing left to do all tasks are deleted: the handle  *)
(* has run, so the final task is, and with it nothing before it is held or  *)
(* waits in an arena.                                                       *)
LEMMA NothingLeft ==
  ASSUME ChainInv, ~GroupBusy
  PROVE  /\ stage[Final] = "deleted"
         /\ \A t \in Task : stage[t] \in {"new", "deleted"}
<1> USE Parts, Positions
<1>1. stage[Final] = "deleted"
  BY DEF GroupBusy, WaitOK
<1>2. ASSUME NEW t \in Functor
      PROVE  stage[t] \in {"new", "deleted"}
  <2>1. ~Intact(t)
    BY <1>1 DEF FollowersHeld
  <2>2. stage[t] \notin {"held", "spawned"}
    BY <2>1 DEF Intact
  <2>3. stage[t] # "executing" /\ stage[t] \in Stage
    BY DEF GroupBusy, TypeOK
  <2> QED
    BY <2>2, <2>3 DEF Stage
<1> QED
  BY <1>1, <1>2 DEF TaskMade

(* The exceptions that were told to tasks with only wrapped functors from  *)
(* there on have come down to the final task.                              *)
LEMMA HeardAtTheEnd ==
  ASSUME ChainInv, ~GroupBusy,
         NEW t \in Functor, reported[t] # {}, kind[t] = "auto",
         \A u \in Behind(t) : kind[u] = "auto"
  PROVE  reported[Final] # {}
<1> USE Parts, Positions
<1> DEFINE Hears(u) == /\ reported[u] # {} /\ kind[u] = "auto"
                       /\ \A w \in Behind(u) : kind[w] = "auto"
           T == {i \in 1..Len(Chain) : Hears(Chain[i])}
<1>1. T \subseteq 0..Len(Chain) /\ T # {}
  <2>1. PICK i \in 1..Len(Chain) : Chain[i] = t
    OBVIOUS
  <2>2. i \in T
    BY <2>1
  <2>3. \A m \in 1..Len(Chain) : m \in 0..Len(Chain)
    OBVIOUS
  <2> QED
    BY <2>2, <2>3
<1>2. \E k \in T : \A m \in T : m <= k
  <2> HIDE DEF T
  <2> QED
    BY <1>1, NatMax
<1>3. PICK k \in T : \A m \in T : m <= k
  BY <1>2
<1> DEFINE u == Chain[k]
<1>4. u \in Functor /\ u \in Task /\ Hears(u)
  BY <1>3
<1>5. stage[u] = "deleted"
  BY <1>4, NothingLeft DEF PassesOn
<1>6. reported[After(u)] # {}
  BY <1>4, <1>5 DEF PassesOn
<1>7. CASE After(u) = Final
  BY <1>6, <1>7
<1>8. CASE After(u) # Final
  <2>1. /\ After(u) \in Behind(u) /\ Behind(After(u)) \subseteq Behind(u)
    BY <1>4, <1>8, AfterIsBehind
  <2>2. Hears(After(u))
    BY <1>4, <1>6, <2>1
  <2>3. After(u) \in Functor
    BY <2>1 DEF Behind
  <2>4. PICK i \in 1..Len(Chain) : Chain[i] = After(u)
    BY <2>3
  <2>5. k < i
    BY <2>1, <2>4, BehindAt
  <2>6. i <= k
    BY <1>3, <2>2, <2>4
  <2> QED
    BY <1>1, <2>5, <2>6
<1> QED
  BY <1>7, <1>8

(* syncWait returns what it promises. *)
LEMMA ReturnsResult ==
  ASSUME ChainInv, WaitOver, UNCHANGED chainVars
  PROVE  WaitsForAll' /\ FailuresReachWaiter'
<1> USE Parts, Positions
<1>0. /\ ~GroupBusy /\ UNCHANGED <<stage, reported, kind, wanted>> /\ waiter' = "returned"
      /\ result' = IF ptrSet[Final] = "kSet" THEN ptr[Final] ELSE None
  BY DEF WaitOver, vars, chainVars
<1>1. WaitsForAll'
  BY <1>0, NothingLeft DEF WaitsForAll
<1>2. ptrSet[Final] # "kSetting"
  <2>1. ASSUME NEW th \in Thread, Storing(th, Final)
        PROVE  FALSE
    <3>1. arg[th] \in Slot /\ holds[arg[th]] = Final
      BY <2>1, Slots DEF Storing, CallOK
    <3>2. stage[Final] = "held"
      BY <3>1, ReferencedIsHeld
    <3> QED
      BY <1>0, <3>2, NothingLeft
  <2> QED
    BY <2>1 DEF IInv, ExceptionOK
<1>3. IF reported[Final] = {} THEN result' = None ELSE result' \in reported[Final]
  BY <1>0, <1>2 DEF IInv, ExceptionOK, TypeOK
<1> DEFINE heard == {t \in Functor \cup {Final} :
                       /\ \A u \in {t} \cup Behind(t) : u # Final => kind[u] = "auto"
                       /\ reported[t] # {}}
<1>4. Final \in heard <=> reported[Final] # {}
  <2>1. Behind(Final) = {}
    BY DEF Behind
  <2> QED
    BY <2>1
<1>5. heard # {} => reported[Final] # {}
  <2> SUFFICES ASSUME NEW t \in heard
               PROVE  reported[Final] # {}
    OBVIOUS
  <2>1. CASE t = Final
    BY <2>1
  <2>2. CASE t # Final
    <3>1. t \in Functor /\ reported[t] # {} /\ kind[t] = "auto"
      BY <2>2
    <3>2. \A u \in Behind(t) : kind[u] = "auto"
      BY <2>2 DEF Behind
    <3> QED
      BY <1>0, <3>1, <3>2, HeardAtTheEnd
  <2> QED
    BY <2>1, <2>2
<1>6. IF heard = {} THEN result' = None ELSE \E t \in heard : result' \in reported'[t]
  <2> HIDE DEF heard
  <2> QED
    BY <1>0, <1>3, <1>4, <1>5
<1>7. heard' = heard
  BY <1>0, OrderKept
<1>8. IF heard' = {} THEN result' = None ELSE \E t \in heard' : result' \in reported'[t]
  BY <1>6, <1>7
<1>9. FailuresReachWaiter'
  BY <1>8 DEF FailuresReachWaiter
<1> QED
  BY <1>1, <1>9

(* The steps of the waiting thread, the group and the arenas change no task *)
(* and run no functor.                                                      *)
LEMMA QuietInv ==
  ASSUME ChainInv, UNCHANGED <<vars, chainVars>>,
         \/ \E t \in Task : RunEnqueued(t)
         \/ RunHandle \/ WaitOver \/ FuncReturns \/ UNCHANGED syncVars
  PROVE  ChainInv'
<1> USE Parts, Positions
<1>0. UNCHANGED <<refCount, ptr, ptrSet, holds, pc, arg, given, releases, stage, seen, reported,
                  kind, wanted, built, running, phase>>
  BY DEF vars, chainVars
<1>1. IInv'
  BY NextInv
<1>2. \A t : /\ Intact(t)' <=> Intact(t)
             /\ After(t)' = After(t) /\ Behind(t)' = Behind(t)
  BY <1>0, OrderKept DEF Intact
<1>3. TaskMade' /\ RunsOK'
  BY <1>0 DEF TaskMade, RunsOK
<1>4. CapturesKept' /\ FollowersHeld'
  BY <1>0, <1>2 DEF CapturesKept, FollowersHeld
<1>5. PassesOn'
  <2>1. \A t \in Task : stage'[t] = "new" => reported'[t] = {}
    BY <1>0 DEF PassesOn
  <2>2. \A x \in Thread : After(running[x])' = After(running[x])
    BY <1>0 DEF After
  <2>3. \A x \in Thread : running'[x] # None =>
          /\ phase'[x] = "except_" => seen'[running'[x]] \in Exception
          /\ phase'[x] = "f_" /\ kind'[running'[x]] = "auto" => reported'[running'[x]] = {}
          /\ phase'[x] = "out" /\ kind'[running'[x]] = "auto" /\ reported'[running'[x]] # {}
               => reported'[After(running[x])'] # {}
    BY <1>0, <2>2 DEF PassesOn
  <2>4. \A u \in Functor :
          stage'[u] = "deleted" /\ kind'[u] = "auto" /\ reported'[u] # {}
            => reported'[After(u)'] # {}
    BY <1>0, <1>2 DEF PassesOn
  <2> QED
    BY <2>1, <2>3, <2>4 DEF PassesOn
<1>6. /\ ChainTypeOK' /\ BeforeBuilt' /\ WaitOK' /\ WaitsForAll' /\ FailuresReachWaiter'
  <2>1. CASE \E t \in Task : RunEnqueued(t)
    <3>1. enqueued' \subseteq enqueued /\ UNCHANGED <<handle, func, waiter, result>>
      BY <2>1 DEF RunEnqueued
    <3>2. ChainTypeOK' /\ BeforeBuilt' /\ WaitOK'
      BY <1>0, <3>1 DEF ChainTypeOK, BeforeBuilt, WaitOK
    <3> QED
      BY <1>0, <3>1, <3>2, AfterReturn
  <2>2. CASE RunHandle
    <3>1. handle = "queued" /\ handle' = "run" /\ UNCHANGED <<enqueued, func, waiter, result>>
      BY <2>2 DEF RunHandle
    <3>2. ChainTypeOK' /\ BeforeBuilt' /\ WaitOK'
      BY <1>0, <3>1 DEF ChainTypeOK, BeforeBuilt, WaitOK
    <3> QED
      BY <1>0, <3>1, <3>2, AfterReturn
  <2>3. CASE WaitOver
    <3>1. UNCHANGED <<enqueued, handle, func>> /\ func = "returned"
      BY <2>3 DEF WaitOver, GroupBusy
    <3>2. waiter' = "returned" /\ result' \in Exception \cup {None}
      BY <2>3 DEF WaitOver, TypeOK
    <3>3. ChainTypeOK' /\ BeforeBuilt' /\ WaitOK'
      BY <1>0, <3>1, <3>2 DEF ChainTypeOK, BeforeBuilt, WaitOK
    <3> QED
      BY <2>3, <3>3, ReturnsResult
  <2>4. CASE FuncReturns
    <3>1. /\ func = "running" /\ func' = "returned" /\ built # "no"
          /\ UNCHANGED <<enqueued, handle, waiter, result>>
      BY <2>4 DEF FuncReturns
    <3>2. ChainTypeOK' /\ BeforeBuilt' /\ WaitOK'
      BY <1>0, <3>1 DEF ChainTypeOK, BeforeBuilt, WaitOK
    <3> QED
      BY <1>0, <3>1, <3>2, AfterReturn
  <2>5. CASE UNCHANGED syncVars
    <3>1. UNCHANGED <<enqueued, handle, func, waiter, result>>
      BY <2>5 DEF syncVars
    <3>2. ChainTypeOK' /\ BeforeBuilt' /\ WaitOK'
      BY <1>0, <3>1 DEF ChainTypeOK, BeforeBuilt, WaitOK
    <3> QED
      BY <1>0, <3>1, <3>2, AfterReturn
  <2> QED
    BY <2>1, <2>2, <2>3, <2>4, <2>5
<1> QED
  BY <1>1, <1>3, <1>4, <1>5, <1>6 DEF ChainInv

----------------------------------------------------------------------------
(* The theorems                                                            *)

(* Initially iFunc waits in the group and nothing was made. *)
LEMMA InitChainInv ==
  InitChain => ChainInv
<1> SUFFICES ASSUME InitChain
             PROVE  ChainInv
  OBVIOUS
<1> USE Positions
<1>0. Init /\ InitSync
  BY DEF InitChain, InitSync
<1>1. IInv
  BY <1>0, InitInv
<1>2. ChainTypeOK
  BY <1>0, ChainAssumption DEF InitChain, InitSync, ChainTypeOK, Functor
<1>3. /\ \A t \in Task : stage[t] = "new" /\ reported[t] = {}
      /\ \A s \in Slot : holds[s] = None
      /\ \A th \in Thread : arg[th] = None /\ running[th] = None
      /\ built = "no" /\ func = "queued" /\ waiter = "waiting" /\ handle = "deferred"
  BY <1>0 DEF Init, InitChain, InitSync
<1>4. BeforeBuilt
  BY <1>3, ChainSlots DEF BeforeBuilt
<1>5. TaskMade /\ RunsOK
  BY <1>3 DEF TaskMade, RunsOK
<1>6. \A t \in Functor : ~Intact(t)
  BY <1>3, Slots DEF Intact
<1>7. CapturesKept /\ FollowersHeld
  BY <1>6 DEF CapturesKept, FollowersHeld
<1>8. PassesOn
  BY <1>3 DEF PassesOn
<1>9. WaitOK /\ WaitsForAll /\ FailuresReachWaiter
  BY <1>3 DEF WaitOK, WaitsForAll, FailuresReachWaiter
<1> QED
  BY <1>1, <1>2, <1>4, <1>5, <1>7, <1>8, <1>9 DEF ChainInv

(* Every step keeps the inductive invariant. *)
LEMMA NextChainInv ==
  ChainInv /\ [NextChain]_allVars => ChainInv'
<1> SUFFICES ASSUME ChainInv, [NextChain]_allVars
             PROVE  ChainInv'
  OBVIOUS
<1> USE Parts
<1>0. IInv'
  BY ChainKeepsIInv
<1>1. ASSUME NEW th \in Thread, Progress(th) \/ Another(th)
      PROVE  ChainInv'
  <2>1. CASE RunFunc(th) /\ UNCHANGED chainVars
    BY <1>0, <2>1, RunFuncInv
  <2>2. CASE LastTask(th) \/ RunLast(th)
    BY <1>0, <2>2, ChainBuilt
  <2>3. CASE \E t \in Functor : RunTask(th, t)
    BY <1>0, <2>3, RunTaskInv
  <2>4. CASE PassOn(th) \/ ReturnFrom(th) \/ \E e \in Exception : Throw(th, e)
    BY <1>0, <2>4, FunctorEnds
  <2>5. CASE Leave(th)
    BY <1>0, <2>5, LeaveInv
  <2>6. CASE HolderCall(th)
    BY <1>0, <2>6, HolderCallStep, HolderInv
  <2> QED
    BY <1>1, <2>1, <2>2, <2>3, <2>4, <2>5, <2>6 DEF Progress, Another, HolderCall
<1>2. CASE RunFinal \/ FuncReturns \/ (Scheduling /\ UNCHANGED chainVars)
  <2>1. CASE RunFinal \/ (RecycleFinal /\ UNCHANGED chainVars)
    BY <1>0, <2>1, FinalInv
  <2>2. CASE /\ \/ \E t \in Task : RunEnqueued(t)
                \/ RunHandle \/ WaitOver
             /\ UNCHANGED chainVars
    <3>1. UNCHANGED vars
      BY <2>2 DEF RunEnqueued, RunHandle, WaitOver
    <3> QED
      BY <2>2, <3>1, QuietInv
  <2>3. CASE FuncReturns
    BY <2>3, QuietInv DEF FuncReturns
  <2> QED
    BY <1>2, <2>1, <2>2, <2>3 DEF Scheduling
<1>3. CASE UNCHANGED allVars
  BY <1>3, QuietInv DEF allVars
<1> QED
  BY <1>1, <1>2, <1>3 DEF NextChain, Onward

(* The invariant of the chain, its tasks and the syncWait it runs under. *)
THEOREM ChainInvariance == ChainSpec => []ChainInv
BY InitChainInv, NextChainInv, PTL DEF ChainSpec

(* syncWait returns when every task ever made is deleted, whether its lambda
   was in the group or took the detour over an arena. *)
THEOREM SyncWaitWaitsForAll == ChainSpec => []WaitsForAll
<1>1. ChainInv => WaitsForAll
  BY DEF ChainInv
<1> QED
  BY <1>1, ChainInvariance, PTL

(* An exception told to a task with only wrapped functors from there on is
   what syncWait returns, or another such one. *)
THEOREM FailuresAreReturned == ChainSpec => []FailuresReachWaiter
<1>1. ChainInv => FailuresReachWaiter
  BY DEF ChainInv
<1> QED
  BY <1>1, ChainInvariance, PTL

(* While f_ of a wrapped functor runs, what follows it has not started and
   syncWait has not returned. *)
THEOREM ChainInOrder == ChainSpec => []StagesInOrder
<1>1. ASSUME ChainInv
      PROVE  StagesInOrder
  <2> SUFFICES ASSUME NEW th \in Thread, running[th] # None, phase[th] = "f_",
                      kind[running[th]] = "auto"
               PROVE  /\ \A t \in Behind(running[th]) \cup {Final} : stage[t] = "held"
                      /\ waiter = "waiting"
    BY DEF StagesInOrder
  <2>1. running[th] \in Functor /\ Intact(running[th])
    BY <1>1, Parts, RunningIsTask DEF Intact
  <2>2. \A t \in Behind(running[th]) \cup {Final} : stage[t] = "held"
    BY <1>1, <2>1, Parts DEF FollowersHeld
  <2>3. waiter = "waiting"
    BY <1>1, <2>2, Parts DEF WaitsForAll, ChainTypeOK
  <2> QED
    BY <2>2, <2>3
<1> QED
  BY <1>1, ChainInvariance, PTL

(* Under a chain, too, a task is handed to its group exactly when its last
   reference is gone ... *)
THEOREM ChainSpawnsUnreferenced == ChainSpec => []HeldWhileReferenced
<1>1. ChainInv => HeldWhileReferenced
  BY Parts
<1> QED
  BY <1>1, ChainInvariance, PTL

(* ... and executed with an exception exactly if one was reported to it. *)
THEOREM ExceptionReachesFunctor == ChainSpec => []SeesReportedException
<1>1. ChainInv => SeesReportedException
  BY Parts
<1> QED
  BY <1>1, ChainInvariance, PTL

----------------------------------------------------------------------------
(* Nothing is forgotten                                                    *)

(* The functor t runs in th, and its wrapper has not let go of the holder  *)
(* that its lambda captured: it is still before the end of f_ or except_,  *)
(* or in the call that reports to the next task and will release it.       *)
Passing(th, t) ==
  /\ running[th] = t
  /\ phase[th] = "out" => /\ arg[th] = Capture[t] /\ releases[th]
                          /\ pc[th] \in {"store", "publish", "told"}

(* A captured holder outlives the run of its functor at no time. *)
CaptureUsed ==
  \A t \in Functor : wanted[t] /\ holds[Capture[t]] # None =>
    stage[t] \in {"held", "spawned"} \/ \E th \in Thread : Passing(th, t)

(* Every functor that is wanted gets its task, but for the one that runLast *)
(* calls directly.                                                         *)
AllMade ==
  /\ func # "queued" => stage[Final] # "new"
  /\ built # "no" => \A t \in Selected :
       stage[t] # "new" \/ (built = "runLast" /\ t = Chain[1])

(* When iFunc has returned it left no holder behind. *)
FuncEmptied ==
  func = "returned" =>
    /\ holds[Start] = None
    /\ \A t \in Functor : ~wanted[t] => holds[Capture[t]] = None

(* Only holders that functors may keep are assigned to. *)
AssignsFree == \A th \in Thread : pc[th] = "assign" => arg[th] \in Free

RestInv == CaptureUsed /\ AllMade /\ FuncEmptied /\ AssignsFree

(* Functors and other threads are done with what they kept, iFunc has      *)
(* returned, and the group and the arena have nothing to run.              *)
AtRest ==
  /\ func = "returned" /\ handle # "queued"
  /\ \A th \in Thread : pc[th] = "idle" /\ running[th] = None
  /\ \A h \in Free : holds[h] = None
  /\ \A t \in Task : stage[t] \notin {"spawned", "executing"}

(* Then waitNoThrow has nothing left to wait for, and every functor that   *)
(* was wanted has run: none is left out by its predecessors, and no handle *)
(* or lambda is forgotten.                                                 *)
NothingForgotten ==
  AtRest =>
    /\ ~GroupBusy
    /\ \A t \in Selected : stage[t] = "deleted" \/ (built = "runLast" /\ t = Chain[1])

(* What a step of a call on holders leaves as it is: the holders of iFunc  *)
(* and of the lambdas are emptied at most, and a wrapper goes on to the    *)
(* release of its own.                                                     *)
WrappersGoOn ==
  /\ AssignsFree'
  /\ \A h \in Captures \cup {Start} : holds'[h] # None => holds'[h] = holds[h]
  /\ \A t \in Functor, x \in Thread :
       Passing(x, t) /\ holds'[Capture[t]] # None => Passing(x, t)'

LEMMA WrappersGoOnStep ==
  ASSUME TypeOK, CallOK, AssignsFree, ChainTypeOK,
         NEW th \in Thread, HolderCall(th)
  PROVE  WrappersGoOn
<1> USE Slots, ChainSlots DEF TypeOK
<1>1. UNCHANGED chainVars
  BY DEF HolderCall, LetGo, Fail, Continue, Unwind
<1>2. \A x \in Thread, t \in Functor :
        Passing(x, t)' <=>
          /\ running[x] = t
          /\ phase[x] = "out" => /\ arg'[x] = Capture[t] /\ releases'[x]
                                 /\ pc'[x] \in {"store", "publish", "told"}
  BY <1>1 DEF Passing, chainVars
<1>3. \A x \in Thread, t \in Functor :
        Passing(x, t) /\ phase[x] = "out" => /\ arg[x] = Capture[t] /\ releases[x]
                                             /\ pc[x] \in {"store", "publish", "told"}
  BY DEF Passing
<1>4. ASSUME NEW h \in Free, NEW from \in Holder,
             Copy(th, h, from) \/ Move(th, h, from)
      PROVE  WrappersGoOn
  <2>1. UNCHANGED <<pc, arg, releases>>
    BY <1>4 DEF Copy, Move, call
  <2>2. \A k \in Captures \cup {Start} : holds'[k] # None => holds'[k] = holds[k]
    BY <1>4 DEF Copy, Move, Captures
  <2>3. AssignsFree'
    BY <2>1 DEF AssignsFree
  <2> QED
    BY <1>1, <2>1, <2>2, <2>3 DEF WrappersGoOn, Passing, chainVars
<1>5. ASSUME NEW h \in Free, NEW from \in Holder,
             CopyAssign(th, h, from) \/ MoveAssign(th, h, from)
      PROVE  WrappersGoOn
  <2>1. /\ pc[th] = "idle"
        /\ pc' = [pc EXCEPT ![th] = "assign"]
        /\ arg' = [arg EXCEPT ![th] = h]
        /\ UNCHANGED releases
    BY <1>5 DEF CopyAssign, MoveAssign, StartAssign, MayUse
  <2>2. \A k \in Captures \cup {Start} : holds'[k] # None => holds'[k] = holds[k]
    BY <1>5 DEF CopyAssign, MoveAssign, Captures
  <2>3. AssignsFree'
    BY <2>1 DEF AssignsFree
  <2>4. \A t \in Functor, x \in Thread : Passing(x, t) => Passing(x, t)'
    BY <1>2, <2>1 DEF Passing
  <2> QED
    BY <2>2, <2>3, <2>4 DEF WrappersGoOn
<1>6. ASSUME NEW from \in Free, MakeHolder(th, from)
      PROVE  WrappersGoOn
  <2>1. /\ pc[th] = "idle"
        /\ pc' = [pc EXCEPT ![th] = "convert"]
        /\ arg' = [arg EXCEPT ![th] = from]
        /\ UNCHANGED releases
    BY <1>6 DEF MakeHolder, MayUse
  <2>2. \A k \in Captures \cup {Start} : holds'[k] = holds[k]
    BY <1>6 DEF MakeHolder, Captures
  <2>3. AssignsFree'
    BY <2>1 DEF AssignsFree
  <2>4. \A t \in Functor, x \in Thread : Passing(x, t) => Passing(x, t)'
    BY <1>2, <2>1 DEF Passing
  <2> QED
    BY <2>2, <2>3, <2>4 DEF WrappersGoOn
<1>7. ASSUME NEW h \in Holder, Done(th, h)
      PROVE  WrappersGoOn
  <2>1. /\ pc[th] = "idle"
        /\ pc' = [pc EXCEPT ![th] = "release"]
        /\ arg' = [arg EXCEPT ![th] = h]
        /\ UNCHANGED releases
    BY <1>7 DEF Done, TakeTask, MayUse
  <2>2. \A k \in Captures \cup {Start} : holds'[k] # None => holds'[k] = holds[k]
    BY <1>7 DEF Done, TakeTask, Captures
  <2>3. AssignsFree'
    BY <2>1 DEF AssignsFree
  <2>4. \A t \in Functor, x \in Thread : Passing(x, t) => Passing(x, t)'
    BY <1>2, <2>1 DEF Passing
  <2> QED
    BY <2>2, <2>3, <2>4 DEF WrappersGoOn
<1>8. ASSUME NEW h \in Holder, NEW e \in Exception, NEW last \in BOOLEAN,
             Report(th, h, e, last)
      PROVE  WrappersGoOn
  <2>1. /\ pc[th] = "idle"
        /\ pc' \in {[pc EXCEPT ![th] = "store"], [pc EXCEPT ![th] = "told"]}
        /\ arg' = [arg EXCEPT ![th] = h]
        /\ releases' = [releases EXCEPT ![th] = last]
        /\ UNCHANGED holds
    BY <1>8 DEF Report, MayUse
  <2>3. AssignsFree'
    BY <2>1 DEF AssignsFree
  <2>4. \A t \in Functor, x \in Thread : Passing(x, t) => Passing(x, t)'
    BY <1>2, <2>1 DEF Passing
  <2> QED
    BY <2>1, <2>3, <2>4 DEF WrappersGoOn
<1>9. ASSUME Store(th) \/ Publish(th)
      PROVE  WrappersGoOn
  <2>1. /\ pc[th] \in {"store", "publish"}
        /\ pc' \in {[pc EXCEPT ![th] = "publish"], [pc EXCEPT ![th] = "told"]}
        /\ UNCHANGED <<arg, releases, holds>>
    BY <1>9 DEF Store, Publish
  <2>3. AssignsFree'
    BY <2>1 DEF AssignsFree
  <2>4. \A t \in Functor, x \in Thread : Passing(x, t) => Passing(x, t)'
    BY <1>2, <2>1 DEF Passing
  <2> QED
    BY <2>1, <2>3, <2>4 DEF WrappersGoOn
<1>10. ASSUME FinishAssign(th)
       PROVE  WrappersGoOn
  <2>1. pc[th] = "assign" /\ arg[th] \in Free
    BY <1>10 DEF FinishAssign, AssignsFree
  <2>2. \A k \in Captures \cup {Start} : holds'[k] = holds[k]
    BY <1>10, <2>1 DEF FinishAssign, Captures
  <2>3. \A x \in Thread : x # th => /\ pc'[x] = pc[x] /\ arg'[x] = arg[x]
                                    /\ releases'[x] = releases[x]
    BY <1>10 DEF FinishAssign, Return
  <2>4. pc'[th] # "assign"
    BY <1>10 DEF FinishAssign, Return
  <2>5. AssignsFree'
    BY <2>3, <2>4 DEF AssignsFree
  <2>6. \A t \in Functor, x \in Thread : Passing(x, t) => Passing(x, t)'
    BY <1>2, <1>3, <2>1, <2>3 DEF Passing
  <2> QED
    BY <2>2, <2>5, <2>6 DEF WrappersGoOn
<1>11. ASSUME ReleaseTo(th) \/ \E h \in Free : AndRelease(th, h)
       PROVE  WrappersGoOn
  <2>1. pc[th] \in {"release", "convert"} /\ Return(th)
    BY <1>11 DEF ReleaseTo, Release, AndRelease
  <2>2. \A k \in Captures \cup {Start} : holds'[k] # None => holds'[k] = holds[k]
    BY <1>11 DEF ReleaseTo, Release, AndRelease, Captures
  <2>3. \A x \in Thread : x # th => /\ pc'[x] = pc[x] /\ arg'[x] = arg[x]
                                    /\ releases'[x] = releases[x]
    BY <2>1 DEF Return
  <2>4. pc'[th] # "assign"
    BY <2>1 DEF Return
  <2>5. AssignsFree'
    BY <2>3, <2>4 DEF AssignsFree
  <2>6. \A t \in Functor, x \in Thread : Passing(x, t) => Passing(x, t)'
    BY <1>2, <1>3, <2>1, <2>3 DEF Passing
  <2> QED
    BY <2>2, <2>5, <2>6 DEF WrappersGoOn
<1>12. ASSUME Told(th)
       PROVE  WrappersGoOn
  <2>1. pc[th] = "told" /\ arg[th] \in Holder
    BY <1>12 DEF Told, CallOK
  <2>2. \A k \in Captures \cup {Start} : holds'[k] # None => holds'[k] = holds[k]
    BY <1>12, <2>1 DEF Told, TakeTask, Captures
  <2>3. \A x \in Thread : x # th => /\ pc'[x] = pc[x] /\ arg'[x] = arg[x]
                                    /\ releases'[x] = releases[x]
    BY <1>12 DEF Told, TakeTask, Return
  <2>4. pc'[th] # "assign"
    BY <1>12 DEF Told, TakeTask, Return
  <2>5. AssignsFree'
    BY <2>3, <2>4 DEF AssignsFree
  <2>6. ASSUME NEW t \in Functor, NEW x \in Thread, Passing(x, t),
               holds'[Capture[t]] # None
        PROVE  Passing(x, t)'
    <3>1. CASE x # th \/ phase[x] # "out"
      BY <1>2, <2>3, <2>6, <3>1 DEF Passing
    <3>2. CASE x = th /\ phase[x] = "out"
      <4>1. arg[th] = Capture[t] /\ releases[th]
        BY <1>3, <2>6, <3>2
      <4>2. holds'[Capture[t]] = None
        BY <1>12, <4>1 DEF Told, TakeTask
      <4> QED
        BY <2>6, <4>2
    <3> QED
      BY <3>1, <3>2
  <2> QED
    BY <2>2, <2>5, <2>6 DEF WrappersGoOn
<1>13. \/ \E h \in Free, from \in Holder :
            \/ Copy(th, h, from) \/ Move(th, h, from)
            \/ CopyAssign(th, h, from) \/ MoveAssign(th, h, from)
       \/ \E from \in Free : MakeHolder(th, from)
       \/ \E h \in Holder : Done(th, h)
       \/ \E h \in Holder, e \in Exception, last \in BOOLEAN : Report(th, h, e, last)
       \/ FinishAssign(th) \/ Store(th) \/ Publish(th) \/ Told(th)
       \/ ReleaseTo(th) \/ \E h \in Free : AndRelease(th, h)
  <2>1. CASE Pass(th)
    BY <2>1 DEF Pass, AttachArena
  <2>2. CASE \/ \E h \in Holder : LetGo(th, h)
             \/ \E t \in Functor : Unwind(th, t)
    BY <2>2 DEF LetGo, Unwind
  <2>3. CASE \E last \in BOOLEAN : Fail(th, last)
    BY <2>3 DEF Fail
  <2>4. CASE Continue(th)
    BY <2>4 DEF Continue
  <2> QED
    BY <2>1, <2>2, <2>3, <2>4 DEF HolderCall
<1> QED
  BY <1>4, <1>5, <1>6, <1>7, <1>8, <1>9, <1>10, <1>11, <1>12, <1>13

(* A step that makes no task and ends no run of a functor but after its    *)
(* wrapper released the captured holder.                                   *)
LEMMA RestKept ==
  ASSUME RestInv, AssignsFree', UNCHANGED <<func, wanted, built>>,
         \A h \in Captures \cup {Start} : holds'[h] # None => holds'[h] = holds[h],
         \A t \in Task : stage[t] # "new" => stage'[t] # "new",
         \A t \in Functor : wanted[t] /\ holds'[Capture[t]] # None =>
           /\ stage[t] \in {"held", "spawned"} =>
                stage'[t] \in {"held", "spawned"} \/ \E x \in Thread : Passing(x, t)'
           /\ \A x \in Thread : Passing(x, t) => Passing(x, t)'
  PROVE  RestInv'
<1> USE ChainSlots, Positions
<1>1. CaptureUsed'
  BY DEF RestInv, CaptureUsed
<1>2. AllMade'
  BY DEF RestInv, AllMade, Selected
<1>3. FuncEmptied'
  BY DEF RestInv, FuncEmptied
<1> QED
  BY <1>1, <1>2, <1>3 DEF RestInv

(* The calls on holders. *)
LEMMA HolderCallRest ==
  ASSUME ChainInv, RestInv, NEW th \in Thread, HolderCall(th)
  PROVE  RestInv'
<1> USE Parts, Positions
<1>1. TypeOK /\ CallOK /\ HeldWhileReferenced /\ AssignsFree
  BY DEF IInv, RestInv
<1>2. WrappersGoOn
  BY <1>1, WrappersGoOnStep
<1>3. HolderStep
  BY <1>1, HolderCallStep
<1>4. UNCHANGED <<func, wanted, built>>
  BY <1>3 DEF HolderStep, chainVars
<1>5. \A t \in Task : \/ stage'[t] = stage[t]
                      \/ stage[t] = "held" /\ stage'[t] = "spawned"
  BY <1>3 DEF HolderStep
<1> QED
  BY <1>2, <1>4, <1>5, RestKept DEF WrappersGoOn

(* The run lambda of a task starts its functor. *)
LEMMA RunTaskRest ==
  ASSUME ChainInv, RestInv, NEW th \in Thread, NEW t \in Functor, RunTask(th, t)
  PROVE  RestInv'
<1> USE Parts, Positions, Slots
<1>1. TypeOK /\ ChainTypeOK
  BY DEF IInv
<1>2. UNCHANGED <<pc, arg, releases, holds, func, wanted, built>>
  BY DEF RunTask, Execute, call, syncVars
<1>3. /\ running[th] = None
      /\ running' = [running EXCEPT ![th] = t]
      /\ \E p \in {"f_", "except_"} : phase' = [phase EXCEPT ![th] = p]
  BY DEF RunTask
<1>4. stage[t] = "spawned" /\ stage' = [stage EXCEPT ![t] = "executing"]
  BY DEF RunTask, Execute
<1>5. Passing(th, t)'
  BY <1>1, <1>3 DEF Passing, ChainTypeOK
<1>6. ASSUME NEW u \in Functor, NEW x \in Thread, Passing(x, u)
      PROVE  Passing(x, u)'
  <2>1. x # th
    BY <1>3, <1>6 DEF Passing
  <2>2. running'[x] = running[x] /\ phase'[x] = phase[x]
    BY <1>1, <1>3, <2>1 DEF ChainTypeOK
  <2> QED
    BY <1>2, <1>6, <2>2 DEF Passing
<1>7. AssignsFree'
  BY <1>2 DEF RestInv, AssignsFree
<1> QED
  BY <1>1, <1>2, <1>4, <1>5, <1>6, <1>7, RestKept DEF TypeOK

(* A wrapper reports what it caught, or releases the holder. *)
LEMMA FunctorEndsRest ==
  ASSUME ChainInv, RestInv, NEW th \in Thread,
         PassOn(th) \/ ReturnFrom(th) \/ \E e \in Exception : Throw(th, e)
  PROVE  RestInv'
<1> USE Parts, Positions, Slots, ChainSlots
<1>1. TypeOK /\ CallOK /\ ChainTypeOK /\ RunsOK
  BY DEF IInv
<1>a. \/ At(th, "f_") \/ At(th, "except_")
  BY DEF PassOn, ReturnFrom, Throw
<1>b. PICK t \in Functor : running[th] = t
  BY <1>1, <1>a DEF At, ChainTypeOK
<1>c. Goto(th, "out")
  <2>1. PassOn(th) => Goto(th, "out")
    BY DEF PassOn
  <2>2. ReturnFrom(th) => Goto(th, "out")
    BY DEF ReturnFrom
  <2>3. \A e \in Exception : Throw(th, e) => Goto(th, "out")
    BY DEF Throw
  <2> QED
    BY ONLY <2>1, <2>2, <2>3,
            PassOn(th) \/ ReturnFrom(th) \/ \E e \in Exception : Throw(th, e)
<1>d. \/ \E e : Report(th, Capture[t], e, TRUE)
      \/ Done(th, Capture[t]) \/ UNCHANGED vars
  <2>1. PassOn(th) => \E e : Report(th, Capture[t], e, TRUE)
    BY <1>b DEF PassOn
  <2>2. ReturnFrom(th) => Done(th, Capture[t]) \/ UNCHANGED vars
    BY <1>b DEF ReturnFrom
  <2>3. \A e \in Exception : Throw(th, e) => \E f : Report(th, Capture[t], f, TRUE)
    BY <1>b DEF Throw
  <2> QED
    BY ONLY <2>1, <2>2, <2>3,
            PassOn(th) \/ ReturnFrom(th) \/ \E e \in Exception : Throw(th, e)
<1>2. /\ t \in Functor /\ pc[th] = "idle"
      /\ phase' = [phase EXCEPT ![th] = "out"]
      /\ UNCHANGED <<syncVars, kind, wanted, built, running>>
  BY <1>a, <1>c DEF At, Goto
<1>3. UNCHANGED <<func, stage>>
  BY <1>2, <1>d DEF Report, Done, vars, syncVars
<1>4. ASSUME NEW u \in Functor, NEW x \in Thread, x # th, Passing(x, u)
      PROVE  Passing(x, u)'
  <2>1. pc'[x] = pc[x] /\ arg'[x] = arg[x] /\ releases'[x] = releases[x]
    BY <1>1, <1>4, <1>d DEF Report, Done, TakeTask, vars, TypeOK
  <2> QED
    BY <1>1, <1>2, <1>4, <2>1 DEF Passing, ChainTypeOK
<1>5. \A u \in Functor : Passing(th, u) => u = t
  BY <1>b DEF Passing
<1>6. CASE PassOn(th) \/ \E e \in Exception : Throw(th, e)
  <2>1. PICK e : Report(th, Capture[t], e, TRUE)
    BY <1>b, <1>6 DEF PassOn, Throw
  <2>2. /\ pc'[th] \in {"store", "told"} /\ arg'[th] = Capture[t] /\ releases'[th]
        /\ UNCHANGED holds
    BY <1>1, <2>1 DEF Report, TypeOK
  <2>3. Passing(th, t)'
    BY <1>1, <1>2, <1>b, <2>2 DEF Passing, ChainTypeOK
  <2>4. AssignsFree'
    BY <1>1, <2>1 DEF Report, RestInv, AssignsFree, TypeOK
  <2>5. \A u \in Functor, x \in Thread : Passing(x, u) => Passing(x, u)'
    BY <1>4, <1>5, <2>3
  <2> QED
    BY <1>2, <1>3, <2>2, <2>4, <2>5, RestKept
<1>7. CASE ReturnFrom(th)
  <2>1. \/ Done(th, Capture[t])
        \/ holds[Capture[t]] = None /\ UNCHANGED vars
    BY <1>b, <1>7 DEF ReturnFrom
  <2>2. /\ holds'[Capture[t]] = None
        /\ \A h \in Captures \cup {Start} : holds'[h] # None => holds'[h] = holds[h]
    <3>1. CASE Done(th, Capture[t])
      <4>1. holds' = [holds EXCEPT ![Capture[t]] = None, ![th] = holds[Capture[t]]]
        BY <3>1 DEF Done, TakeTask
      <4>2. /\ Capture[t] \in Slot /\ Capture[t] # th
            /\ \A h \in Captures \cup {Start} : h \in Slot /\ h # th
        BY <1>2 DEF Captures
      <4> QED
        BY <1>1, <4>1, <4>2 DEF TypeOK
    <3>2. CASE holds[Capture[t]] = None /\ UNCHANGED vars
      BY <3>2 DEF vars
    <3> QED
      BY <2>1, <3>1, <3>2
  <2>3. AssignsFree'
    BY <1>1, <2>1 DEF Done, TakeTask, RestInv, AssignsFree, TypeOK, vars
  <2>4. \A u \in Functor, x \in Thread :
          Passing(x, u) /\ holds'[Capture[u]] # None => Passing(x, u)'
    BY <1>4, <1>5, <2>2
  <2> QED
    BY <1>2, <1>3, <2>2, <2>3, <2>4, RestKept
<1> QED
  BY <1>6, <1>7

(* The run lambda, or the direct call, ends after the release. *)
LEMMA LeaveRest ==
  ASSUME ChainInv, RestInv, NEW th \in Thread, Leave(th)
  PROVE  RestInv'
<1> USE Parts, Positions, Slots, ChainSlots
<1>1. TypeOK /\ CallOK /\ ChainTypeOK /\ RunsOK
  BY DEF IInv
<1>a. PICK t \in Functor : running[th] = t
  BY <1>1 DEF Leave, At, ChainTypeOK
<1>2. /\ t \in Functor /\ pc[th] = "idle" /\ phase[th] = "out"
      /\ running' = [running EXCEPT ![th] = None]
      /\ UNCHANGED <<syncVars, kind, wanted, built, phase>>
  BY <1>1, <1>a DEF Leave, At, ChainTypeOK
<1>3. /\ UNCHANGED <<func, holds, pc, arg, releases>>
      /\ \/ stage[t] = "executing" /\ stage' = [stage EXCEPT ![t] = "deleted"]
         \/ stage[t] = "new" /\ UNCHANGED stage
  BY <1>a, <1>2 DEF Leave, Recycle, call, vars, syncVars
<1>4. \A u \in Functor : ~Passing(th, u)
  BY <1>2 DEF Passing
<1>5. ASSUME NEW u \in Functor, NEW x \in Thread, Passing(x, u)
      PROVE  Passing(x, u)'
  <2>1. x # th
    BY <1>4, <1>5
  <2>2. running'[x] = running[x] /\ phase'[x] = phase[x]
    BY <1>1, <1>2, <2>1 DEF ChainTypeOK
  <2> QED
    BY <1>3, <1>5, <2>2 DEF Passing
<1>6. AssignsFree'
  BY <1>3 DEF RestInv, AssignsFree
<1>7. /\ \A u \in Task : stage[u] # "new" => stage'[u] # "new"
      /\ \A u \in Functor : stage[u] \in {"held", "spawned"} => stage'[u] = stage[u]
  BY <1>1, <1>3 DEF TypeOK
<1> QED
  BY <1>2, <1>3, <1>5, <1>6, <1>7, RestKept

(* iFunc is started with a holder of the final task. *)
LEMMA RunFuncRest ==
  ASSUME ChainInv, RestInv, NEW th \in Thread, RunFunc(th), UNCHANGED chainVars
  PROVE  RestInv'
<1> USE Parts, Positions, Slots, ChainSlots
<1>1. TypeOK /\ ChainTypeOK /\ BeforeBuilt
  BY DEF IInv
<1>2. /\ func' = "running" /\ built = "no"
      /\ UNCHANGED <<pc, arg, releases, wanted, built, running, phase>>
      /\ holds' = [holds EXCEPT ![Start] = Final]
      /\ stage' = [stage EXCEPT ![Final] = "held"]
  BY <1>1 DEF RunFunc, Construct, call, chainVars, BeforeBuilt
<1>3. \A t \in Functor : holds'[Capture[t]] = None
  BY <1>1, <1>2 DEF BeforeBuilt, TypeOK
<1>4. CaptureUsed'
  BY <1>3 DEF CaptureUsed
<1>5. AllMade'
  BY <1>1, <1>2 DEF AllMade, TypeOK
<1>6. FuncEmptied' /\ AssignsFree'
  BY <1>2 DEF FuncEmptied, RestInv, AssignsFree
<1> QED
  BY <1>4, <1>5, <1>6 DEF RestInv

(* lastTask and runLast make a task for every functor that is wanted. *)
LEMMA BuildRest ==
  ASSUME ChainInv, RestInv, NEW th \in Thread, LastTask(th) \/ RunLast(th)
  PROVE  RestInv'
<1> USE Parts, Positions, Slots, ChainSlots
<1> DEFINE made == {t \in Selected : LastTask(th) \/ t # Chain[1]}
<1>1. TypeOK /\ ChainTypeOK /\ AllMade /\ AssignsFree
  BY DEF IInv, RestInv
<1>2. /\ func = "running" /\ UNCHANGED <<func, pc, arg, releases, wanted>>
      /\ LastTask(th) => BuildTasks(th, Selected) /\ built' = "lastTask"
      /\ RunLast(th) => /\ BuildTasks(th, Selected \ {Chain[1]}) /\ built' = "runLast"
                        /\ running' = [running EXCEPT ![th] = Chain[1]]
                        /\ phase' = [phase EXCEPT ![th] = "f_"]
  BY DEF LastTask, RunLast, BuildTasks, call, syncVars
<1>3. Selected \subseteq Functor
  BY DEF Selected
<1>4. /\ \A t \in Task : stage[t] # "new" => stage'[t] # "new"
      /\ \A t \in Selected : stage'[t] = "held" \/ (RunLast(th) /\ t = Chain[1])
  BY <1>2, <1>3 DEF BuildTasks
<1>5. CaptureUsed'
  <2>1. RunLast(th) => Passing(th, Chain[1])'
    BY <1>1, <1>2 DEF Passing, ChainTypeOK
  <2> QED
    BY <1>2, <1>4, <2>1 DEF CaptureUsed, Selected
<1>6. AllMade'
  BY <1>1, <1>2, <1>4 DEF AllMade, Selected
<1>7. FuncEmptied' /\ AssignsFree'
  BY <1>1, <1>2 DEF FuncEmptied, AssignsFree
<1> QED
  BY <1>5, <1>6, <1>7 DEF RestInv

(* iFunc returns. *)
LEMMA FuncReturnsRest ==
  ASSUME ChainInv, RestInv, FuncReturns
  PROVE  RestInv'
<1>1. CaptureUsed'
  BY DEF FuncReturns, vars, chainVars, RestInv, CaptureUsed, Passing
<1>2. AllMade'
  BY DEF FuncReturns, vars, chainVars, RestInv, AllMade, Selected
<1>3. FuncEmptied'
  BY DEF FuncReturns, vars, chainVars, FuncEmptied
<1>4. AssignsFree'
  BY DEF FuncReturns, vars, RestInv, AssignsFree
<1> QED
  BY <1>1, <1>2, <1>3, <1>4 DEF RestInv

(* The final task, the arena and the group. *)
LEMMA SchedulingRest ==
  ASSUME ChainInv, RestInv,
         \/ RunFinal
         \/ Scheduling /\ UNCHANGED chainVars
         \/ UNCHANGED allVars
  PROVE  RestInv'
<1> USE Parts, Positions
<1>1. UNCHANGED <<func, pc, arg, releases, holds, chainVars>>
  BY DEF RunFinal, Scheduling, RunEnqueued, RecycleFinal, RunHandle, WaitOver, Execute,
         Recycle, vars, call, syncVars, allVars
<1>2. /\ \A t \in Functor : stage'[t] = stage[t]
      /\ \A t \in Task : stage[t] # "new" => stage'[t] # "new"
  BY DEF RunFinal, Scheduling, RunEnqueued, RecycleFinal, RunHandle, WaitOver, Execute,
         Recycle, vars, allVars, IInv, TypeOK
<1>3. AssignsFree' /\ UNCHANGED <<func, wanted, built>>
  BY <1>1 DEF RestInv, AssignsFree, chainVars
<1>4. \A t \in Functor, x \in Thread : Passing(x, t) => Passing(x, t)'
  BY <1>1 DEF Passing, chainVars
<1> QED
  BY <1>1, <1>2, <1>3, <1>4, RestKept

(* Before the start nothing is made, and nothing held. *)
LEMMA InitRest ==
  InitChain => RestInv
<1> SUFFICES ASSUME InitChain
             PROVE  RestInv
  OBVIOUS
<1> USE Slots, ChainSlots
<1>1. /\ \A s \in Slot : holds[s] = None
      /\ \A th \in Thread : pc[th] = "idle"
      /\ func = "queued" /\ built = "no"
  BY DEF InitChain, InitSync, Init
<1> QED
  BY <1>1 DEF RestInv, CaptureUsed, AllMade, FuncEmptied, AssignsFree

(* Every step keeps it. *)
LEMMA NextRest ==
  ChainInv /\ RestInv /\ [NextChain]_allVars => RestInv'
<1> SUFFICES ASSUME ChainInv, RestInv, [NextChain]_allVars
             PROVE  RestInv'
  OBVIOUS
<1>1. ASSUME NEW th \in Thread, Progress(th) \/ Another(th)
      PROVE  RestInv'
  <2>1. CASE RunFunc(th) /\ UNCHANGED chainVars
    BY <2>1, RunFuncRest
  <2>2. CASE LastTask(th) \/ RunLast(th)
    BY <2>2, BuildRest
  <2>3. CASE \E t \in Functor : RunTask(th, t)
    BY <2>3, RunTaskRest
  <2>4. CASE PassOn(th) \/ ReturnFrom(th) \/ \E e \in Exception : Throw(th, e)
    BY <2>4, FunctorEndsRest
  <2>5. CASE Leave(th)
    BY <2>5, LeaveRest
  <2>6. CASE HolderCall(th)
    BY <2>6, HolderCallRest
  <2> QED
    BY <1>1, <2>1, <2>2, <2>3, <2>4, <2>5, <2>6 DEF Progress, Another, HolderCall
<1>2. CASE FuncReturns
  BY <1>2, FuncReturnsRest
<1>3. CASE RunFinal \/ (Scheduling /\ UNCHANGED chainVars) \/ UNCHANGED allVars
  BY <1>3, SchedulingRest
<1> QED
  BY <1>1, <1>2, <1>3 DEF NextChain, Onward

(* At rest a task that is held is held by the lambda of a task before it,  *)
(* which is held itself: nothing else has a holder.                        *)
LEMMA HeldByOneBefore ==
  ASSUME ChainInv, RestInv, AtRest, NEW t \in Task, stage[t] = "held"
  PROVE  \E u \in Functor : stage[u] = "held" /\ After(u) = t
<1> USE Parts, Positions, Slots, ChainSlots
<1>1. CallOK /\ HeldWhileReferenced /\ CaptureUsed /\ FuncEmptied
  BY DEF IInv, RestInv
<1>2. PICK s \in Slot : holds[s] = t
  BY <1>1 DEF HeldWhileReferenced, Refs
<1>3. t # None
  OBVIOUS
<1>4. s \notin Thread
  BY <1>1, <1>2, <1>3 DEF CallOK, AtRest
<1>5. s \notin Free /\ s # Start
  BY <1>1, <1>2, <1>3 DEF AtRest, FuncEmptied
<1>6. s \in Captures
  BY <1>4, <1>5 DEF Slot, Free
<1>7. PICK u \in Functor : s = Capture[u]
  BY <1>6
<1>8. wanted[u]
  BY <1>1, <1>2, <1>3, <1>7 DEF FuncEmptied, AtRest
<1>9. \A th \in Thread : ~Passing(th, u)
  BY DEF AtRest, Passing
<1>10. stage[u] \in {"held", "spawned"}
  BY <1>1, <1>2, <1>3, <1>7, <1>8, <1>9 DEF CaptureUsed
<1>11. stage[u] = "held"
  BY <1>10 DEF AtRest
<1>12. holds[Capture[u]] = After(u)
  BY <1>11 DEF Intact, CapturesKept
<1> QED
  BY <1>2, <1>7, <1>11, <1>12

(* So no task is held: there is none before the first. *)
LEMMA RestingHoldsNone ==
  ASSUME ChainInv, RestInv, AtRest
  PROVE  \A t \in Task : stage[t] # "held"
<1> USE Positions
<1> DEFINE places == {i \in 1..Len(Chain) : stage[Chain[i]] = "held"}
<1>1. places = {}
  <2> SUFFICES ASSUME places # {}
               PROVE  FALSE
    OBVIOUS
  <2>1. PICK i \in places : \A k \in places : i <= k
    <3>1. places \subseteq Nat
      OBVIOUS
    <3> HIDE DEF places
    <3> QED
      BY <3>1, NatMin
  <2>2. i \in 1..Len(Chain) /\ Chain[i] \in Task /\ stage[Chain[i]] = "held"
    OBVIOUS
  <2>3. PICK u \in Functor : stage[u] = "held" /\ After(u) = Chain[i]
    BY <2>2, HeldByOneBefore
  <2>4. PICK j \in 1..Len(Chain) : Chain[j] = u
    OBVIOUS
  <2>5. After(u) # Final
    BY <2>2, <2>3
  <2>6. PICK k \in 1..Len(Chain) : j < k /\ After(u) = Chain[k]
    BY <2>4, <2>5, AfterAt
  <2>7. k = i
    BY <2>2, <2>3, <2>6
  <2>8. j \in places /\ j < i
    BY <2>3, <2>4, <2>6, <2>7
  <2>9. i <= j /\ i \in Nat /\ j \in Nat
    BY <2>1, <2>2, <2>8
  <2> QED
    BY <2>8, <2>9
<1>2. \A u \in Functor : stage[u] # "held"
  BY <1>1
<1> QED
  BY <1>2, HeldByOneBefore

(* The safety half of WaiterReturns: when functors and other threads are   *)
(* done with the holders they kept, every functor that was wanted has run  *)
(* and the group is idle, so that waitNoThrow returns.                     *)
THEOREM WaiterIsLetGo == ChainSpec => []NothingForgotten
<1>1. ASSUME ChainInv, RestInv
      PROVE  NothingForgotten
  <2> SUFFICES ASSUME AtRest
               PROVE  /\ ~GroupBusy
                      /\ \A t \in Selected :
                           stage[t] = "deleted" \/ (built = "runLast" /\ t = Chain[1])
    BY DEF NothingForgotten
  <2> USE Parts, Positions
  <2>1. TypeOK /\ AllMade /\ func = "returned" /\ built # "no"
    BY <1>1 DEF IInv, RestInv, AtRest, BeforeBuilt
  <2>2. \A t \in Task : stage[t] \in {"new", "deleted"}
    BY <1>1, <2>1, RestingHoldsNone DEF AtRest, TypeOK, Stage
  <2>3. stage[Final] = "deleted"
    BY <2>1, <2>2 DEF AllMade
  <2>4. handle = "run"
    BY <1>1, <2>3 DEF WaitOK, ChainTypeOK, AtRest
  <2>5. ~GroupBusy
    BY <2>1, <2>2, <2>4 DEF GroupBusy
  <2>6. \A t \in Selected : stage[t] = "deleted" \/ (built = "runLast" /\ t = Chain[1])
    BY <2>1, <2>2 DEF AllMade, Selected
  <2> QED
    BY <2>5, <2>6
<1>2. ChainSpec => [](ChainInv /\ RestInv)
  BY ChainInvariance, InitRest, NextRest, PTL DEF ChainSpec
<1> QED
  BY <1>1, <1>2, PTL
=============================================================================
