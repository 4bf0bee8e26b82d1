------------------------------ MODULE WaitingTask ------------------------------
(***************************************************************************)
(* edm::WaitingTask and the WaitingTaskHolders that share it.  A task      *)
(* counts its holders and keeps the first exception one of them reports;   *)
(* whoever takes the last reference away hands the task to its group,      *)
(* which executes and deletes it.                                          *)
(*                                                                         *)
(* The accesses to m_refCount, m_ptrSet and m_ptr, which threads share,    *)
(* are actions of their own; a holder object is used by one thread at a    *)
(* time, so what a call does to its holder goes with the access before it. *)
(***************************************************************************)
EXTENDS Naturals, FiniteSets

CONSTANTS Thread,     \* client threads
          Holder,     \* WaitingTaskHolder objects
          Task,       \* WaitingTasks
          Exception,  \* exceptions holders may report
          None        \* nullptr, and the empty exception_ptr

(* What may point to a task: the holders of the client, and one local of   *)
(* each thread, the tmp of an assignment or the task of doneWaiting.       *)
Slot == Holder \cup Thread

ASSUME HolderAssumption ==
  /\ IsFiniteSet(Holder)
  /\ IsFiniteSet(Thread)
  /\ Holder \cap Thread = {}
  /\ None \notin Task \cup Exception \cup Slot

VARIABLES
  refCount,   \* TaskBase::m_refCount
  ptr,        \* m_ptr
  ptrSet,     \* m_ptrSet: kUnset, kSetting or kSet
  holds,      \* m_task of each holder, and the local of each thread
  pc,         \* where each thread is
  arg,        \* the holder its call is about
  given,      \* iExcept of that call
  releases,   \* the call is doneWaiting, not presetTaskAsFailed
  stage,      \* "new", "held", "spawned", "executing" or "deleted"
  seen,       \* the exception the task was executed with
  reported    \* history: the exceptions reported to each task

call == <<pc, arg, given, releases>>
slot == <<ptr, ptrSet>>
vars == <<refCount, ptr, ptrSet, holds, pc, arg, given, releases, stage, seen,
          reported>>

Init ==
  /\ refCount = [t \in Task |-> 0]
  /\ ptr = [t \in Task |-> None]
  /\ ptrSet = [t \in Task |-> "kUnset"]
  /\ holds = [s \in Slot |-> None]
  /\ pc = [th \in Thread |-> "idle"]
  /\ arg = [th \in Thread |-> None]
  /\ given = [th \in Thread |-> None]
  /\ releases = [th \in Thread |-> FALSE]
  /\ stage = [t \in Task |-> "new"]
  /\ seen = [t \in Task |-> None]
  /\ reported = [t \in Task |-> {}]

(* The thread starts a call, and no other thread uses its holders. *)
MayUse(th, h) == pc[th] = "idle" /\ \A other \in Thread : arg[other] # h

Increment(t) == refCount' = [refCount EXCEPT ![t] = @ + 1]

Return(th) ==
  /\ pc' = [pc EXCEPT ![th] = "idle"]
  /\ arg' = [arg EXCEPT ![th] = None]
  /\ given' = [given EXCEPT ![th] = None]
  /\ releases' = [releases EXCEPT ![th] = FALSE]

----------------------------------------------------------------------------
(* Construction, copy, move and assignment                                 *)

(* The first holder of a new task. *)
Construct(th, h, t) ==
  /\ MayUse(th, h)
  /\ holds[h] = None
  /\ stage[t] = "new"
  /\ stage' = [stage EXCEPT ![t] = "held"]
  /\ Increment(t)
  /\ holds' = [holds EXCEPT ![h] = t]
  /\ UNCHANGED <<slot, call, seen, reported>>

(* Mutant of Copy: shares the task without counting. *)
CopyWithoutIncrement(th, h, from) ==
  /\ MayUse(th, h)
  /\ MayUse(th, from)
  /\ holds[h] = None
  /\ holds[from] # None
  /\ holds' = [holds EXCEPT ![h] = holds[from]]
  /\ UNCHANGED <<refCount, slot, call, stage, seen, reported>>

(* The copy constructor; it must not be given an empty holder. *)
Copy(th, h, from) ==
  /\ MayUse(th, h)
  /\ MayUse(th, from)
  /\ holds[h] = None
  /\ holds[from] # None
  /\ Increment(holds[from])
  /\ holds' = [holds EXCEPT ![h] = holds[from]]
  /\ UNCHANGED <<slot, call, stage, seen, reported>>

Move(th, h, from) ==
  /\ MayUse(th, h)
  /\ MayUse(th, from)
  /\ h # from
  /\ holds[h] = None
  /\ holds' = [holds EXCEPT ![h] = holds[from], ![from] = None]
  /\ UNCHANGED <<refCount, slot, call, stage, seen, reported>>

StartAssign(th, h) ==
  /\ pc' = [pc EXCEPT ![th] = "assign"]
  /\ arg' = [arg EXCEPT ![th] = h]
  /\ UNCHANGED <<given, releases>>

(* Copy assignment, of itself perhaps: tmp(iRHS). *)
CopyAssign(th, h, from) ==
  /\ MayUse(th, h)
  /\ MayUse(th, from)
  /\ holds[from] # None
  /\ Increment(holds[from])
  /\ holds' = [holds EXCEPT ![th] = holds[from]]
  /\ StartAssign(th, h)
  /\ UNCHANGED <<slot, stage, seen, reported>>

(* Move assignment: tmp(std::move(iRHS)). *)
MoveAssign(th, h, from) ==
  /\ MayUse(th, h)
  /\ MayUse(th, from)
  /\ holds' = [holds EXCEPT ![th] = holds[from], ![from] = None]
  /\ StartAssign(th, h)
  /\ UNCHANGED <<refCount, slot, stage, seen, reported>>

(* The swap.  What h held is now in tmp, whose destructor is next.         *)
FinishAssign(th) ==
  LET h == arg[th] IN
  /\ pc[th] = "assign"
  /\ holds' = [holds EXCEPT ![h] = holds[th], ![th] = holds[h]]
  /\ \/ /\ holds[h] # None
        /\ pc' = [pc EXCEPT ![th] = "release"]
        /\ UNCHANGED <<arg, given, releases>>
     \/ holds[h] = None /\ Return(th)
  /\ UNCHANGED <<refCount, slot, stage, seen, reported>>

----------------------------------------------------------------------------
(* Exceptions and release                                                  *)

(* task = m_task, m_task = nullptr: the holder is empty before the task    *)
(* can run.                                                                *)
TakeTask(th, h) ==
  /\ holds' = [holds EXCEPT ![h] = None, ![th] = holds[h]]
  /\ pc' = [pc EXCEPT ![th] = "release"]

(* doneWaiting({}), or the destructor of a holder that has a task. *)
Done(th, h) ==
  /\ MayUse(th, h)
  /\ holds[h] # None
  /\ TakeTask(th, h)
  /\ arg' = [arg EXCEPT ![th] = h]
  /\ UNCHANGED <<refCount, slot, given, releases, stage, seen, reported>>

(* decrement_ref_count; with the last reference the task goes to its group. *)
Release(th) ==
  LET t == holds[th] IN
  /\ pc[th] = "release"
  /\ refCount' = [refCount EXCEPT ![t] = @ - 1]
  /\ stage' = [stage EXCEPT ![t] = IF refCount[t] = 1 THEN "spawned" ELSE @]
  /\ holds' = [holds EXCEPT ![th] = None]
  /\ Return(th)
  /\ UNCHANGED <<slot, seen, reported>>

(* Mutant of Report: compares with the wrong state. *)
ReportComparesSetting(th, h, e, last) ==
  LET t == holds[h] IN
  /\ MayUse(th, h)
  /\ t # None
  /\ arg' = [arg EXCEPT ![th] = h]
  /\ given' = [given EXCEPT ![th] = e]
  /\ releases' = [releases EXCEPT ![th] = last]
  /\ reported' = [reported EXCEPT ![t] = @ \cup {e}]
  /\ \/ /\ ptrSet[t] = "kSetting"
        /\ pc' = [pc EXCEPT ![th] = "store"]
     \/ /\ ptrSet[t] # "kSetting"
        /\ pc' = [pc EXCEPT ![th] = "told"]
  /\ UNCHANGED <<refCount, ptr, ptrSet, holds, stage, seen>>

(* doneWaiting(e), or presetTaskAsFailed(e) which does not release: the    *)
(* compare_exchange of dependentTaskFailed.  The loser of it does not wait *)
(* for the winner.                                                         *)
Report(th, h, e, last) ==
  LET t == holds[h] IN
  /\ MayUse(th, h)
  /\ t # None
  /\ arg' = [arg EXCEPT ![th] = h]
  /\ given' = [given EXCEPT ![th] = e]
  /\ releases' = [releases EXCEPT ![th] = last]
  /\ reported' = [reported EXCEPT ![t] = @ \cup {e}]
  /\ \/ /\ ptrSet[t] = "kUnset"
        /\ ptrSet' = [ptrSet EXCEPT ![t] = "kSetting"]
        /\ pc' = [pc EXCEPT ![th] = "store"]
     \/ /\ ptrSet[t] # "kUnset"
        /\ pc' = [pc EXCEPT ![th] = "told"]
        /\ UNCHANGED ptrSet
  /\ UNCHANGED <<refCount, ptr, holds, stage, seen>>

(* m_ptr = iPtr *)
Store(th) ==
  /\ pc[th] = "store"
  /\ ptr' = [ptr EXCEPT ![holds[arg[th]]] = given[th]]
  /\ pc' = [pc EXCEPT ![th] = "publish"]
  /\ UNCHANGED <<refCount, ptrSet, holds, arg, given, releases, stage, seen,
                 reported>>

(* m_ptrSet = kSet *)
Publish(th) ==
  /\ pc[th] = "publish"
  /\ ptrSet' = [ptrSet EXCEPT ![holds[arg[th]]] = "kSet"]
  /\ pc' = [pc EXCEPT ![th] = "told"]
  /\ UNCHANGED <<refCount, ptr, holds, arg, given, releases, stage, seen,
                 reported>>

(* doneWaiting goes on to release its reference; a preset is over.         *)
Told(th) ==
  /\ pc[th] = "told"
  /\ \/ releases[th] /\ TakeTask(th, arg[th]) /\ UNCHANGED <<arg, given, releases>>
     \/ ~releases[th] /\ Return(th) /\ UNCHANGED holds
  /\ UNCHANGED <<refCount, slot, stage, seen, reported>>

----------------------------------------------------------------------------
(* The run lambda: execute with what is in m_ptr, whatever m_ptrSet says,  *)
(* then the sentry deletes the task.                                       *)

Execute(t) ==
  /\ stage[t] = "spawned"
  /\ stage' = [stage EXCEPT ![t] = "executing"]
  /\ seen' = [seen EXCEPT ![t] = ptr[t]]
  /\ UNCHANGED <<refCount, slot, holds, call, reported>>

Recycle(t) ==
  /\ stage[t] = "executing"
  /\ stage' = [stage EXCEPT ![t] = "deleted"]
  /\ UNCHANGED <<refCount, slot, holds, call, seen, reported>>

----------------------------------------------------------------------------
NewCall(th) ==
  \E h \in Holder :
    \/ \E t \in Task : Construct(th, h, t)
    \/ \E from \in Holder : \/ Copy(th, h, from) \/ Move(th, h, from)
                            \/ CopyAssign(th, h, from) \/ MoveAssign(th, h, from)
    \/ Done(th, h)
    \/ \E e \in Exception, last \in BOOLEAN : Report(th, h, e, last)

GoOn(th) == FinishAssign(th) \/ Release(th) \/ Store(th) \/ Publish(th) \/ Told(th)

Next ==
  \/ \E th \in Thread : NewCall(th) \/ GoOn(th)
  \/ \E t \in Task : Execute(t) \/ Recycle(t)

Spec == Init /\ [][Next]_vars

----------------------------------------------------------------------------
Stage == {"new", "held", "spawned", "executing", "deleted"}

TypeOK ==
  /\ refCount \in [Task -> Nat]
  /\ ptr \in [Task -> Exception \cup {None}]
  /\ ptrSet \in [Task -> {"kUnset", "kSetting", "kSet"}]
  /\ holds \in [Slot -> Task \cup {None}]
  /\ pc \in [Thread -> {"idle", "assign", "store", "publish", "told",
                   "release", "convert"}]
  /\ arg \in [Thread -> Holder \cup {None}]
  /\ given \in [Thread -> Exception \cup {None}]
  /\ releases \in [Thread -> BOOLEAN]
  /\ stage \in [Task -> Stage]
  /\ seen \in [Task -> Exception \cup {None}]
  /\ reported \in [Task -> SUBSET Exception]

Refs(t) == {s \in Slot : holds[s] = t}

(* A task is handed to its group exactly when the last reference to it is  *)
(* gone, whatever copies, moves and assignments were made of its holders:  *)
(* not earlier, so that no call touches a deleted task, and not never.     *)
HeldWhileReferenced == \A t \in Task : stage[t] = "held" <=> Refs(t) # {}

(* A task is executed with an exception exactly if one was reported to it, *)
(* although m_ptr is read unchecked and losers of the exchange do not wait *)
(* for the winner to store.                                                *)
SeesReportedException ==
  \A t \in Task :
    stage[t] \in {"executing", "deleted"}
      => IF reported[t] = {} THEN seen[t] = None ELSE seen[t] \in reported[t]

(* What taskHasFailed was once told stays: the first exception wins.       *)
FirstExceptionStays ==
  [][\A t \in Task : ptrSet[t] = "kSet" => ptr'[t] = ptr[t] /\ ptrSet'[t] = "kSet"]_vars

----------------------------------------------------------------------------
(* The inductive invariant behind the safety properties.                   *)

CallOK ==
  \A th \in Thread :
    /\ pc[th] = "idle" => arg[th] = None
    /\ pc[th] # "idle" => arg[th] \in Holder
    /\ pc[th] \notin {"assign", "release", "convert"} => holds[th] = None
    /\ pc[th] \in {"release", "convert"} => holds[th] # None
    /\ pc[th] = "convert" => holds[arg[th]] = holds[th]
    /\ pc[th] \in {"store", "publish", "told"} => holds[arg[th]] # None

OneUser ==
  \A a, b \in Thread : arg[a] = arg[b] /\ arg[a] # None => a = b

Counted ==
  \A t \in Task : refCount[t] = Cardinality(Refs(t))

(* The thread won the exchange for t and has not published yet. *)
Storing(th, t) == pc[th] \in {"store", "publish"} /\ holds[arg[th]] = t

OneWriter ==
  \A t \in Task : \A a, b \in Thread : Storing(a, t) /\ Storing(b, t) => a = b

ExceptionOK ==
  \A t \in Task :
    /\ ptrSet[t] = "kUnset" => ptr[t] = None /\ reported[t] = {}
    /\ ptrSet[t] = "kSetting" <=> \E th \in Thread : Storing(th, t)
    /\ ptrSet[t] = "kSet" => ptr[t] \in reported[t]
    /\ \A th \in Thread :
         Storing(th, t) => /\ given[th] \in reported[t]
                           /\ pc[th] = "publish" => ptr[t] = given[th]

(* References are counted and held by one call each, and the writer of     *)
(* m_ptr holds one: the task cannot run before it has published.           *)
IInv ==
  /\ TypeOK /\ CallOK /\ OneUser /\ Counted /\ HeldWhileReferenced
  /\ OneWriter /\ ExceptionOK /\ SeesReportedException
=============================================================================
