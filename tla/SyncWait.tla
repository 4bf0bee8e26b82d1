-------------------------------- MODULE SyncWait --------------------------------
(***************************************************************************)
(* syncWait: a thread hands a FinalWaitingTask on its stack to a function  *)
(* that runs in a task_group, and waits for the group.  The task defers a  *)
(* handle of the group that keeps the group busy until the task has run,   *)
(* also while its last reference is with a WaitingTaskWithArenaHolder,     *)
(* whose doneWaiting takes the detour over the queue of an arena.          *)
(***************************************************************************)
EXTENDS WaitingTask

CONSTANTS ArenaHolder,  \* the holders that are WaitingTaskWithArenaHolders
          Final,        \* the FinalWaitingTask
          Start         \* the holder of it that the function is given

ASSUME SyncWaitAssumption ==
  /\ ArenaHolder \subseteq Holder
  /\ Final \in Task
  /\ Start \in Holder \ ArenaHolder

VARIABLES
  enqueued,  \* tasks whose lambda waits in the queue of an arena
  handle,    \* m_handle: "deferred", "queued" in the group, or "run"
  func,      \* iFunc: "queued" in the group, "running" or "returned"
  waiter,    \* syncWait: "waiting" in waitNoThrow, or "returned"
  result     \* the exception_ptr it returned

syncVars == <<enqueued, handle, func, waiter, result>>

InitSync ==
  /\ Init
  /\ enqueued = {}
  /\ handle = "deferred"
  /\ func = "queued"
  /\ waiter = "waiting"
  /\ result = None

SameClass(h, k) == h \in ArenaHolder <=> k \in ArenaHolder

----------------------------------------------------------------------------
(* Holders that know their arena                                           *)

(* The last reference goes to the group at once, or from an arena holder   *)
(* by a lambda that the arena enqueues.                                    *)
ReleaseTo(th) ==
  /\ Release(th)
  /\ enqueued' = IF arg[th] \in ArenaHolder /\ refCount[holds[th]] = 1
                 THEN enqueued \cup {holds[th]} ELSE enqueued
  /\ UNCHANGED <<handle, func, waiter, result>>

(* A worker of the arena executes group->run. *)
RunEnqueued(t) ==
  /\ t \in enqueued
  /\ enqueued' = enqueued \ {t}
  /\ UNCHANGED <<vars, handle, func, waiter, result>>

(* The constructor from a WaitingTaskHolder: release_no_decrement. *)
AttachArena(th, h, from) ==
  /\ h \in ArenaHolder
  /\ from \notin ArenaHolder
  /\ holds[from] # None
  /\ Move(th, h, from)
  /\ UNCHANGED syncVars

(* makeWaitingTaskHolderAndRelease: the new holder counts itself first ... *)
MakeHolder(th, from) ==
  /\ MayUse(th, from)
  /\ from \in ArenaHolder
  /\ holds[from] # None
  /\ Increment(holds[from])
  /\ holds' = [holds EXCEPT ![th] = holds[from]]
  /\ pc' = [pc EXCEPT ![th] = "convert"]
  /\ arg' = [arg EXCEPT ![th] = from]
  /\ UNCHANGED <<slot, given, releases, stage, seen, reported, syncVars>>

(* ... then the old one gives up its count, without a look at the result.  *)
AndRelease(th, h) ==
  LET t == holds[th]
      from == arg[th] IN
  /\ pc[th] = "convert"
  /\ h \in Holder \ ArenaHolder
  /\ holds[h] = None
  /\ \A other \in Thread : arg[other] # h
  /\ refCount' = [refCount EXCEPT ![t] = @ - 1]
  /\ holds' = [holds EXCEPT ![from] = None, ![th] = None, ![h] = t]
  /\ Return(th)
  /\ UNCHANGED <<slot, stage, seen, reported, syncVars>>

----------------------------------------------------------------------------
(* The final task and the thread that waits                                *)

(* The lambda of group.run starts iFunc with a holder of the final task. *)
RunFunc(th) ==
  /\ func = "queued"
  /\ func' = "running"
  /\ Construct(th, Start, Final)
  /\ UNCHANGED <<enqueued, handle, waiter, result>>

(* Mutant of RecycleFinal: keeps the handle. *)
RecycleWithHandle ==
  /\ Recycle(Final)
  /\ UNCHANGED <<enqueued, func, waiter, result, handle>>

(* TaskSentry: FinalWaitingTask::recycle runs the deferred handle. *)
RecycleFinal ==
  /\ Recycle(Final)
  /\ handle' = "queued"
  /\ UNCHANGED <<enqueued, func, waiter, result>>

RunHandle ==
  /\ handle = "queued"
  /\ handle' = "run"
  /\ UNCHANGED <<vars, enqueued, func, waiter, result>>

(* Mutant of GroupBusy: a group without a deferred handle. *)
GroupBusyWithoutHandle ==
  \/ func # "returned"
  \/ handle = "queued"
  \/ \E t \in Task : \/ stage[t] = "spawned" /\ t \notin enqueued
                     \/ stage[t] = "executing"

(* What task_group::wait waits for: iFunc, the handle, deferred or queued, *)
(* and the run lambdas in the group, but nothing that is in an arena.      *)
GroupBusy ==
  \/ func # "returned"
  \/ handle # "run"
  \/ \E t \in Task : \/ stage[t] = "spawned" /\ t \notin enqueued
                     \/ stage[t] = "executing"

(* waitNoThrow, and the return of its exceptionPtr() from syncWait. *)
WaitOver ==
  /\ waiter = "waiting"
  /\ ~GroupBusy
  /\ waiter' = "returned"
  /\ result' = IF ptrSet[Final] = "kSet" THEN ptr[Final] ELSE None
  /\ UNCHANGED <<vars, enqueued, handle, func>>

Scheduling == (\E t \in Task : RunEnqueued(t)) \/ RecycleFinal \/ RunHandle \/ WaitOver

(* When syncWait returns the final task and its group cease to exist: by   *)
(* then every task ever made is deleted, wherever its lambda had to wait,  *)
(* and with it every holder.                                               *)
WaitsForAll ==
  waiter = "returned" => /\ stage[Final] = "deleted"
                         /\ \A t \in Task : stage[t] \in {"new", "deleted"}
=============================================================================
