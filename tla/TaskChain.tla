------------------------------- MODULE TaskChain -------------------------------
(***************************************************************************)
(* Chains of waiting tasks (chain_first.h) under a syncWait.  first | then *)
(* | ifThen | lastTask makes one task per functor; the lambda of each task *)
(* captures the holder of the next, the last one the holder of the final   *)
(* task.  runLast calls the first functor directly.  A functor may keep    *)
(* copies of its holder, and pass them to other threads or to an arena:    *)
(* the next task starts when the last of them is gone.                     *)
(***************************************************************************)
EXTENDS SyncWait, SequencesExt

CONSTANTS Chain,    \* the tasks made for the functors, in order
          Capture,  \* the holder that the lambda of each captures
          Kinds,    \* the kinds the functors may have: "auto" for those that
                    \* first, then, ifThen or else_ wrap in a handler
          Wishes    \* the conditions they may have

ASSUME ChainAssumption ==
  /\ Chain # <<>> /\ Chain \in Seq(Task \ {Final}) /\ IsInjective(Chain)
  /\ Capture \in [ToSet(Chain) -> Holder \ (ArenaHolder \cup {Start})]
  /\ IsInjective(Capture)
  /\ Kinds \subseteq [ToSet(Chain) -> {"auto", "handlesExceptions"}]
  /\ Wishes \subseteq {w \in [ToSet(Chain) -> BOOLEAN] : w[Chain[1]]}

Functor == ToSet(Chain)
Captures == {Capture[t] : t \in Functor}
Free == Holder \ (Captures \cup {Start})  \* what functors may keep

VARIABLES
  kind,     \* how each functor takes an exception
  wanted,   \* condition_, of ifThen
  built,    \* "no", "lastTask" or "runLast"
  running,  \* the functor each thread executes
  phase     \* "f_", "except_" or "out" of it

chainVars == <<kind, wanted, built, running, phase>>
allVars == <<vars, syncVars, chainVars>>

InitChain ==
  /\ InitSync
  /\ kind \in Kinds
  /\ wanted \in Wishes
  /\ \A t \in Functor : ~wanted[t] => kind[t] = "auto"
  /\ built = "no"
  /\ running = [th \in Thread |-> None]
  /\ phase = [th \in Thread |-> "out"]

Selected == {t \in Functor : wanted[t]}

(* The task that follows a functor: the next one wanted, or the final one. *)
After(t) ==
  LET later == {i \in 1..Len(Chain) : /\ wanted[Chain[i]]
                                      /\ \E j \in 1..(i - 1) : Chain[j] = t}
  IN IF later = {} THEN Final ELSE Chain[Min(later)]

----------------------------------------------------------------------------
(* Building the chain, in iFunc                                            *)

BuildTasks(th, tasks) ==
  /\ func = "running"
  /\ built = "no"
  /\ MayUse(th, Start)
  /\ running[th] = None
  /\ stage' = [t \in Task |-> IF t \in tasks THEN "held" ELSE stage[t]]
  /\ UNCHANGED <<slot, call, seen, reported, syncVars, kind, wanted>>

(* lastTask: each functor moves into the lambda of a new task, with the    *)
(* holder of the task after it.  Left over is the holder of the first.     *)
LastTask(th) ==
  /\ BuildTasks(th, Selected)
  /\ built' = "lastTask"
  /\ refCount' = [t \in Task |-> IF t \in Selected THEN 1 ELSE refCount[t]]
  /\ holds' = [h \in Slot |->
                 IF h = Start THEN Chain[1]
                 ELSE IF \E t \in Selected : Capture[t] = h
                 THEN After(CHOOSE t \in Selected : Capture[t] = h)
                 ELSE holds[h]]
  /\ UNCHANGED <<running, phase>>

(* runLast: the same, but the first functor is called with its holder.     *)
(* Where a functor is not wanted, its iV is copied for the ones before it  *)
(* and kept until the call returns.                                        *)
RunLast(th) ==
  LET made == Selected \ {Chain[1]}
      next == {After(t) : t \in Functor} IN
  /\ BuildTasks(th, made)
  /\ built' = "runLast"
  /\ refCount' = [t \in Task |->
                    IF t \in next
                    THEN Cardinality({f \in Functor : After(f) = t})
                    ELSE refCount[t]]
  /\ holds' = [h \in Slot |->
                 IF h = Start THEN None
                 ELSE IF h \in Captures
                 THEN After(CHOOSE t \in Functor : Capture[t] = h)
                 ELSE holds[h]]
  /\ running' = [running EXCEPT ![th] = Chain[1]]
  /\ phase' = [phase EXCEPT ![th] = "f_"]

(* A copy that runLast kept for a functor that is not wanted. *)
Unwind(th, t) ==
  /\ built = "runLast"
  /\ ~wanted[t]
  /\ \A other \in Thread : running[other] # Chain[1]
  /\ Done(th, Capture[t])
  /\ UNCHANGED <<syncVars, chainVars>>

(* iFunc returns when the chain is on its way: its holder was used, or is  *)
(* kept elsewhere.                                                         *)
FuncReturns ==
  /\ func = "running"
  /\ built # "no"
  /\ \A h \in {Start} \cup {Capture[t] : t \in {f \in Functor : ~wanted[f]}} :
       holds[h] = None /\ \A th \in Thread : arg[th] # h
  /\ built = "runLast" => \A th \in Thread : running[th] # Chain[1]
  /\ func' = "returned"
  /\ UNCHANGED <<vars, enqueued, handle, waiter, result, chainVars>>

----------------------------------------------------------------------------
(* Running a functor                                                       *)

(* The lambda of a task calls its functor with the exception of the task   *)
(* and the holder it has captured.                                         *)
RunTask(th, t) ==
  /\ pc[th] = "idle"
  /\ running[th] = None
  /\ t \notin enqueued
  /\ Execute(t)
  /\ running' = [running EXCEPT ![th] = t]
  /\ phase' = [phase EXCEPT ![th] =
                 IF ptr[t] = None \/ kind[t] = "handlesExceptions" THEN "f_"
                 ELSE "except_"]
  /\ UNCHANGED <<syncVars, kind, wanted, built>>

At(th, where) == running[th] # None /\ phase[th] = where /\ pc[th] = "idle"

Goto(th, where) ==
  /\ phase' = [phase EXCEPT ![th] = where]
  /\ UNCHANGED <<syncVars, kind, wanted, built, running>>

(* Mutant of PassOn: only except_ hears of the exception. *)
PassNothingOn(th) ==
  LET t == running[th] IN
  /\ At(th, "except_")
  /\ Done(th, Capture[t])
  /\ Goto(th, "out")

(* An earlier task failed: f_ is left out, except_ is called if there is   *)
(* one, and the doneWaiting of h passes the exception to the next task.    *)
PassOn(th) ==
  LET t == running[th] IN
  /\ At(th, "except_")
  /\ Report(th, Capture[t], seen[t], TRUE)
  /\ Goto(th, "out")

(* f_ throws: h.doneWaiting(std::current_exception()).  A functor that     *)
(* handles exceptions itself does not throw.                               *)
Throw(th, e) ==
  LET t == running[th] IN
  /\ At(th, "f_")
  /\ kind[t] # "handlesExceptions"
  /\ Report(th, Capture[t], e, TRUE)
  /\ Goto(th, "out")

(* f_ returns, and the destructor of h releases what is left of it. *)
ReturnFrom(th) ==
  LET h == Capture[running[th]] IN
  /\ At(th, "f_")
  /\ \A other \in Thread : arg[other] # h
  /\ \/ holds[h] # None /\ Done(th, h)
     \/ holds[h] = None /\ UNCHANGED vars
  /\ Goto(th, "out")

(* The end of the run lambda deletes the task; a direct call just ends. *)
Leave(th) ==
  LET t == running[th] IN
  /\ At(th, "out")
  /\ \/ stage[t] = "executing" /\ Recycle(t)
     \/ stage[t] = "new" /\ UNCHANGED vars
  /\ running' = [running EXCEPT ![th] = None]
  /\ UNCHANGED <<syncVars, kind, wanted, built, phase>>

RunFinal ==
  /\ Final \notin enqueued
  /\ Execute(Final)
  /\ UNCHANGED <<syncVars, chainVars>>

----------------------------------------------------------------------------
(* What functors and other threads do with the holders they have           *)

InFunctor(t) == \E th \in Thread : running[th] = t /\ phase[th] = "f_"

(* f_ has a copy of its own of h; one that handles exceptions has h. *)
MayCopy(h) ==
  \/ h \in Free
  \/ h = Start /\ built = "lastTask"
  \/ \E t \in Functor : h = Capture[t] /\ InFunctor(t)

(* Mutant of Owned: the handler moves its h into f_. *)
OwnedByAll(h) == MayCopy(h)

Owned(h) ==
  /\ MayCopy(h)
  /\ \A t \in Functor : h = Capture[t] => kind[t] = "handlesExceptions"

Pass(th) ==
  \E h \in Free, from \in Holder :
    \/ MayCopy(from) /\ SameClass(h, from) /\ Copy(th, h, from) /\ UNCHANGED syncVars
    \/ Owned(from) /\ SameClass(h, from) /\ Move(th, h, from) /\ UNCHANGED syncVars
    \/ MayCopy(from) /\ SameClass(h, from) /\ CopyAssign(th, h, from) /\ UNCHANGED syncVars
    \/ Owned(from) /\ SameClass(h, from) /\ MoveAssign(th, h, from) /\ UNCHANGED syncVars
    \/ Owned(from) /\ AttachArena(th, h, from)
    \/ h = from /\ MakeHolder(th, from)

LetGo(th, h) == Owned(h) /\ Done(th, h) /\ UNCHANGED <<syncVars, chainVars>>

Fail(th, last) ==
  \E h \in Holder, e \in Exception :
    /\ Owned(h)
    /\ Report(th, h, e, last)
    /\ UNCHANGED <<syncVars, chainVars>>

(* The rest of a call on a holder. *)
Continue(th) ==
  /\ UNCHANGED chainVars
  /\ \/ (FinishAssign(th) \/ Store(th) \/ Publish(th) \/ Told(th)) /\ UNCHANGED syncVars
     \/ ReleaseTo(th)
     \/ \E h \in Free : AndRelease(th, h)

(* More holders of the same task, or news for it.                          *)
Another(th) == (Pass(th) /\ UNCHANGED chainVars) \/ Fail(th, FALSE)

(* Steps that bring the chain nearer to its end. *)
Progress(th) ==
  \/ RunFunc(th) /\ UNCHANGED chainVars
  \/ LastTask(th) \/ RunLast(th)
  \/ \E t \in Functor : RunTask(th, t) \/ Unwind(th, t)
  \/ PassOn(th) \/ ReturnFrom(th) \/ \E e \in Exception : Throw(th, e)
  \/ Leave(th)
  \/ Continue(th)
  \/ \E h \in Holder : LetGo(th, h)
  \/ Fail(th, TRUE)

Onward ==
  \/ \E th \in Thread : Progress(th)
  \/ RunFinal \/ FuncReturns
  \/ Scheduling /\ UNCHANGED chainVars

NextChain == Onward \/ \E th \in Thread : Another(th)

(* Threads continue, functors return and holders are let go of, and the    *)
(* group and the arena run what they are given, for as long as there is    *)
(* something of that kind to do.                                           *)
ChainSpec == InitChain /\ [][NextChain]_allVars /\ WF_allVars(Onward)

----------------------------------------------------------------------------
(* The functors that follow t in the chain.                                *)
Behind(t) == {u \in Functor : wanted[u] /\ \E i, j \in DOMAIN Chain :
                                 i > j /\ Chain[i] = u /\ Chain[j] = t}

(* While f_ of a wrapped functor runs nothing behind it has started, and   *)
(* neither has the final task, whatever the functor did with its holder:   *)
(* the handler keeps one to report what f_ may yet throw.                  *)
StagesInOrder ==
  \A th \in Thread : running[th] # None /\ phase[th] = "f_" /\ kind[running[th]] = "auto"
    => /\ \A t \in Behind(running[th]) \cup {Final} : stage[t] = "held"
       /\ waiter = "waiting"

(* An exception reported to any task with only wrapped functors from there *)
(* on, by whichever thread, is what syncWait returns, or another such one; *)
(* and syncWait returns no exception without one.                          *)
FailuresReachWaiter ==
  LET heard == {t \in Functor \cup {Final} :
                  /\ \A u \in {t} \cup Behind(t) : u # Final => kind[u] = "auto"
                  /\ reported[t] # {}}
  IN waiter = "returned" => IF heard = {} THEN result = None
                            ELSE \E t \in heard : result \in reported[t]

(* Once no more holders are made of others, syncWait returns: no functor   *)
(* is left out by its predecessors, and no handle or lambda is forgotten.  *)
WaiterReturns ==
  (<>[][\A th \in Thread : ~Another(th)]_allVars) => <>(waiter = "returned")
=============================================================================
