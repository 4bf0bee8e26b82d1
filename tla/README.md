# Formal verification of unify_prototype

This directory holds TLA+ specifications of the concurrency and control-flow
code of unify_prototype, the TLC configurations that check them on small
instances, and proofs of the most important properties for every instance.
Source paths below are relative to the repository (`src/` is its source tree).

## 1. The system

The repository is a prototype of an event-processing framework: task scheduling
primitives on top of oneTBB (`src/Concurrency`), a graph of decision nodes that
settles which parts of the processing run (`src/ControlFlow`), and the
book-keeping of data products (`src/ProductHandling`, `src/DataModel`).

| Component | State | Operations | Interacts with | Hard behaviour |
|---|---|---|---|---|
| SerialTaskQueue | FIFO `m_tasks`, `m_pauseCount`, `m_taskChosen`, spin lock `m_pickingNextTask` | push, pause, resume, the run lambda (execute, finishedTask), destructor | TBB groups run its lambdas; tasks call back into it | any thread may pick; flags are read and acted upon separately; pushes race with the last finisher; destruction races with it too |
| SerialTaskQueueChain | a vector of shared queues, `m_outstandingTasks` | push, passDownChain, actionToRun | pauses, pushes into and resumes its queues | holds several queues at once; relies on pause taking effect |
| LimitedTaskQueue | N serial queues, one run flag per pushed action | push, pushAndPause, Resumer | pushes a closure into every queue | N copies race to run one action; the pause is lifted by the last Resumer |
| WaitingTaskList | lock-free stack `m_head`, node cache, index, `m_waiting`, exception | add (two overloads), doneWaiting, presetTaskAsFailed, reset | runs WaitingTasks in their groups | add races doneWaiting; a node is linked before its `next` is set; nodes may be freed while the adder holds them |
| WaitingTask, WaitingTaskHolder | reference count, exception pointer guarded by `m_ptrSet` | increment, decrement-and-run, dependentTaskFailed, copy, move, doneWaiting | deleted by whoever decrements last | first exception wins; exactly one execution |
| WaitingTaskWithArenaHolder, FinalWaitingTask, syncWait | task, group, arena; deferred handle | doneWaiting through the arena; wait | TBB arena and group | the handle must keep the group waiting until the end |
| chain_first task chains | composed functors | first, then, if, lastTask, runLast | WaitingTask, WaitingTaskHolder | order of stages and skipping after an exception |
| ControlFlow | per node: requestors, request state, counts of refusals, decision, child decisions | makeDecisionAsync, decisionFrom, resetForNewTransition | nodes call each other synchronously, leaves answer asynchronously | lazy evaluation over a shared graph; several requestors; reuse over transitions |
| ThreadSafeOutputFileStream | message queue, "being logged" flag | write, destructor | callers on any thread | a message queued as the writer leaves |
| ThreadSafeAddOnlyContainer | list head | makeAndHold, destructor | callers on any thread | compare-exchange push |
| ProductResolverIndexHelper(s) | ordered map of keys to indices | insert, finalize, lookup | TransitionContext | default entry depends on process order |
| Base, DataModel, Utilities | values | string building, comparison | all | sequential |

What makes each correct: a serial queue executes every pushed task once, in
order, never two at a time, and loses none; a chain's action runs while it has
all of its queues to itself; a limited queue runs every action once and at most
N at a time; a waiting list releases every added task once, after doneWaiting,
with the exception if there is one, and never touches a node it no longer owns;
a waiting task runs once, when its last holder is gone, with the first
exception; a decision node answers all requestors, once, with the value of its
formula over the leaves, and tells to everyone whether it will run.

## 2. Modules

| Module | Models | Built on |
|---|---|---|
| `SerialTaskQueue` | push, pause, resume, pickNextTask, spawn, finishedTask and the run lambda, at the grain of single atomic accesses | - |
| `SerialExecutor` | abstract specification: what a serial queue promises, without threads and locks | - |
| `SerialTaskQueueLifetime` | the destructor, racing with the run lambdas | extends `SerialTaskQueue` |
| `SerialTaskQueueProofs` | proofs: types, exclusion, no stranded task; order, pauses, and that `SerialTaskQueue` implements `SerialExecutor` | extends `SerialTaskQueue` |
| `SerialTaskQueueLifetimeProofs` | proofs that the destructor completes and is let go | extends `SerialTaskQueueLifetime`, `SerialTaskQueueProofs` |
| `SerialTaskQueueChain` | push, passDownChain, actionToRun and its sentry | extends `SerialTaskQueue` |
| `SerialTaskQueueChainProofs` | proofs: pauses match, actions in order, the count is right, nothing is left at rest, the chain is a client of its queues | extends `SerialTaskQueueChain`, `SerialTaskQueueProofs` |
| `LimitedTaskQueue` | push, pushAndPause, copies and releases of `Resumer` | extends `SerialTaskQueue` |
| `LimitedExecutor` | abstract specification: what a limited queue promises, without queues, copies and flags | - |
| `LimitedTaskQueueProofs` | proofs: one begin per action, pauses and Resumers, the limit, one open queue is enough, and that `LimitedTaskQueue` implements `LimitedExecutor` | extends `LimitedTaskQueue`, `SerialTaskQueueProofs` |
| `WaitingTaskList` | both overloads of add, announce, doneWaiting, presetTaskAsFailed, reset | - |
| `TaskGate` | abstract specification: what a waiting list promises, without nodes, links and announcers | - |
| `WaitingTaskListProofs` | proofs of all its safety properties, and that it implements `TaskGate` | extends `WaitingTaskList` |
| `WaitingTask` | reference count and exception slot of tasks; construction, copy, move, assignment and release of holders | - |
| `SyncWait` | FinalWaitingTask, waitNoThrow and the deferred handle; WaitingTaskWithArenaHolder | extends `WaitingTask` |
| `TaskChain` | chain_first.h: the functors, handlers and conditions between holder and task, lastTask and runLast, under a syncWait | extends `SyncWait` |
| `TaskChainProofs` | proofs of the safety properties of `WaitingTask`, and of those of `SyncWait` and `TaskChain` on top of them; a chain forgets nothing | extends `TaskChain` |
| `DecisionGraph` | all handlers of and/or nodes, leaves and the start | - |
| `DecisionGraphProofs` | proofs of all its safety properties | extends `DecisionGraph` |
| `OutputFileStream` | ThreadSafeOutputFileStream: write and the destructor | - |
| `AddOnlyContainer` | ThreadSafeAddOnlyContainer: makeAndHold and the destructor | - |
| `ProductLookup` | ProductResolverIndexHelper, its builder, finalize; look-up through context and record | - |
| `TypeNames` | the passes of typeDemangle over the words of a type's name | - |
| `ExceptionText` | cms::Exception: what additions, copies, assignments and removals do to what explainSelf says | - |
| `LibraryProofs` | proofs about the stream, the container, the exceptions and the product indices | extends `OutputFileStream`, `AddOnlyContainer`, `ExceptionText`, `ProductLookup` |
| `...MC` | instances for TLC | extend the module they are named for |
| `LibraryMC` | one instance of the five modules above that have no partner (a behaviour exercises one of them) | extends them |

### How state and actions correspond to the code

**SerialTaskQueue.** One variable per member (`tasks`, `pauseCount`,
`taskChosen`, `pickingNextTask`), indexed by queue; per thread a location `pc`
and the locals of pickNextTask and of the run lambda. Each atomic read, exchange
or store is an action: `CheckPause`, `Acquire` (the spin lock), `Choose` (the
compare-exchange on m_taskChosen), `Pop`, `Unchoose`, `Release` are pickNextTask
from top to bottom; `Spawn`, `RunNext` and `FinishTask` are its callers. The
task groups are the set `spawned`; `Start` is a TBB thread taking a lambda.
Client code calls `Push`, `Pause` and `Resume` from outside and from inside
tasks, in any order. `pushed` and `executed` are history.
`SerialTaskQueueLifetime` adds the destructor, which one of the threads runs: its reads of
emptiness and of the flag (`ReadEmpty`, `ReadChosen`), the push of its last task and
the wait (`PushLast`, `Waits`, `WaitOver`). A queue may be paused when its destructor
begins. From then on only tasks of the queue that still run may pause and resume it
(`MayPause`), which is what the destructor of a paused queue depends on.

**Chain and limited queue.** Their lambdas are tasks of `SerialTaskQueue`; the
modules add what the body of a lambda does (`stage`) and only let a thread take
a step of the queue module where the code makes that call. `PassPause` and
`PassPush` are the two calls of passDownChain, `EndAction`, `ResumeQueue` and
`CountOut` the sentry of actionToRun. `TestAndSet` is the compare-exchange of
set_to_run; a Resumer is counted (`resumers`) and points to a queue (`m_queue`);
its assignments are a copy or a drop after the other. The promise,
`LimitedExecutor`, knows only which actions wait, are active and are done: an
action is active while the lambda that won its flag is on a thread (`Acts`).

**WaitingTaskList.** A node is named by its cache index; nodes past
`cacheSize` come from the heap and join `freed` when announce deletes them. An
`m_next` that is not yet set is `None`. The atomic accesses of add
(`ReadWaiting`, `CreateNode`, `ExchangeHead`, `SetNext`, `SetNextAgain`,
`Recheck`) and announce (`TakeHead`, `Visit`, `ReleaseVisited`) are actions.
`reset` is one action whose guard is its contract: no add or doneWaiting in
progress, which the header asks of the caller. In the promise, `TaskGate`, a
task waits for a number of releases (`due`): one for every time it was added,
held by a node or by a thread that has taken it out of one (`DueReleases`).

**WaitingTask.** `holds` maps every holder, and one local per thread, to its
task. A call on a holder is one action up to its next access to shared members
of the task: `Report` is the compare-exchange of dependentTaskFailed, `Store`
and `Publish` the two writes after it, `Release` the decrement. The local of a
thread is the `tmp` of an assignment or the `task` of doneWaiting. A holder is
used by one call at a time (`MayUse`); different holders of one task are used
concurrently.

**SyncWait.** The final task is a task of `WaitingTask` that lives on the stack
of the caller: `RunFunc` is the lambda of `group.run`, `RunHandle` the deferred
handle that was created with the task and that `recycle` puts into the group,
`WaitOver` the return of `group.wait`. Some holders are
`WaitingTaskWithArenaHolder`s; when such a one has the last reference
(`ReleaseTo`), the task waits in the arena's queue (`enqueued`) until
`RunEnqueued` takes it into the group.
`MakeHolder` and `AndRelease` are the two counts that
makeWaitingTaskHolderAndRelease changes one after the other.

**TaskChain.** `Chain` names one task per functor and `Capture` the holder that
the lambda of that task captures. `LastTask` and `RunLast` are the whole
recursion of the builder, which one thread does before anything of it is shared.
A functor runs in the phase `f_` or `except_`; `PassOn`, `Throw` and
`ReturnFrom` are the ends of the two exception handlers of the header.
A functor under `ifThen` whose condition is false is left out at building time
(`wanted`); runLast keeps a copy of the following holder for it until the call
returns (`Unwind`). What a functor does with its holder is open: it copies,
moves, assigns it, wraps it for an arena, reports exceptions to it or drops it,
and so do other threads with the holders that it left them (`Pass`, `LetGo`,
`Fail`).

**DecisionGraph.** The code is sequential by its own comment (BinaryDecisionNode.cc,
"if this were a threaded program") and in its tests. Calls in progress are a
stack, `calls`; each handler changes its node and then calls others, so one
action replaces a call by the calls it makes. `pending` leaves are tasks in the
group and run in any order. The graph itself is a variable that never changes,
so that one run covers many graphs.

**OutputFileStream.** `write` is `Write` (the push), `TakeOver` (the exchange),
`TryPop` and `Log` in a loop, `FindEmpty` and `StoreFalse`; the destructor is
`Close`. A message is a model value, written once. **AddOnlyContainer.**
makeAndHold is `LoadFront`, `NewNode`, `Exchange` and, after a failed exchange,
`SetNext`; the destructor is a walk of single steps.

**ProductLookup.** The maps are functions (`helpers_`, `records_`); a provider
is a sequence of offers, inserted one by one until a key exists already, which
throws (`AddOne`, `AddAll`). `DefaultEntry` is the loop of finalize over the
processes of a product in the order of the map. **TypeNames.** A name is a sequence of words. Each of the eleven
statements of typeDemangle is a pass, the helpers with loops are recursive
operators, and `Printed` is the name that the demangler of the C++ library
returns for a type (external; with or without a space between two brackets).
**ExceptionText.** A text is a sequence of fragments; each constructor,
assignment and append is an action, `explainSelf` an operator, and `told`
the texts an exception was given, by itself or through the one it came from.

## 3. Runs

| Run | Shows | Bounds | Distinct states |
|---|---|---|---|
| `queue` | one task at a time; FIFO; no stranded task; a pause bounds what still starts; refinement of `SerialExecutor`, step by step and in its fairness | 3 threads, 3 tasks, 2 groups, pause count 2 | 407 708 |
| `destructor` | when the destructor of an unpaused queue returns all tasks are finished; it returns when the pauses are taken back, also those it began with | 3 threads, 2 tasks and the last one, pause count 2 | 91 654 |
| `destructor_use` | violation, finding 1 | as above, pause count 1 | |
| `queue_chain` | pauses match what has passed; actions keep their order; everything drains | 3 queues, 2 actions, another client, 2 threads | 79 499 |
| `chain_direct` | violation, finding 2 | 2 queues, 1 action, another client | |
| `limited_queue` | refinement of `LimitedExecutor`: an action begins once and within the limit; pauses match Resumers; one unpaused queue is enough | 2 queues, 2 actions, 2 Resumers, pause count 2, 2 threads | 53 076 |
| `waiting_list` | nothing left behind, executed once, reset finds an empty list, no dangling access, exceptions arrive, refinement of `TaskGate` (no early release, no release forgotten or made twice), an open list drains | 2 adders and the owner, one task with two holders and one without, cache of 1, 2 rounds | 208 779 |
| `list_holder_nodes` | violation, finding 3 | no cache, 3 tasks with holders | |
| `decision_graph` | trees decide their formula and run exactly the leaves needed; with shared children decisions have their cause and everyone is answered | all and/or trees over 3 and 4 leaves, graphs sharing children below the tops, all verdicts, 2 transitions | 170 170 |
| `decision_second_transition` | violation, finding 4 | one and node over two leaves | |
| `task_chain` | a task runs when its last holder is gone, with a reported exception; a functor runs before those behind it; exceptions reach the waiter; syncWait returns after everything, and it returns | 2 functors and the final task, 5 holders of which one is an arena's, 2 threads, 1 exception, both kinds of functor, condition true and false | 174 294 |
| `library` | messages in order and none unwritten; objects deleted once; look-ups and defaults; normal names; explanations | 3 writers, 4 messages; 3 makers, 4 nodes; 5 providers, 4 orders; types of three levels; 2 exceptions, 4 calls | 180 433 |

*Why the bounds are enough to be interesting.* The races of the queue need a
picker between its read of the pause count and its exchange, another that
finishes, and a third that pushes: three threads, three tasks. Two groups make
the run loop take both of its branches. A pause count of two nests pauses, in
`queue`, `destructor` and `limited_queue`; the proofs hold for every `MaxPause`. A chain of three queues has a level
whose lambda passes on and a sentry loop with two rounds. One cached node and
two more from the heap make add use both kinds, and reset grow the cache; two
rounds let a task reach reset from inside announce. The trees over four leaves
contain every nesting of depth three. Two functors are enough for one whose
holder leads to another functor and one whose holder leads to the final task;
with the second unwanted, runLast keeps its copy; five holders let a functor keep
a copy, pass it to the other thread and assign over it. Four messages let the
third writer find the flag set twice while one is in the hand of the first.

*Bounds that are no part of the code:* `MaxPause` (an unsigned long),
`MaxResumers`, `Rounds`, `MaxNodes` (three: every add of a round gets a node), `MaxCalls`, and the finite sets of tasks, actions,
graphs, messages, nodes, providers and types. `queue` keeps the deadlock check,
because a client may always pause or resume; elsewhere the system stops when all
work is done, and the cfg says so.

*Fairness.* A thread inside one of the modelled functions goes on, the action of
a task returns, and a spawned lambda is taken by some thread (TBB's arena keeps
running while a group is waited for). All of it is weak fairness. Nobody is
obliged to push, pause, resume, add, call doneWaiting or drop a Resumer.
Neither the spin lock nor the compare-exchanges are fair in the code, and none
is assumed to be: `KeepsExecutorMoving` and `OneQueueWillDo` therefore have as
their premise that the clients at some time stop pausing and resuming
(`ClientsSettle`), without which a thread can lose every exchange to new pickers.
In `TaskChain` one weak fairness for all steps that bring the chain nearer to
its end (`Onward`) is enough, because none of them can be repeated for ever;
`WaiterReturns` has as its premise that functors at some time stop to make
holders of holders (`Another`), as a copy that is kept for ever rightly keeps the
waiter for ever.

## 4. Proofs

All theorems hold for every value of the constants that satisfies the named
assumptions (`ConstantsAssumption`, `ThreadAssumption`, `LastTaskAssumption`,
`LimitedAssumption`, `ChainAssumption`, `ListAssumption`, `HolderAssumption`,
`SyncWaitAssumption`, `GraphAssumption`, `WriterAssumption`, `NodeAssumption`,
`TextAssumption`, `LookupAssumption`): any number of threads, tasks, queues, groups, actions,
Resumers, holders, functors, exceptions, messages, nodes, rounds and graphs.
Every safety property that a run checks is stated by one of them, but for
`NameIsNormal`.

**SerialTaskQueueProofs.** `Invariance` proves the inductive invariant `IInv`,
and from it follow `TypeCorrect`, `MutualExclusion` (`OneAtATime`),
`ChosenFlagOwned` (`FlagHasOneOwner`) and `NothingStranded` (`NoStrandedTask`).
None of these is inductive: mutual exclusion rests on m_taskChosen being owned by
exactly one of a picker past its exchange, a spawned lambda or a running task
(`OneOwner`), which moves from one to the next at each step. That no push is
overlooked rests on two more facts: the members of a picking thread are
protected by the spin lock (`PickLocked`), and whenever an unpaused queue has
tasks some thread or task is still going to look (`SomeoneResponsible`). The
critical step is `Unchoose`: the picker that found the queue empty gives the flag
back, and whoever pushes after its try_pop must still pass the spin lock.

`ExecutedInOrder` (`NothingLostNorReordered`):
what was executed, what a picker, lambda or thread has in hand and what is in
line are, one after the other, what was pushed (`Line`). At most one task is in
hand because `OneOwner` holds, so that a `Pop` always finds the hand empty.
`PauseHolds` (`PauseTakesEffect`) is an action property: in every step between two
states in which the queue is paused, `MostStarts` does not grow. That is the number
of tasks started, plus the task handed over and not begun, plus the pickers that have
read the count as zero and not popped yet (`Looking`). Nobody joins these pickers
(`NobodyComes`): a thread that reads the count now turns back. Then a pop costs a
picker and a start costs the task handed over (`PauseStep`). So after a pause no more
tasks start than that, until the resume, however many threads pick, finish and push
meanwhile. `ThreadAssumption` says that the threads are finitely many, or there would
be nothing to count.

`ImplementsExecutor`: `Spec` implements the
safety part of `SerialExecutor` (initial states and steps). `RInv` adds to `IInv`
and `Line` that a task object is pushed once and that a task on a thread's stack
has begun; each action of the code is then an abstract push, begin, end, pause
or resume, or changes nothing that the executor shows.

**SerialTaskQueueLifetimeProofs.** `DestructorCompletes` (`AllTasksCompleted`).
A step of the destructor leaves the queue alone or is one of its pushes, so `RInv`
carries over. `DtorOK` says of each of the destructor's places why what it has
read is still true when it acts on it: nobody pushes any more, so an empty line
stays empty; a flag that was clear with an empty line stays clear, and then
everything pushed is finished (`Drained`); and while it waits, its own task is
the last that was pushed, so when that one has begun and left all others have,
by the order of `Line` and because a running task is the last started (`RunLast`).
`GroupOK` ties the wait on the group to that task.

`DestructorIsLetGo` is the safety half of `DestructorReturns`: when a destructor
waits and its queue is open and at rest, its last task has run and no lambda is
left in its group. The task was begun by `OpenIdleIsDone`. A lambda that has ended
it has still to call finishedTask, and that is a call on this queue (`GroupHere`),
so the queue is not at rest before it has returned.

**SerialTaskQueueChainProofs.** `ChainIsAClient`: every step of the chain is
one of its queues or leaves them alone. `PausesMatch` (`PausedByWhatPassed`)
and `ActionsInOrder` (`RunsInOrder`) follow from `ChainInv`, which adds to
`RInv` that the order of a queue is that in which its tasks began (`RunLast`),
which lambda a thread is in (`StageOK`), that a queue is given only tasks meant
for it (`PushedHere`) and that an action is in a queue only when its lambdas in
all queues before began (`Chained`). The pause counts then match step by step:
each `PassPause` and `ResumeQueue` moves one action from one side of a level to
the other. `SameOrder` carries the order from a level to the next: what a
lambda pushes comes last in the next queue, an action already there was pushed
by a lambda that began earlier in this queue, and so comes earlier in it.

`CountIsRight`: m_outstandingTasks is at every moment the number of actions whose
push has begun and whose sentry has not resumed all queues (`Outstanding`).
`ChainLeavesNothing` is the safety half of `ChainDrains`: when no call is under way
and no task is spawned, everything that was pushed is finished, no queue is
paused and nothing is outstanding. `DrainInv` adds to `ChainInv` that a lambda
which began is in passDownChain or has passed its action on (`GoesDown`), and that
only the chain pauses queues, and never its last (`OthersOpen`). Were an action left, take the last
level that one of them has reached (`NoneIsLeft`). Whatever has passed that level
is through, so that its queue is not paused; an open queue at rest has begun
everything (`OpenIdleIsDone`), so the lambda there has passed the action on to a
later level. Two actions that each wait for a queue the other keeps paused cannot
occur.

**LimitedTaskQueueProofs.** `QueuesAreSerial`: every step of the limited queue is
one of its serial queues or leaves them alone, so that all that is proved of
`Spec` holds here. `BegunAtMostOnce` (`BegunOnce`): the run flag of an action is
set by the first of its lambdas, and from then on the others skip it.
`ResumersPause` (`PausedByResumers`) counts: a copy adds one to the set of
Resumers of a queue and one to its pause count, a release takes both away; the
first Resumer of an action points to the queue in whose lambda the action runs.
`AtMostTheLimit`: running actions are in different queues, because each queue is
serial, so they are no more than the queues.

`ImplementsLimit` (`ImplementsLimitedExecutor`): seen from outside, the queues with
a copy of every action in each amount to one executor with a limit. Three facts
are added to the invariants of the queues (`ExecutorInv`): an action that is on a
thread has its flag set and is on no other thread (`ActsOnce`); what is begun was
submitted (`BegunSubmitted`); and, from `RInv`, a lambda that runs was pushed.
`ActionSteps` sorts the steps into those that push, test the flag, end a body and
the rest, which the executor does not see. The step that counts is `TestAndSet`
with a clear flag: it is the executor's `Begin`, whose guard asks that less than
the limit are active. `RoomForOne` shows it: the testing thread is itself one of
those that `LimitKept` counts and acts for nobody yet, and the active actions are
an image of the other threads.

`OneOpenQueueIsEnough` is the safety half of `OneQueueWillDo`: when a queue is open
and at rest, every action whose push has returned was begun, wherever the other
queues are paused. `RestInv` adds to `ExecutorInv` that a push which has begun is
carried through all queues (`PushGoesOn`), and that a lambda which was started sees
to the flag before it ends (`StartedTests`); the lambda of this queue was started by
`OpenIdleIsDone`.

**WaitingTaskListProofs.** All safety properties of the run, from `ListInv`. The
stack is not a plain list: a node can be in it before it is linked, and several
announcers can walk pieces of it at once. `HasChains` describes it by the set of
nodes still to be visited, an owner for each (`m_head` or the announcer), and a
rank which falls along a chain, so that what follows a node is the highest of the
same owner below it, or will be when its adder links it (`Points`). `ExchangeHead`
adds a node of the highest rank, `TakeHead` passes the chain of `m_head` to a
thread that had none, `Visit` takes the highest node away; all other steps leave
the chains alone (`Steady`). A deleted node is in no chain (`NodesAlive`), and a
task's reference count is the number of its live nodes, of threads holding it and
of holders not yet added (`Balanced`), from which `TasksRunOnce` and `ResetSafe`
follow. `ListDrained` needs that an open list with a node in it has somebody who
will announce (`WillAnnounce`): the owner before it took the head, or the adder
that found the list empty and has not looked at m_waiting again.

`ImplementsGate` (`ImplementsTaskGate`): whatever nodes, adders and announcers do,
the list behaves as a gate. `GateInv` adds to `ListInv` that once the list is open
the member that announcers and late adders read is the exception of the round
(`Outcome`). `ExceptionsSeen` (`TasksSeeException`) follows from it: whoever releases
a task has seen the list open, and the member was written before the flag, so the
task is told of what doneWaiting was given. An add (`Add`) is the gate's `Give`, both when it finds the list
waiting and makes a node and when it will release the task itself; storing the
exception is `Decide`, clearing m_waiting `Open`, and reset `CloseAgain`; a node
that is visited, by an announcer or by presetTaskAsFailed, tells its task (`Tell`),
and a release is due to that task (`DueAtNode`); linking a node and taking the head
change nothing that the gate shows, since a release stays due while it goes from
the node to the thread. The decrement of a reference count is `Release`: it is the last
one due exactly when the count drops to zero, by `Balanced`.

**TaskChainProofs.** *WaitingTask:* `Invariance`, then `TypeCorrect` (no count
goes below zero), `SpawnedWhenUnreferenced` (`HeldWhileReferenced`),
`ExceptionReachesTask` (`SeesReportedException`) and `FirstExceptionWins`
(`FirstExceptionStays`, an action property). The first half counts: a step adds
a slot that points to a task, takes one away or exchanges two slots, and
`GainCounts`, `LoseCounts` and `SwapCounts` say what that does to the
cardinality (finite sets, by the library's `FS_` theorems). The second half
explains why execute may read m_ptr unchecked: the thread that won the exchange
holds a reference until it has published (`Storing`, `CallOK`), so the task
cannot be handed over between `Store` and `Publish`; and a loser's exception is
not needed because the winner's is there.

*SyncWait and TaskChain:* the steps of the chain are steps of `WaitingTask`,
leave it alone, or (lastTask and runLast, and the two halves of
makeWaitingTaskHolderAndRelease) keep its invariant as well, so `IInv` holds
again (`ChainSpawnsUnreferenced`, `ExceptionReachesFunctor`: the two properties
above, stated of `ChainSpec`). `ChainInv` adds the chain. `CapturesKept`: until
its lambda is done with it, the holder a task captured points to the next
wanted functor, or the final task. From there `FollowersHeld` goes from functor
to functor along the chain: what follows is held, hence neither spawned nor
executing, which is `ChainInOrder` (`StagesInOrder`). A functor that is held or
waits somewhere to be run holds the final task in this way too; so when the
group is empty and its handle has run, which it does only after the final task
is deleted (`WaitOK`), no functor is left (`SyncWaitWaitsForAll`,
`WaitsForAll`). `PassesOn` says that what a task was executed with was reported
to the next before the task is deleted, and `FailuresAreReturned`
(`FailuresReachWaiter`) that it arrives at the final task, whose exception
syncWait returns: of the functors that have heard of one and have not passed it
on, the last would still have to (`NatMax`).

`WaiterIsLetGo` is the safety half of `WaiterReturns`: when iFunc has returned, no
thread is in a functor or a call, the holders that functors may keep are empty and
the group and the arena have nothing to run, every functor that was wanted has run
and waitNoThrow has nothing to wait for. `RestInv` adds to `ChainInv` that every
wanted functor got its task (`AllMade`), that iFunc left no holder behind
(`FuncEmptied`), and that a captured holder does not outlive the run of its functor
(`CaptureUsed`): the wrapper keeps it only up to the call that reports and then
releases (`Passing`). What is held at rest is thus held by the lambda of a task
before it, held itself (`HeldByOneBefore`); there is none before the first.

**DecisionGraphProofs.** Two invariants. `GraphIInv` holds for every graph,
shared nodes and equal operands included, and in every transition
(`GraphInvariance`): calls in line go from a requestor to its node or back, and
the answer in line is what the sender decided (`CallsOK`); a node sends once
(`SentOnce`); a binary node has recorded of each operand nothing or what that
operand sent, counts what it has recorded, and what it sent is settled by it
(`HeardOK`); between transitions all is at its beginning (`Idle`); and until
the start has asked all its nodes nobody decides (`OpeningOK`). From it follow
`GraphTypes`, `DecisionsHaveCauses` (`DecisionHasCause`) and `GraphsStartAnew`
(`StartsAnew`).

`AskingIInv` (`AskingInvariance`) is about the first transition, in graphs
whose shared nodes are operands of nodes on top (`SharesBelowTops`; finding 4
and the divergences of section 5 are what lies beyond). It turns each handler's
promise into a fact of the state: a request or refusal that is due, from what
the requestor is and has heard, is in line or has arrived (`AsksOK`,
`DeclinesOK`), the counter of refusals is the number of requestors whose
refusal arrived (with repetition, so it counts positions of the list), an
answer sent is in line or recorded (`AnswersOK`), and a node that has what
settles it has decided. With nothing in line, and no leaf pending, what is due
has arrived. `AskedAreAnswered` (`AskedMeansAnswered`) and
`NodesDecideTheirFormulas` (`DecidesItsFormula`) then go up the numbering of
the nodes, in which operands come first; `NeededNodesRun` (`RunsWhatIsNeeded`)
goes down from the nodes on top, as what is needed of an operand is settled by
who needs its parent. Both directions are lemmas of this module (`Upwards`,
`Downwards`), from the well-foundedness of the naturals. `Value` and `Needed`
are recursive functions; that they satisfy their equations (`StepByStep`) needs
an induction as well, over how far such a function exists.

**LibraryProofs.** *The stream:* `FileInOrder` (`WrittenInOrder`) and
`NothingUnwritten` (`ClosedFileIsComplete`) from `StreamIInv`: a writer past the
exchange owns the flag, so there is one, and it has a message in its hand exactly
between pop and insertion; file, hand and queue are what was said.

*The container:* `HeldAreDeletedOnce` (`DeletedOnce`). The invariant
says that there is a sequence of nodes without repetition, the held ones, of
which `front_` is the first and each is followed by its `next_`; a node not yet
exchanged in is in no such sequence, and its link is what the thread expects.
While the destructor walks, the deleted nodes are the beginning of the sequence.
The sequence is existentially quantified; every step names the new one
(`Exchange` puts its node in front).

*Exceptions:* `ExceptionsKeepText` (`NothingSaidIsLost`) from
`ExceptionInvariance`: what an exception was told is, as a set of words, what
its three parts hold, and each constructor, copy, assignment and append does to
the parts what it does to the set. explainSelf writes the parts with
separators, line ends and categories among them; `TextAssumption` says that
these are not words, and the lemmas about `ToSet` of concatenations and of
splitting do the rest.

*Product indices:* `ProductsAreFound` (`LookupFindsProduct`) and `DefaultsFollowOrder`
(`DefaultIsFirstInOrder`) from `LookupInvariance`. Until finalize the number of
keys is the number of products listed (`Numbered`), so that a new key gets the
place of its product in the list; later insertions and finalize leave keys with
a process name alone (`HelpersOK`). `LookupAssumption` says that there are fewer
keys than indices. The pass of finalize over the processes of a product keeps
what wins among those it has seen (`Found`, `FoundStep`): a strictly better
position in the given order replaces the entry, so of those that are not in it
the first in the order of the map stays. Both loops are recursive functions
over the places of a sequence (`AddAll`, `DefaultEntry`), and what a loop
establishes is proved by `StepByStep`.

`FlagHasOneOwner`, `FirstExceptionStays`, `NoEarlyRelease`, `BegunOnce`, the limit of
`AtMostTheLimit`, `NoneWaitsForOthers` (of `OneOpenQueueIsEnough`),
`CountsOutstanding` (of `CountIsRight`), `RestsWhenDone` (of `ChainLeavesNothing`),
`WaitIsNotInVain` (of `DestructorIsLetGo`), `NothingForgotten` (of `WaiterIsLetGo`)
and the type invariants are proved only: TLC confirmed them once,
and no run repeats it (the refinements of `TaskGate` and `LimitedExecutor`
include `NoEarlyRelease` and `BegunOnce`).

**Only model-checked:** all liveness (`KeepsExecutorMoving`,
`DestructorReturns`, `ChainDrains`, `OneQueueWillDo`, `OpenListDrains`,
`TopsAnswered`, `WaiterReturns`), because the prover has no way to reason about
fairness and ENABLED. What is proved is the safety half of four of them: that
nothing is left to wait for once the system has come to rest
(`DestructorIsLetGo`, `ChainLeavesNothing`, `OneOpenQueueIsEnough`,
`WaiterIsLetGo`); that it comes to rest is left to TLC. Also `NameIsNormal` of `TypeNames`, whose passes are
RECURSIVE operators over the words of a name.

## 5. Findings

1. `destructor_use`: finishedTask clears m_taskChosen and then calls
   pickNextTask; between the two the destructor of an empty queue sees nothing to
   wait for and returns. The lambda goes on to use members of a destroyed queue.
2. `chain_direct`: passDownChain pauses its queue to "be sure the queue
   associated to this running task does not attempt to start another task". A
   picker that has read the pause count earlier starts one anyway, while the
   action of the chain runs.
3. `list_holder_nodes`: the overload of add for holders sets `m_next` a second
   time after publishing it; an announcer may have deleted the node by then.
4. `decision_second_transition`: nothing resets `decisionsFromComposites_` of a
   binary node, so in the second transition it gets GO twice and never decides.

Divergences seen while reading that no run is spent on (see the notes of the
hazards in PROJECT.json): the comment of pause() promises that no task starts
after it has returned, and the one of pushAndPause that concurrency is reduced
by one at once; both meet the race of finding 2. In the decision graph: a node
with the same child on both sides (an and node takes both answers for its left
operand's, so `DecisionHasCause` speaks of nodes with two different ones), a shared node below another node that is asked
late, a SKIP from the right child that hides an exception of the left one, and a
refused node that a shared child wakes up.
In Base: Exception::swap (Exception.cc:89) appends to the text that is there, so
that an assigned exception keeps its old message in front of the new one, and
`ExceptionText` models it so. typeDemangle with pointers: a top-level
`int const*` loses its const, and a vector of `int* const` and one of
`int const*` get the same name; the types of the run have no pointers. In the
product indices: a product inserted with an empty process name loses its index
when finalize makes a default entry of that key, and an insert after
finalize counts the default entries too, so that its index is past its
resolver; `LookupFindsProduct` speaks of products with a process name, inserted
before.

## 6. Not modelled

- The move constructor of SerialTaskQueue (it asserts an empty queue; nothing
  calls it) and the moves of an idle chain.
- Memory order: every access is taken as sequentially consistent, the default the
  atomics use. The code asks for less in three places: the relaxed store of
  `m_next` in a node nobody sees yet (WaitingTaskList.cc:87), published by the
  exchange of `m_head`; the release store of `willNotRunRequests_` between two
  transitions (DecisionNodeBase.h:39); and the acq_rel `fetch_add` whose result
  StartDecisionGraph.cc:23 does not use.
- TBB itself: groups are sets of lambdas, threads take them in any order, an
  arena's queue is a set too.
- `make_lambda_with_holder` and `make_waiting_task_with_holder` of the arena
  holder: templates that nothing in the repository instantiates.
- `ThreadsController` and setNThreads (one call, no state), `SharedResourceNames`
  (one counter), `TypeIDBase` (a wrapper of std::type_info), the value types of
  `DataModel` and `DataProductBase`, `Utilities`, and the empty stubs around
  `TransitionContext` (see `components` in PROJECT.json).
- The text that `Exception::what` caches, and the conversion of what is written
  to a ThreadSafeOutputFileStream.
- In `AddOnlyContainer` a node's address cannot come back while makers run,
  because only the destructor frees nodes; the compare-exchange has no ABA case.
- In `WaitingTaskList`, doneWaiting is called once a round and by one thread, and
  reset only when its contract allows it. In `WaitingTask`, a holder that is
  copied is not empty.
- In `DecisionGraph`, the leaves are the tests' DummyDecisionNode with a constant
  verdict for all transitions. Graphs that share nodes below other nodes, and
  refused nodes that a shared child wakes, are not among the graphs checked (the
  divergences of section 5 would meet them at once).

## 7. State of the plan

Done: the serial queue, its promise, the proofs of both and of the refinement;
its destructor; the waiting list; the decision graph; waiting tasks and their
proofs; the chain and the limited queue; arena holders, syncWait and task
chains; the stream and the container with their proofs; product indices, type
names and exception texts; the proofs of the limited queue and the waiting list,
the proofs of the chain, of syncWait and the task chains, of the decision graph,
of the exceptions and of the product indices; the promises of the waiting list
(`TaskGate`) and of the limited queue (`LimitedExecutor`), with proofs that the
code keeps them; the safety halves of what destructor, chain, limited queue and
syncWait must reach in the end.

Left, in the order of importance:

1. Decision graphs with shared nodes below other nodes, and refused nodes: which
   part of `AskedMeansAnswered` the code keeps for them. The divergences of
   section 5 show that it does not keep all of it.
2. A promise for the queue chain. Exclusive use of its queues, which it is meant
   to give, does not hold (finding 2); what holds is stated as `RunsInOrder` and
   `PausedByWhatPassed`.
3. The passes of `TypeNames` as recursive functions over the places of a name, and
   a proof that what they leave has no white space or const out of place: this is
   induction over the nesting of a type, for which the prover has no rule.
