---------------------------- MODULE WaitingTaskList ----------------------------
(***************************************************************************)
(* edm::WaitingTaskList: tasks added while the list waits are kept in a    *)
(* lock-free stack and released by doneWaiting; tasks added later are      *)
(* released at once.  add and doneWaiting run concurrently, so a task may  *)
(* be linked just after doneWaiting took the stack: the adder that found   *)
(* the stack empty looks again at m_waiting and then announces itself.     *)
(*                                                                         *)
(* Every access to an atomic member, and to the m_next of a node other     *)
(* threads can reach, is an action of its own.  reset is one action: the   *)
(* header forbids add and doneWaiting during it, except that a task        *)
(* released by announce may lead to it (comments in announce).             *)
(***************************************************************************)
EXTENDS Naturals, FiniteSets

CONSTANTS Adder,        \* threads that call add
          Owner,        \* the thread that calls presetTaskAsFailed, doneWaiting
          Task,         \* WaitingTasks, each added to the list
          Holders,      \* how many WaitingTaskHolders a task has; with none
                        \* it is added once, by the overload with a group
          InitialSize,  \* iInitialSize, of the node cache
          Rounds,       \* bound on the number of doneWaiting ... reset rounds
          MaxNodes,     \* bound on the nodes of a round
          Exception,    \* exceptions doneWaiting may be given
          None          \* nullptr, and the empty exception_ptr

ASSUME ListAssumption ==
  /\ Owner \notin Adder /\ IsFiniteSet(Adder)
  /\ Holders \in [Task -> Nat]
  /\ InitialSize \in Nat
  /\ Rounds \in Nat \ {0} /\ MaxNodes \in Nat
  /\ None \notin Task \cup Exception \cup Nat \cup Adder \cup {Owner}

Thread == Adder \cup {Owner}

VARIABLES
  head,       \* m_head: a node, or None
  nextNode,   \* m_next of each node; itself while the link is not known
  taskOf,     \* m_task of each node
  fromCache,  \* m_fromCache of each node
  freed,      \* nodes from the heap that were deleted in this round
  cacheSize,  \* m_nodeCacheSize
  index,      \* m_lastAssignedCacheIndex; nodes are named by their index
  waiting,    \* m_waiting
  exception,  \* m_exceptionPtr
  pc,         \* where each thread is
  node,       \* newHead in add; n in announce; node in presetTaskAsFailed
  adding,     \* iTask in add; t in announce
  byHolder,   \* TRUE in the overload of add that takes a WaitingTaskHolder
  oldHead,    \* the local variable of add
  given,      \* the exception_ptr the owner calls with
  refCount,   \* TaskBase::m_refCount
  failed,     \* the exception a task was told of first, or None
  unadded,    \* how many times each task will still be added
  spawned,    \* tasks whose run lambda waits in their group
  runs,       \* how often each task was executed
  round       \* rounds begun, bounded by Rounds

members == <<head, cacheSize, index, waiting, exception>>
nodes == <<nextNode, taskOf, fromCache, freed>>
locals == <<pc, node, adding, byHolder, oldHead, given>>
taskVars == <<refCount, failed, unadded, spawned, runs>>
vars == <<head, nextNode, taskOf, fromCache, freed, cacheSize, index, waiting,
          exception, pc, node, adding, byHolder, oldHead, given, refCount,
          failed, unadded, spawned, runs, round>>

Times(t) == IF Holders[t] = 0 THEN 1 ELSE Holders[t]
Node == 0..(MaxNodes - 1)

Init ==
  /\ head = None
  /\ nextNode = [n \in Node |-> None]
  /\ taskOf = [n \in Node |-> None]
  /\ fromCache = [n \in Node |-> n < InitialSize]
  /\ freed = {}
  /\ cacheSize = InitialSize
  /\ index = 0
  /\ waiting = TRUE
  /\ exception = None
  /\ pc = [th \in Thread |-> "out"]
  /\ node = [th \in Thread |-> None]
  /\ adding = [th \in Thread |-> None]
  /\ byHolder = [th \in Thread |-> FALSE]
  /\ oldHead = [th \in Thread |-> None]
  /\ given = None
  /\ refCount = [t \in Task |-> Holders[t]]
  /\ failed = [t \in Task |-> None]
  /\ unadded = [t \in Task |-> Times(t)]
  /\ spawned = {}
  /\ runs = [t \in Task |-> 0]
  /\ round = 1

Goto(th, loc) == pc' = [pc EXCEPT ![th] = loc]

(* Leave the member function; its locals are gone. *)
Return(th) ==
  /\ Goto(th, "out")
  /\ node' = [node EXCEPT ![th] = None]
  /\ adding' = [adding EXCEPT ![th] = None]
  /\ byHolder' = [byHolder EXCEPT ![th] = FALSE]
  /\ oldHead' = [oldHead EXCEPT ![th] = None]

(* dependentTaskFailed: the first exception a task is told of stays. *)
TellFailed(t, e) ==
  failed' = [failed EXCEPT ![t] = IF @ = None THEN e ELSE @]

(* decrement_ref_count, and run when nobody else holds the task. *)
Release(t) ==
  /\ refCount' = [refCount EXCEPT ![t] = @ - 1]
  /\ spawned' = IF refCount[t] = 1 THEN spawned \cup {t} ELSE spawned

----------------------------------------------------------------------------
(* add                                                                     *)

Add(th, t) ==
  /\ pc[th] = "out"
  /\ unadded[t] > 0
  /\ unadded' = [unadded EXCEPT ![t] = @ - 1]
  /\ byHolder' = [byHolder EXCEPT ![th] = Holders[t] > 0]
  /\ refCount' = [refCount EXCEPT ![t] = IF Holders[t] > 0 THEN @ ELSE @ + 1]
  /\ adding' = [adding EXCEPT ![th] = t]
  /\ Goto(th, "readWaiting")
  /\ UNCHANGED <<members, nodes, node, oldHead, given, failed, spawned, runs,
                 round>>

ReadWaiting(th) ==
  /\ pc[th] = "readWaiting"
  /\ Goto(th, IF waiting THEN "createNode" ELSE "late")
  /\ UNCHANGED <<members, nodes, node, adding, byHolder, oldHead, given,
                 taskVars, round>>

(* doneWaiting was called before: the task is released here. *)
AddLate(th) ==
  /\ pc[th] = "late"
  /\ TellFailed(adding[th], exception)
  /\ Release(adding[th])
  /\ Return(th)
  /\ UNCHANGED <<members, nodes, given, unadded, runs, round>>

(* Mutant of CreateNode: always takes a node of the cache. *)
CreateNodeOverrunsCache(th) ==
  LET n == IF index < cacheSize \/ index = 0 THEN index ELSE index - 1 IN
  /\ pc[th] = "createNode"
  /\ index' = index + 1
  /\ nextNode' = [nextNode EXCEPT ![n] = n]
  /\ taskOf' = [taskOf EXCEPT ![n] = adding[th]]
  /\ node' = [node EXCEPT ![th] = n]
  /\ Goto(th, "exchangeHead")
  /\ UNCHANGED <<head, cacheSize, waiting, exception, fromCache, freed, adding,
                 byHolder, oldHead, given, taskVars, round>>

(* createNode: the atomic increment hands out the index. *)
CreateNode(th) ==
  /\ pc[th] = "createNode"
  /\ index < MaxNodes
  /\ index' = index + 1
  /\ nextNode' = [nextNode EXCEPT ![index] = index]
  /\ taskOf' = [taskOf EXCEPT ![index] = adding[th]]
  /\ fromCache' = [fromCache EXCEPT ![index] = index < cacheSize]
  /\ node' = [node EXCEPT ![th] = index]
  /\ Goto(th, "exchangeHead")
  /\ UNCHANGED <<head, cacheSize, waiting, exception, freed, adding, byHolder,
                 oldHead, given, taskVars, round>>

ExchangeHead(th) ==
  /\ pc[th] = "exchangeHead"
  /\ oldHead' = [oldHead EXCEPT ![th] = head]
  /\ head' = node[th]
  /\ Goto(th, "setNext")
  /\ UNCHANGED <<cacheSize, index, waiting, exception, nodes, node, adding,
                 byHolder, given, taskVars, round>>

(* Mutant of SetNext: relies on the node that was linked to look again. *)
SetNextWithoutRecheck(th) ==
  /\ pc[th] = "setNext"
  /\ nextNode' = [nextNode EXCEPT ![node[th]] = oldHead[th]]
  /\ Return(th)
  /\ UNCHANGED <<members, taskOf, fromCache, freed, given, taskVars, round>>

(* setNextNode(oldHead).  From here on an announcer can pass the node, run *)
(* the task and delete the node.                                           *)
SetNext(th) ==
  /\ pc[th] = "setNext"
  /\ nextNode' = [nextNode EXCEPT ![node[th]] = oldHead[th]]
  /\ \/ /\ oldHead[th] # None
        /\ Return(th)
     \/ /\ oldHead[th] = None
        /\ Goto(th, IF byHolder[th] THEN "setNextAgain" ELSE "recheck")
        /\ UNCHANGED <<node, adding, byHolder, oldHead>>
  /\ UNCHANGED <<members, taskOf, fromCache, freed, given, taskVars, round>>

(* The second setNextNode(nullptr), in the overload with a holder only. *)
SetNextAgain(th) ==
  /\ pc[th] = "setNextAgain"
  /\ nextNode' = [nextNode EXCEPT ![node[th]] = None]
  /\ Goto(th, "recheck")
  /\ UNCHANGED <<members, taskOf, fromCache, freed, node, adding, byHolder,
                 oldHead, given, taskVars, round>>

(* Mutant of Recheck: announces without looking at m_waiting. *)
RecheckAlwaysAnnounces(th) ==
  /\ pc[th] = "recheck"
  /\ Goto(th, "announce")
  /\ UNCHANGED <<members, nodes, node, adding, byHolder, oldHead, given,
                 taskVars, round>>

(* if (!m_waiting) announce(); *)
Recheck(th) ==
  /\ pc[th] = "recheck"
  /\ \/ /\ waiting
        /\ Return(th)
     \/ /\ ~waiting
        /\ Goto(th, "announce")
        /\ UNCHANGED <<node, adding, byHolder, oldHead>>
  /\ UNCHANGED <<members, nodes, given, taskVars, round>>

----------------------------------------------------------------------------
(* announce                                                                *)

(* Mutant of TakeHead: loads m_head instead of exchanging it. *)
TakeHeadByLoad(th) ==
  /\ pc[th] = "announce"
  /\ node' = [node EXCEPT ![th] = head]
  /\ Goto(th, "loop")
  /\ UNCHANGED <<members, nodes, adding, byHolder, oldHead, given, taskVars,
                 round>>

TakeHead(th) ==
  /\ pc[th] = "announce"
  /\ node' = [node EXCEPT ![th] = head]
  /\ head' = None
  /\ Goto(th, "loop")
  /\ UNCHANGED <<cacheSize, index, waiting, exception, nodes, adding, byHolder,
                 oldHead, given, taskVars, round>>

(* Mutant of Visit: does not wait for the link. *)
VisitWithoutSpin(th) ==
  LET n == node[th] IN
  /\ pc[th] = "loop"
  /\ n # None
  /\ adding' = [adding EXCEPT ![th] = taskOf[n]]
  /\ TellFailed(taskOf[n], exception)
  /\ freed' = IF fromCache[n] THEN freed ELSE freed \cup {n}
  /\ node' = [node EXCEPT ![th] = IF nextNode[n] = n THEN None ELSE nextNode[n]]
  /\ Goto(th, "release")
  /\ UNCHANGED <<members, nextNode, taskOf, fromCache, byHolder, oldHead, given,
                 refCount, unadded, spawned, runs, round>>

(* Wait until the node is linked, read it, and delete it unless it belongs *)
(* to the cache.                                                           *)
Visit(th) ==
  LET n == node[th] IN
  /\ pc[th] = "loop"
  /\ n # None
  /\ nextNode[n] # n
  /\ adding' = [adding EXCEPT ![th] = taskOf[n]]
  /\ TellFailed(taskOf[n], exception)
  /\ freed' = IF fromCache[n] THEN freed ELSE freed \cup {n}
  /\ node' = [node EXCEPT ![th] = nextNode[n]]
  /\ Goto(th, "release")
  /\ UNCHANGED <<members, nextNode, taskOf, fromCache, byHolder, oldHead, given,
                 refCount, unadded, spawned, runs, round>>

ReleaseVisited(th) ==
  /\ pc[th] = "release"
  /\ Release(adding[th])
  /\ Goto(th, "loop")
  /\ UNCHANGED <<members, nodes, node, adding, byHolder, oldHead, given, failed,
                 unadded, runs, round>>

EndAnnounce(th) ==
  /\ pc[th] = "loop"
  /\ node[th] = None
  /\ Return(th)
  /\ UNCHANGED <<members, nodes, given, taskVars, round>>

----------------------------------------------------------------------------
(* presetTaskAsFailed and doneWaiting, both called by the owner; after a   *)
(* preset it must call doneWaiting with the same exception.                *)

Preset(e) ==
  /\ pc[Owner] = "out"
  /\ waiting
  /\ given = None
  /\ given' = e
  /\ node' = [node EXCEPT ![Owner] = head]
  /\ Goto(Owner, "preset")
  /\ UNCHANGED <<members, nodes, adding, byHolder, oldHead, taskVars, round>>

PresetVisit ==
  LET n == node[Owner] IN
  /\ pc[Owner] = "preset"
  /\ \/ /\ n # None
        /\ nextNode[n] # n
        /\ TellFailed(taskOf[n], given)
        /\ node' = [node EXCEPT ![Owner] = nextNode[n]]
        /\ UNCHANGED pc
     \/ /\ n = None
        /\ Goto(Owner, "out")
        /\ UNCHANGED <<failed, node>>
  /\ UNCHANGED <<members, nodes, adding, byHolder, oldHead, given, refCount,
                 unadded, spawned, runs, round>>

(* Mutant of DoneWaiting: the two stores of doneWaiting in the other order. *)
DoneWaitingOpensFirst(e) ==
  \/ /\ pc[Owner] = "out"
     /\ waiting
     /\ given # None => e = given
     /\ given' = e
     /\ waiting' = FALSE
     /\ Goto(Owner, "store")
     /\ UNCHANGED <<head, cacheSize, index, exception, nodes, node, adding, byHolder,
                    oldHead, taskVars, round>>
  \/ /\ pc[Owner] = "store"
     /\ e = given
     /\ exception' = e
     /\ Goto(Owner, "open")
     /\ UNCHANGED <<head, cacheSize, index, waiting, nodes, node, adding, byHolder,
                    oldHead, given, taskVars, round>>

(* doneWaiting stores the exception first, then the flag, then announces.  *)
DoneWaiting(e) ==
  /\ pc[Owner] = "out"
  /\ waiting
  /\ given # None => e = given
  /\ given' = e
  /\ exception' = e
  /\ Goto(Owner, "open")
  /\ UNCHANGED <<head, cacheSize, index, waiting, nodes, node, adding, byHolder,
                 oldHead, taskVars, round>>

Open ==
  /\ pc[Owner] = "open"
  /\ waiting' = FALSE
  /\ Goto(Owner, "announce")
  /\ UNCHANGED <<head, cacheSize, index, exception, nodes, node, adding, byHolder, oldHead,
                 given, taskVars, round>>

----------------------------------------------------------------------------
(* A thread of the arena executes a released task. *)
Execute(t) ==
  /\ t \in spawned
  /\ spawned' = spawned \ {t}
  /\ runs' = [runs EXCEPT ![t] = @ + 1]
  /\ UNCHANGED <<members, nodes, locals, refCount, failed, unadded, round>>

(* The caller's side of the contract of reset: the round was opened, every *)
(* task that was added has been executed, and no call is in progress save  *)
(* those in the loop of announce whose last task led here.                 *)
ResetAllowed ==
  /\ ~waiting
  /\ \A th \in Thread : pc[th] \in {"out", "loop"}
  /\ \A t \in Task : unadded[t] < Times(t) => runs[t] > 0

(* reset: the cache grows to what the round needed. *)
Reset ==
  /\ ResetAllowed
  /\ round < Rounds
  /\ round' = round + 1
  /\ exception' = None
  /\ cacheSize' = IF index > cacheSize THEN index ELSE cacheSize
  /\ index' = 0
  /\ freed' = {}
  /\ waiting' = TRUE
  /\ given' = None
  /\ UNCHANGED <<head, nextNode, taskOf, fromCache, pc, node, adding, byHolder,
                 oldHead, taskVars>>

----------------------------------------------------------------------------
AddStep(th) ==
  \/ ReadWaiting(th) \/ AddLate(th) \/ CreateNode(th) \/ ExchangeHead(th)
  \/ SetNext(th) \/ SetNextAgain(th) \/ Recheck(th)

Announce(th) ==
  TakeHead(th) \/ Visit(th) \/ ReleaseVisited(th) \/ EndAnnounce(th)

Next ==
  \/ \E th \in Adder : AddStep(th) \/ \E t \in Task : Add(th, t)
  \/ \E th \in Thread : Announce(th)
  \/ \E e \in Exception : Preset(e)
  \/ PresetVisit
  \/ \E e \in Exception \cup {None} : DoneWaiting(e)
  \/ Open
  \/ \E t \in Task : Execute(t)
  \/ Reset

(* Calls once made go on, and released tasks are executed; nobody has to   *)
(* add, to call doneWaiting or to reset.                                   *)
Fairness ==
  /\ \A th \in Thread : WF_vars(AddStep(th) \/ Announce(th))
  /\ WF_vars(PresetVisit) /\ WF_vars(Open)
  /\ \A t \in Task : WF_vars(Execute(t))

Spec == Init /\ [][Next]_vars
FairSpec == Spec /\ Fairness

----------------------------------------------------------------------------
InAdd == {"readWaiting", "late", "createNode", "exchangeHead", "setNext",
          "setNextAgain", "recheck"}
InAnnounce == {"announce", "loop", "release"}

TypeOK ==
  /\ head \in Node \cup {None}
  /\ nextNode \in [Node -> Node \cup {None}]
  /\ taskOf \in [Node -> Task \cup {None}]
  /\ fromCache \in [Node -> BOOLEAN]
  /\ freed \subseteq Node
  /\ cacheSize \in Nat
  /\ index \in 0..MaxNodes
  /\ waiting \in BOOLEAN
  /\ exception \in Exception \cup {None}
  /\ pc \in [Thread -> {"out", "preset", "open"} \cup InAdd \cup InAnnounce]
  /\ node \in [Thread -> Node \cup {None}]
  /\ adding \in [Thread -> Task \cup {None}]
  /\ byHolder \in [Thread -> BOOLEAN]
  /\ oldHead \in [Thread -> Node \cup {None}]
  /\ given \in Exception \cup {None}
  /\ refCount \in [Task -> Nat]
  /\ failed \in [Task -> Exception \cup {None}]
  /\ unadded \in [Task -> Nat]
  /\ spawned \subseteq Task
  /\ runs \in [Task -> Nat]
  /\ round \in 1..Rounds

Quiet == \A th \in Thread : pc[th] = "out"
Added(t) == unadded[t] = 0

(* How many releases are due to a task: a reference is what a release will *)
(* give back, or is kept by a holder that was not added yet.               *)
DueReleases ==
  [t \in Task |-> IF Holders[t] = 0 THEN refCount[t] ELSE refCount[t] - unadded[t]]

Gate == INSTANCE TaskGate WITH
  Adds <- [t \in Task |-> Times(t)], closed <- waiting, outcome <- given,
  due <- DueReleases, told <- failed, ready <- spawned

(* Seen from outside, stack, links, announcers and the look at m_waiting   *)
(* after a late link amount to a gate that opens once a round: no task is  *)
(* released before, none runs before its last release, and none released   *)
(* in a failed round misses the exception.                                 *)
ImplementsTaskGate == Gate!Spec

(* No task is released while the list waits, by whichever thread.          *)
NoEarlyRelease ==
  [][\A t \in Task : refCount'[t] < refCount[t] => ~waiting]_vars

(* However add and doneWaiting interleave, no task is left in the list: if *)
(* the list is open and no call is in progress, every added task was       *)
(* released, and the list is empty as the assertion in reset demands.      *)
NothingLeftBehind ==
  ~waiting /\ Quiet
    => /\ head = None
       /\ \A t \in Task : Added(t) => t \in spawned \/ runs[t] > 0

(* A task is executed once, after the last of its holders was released.    *)
ExecutedOnce ==
  \A t \in Task :
    /\ runs[t] + (IF t \in spawned THEN 1 ELSE 0) <= 1
    /\ t \in spawned \/ runs[t] > 0 => refCount[t] = 0 /\ Added(t)

(* The assertion in reset: whenever its caller may call it, m_head is      *)
(* null, and no thread still holds a node it would look at.                *)
ResetFindsEmptyList ==
  ResetAllowed => head = None /\ \A th \in Thread : node[th] = None

(* Whatever the owner called doneWaiting with reaches every task released  *)
(* in the round, also those that another thread releases as soon as the    *)
(* flag is seen: after a failure the task was told of an exception before, *)
(* and without one nobody is told of any.                                  *)
TasksSeeException ==
  [][\A t \in Task :
       /\ refCount'[t] < refCount[t] /\ given # None => failed'[t] # None
       /\ given = None => failed'[t] = failed[t]]_vars

(* Nodes a thread is going to read or write at its next step. *)
Touches(th) ==
  IF pc[th] \in {"setNext", "setNextAgain", "loop", "preset"}
  THEN {node[th]} \ {None} ELSE {}

(* Calls to add and doneWaiting are safe concurrently: no thread touches a *)
(* node that another has deleted.                                          *)
NoDanglingNode ==
  \A th \in Thread : Touches(th) \cap freed = {}

(* It holds of every access but the second setNextNode of the overload     *)
(* with a holder: adders and announcers do not touch what another deleted. *)
NodeAliveWhenUsed ==
  \A th \in Thread : pc[th] # "setNextAgain" => Touches(th) \cap freed = {}

(* Once the list is open every added task is executed: no announcer spins  *)
(* for ever on a node whose link does not come.                            *)
OpenListDrains ==
  \A t \in Task : Added(t) /\ ~waiting ~> runs[t] > 0
=============================================================================
