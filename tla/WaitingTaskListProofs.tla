------------------------- MODULE WaitingTaskListProofs -------------------------
(***************************************************************************)
(* Proofs about WaitingTaskList, for any number of adding threads, tasks,  *)
(* holders, cached nodes and rounds.                                       *)
(*                                                                         *)
(* The nodes that are still to be visited (live) form chains: one starts   *)
(* at m_head, the others where an announcer stands.  A chain is described  *)
(* by its owner and by ranks that fall along it, so that the next node is  *)
(* the one of highest rank under a node.                                   *)
(***************************************************************************)
EXTENDS WaitingTaskList, TLAPS, FiniteSetTheorems

(* Locations at which a thread holds a reference to the task in adding.    *)
Referring == {"readWaiting", "late", "createNode", "exchangeHead", "release"}

Locals ==
  /\ pc[Owner] \notin InAdd
  /\ \A th \in Adder : pc[th] \notin {"preset", "open"}
  /\ \A th \in Thread : pc[th] = "out" => node[th] = None
  /\ \A th \in Thread : pc[th] \in Referring => adding[th] \in Task
  /\ \A n \in freed : n < index

(* A node is not linked exactly while its adder is about to link it. *)
OwnNodes ==
  /\ \A th \in Adder :
       pc[th] \in {"exchangeHead", "setNext", "setNextAgain"} => node[th] \in 0..(index - 1)
  /\ \A th \in Adder :
       pc[th] \in {"exchangeHead", "setNext"}
         => nextNode[node[th]] = node[th] /\ node[th] \notin freed
  /\ \A th \in Adder : pc[th] = "exchangeHead" => taskOf[node[th]] = adding[th]
  /\ \A th \in Adder : pc[th] = "setNextAgain" => nextNode[node[th]] = None
  /\ \A x, y \in Adder :
       /\ pc[x] \in {"exchangeHead", "setNext"}
       /\ pc[y] \in {"exchangeHead", "setNext"}
       /\ node[x] = node[y]
       => x = y

(* The thread will announce, or find out that it has to. *)
WillAnnounce(th) ==
  \/ pc[th] \in {"announce", "setNextAgain", "recheck"}
  \/ pc[th] = "setNext" /\ oldHead[th] = None

Phase ==
  /\ \A th \in Thread :
       waiting => /\ pc[th] \notin {"late", "announce", "release"}
                  /\ pc[th] = "loop" => node[th] = None
  /\ pc[Owner] \in {"preset", "open"} => waiting
  /\ ~waiting /\ head # None => \E th \in Thread : WillAnnounce(th)
  /\ \A th \in Thread :
       pc[th] = "release" /\ exception # None => failed[adding[th]] # None

TaskOK(t) ==
  /\ unadded[t] <= Times(t)
  /\ refCount[t] + (IF Holders[t] = 0 THEN unadded[t] ELSE 0) <= Times(t)
  /\ runs[t] <= 1
  /\ t \in spawned => runs[t] = 0
  /\ t \in spawned \/ runs[t] > 0 <=> refCount[t] = 0 /\ unadded[t] = 0

----------------------------------------------------------------------------
(* The chains.                                                             *)

Key == Thread \cup {None}

(* The node from which the chain of a thread, or of the list, is entered.  *)
Entry(o) ==
  IF o = None THEN head
  ELSE IF pc[o] \in {"loop", "release"} THEN node[o] ELSE None

(* x follows n, or will when the adder of n has linked it. *)
Points(n, x) ==
  \/ nextNode[n] = x /\ nextNode[n] # n
  \/ /\ nextNode[n] = n
     /\ \E th \in Adder : pc[th] = "setNext" /\ node[th] = n /\ oldHead[th] = x

(* x has the highest rank in S, or there is nothing in S. *)
IsTop(x, S, rank) ==
  \/ S = {} /\ x = None
  \/ x \in S /\ \A m \in S : rank[m] <= rank[x]

Part(o, live, own) == {n \in live : own[n] = o}
Under(n, live, own, rank) == {m \in live : own[m] = own[n] /\ rank[m] < rank[n]}

ChainType(live, own, rank, top) ==
  /\ live \in SUBSET Node
  /\ own \in [Node -> Key]
  /\ rank \in [Node -> Nat]
  /\ top \in Nat

Chains(live, own, rank, top) ==
  /\ \A n \in live : n < index /\ n \notin freed /\ taskOf[n] \in Task /\ rank[n] < top
  /\ \A n, m \in live : rank[n] = rank[m] => n = m
  /\ \A o \in Key : IsTop(Entry(o), Part(o, live, own), rank)
  /\ \A n \in live :
       \E x \in Node \cup {None} : Points(n, x) /\ IsTop(x, Under(n, live, own, rank), rank)
  /\ \A th \in Adder : pc[th] = "exchangeHead" => node[th] \notin live
  /\ pc[Owner] = "preset" => node[Owner] = None \/ node[Owner] \in Part(None, live, own)

(* The references to a task: by live nodes, by threads in add or announce, *)
(* and by the holders it was not yet added with.                           *)
NodesFor(live, t) == {n \in live : taskOf[n] = t}
ThreadsFor(t) == {th \in Thread : pc[th] \in Referring /\ adding[th] = t}
HoldersOf(t) == IF Holders[t] > 0 THEN unadded[t] ELSE 0

Balanced(live, t) ==
  refCount[t] = Cardinality(NodesFor(live, t)) + Cardinality(ThreadsFor(t)) + HoldersOf(t)

HasChains ==
  \E live, own, rank, top :
    /\ ChainType(live, own, rank, top)
    /\ Chains(live, own, rank, top)
    /\ \A t \in Task : Balanced(live, t)

ListInv ==
  /\ TypeOK
  /\ Locals
  /\ OwnNodes
  /\ Phase
  /\ \A t \in Task : TaskOK(t)
  /\ HasChains

----------------------------------------------------------------------------
(* The constants as the provers need them. *)
LEMMA Constants ==
  /\ Owner \in Thread /\ Owner \notin Adder /\ Adder \subseteq Thread /\ IsFiniteSet(Thread)
  /\ \A th \in Thread : th = Owner \/ th \in Adder
  /\ None \notin Task /\ None \notin Exception /\ None \notin Nat /\ None \notin Thread
  /\ None \notin Node /\ Node \subseteq Nat /\ IsFiniteSet(Node)
  /\ \A n : n \in Node <=> n \in Nat /\ n < MaxNodes
  /\ \A t \in Task : Holders[t] \in Nat /\ Times(t) \in Nat \ {0}
                     /\ Times(t) = (IF Holders[t] = 0 THEN 1 ELSE Holders[t])
  /\ MaxNodes \in Nat /\ InitialSize \in Nat /\ Rounds \in Nat \ {0}
<1>1. IsFiniteSet(Thread)
  BY ListAssumption, FS_AddElement DEF Thread
<1>2. IsFiniteSet(Node)
  BY ListAssumption, FS_Interval DEF Node
<1>3. \A t \in Task : Holders[t] \in Nat
  BY ListAssumption
<1> QED
  BY <1>1, <1>2, <1>3, ListAssumption DEF Thread, Node, Times

(* What is counted is finite. *)
LEMMA CountsFinite ==
  ASSUME NEW live \in SUBSET Node, NEW t
  PROVE  /\ IsFiniteSet(NodesFor(live, t)) /\ IsFiniteSet(ThreadsFor(t))
         /\ Cardinality(NodesFor(live, t)) \in Nat /\ Cardinality(ThreadsFor(t)) \in Nat
         /\ Cardinality(NodesFor(live, t)) = 0 <=> NodesFor(live, t) = {}
         /\ Cardinality(ThreadsFor(t)) = 0 <=> ThreadsFor(t) = {}
<1>1. NodesFor(live, t) \in SUBSET Node /\ ThreadsFor(t) \in SUBSET Thread
  BY DEF NodesFor, ThreadsFor
<1>2. IsFiniteSet(NodesFor(live, t)) /\ IsFiniteSet(ThreadsFor(t))
  BY <1>1, Constants, FS_Subset
<1> QED
  BY <1>2, FS_CardinalityType, FS_EmptySet

(* A task that a thread refers to was not executed, and when it is the     *)
(* last reference, everything was added.                                   *)
LEMMA Referred ==
  ASSUME ListInv, NEW th \in Thread, pc[th] \in Referring, NEW t, t = adding[th]
  PROVE  /\ t \in Task /\ refCount[t] \in Nat /\ refCount[t] > 0
         /\ t \notin spawned /\ runs[t] = 0
         /\ refCount[t] = 1 => unadded[t] = 0
<1>1. t \in Task
  BY DEF ListInv, Locals
<1>2. PICK live \in SUBSET Node : Balanced(live, t)
  BY <1>1 DEF ListInv, HasChains, ChainType
<1>3. th \in ThreadsFor(t)
  BY DEF ThreadsFor
<1>4. /\ Cardinality(NodesFor(live, t)) \in Nat
      /\ Cardinality(ThreadsFor(t)) \in Nat /\ Cardinality(ThreadsFor(t)) > 0
  BY <1>2, <1>3, CountsFinite
<1>5. refCount[t] \in Nat /\ unadded[t] \in Nat /\ runs[t] \in Nat
  BY <1>1 DEF ListInv, TypeOK
<1>6. refCount[t] > 0 /\ (Holders[t] > 0 => refCount[t] > unadded[t])
  BY <1>1, <1>2, <1>4, <1>5, Constants DEF Balanced, HoldersOf
<1>7. TaskOK(t)
  BY <1>1 DEF ListInv
<1> QED
  BY <1>1, <1>5, <1>6, <1>7, Constants DEF TaskOK

(* A task with a live node was not executed. *)
LEMMA LiveReferred ==
  ASSUME ListInv, NEW live \in SUBSET Node, NEW t \in Task, Balanced(live, t),
         NEW n \in live, taskOf[n] = t
  PROVE  /\ refCount[t] \in Nat /\ refCount[t] > 0
         /\ t \notin spawned /\ runs[t] = 0
         /\ unadded[t] < Times(t)
<1>1. n \in NodesFor(live, t)
  BY DEF NodesFor
<1>2. /\ Cardinality(NodesFor(live, t)) \in Nat /\ Cardinality(NodesFor(live, t)) > 0
      /\ Cardinality(ThreadsFor(t)) \in Nat
  BY <1>1, CountsFinite
<1>3. refCount[t] \in Nat /\ unadded[t] \in Nat /\ runs[t] \in Nat
  BY DEF ListInv, TypeOK
<1>4. refCount[t] > 0 /\ (Holders[t] > 0 => refCount[t] > unadded[t])
  BY <1>2, <1>3, Constants DEF Balanced, HoldersOf
<1>5. TaskOK(t)
  BY DEF ListInv
<1> QED
  BY <1>3, <1>4, <1>5, Constants DEF TaskOK

----------------------------------------------------------------------------
(* Types                                                                   *)

(* The parts that several actions share keep the types. *)
LEMMA ReturnType ==
  ASSUME TypeOK, NEW th \in Thread, Return(th)
  PROVE  /\ pc' \in [Thread -> {"out", "preset", "open"} \cup InAdd \cup InAnnounce]
         /\ node' \in [Thread -> Node \cup {None}]
         /\ adding' \in [Thread -> Task \cup {None}]
         /\ byHolder' \in [Thread -> BOOLEAN]
         /\ oldHead' \in [Thread -> Node \cup {None}]
BY DEF TypeOK, Return, Goto

(* Telling a task of an exception keeps the types. *)
LEMMA TellType ==
  ASSUME TypeOK, NEW t, NEW e \in Exception \cup {None}, TellFailed(t, e)
  PROVE  failed' \in [Task -> Exception \cup {None}]
BY DEF TypeOK, TellFailed

(* Releasing a reference keeps the types, as there is one. *)
LEMMA ReleaseType ==
  ASSUME ListInv, NEW th \in Thread, pc[th] \in Referring, Release(adding[th])
  PROVE  refCount' \in [Task -> Nat] /\ spawned' \subseteq Task
<1> DEFINE t == adding[th]
<1>1. t \in Task /\ refCount[t] \in Nat /\ refCount[t] > 0
  BY Referred
<1> HIDE DEF t
<1>2. refCount' = [refCount EXCEPT ![t] = @ - 1] /\ spawned' \subseteq spawned \cup {t}
  BY DEF Release, t
<1>3. refCount \in [Task -> Nat] /\ spawned \subseteq Task
  BY DEF ListInv, TypeOK
<1> QED
  BY <1>1, <1>2, <1>3

(* Every step keeps the variables well typed. *)
LEMMA TypeStep ==
  ListInv /\ [Next]_vars => TypeOK'
<1> SUFFICES ASSUME ListInv, [Next]_vars
             PROVE  TypeOK'
  OBVIOUS
<1>0. TypeOK
  BY DEF ListInv
<1> USE DEF members, nodes, locals, taskVars
<1>1. ASSUME NEW th \in Adder, NEW t \in Task, Add(th, t)
      PROVE  TypeOK'
  BY <1>0, <1>1, Constants DEF TypeOK, Add, Goto, InAdd
<1>2. ASSUME NEW th \in Adder, ReadWaiting(th) \/ SetNextAgain(th)
      PROVE  TypeOK'
  <2>1. CASE ReadWaiting(th)
    BY <1>0, <2>1 DEF TypeOK, ReadWaiting, Goto, InAdd
  <2>2. CASE SetNextAgain(th)
    <3>1. nextNode' \in [Node -> Node \cup {None}]
      BY <1>0, <2>2 DEF TypeOK, SetNextAgain
    <3>2. pc' \in [Thread -> {"out", "preset", "open"} \cup InAdd \cup InAnnounce]
      BY <1>0, <2>2 DEF TypeOK, SetNextAgain, Goto, InAdd
    <3> QED
      BY <1>0, <2>2, <3>1, <3>2 DEF TypeOK, SetNextAgain
  <2> QED
    BY <1>2, <2>1, <2>2
<1>3. ASSUME NEW th \in Adder, AddLate(th)
      PROVE  TypeOK'
  <2>1. exception \in Exception \cup {None} /\ th \in Thread
    BY <1>0, Constants DEF TypeOK
  <2>2. failed' \in [Task -> Exception \cup {None}]
    BY <1>0, <1>3, <2>1, TellType DEF AddLate
  <2>3. refCount' \in [Task -> Nat] /\ spawned' \subseteq Task
    BY <1>3, <2>1, ReleaseType DEF AddLate, Referring
  <2> QED
    BY <1>0, <1>3, <2>1, <2>2, <2>3, ReturnType DEF TypeOK, AddLate
<1>4. ASSUME NEW th \in Adder, CreateNode(th)
      PROVE  TypeOK'
  <2>1. index \in Node /\ index + 1 \in 0..MaxNodes
    BY <1>0, <1>4, Constants DEF TypeOK, CreateNode
  <2>2. /\ nextNode' \in [Node -> Node \cup {None}]
        /\ taskOf' \in [Node -> Task \cup {None}]
        /\ fromCache' \in [Node -> BOOLEAN]
    BY <1>0, <1>4, <2>1, Constants DEF TypeOK, CreateNode
  <2>3. /\ pc' \in [Thread -> {"out", "preset", "open"} \cup InAdd \cup InAnnounce]
        /\ node' \in [Thread -> Node \cup {None}]
    BY <1>0, <1>4, <2>1 DEF TypeOK, CreateNode, Goto, InAdd
  <2> QED
    BY <1>0, <1>4, <2>1, <2>2, <2>3 DEF TypeOK, CreateNode
<1>5. ASSUME NEW th \in Adder, ExchangeHead(th)
      PROVE  TypeOK'
  <2>1. node[th] \in Node
    BY <1>0, <1>5, Constants DEF ListInv, OwnNodes, ExchangeHead, TypeOK
  <2> QED
    BY <1>0, <1>5, <2>1 DEF TypeOK, ExchangeHead, Goto, InAdd
<1>6. ASSUME NEW th \in Adder, SetNext(th)
      PROVE  TypeOK'
  <2>1. nextNode' \in [Node -> Node \cup {None}]
    BY <1>0, <1>6, Constants DEF TypeOK, SetNext
  <2>2. CASE Return(th)
    BY <1>0, <1>6, <2>1, <2>2, ReturnType, Constants DEF TypeOK, SetNext
  <2>3. CASE ~Return(th)
    BY <1>0, <1>6, <2>1, <2>3 DEF TypeOK, SetNext, Goto, InAdd
  <2> QED
    BY <2>2, <2>3
<1>7. ASSUME NEW th \in Adder, Recheck(th)
      PROVE  TypeOK'
  <2>1. CASE Return(th)
    BY <1>0, <1>7, <2>1, ReturnType, Constants DEF TypeOK, Recheck
  <2>2. CASE ~Return(th)
    BY <1>0, <1>7, <2>2 DEF TypeOK, Recheck, Goto, InAnnounce
  <2> QED
    BY <2>1, <2>2
<1>8. ASSUME NEW th \in Thread, TakeHead(th)
      PROVE  TypeOK'
  BY <1>0, <1>8 DEF TypeOK, TakeHead, Goto, InAnnounce
<1>9. ASSUME NEW th \in Thread, Visit(th)
      PROVE  TypeOK'
  <2>1. exception \in Exception \cup {None} /\ node[th] \in Node
    BY <1>0, <1>9 DEF TypeOK, Visit
  <2>2. failed' \in [Task -> Exception \cup {None}]
    BY <1>0, <1>9, <2>1, TellType DEF Visit
  <2> QED
    BY <1>0, <1>9, <2>1, <2>2 DEF TypeOK, Visit, Goto, InAnnounce
<1>10. ASSUME NEW th \in Thread, ReleaseVisited(th)
      PROVE  TypeOK'
  <2>1. refCount' \in [Task -> Nat] /\ spawned' \subseteq Task
    BY <1>10, ReleaseType DEF ReleaseVisited, Referring
  <2> QED
    BY <1>0, <1>10, <2>1 DEF TypeOK, ReleaseVisited, Goto, InAnnounce
<1>11. ASSUME NEW th \in Thread, EndAnnounce(th)
      PROVE  TypeOK'
  BY <1>0, <1>11, ReturnType DEF TypeOK, EndAnnounce
<1>12. ASSUME NEW e \in Exception, Preset(e)
      PROVE  TypeOK'
  BY <1>0, <1>12, Constants DEF TypeOK, Preset, Goto
<1>13. ASSUME PresetVisit
      PROVE  TypeOK'
  <2>1. failed' \in [Task -> Exception \cup {None}]
    BY <1>0, <1>13, TellType DEF PresetVisit, TypeOK
  <2> QED
    BY <1>0, <1>13, <2>1 DEF TypeOK, PresetVisit, Goto
<1>14. ASSUME NEW e \in Exception \cup {None}, DoneWaiting(e)
      PROVE  TypeOK'
  BY <1>0, <1>14 DEF TypeOK, DoneWaiting, Goto
<1>15. ASSUME Open
      PROVE  TypeOK'
  BY <1>0, <1>15 DEF TypeOK, Open, Goto, InAnnounce
<1>16. ASSUME NEW t \in Task, Execute(t)
      PROVE  TypeOK'
  BY <1>0, <1>16 DEF TypeOK, Execute
<1>17. ASSUME Reset
      PROVE  TypeOK'
  BY <1>0, <1>17, Constants DEF TypeOK, Reset
<1>18. ASSUME UNCHANGED vars
      PROVE  TypeOK'
  BY <1>0, <1>18 DEF TypeOK, vars
<1> QED
  BY <1>1, <1>2, <1>3, <1>4, <1>5, <1>6, <1>7, <1>8, <1>9, <1>10, <1>11, <1>12, <1>13,
     <1>14, <1>15, <1>16, <1>17, <1>18 DEF Next, AddStep, Announce

----------------------------------------------------------------------------
(* What threads have in their local variables                              *)

(* The node at which an announcer stands is one that nobody else visited. *)
LEMMA AtEntry ==
  ASSUME ListInv, NEW th \in Thread, pc[th] = "loop", node[th] # None
  PROVE  /\ node[th] \in Node /\ node[th] < index /\ node[th] \notin freed
         /\ taskOf[node[th]] \in Task
<1>1. PICK live, own, rank, top :
        ChainType(live, own, rank, top) /\ Chains(live, own, rank, top)
  BY DEF ListInv, HasChains
<1>2. th \in Key /\ Entry(th) = node[th]
  BY Constants DEF Key, Entry
<1>3. node[th] \in live
  BY <1>1, <1>2 DEF Chains, IsTop, Part
<1> QED
  BY <1>1, <1>3 DEF Chains, ChainType

(* Steps that change neither locations nor the locals in question. *)
LEMMA LocalsSame ==
  ASSUME Locals, UNCHANGED <<pc, node, adding, freed, index>>
  PROVE  Locals'
BY DEF Locals

(* Every step keeps what threads know. *)
LEMMA LocalsStep ==
  ListInv /\ [Next]_vars => Locals'
<1> SUFFICES ASSUME ListInv, [Next]_vars
             PROVE  Locals'
  OBVIOUS
<1>0. /\ Locals /\ Owner \in Thread /\ Owner \notin Adder /\ Adder \subseteq Thread
      /\ pc \in [Thread -> {"out", "preset", "open"} \cup InAdd \cup InAnnounce]
      /\ node \in [Thread -> Node \cup {None}] /\ adding \in [Thread -> Task \cup {None}]
      /\ index \in Nat /\ freed \subseteq Nat /\ None \notin Node
  BY Constants DEF ListInv, TypeOK
<1> USE DEF members, nodes, locals, Goto, InAdd, Referring
<1>1. ASSUME NEW th \in Adder, NEW t \in Task, Add(th, t)
      PROVE  Locals'
  BY <1>0, <1>1 DEF Locals, Add
<1>2. ASSUME NEW th \in Adder, ReadWaiting(th) \/ SetNextAgain(th)
      PROVE  Locals'
  BY <1>0, <1>2 DEF Locals, ReadWaiting, SetNextAgain
<1>3. ASSUME NEW th \in Adder, AddLate(th) \/ SetNext(th) \/ Recheck(th)
      PROVE  Locals'
  <2>1. UNCHANGED <<freed, index>>
    BY <1>3 DEF AddLate, SetNext, Recheck
  <2>2. CASE Return(th)
    BY <1>0, <2>1, <2>2 DEF Locals, Return
  <2>3. CASE UNCHANGED <<node, adding>> /\ \E l \in {"setNextAgain", "recheck", "announce"} :
                                             pc' = [pc EXCEPT ![th] = l]
    BY <1>0, <2>1, <2>3 DEF Locals
  <2> QED
    BY <1>3, <2>2, <2>3 DEF AddLate, SetNext, Recheck
<1>4. ASSUME NEW th \in Adder, CreateNode(th) \/ ExchangeHead(th)
      PROVE  Locals'
  <2>1. CASE CreateNode(th)
    <3>1. \A n \in freed' : n < index'
      BY <1>0, <2>1 DEF Locals, CreateNode
    <3> QED
      BY <1>0, <2>1, <3>1 DEF Locals, CreateNode
  <2>2. CASE ExchangeHead(th)
    BY <1>0, <2>2 DEF Locals, ExchangeHead
  <2> QED
    BY <1>4, <2>1, <2>2
<1>5. ASSUME NEW th \in Thread, TakeHead(th) \/ ReleaseVisited(th)
      PROVE  Locals'
  BY <1>0, <1>5 DEF Locals, TakeHead, ReleaseVisited
<1>6. ASSUME NEW th \in Thread, Visit(th)
      PROVE  Locals'
  <2>1. node[th] \in Node /\ node[th] < index /\ taskOf[node[th]] \in Task
    BY <1>6, AtEntry DEF Visit
  <2> QED
    BY <1>0, <1>6, <2>1 DEF Locals, Visit
<1>7. ASSUME NEW th \in Thread, EndAnnounce(th)
      PROVE  Locals'
  BY <1>0, <1>7 DEF Locals, EndAnnounce, Return
<1>8. ASSUME NEW e, Preset(e) \/ DoneWaiting(e)
      PROVE  Locals'
  BY <1>0, <1>8 DEF Locals, Preset, DoneWaiting
<1>9. ASSUME PresetVisit \/ Open
      PROVE  Locals'
  BY <1>0, <1>9 DEF Locals, PresetVisit, Open
<1>10. ASSUME Reset
       PROVE  Locals'
  BY <1>0, <1>10 DEF Locals, Reset
<1>11. ASSUME UNCHANGED <<pc, node, adding, freed, index>>
       PROVE  Locals'
  BY <1>0, <1>11, LocalsSame
<1> QED
  BY <1>1, <1>2, <1>3, <1>4, <1>5, <1>6, <1>7, <1>8, <1>9, <1>10, <1>11
     DEF Next, AddStep, Announce, Execute, vars

(* A thread leaves for a place where it has no node of its own, or nobody  *)
(* moves at all.                                                           *)
Linking == {"exchangeHead", "setNext", "setNextAgain"}

LeavesNodes ==
  /\ UNCHANGED <<nextNode, taskOf, freed, index>>
  /\ \A x \in Adder :
       pc'[x] \in Linking => pc'[x] = pc[x] /\ node'[x] = node[x] /\ adding'[x] = adding[x]

(* Which steps those are. *)
LEMMA LeavesNodesSteps ==
  ASSUME ListInv, [Next]_vars
  PROVE  \/ LeavesNodes
         \/ \E th \in Adder : CreateNode(th) \/ ExchangeHead(th) \/ SetNext(th) \/ SetNextAgain(th)
         \/ \E th \in Thread : Visit(th)
         \/ Reset
<1>0. /\ Owner \notin Adder
      /\ pc \in [Thread -> {"out", "preset", "open"} \cup InAdd \cup InAnnounce]
      /\ node \in [Thread -> Node \cup {None}] /\ adding \in [Thread -> Task \cup {None}]
      /\ Owner \in Thread /\ Adder \subseteq Thread
  BY Constants DEF ListInv, TypeOK
<1> USE DEF members, nodes, locals, Goto, LeavesNodes, Linking
<1>1. ASSUME NEW th \in Adder, NEW t \in Task, Add(th, t)
      PROVE  LeavesNodes
  BY <1>0, <1>1 DEF Add
<1>2. ASSUME NEW th \in Adder, ReadWaiting(th)
      PROVE  LeavesNodes
  BY <1>0, <1>2 DEF ReadWaiting
<1>3. ASSUME NEW th \in Adder, AddLate(th) \/ Recheck(th)
      PROVE  LeavesNodes
  BY <1>0, <1>3 DEF AddLate, Recheck, Return
<1>4. ASSUME NEW th \in Thread, TakeHead(th) \/ ReleaseVisited(th) \/ EndAnnounce(th)
      PROVE  LeavesNodes
  BY <1>0, <1>4 DEF TakeHead, ReleaseVisited, EndAnnounce, Return
<1>5. ASSUME NEW e, Preset(e) \/ DoneWaiting(e)
      PROVE  LeavesNodes
  BY <1>0, <1>5 DEF Preset, DoneWaiting
<1>6. ASSUME PresetVisit \/ Open
      PROVE  LeavesNodes
  BY <1>0, <1>6 DEF PresetVisit, Open
<1>7. ASSUME UNCHANGED <<nodes, locals, index>>
      PROVE  LeavesNodes
  BY <1>0, <1>7
<1> QED
  BY <1>1, <1>2, <1>3, <1>4, <1>5, <1>6, <1>7 DEF Next, AddStep, Announce, Execute, vars

(* Every step keeps the nodes of the adders their own. *)
LEMMA OwnNodesStep ==
  ListInv /\ [Next]_vars => OwnNodes'
<1> SUFFICES ASSUME ListInv, [Next]_vars
             PROVE  OwnNodes'
  OBVIOUS
<1>0. /\ OwnNodes /\ Owner \notin Adder /\ Adder \subseteq Thread
      /\ pc \in [Thread -> {"out", "preset", "open"} \cup InAdd \cup InAnnounce]
      /\ node \in [Thread -> Node \cup {None}] /\ adding \in [Thread -> Task \cup {None}]
      /\ nextNode \in [Node -> Node \cup {None}] /\ taskOf \in [Node -> Task \cup {None}]
      /\ index \in Nat /\ freed \subseteq Node /\ None \notin Node
      /\ \A n : n \in Node <=> n \in Nat /\ n < MaxNodes
      /\ MaxNodes \in Nat /\ index <= MaxNodes
      /\ \A n \in freed : n < index
  BY Constants DEF ListInv, TypeOK, Locals
<1>1. \A x \in Adder : pc[x] \in Linking => node[x] \in Node /\ node[x] < index
  BY <1>0 DEF OwnNodes, Linking
<1> USE DEF members, nodes, locals, Goto
<1>2. CASE LeavesNodes
  BY <1>0, <1>2 DEF OwnNodes, LeavesNodes, Linking
<1>3. ASSUME NEW th \in Adder, CreateNode(th)
      PROVE  OwnNodes'
  <2>1. /\ index \in Node /\ index \notin freed /\ index' = index + 1 /\ UNCHANGED freed
        /\ pc'[th] = "exchangeHead" /\ node'[th] = index /\ adding' = adding
        /\ nextNode'[index] = index /\ taskOf'[index] = adding[th]
        /\ \A x \in Adder : x # th => pc'[x] = pc[x] /\ node'[x] = node[x]
        /\ \A n \in Node : n # index => nextNode'[n] = nextNode[n] /\ taskOf'[n] = taskOf[n]
    BY <1>0, <1>3 DEF CreateNode
  <2>2. \A x \in Adder : pc[x] \in Linking => node[x] # index
    BY <1>0, <1>1
  <2>3. \A x \in Adder : pc'[x] \in Linking => node'[x] \in 0..(index' - 1)
    BY <1>0, <1>1, <2>1
  <2> QED
    BY <1>0, <1>1, <2>1, <2>2, <2>3 DEF OwnNodes, Linking
<1>4. ASSUME NEW th \in Adder, ExchangeHead(th)
      PROVE  OwnNodes'
  BY <1>0, <1>4 DEF OwnNodes, ExchangeHead
<1>5. ASSUME NEW th \in Adder, SetNext(th)
      PROVE  OwnNodes'
  <2> DEFINE n == node[th]
  <2>1. /\ n \in Node /\ nextNode[n] = n /\ nextNode'[n] = oldHead[th]
        /\ pc[th] = "setNext" /\ UNCHANGED <<index, freed, taskOf>>
        /\ \A m \in Node : m # n => nextNode'[m] = nextNode[m]
    BY <1>0, <1>1, <1>5 DEF SetNext, OwnNodes, Linking
  <2>2. /\ \A x \in Adder : x # th => pc'[x] = pc[x] /\ node'[x] = node[x] /\ adding'[x] = adding[x]
        /\ pc'[th] \in {"out", "setNextAgain", "recheck"}
        /\ pc'[th] = "setNextAgain" => node'[th] = n /\ oldHead[th] = None
    BY <1>0, <1>5 DEF SetNext, Return
  <2>3. \A x \in Adder : x # th /\ pc[x] \in Linking => node[x] # n
    BY <1>0, <2>1 DEF OwnNodes, Linking
  <2> HIDE DEF n
  <2>4. \A x \in Adder : pc'[x] \in Linking => node'[x] \in 0..(index' - 1)
    BY <1>0, <1>1, <1>5, <2>1, <2>2 DEF Linking, n
  <2> QED
    BY <1>0, <1>1, <2>1, <2>2, <2>3, <2>4 DEF OwnNodes, Linking
<1>6. ASSUME NEW th \in Adder, SetNextAgain(th)
      PROVE  OwnNodes'
  <2>1. UNCHANGED nextNode
    BY <1>0, <1>1, <1>6 DEF SetNextAgain, OwnNodes, Linking
  <2> QED
    BY <1>0, <1>6, <2>1 DEF SetNextAgain, OwnNodes
<1>7. ASSUME NEW th \in Thread, Visit(th)
      PROVE  OwnNodes'
  <2>1. /\ UNCHANGED <<index, nextNode, taskOf>>
        /\ \A x \in freed' : x \in freed \/ nextNode[x] # x
        /\ \A x \in Adder : pc'[x] \in Linking =>
                              pc'[x] = pc[x] /\ node'[x] = node[x] /\ adding'[x] = adding[x]
    BY <1>0, <1>7 DEF Visit, Linking
  <2> QED
    BY <1>0, <2>1 DEF OwnNodes, Linking
<1>8. ASSUME Reset
      PROVE  OwnNodes'
  BY <1>0, <1>8 DEF Reset, ResetAllowed, OwnNodes
<1> QED
  BY <1>2, <1>3, <1>4, <1>5, <1>6, <1>7, <1>8, LeavesNodesSteps

----------------------------------------------------------------------------
(* Reset                                                                   *)

(* When the contract of reset is kept there is no live node. *)
LEMMA NoLiveAtReset ==
  ASSUME ListInv, ResetAllowed, NEW live, NEW own, NEW rank, NEW top,
         ChainType(live, own, rank, top), Chains(live, own, rank, top),
         \A t \in Task : Balanced(live, t)
  PROVE  live = {}
<1> SUFFICES ASSUME NEW n \in live
             PROVE  FALSE
  OBVIOUS
<1> DEFINE t == taskOf[n]
<1>1. t \in Task /\ live \in SUBSET Node
  BY DEF Chains, ChainType
<1>2. runs[t] = 0 /\ unadded[t] < Times(t)
  BY <1>1, LiveReferred
<1> QED
  BY <1>1, <1>2 DEF ResetAllowed

(* No thread stands at a node and the list is empty. *)
LEMMA EmptyAtReset ==
  ASSUME ListInv, ResetAllowed
  PROVE  head = None /\ \A th \in Thread : node[th] = None
<1>1. PICK live, own, rank, top :
        /\ ChainType(live, own, rank, top) /\ Chains(live, own, rank, top)
        /\ \A t \in Task : Balanced(live, t)
  BY DEF ListInv, HasChains
<1>2. live = {}
  BY <1>1, NoLiveAtReset
<1>3. \A o \in Key : Entry(o) = None
  BY <1>1, <1>2 DEF Chains, IsTop, Part
<1>4. head = None
  BY <1>3 DEF Key, Entry
<1>5. ASSUME NEW th \in Thread
      PROVE  node[th] = None
  <2>1. pc[th] \in {"out", "loop"}
    BY DEF ResetAllowed
  <2>2. Entry(th) = None /\ th # None
    BY <1>3, Constants DEF Key
  <2> QED
    BY <2>1, <2>2 DEF Entry, ListInv, Locals
<1> QED
  BY <1>4, <1>5

----------------------------------------------------------------------------
(* Who may release, and who has to announce                                *)

(* Every step keeps the parts of Phase. *)
LEMMA PhaseStep ==
  ListInv /\ [Next]_vars => Phase'
<1> SUFFICES ASSUME ListInv, [Next]_vars
             PROVE  Phase'
  OBVIOUS
<1>0. /\ Phase /\ Owner \notin Adder /\ Adder \subseteq Thread /\ Owner \in Thread
      /\ pc \in [Thread -> {"out", "preset", "open"} \cup InAdd \cup InAnnounce]
      /\ node \in [Thread -> Node \cup {None}] /\ adding \in [Thread -> Task \cup {None}]
      /\ oldHead \in [Thread -> Node \cup {None}] /\ None \notin Node
      /\ failed \in [Task -> Exception \cup {None}]
      /\ waiting \in BOOLEAN /\ pc[Owner] \notin InAdd
  BY Constants DEF ListInv, TypeOK, Locals
<1> USE DEF members, nodes, locals, taskVars, Goto
<1>1. ASSUME NEW th \in Adder, \/ \E t \in Task : Add(th, t)
                               \/ ReadWaiting(th) \/ CreateNode(th) \/ SetNextAgain(th)
      PROVE  Phase'
  <2>1. /\ UNCHANGED <<head, waiting, exception, failed, oldHead>>
        /\ ~WillAnnounce(th) \/ pc'[th] = "recheck"
        /\ pc'[th] \in {"readWaiting", "createNode", "late", "exchangeHead", "recheck"}
        /\ pc'[th] = "late" => ~waiting
        /\ \A x \in Thread : x # th => pc'[x] = pc[x] /\ node'[x] = node[x] /\ adding'[x] = adding[x]
    BY <1>0, <1>1 DEF Add, ReadWaiting, CreateNode, SetNextAgain, WillAnnounce
  <2> QED
    BY ONLY <1>0, <2>1 DEF Phase, WillAnnounce
<1>2. ASSUME NEW th \in Adder, AddLate(th)
      PROVE  Phase'
  <2>1. /\ UNCHANGED <<head, waiting, exception>>
        /\ ~WillAnnounce(th) /\ pc'[th] = "out"
        /\ \A x \in Thread : x # th => /\ pc'[x] = pc[x] /\ node'[x] = node[x]
                                       /\ adding'[x] = adding[x] /\ oldHead'[x] = oldHead[x]
        /\ \A t : failed[t] # None => failed'[t] # None
    BY <1>0, <1>2 DEF AddLate, WillAnnounce, Return, TellFailed
  <2> QED
    BY ONLY <1>0, <2>1 DEF Phase, WillAnnounce
<1>3. ASSUME NEW th \in Adder, ExchangeHead(th)
      PROVE  Phase'
  <2>1. /\ UNCHANGED <<waiting, exception, failed, node, adding>>
        /\ ~WillAnnounce(th) /\ pc'[th] = "setNext" /\ oldHead'[th] = head
        /\ \A x \in Thread : x # th => pc'[x] = pc[x] /\ oldHead'[x] = oldHead[x]
    BY <1>0, <1>3 DEF ExchangeHead, WillAnnounce
  <2> QED
    BY ONLY <1>0, <2>1 DEF Phase, WillAnnounce
<1>4. ASSUME NEW th \in Adder, SetNext(th)
      PROVE  Phase'
  <2>1. /\ UNCHANGED <<waiting, exception, failed, head>>
        /\ pc[th] = "setNext"
        /\ \/ oldHead[th] # None /\ pc'[th] = "out"
           \/ pc'[th] \in {"setNextAgain", "recheck"}
        /\ \A x \in Thread : x # th => /\ pc'[x] = pc[x] /\ node'[x] = node[x]
                                       /\ adding'[x] = adding[x] /\ oldHead'[x] = oldHead[x]
    BY <1>0, <1>4 DEF SetNext, Return
  <2> QED
    BY ONLY <1>0, <2>1 DEF Phase, WillAnnounce
<1>5. ASSUME NEW th \in Adder, Recheck(th)
      PROVE  Phase'
  <2>1. /\ UNCHANGED <<waiting, exception, failed, head>>
        /\ \/ waiting /\ pc'[th] = "out"
           \/ ~waiting /\ pc'[th] = "announce"
        /\ \A x \in Thread : x # th => /\ pc'[x] = pc[x] /\ node'[x] = node[x]
                                       /\ adding'[x] = adding[x] /\ oldHead'[x] = oldHead[x]
    BY <1>0, <1>5 DEF Recheck, Return
  <2> QED
    BY ONLY <1>0, <2>1 DEF Phase, WillAnnounce
<1>6. ASSUME NEW th \in Thread, TakeHead(th)
      PROVE  Phase'
  <2>1. /\ UNCHANGED <<waiting, exception, failed, adding, oldHead>>
        /\ ~waiting /\ head' = None /\ pc'[th] = "loop"
        /\ \A x \in Thread : x # th => pc'[x] = pc[x] /\ node'[x] = node[x]
    BY <1>0, <1>6 DEF TakeHead, Phase
  <2> QED
    BY ONLY <1>0, <2>1 DEF Phase, WillAnnounce
<1>7. ASSUME NEW th \in Thread, Visit(th)
      PROVE  Phase'
  <2>1. /\ UNCHANGED <<waiting, exception, head, oldHead>>
        /\ ~waiting /\ pc[th] = "loop" /\ pc'[th] = "release"
        /\ \A x \in Thread : x # th => pc'[x] = pc[x] /\ node'[x] = node[x] /\ adding'[x] = adding[x]
    BY <1>0, <1>7 DEF Visit, Phase
  <2>2. adding'[th] \in Task /\ TellFailed(adding'[th], exception)
    BY <1>0, <1>7, AtEntry DEF Visit
  <2>3. /\ \A t : failed[t] # None => failed'[t] # None
        /\ exception # None => failed'[adding'[th]] # None
    BY <1>0, <2>2 DEF TellFailed
  <2> QED
    BY ONLY <1>0, <2>1, <2>3 DEF Phase, WillAnnounce
<1>8. ASSUME NEW th \in Thread, ReleaseVisited(th)
      PROVE  Phase'
  <2>1. /\ UNCHANGED <<waiting, exception, head, oldHead, failed, node, adding>>
        /\ pc[th] = "release" /\ pc'[th] = "loop"
        /\ \A x \in Thread : x # th => pc'[x] = pc[x]
    BY <1>0, <1>8 DEF ReleaseVisited
  <2> QED
    BY ONLY <1>0, <2>1 DEF Phase, WillAnnounce
<1>9. ASSUME NEW th \in Thread, EndAnnounce(th)
      PROVE  Phase'
  <2>1. /\ UNCHANGED <<waiting, exception, head, failed>>
        /\ pc[th] = "loop" /\ pc'[th] = "out"
        /\ \A x \in Thread : x # th => /\ pc'[x] = pc[x] /\ node'[x] = node[x]
                                       /\ adding'[x] = adding[x] /\ oldHead'[x] = oldHead[x]
    BY <1>0, <1>9 DEF EndAnnounce, Return
  <2> QED
    BY ONLY <1>0, <2>1 DEF Phase, WillAnnounce
<1>10. ASSUME NEW e, Preset(e) \/ DoneWaiting(e)
       PROVE  Phase'
  <2>1. /\ UNCHANGED <<waiting, head, failed, adding, oldHead>>
        /\ waiting /\ pc'[Owner] \in {"preset", "open"}
        /\ \A x \in Thread : x # Owner => pc'[x] = pc[x] /\ node'[x] = node[x]
    BY <1>0, <1>10 DEF Preset, DoneWaiting
  <2> QED
    BY ONLY <1>0, <2>1 DEF Phase
<1>11. ASSUME PresetVisit
       PROVE  Phase'
  <2>1. /\ UNCHANGED <<waiting, head, exception, adding, oldHead>>
        /\ pc[Owner] = "preset" /\ pc'[Owner] \in {"preset", "out"}
        /\ \A x \in Thread : x # Owner => pc'[x] = pc[x] /\ node'[x] = node[x]
    BY <1>0, <1>11 DEF PresetVisit
  <2> QED
    BY ONLY <1>0, <2>1 DEF Phase
<1>12. ASSUME Open
       PROVE  Phase'
  <2>1. /\ UNCHANGED <<exception, adding, failed>>
        /\ ~waiting' /\ pc'[Owner] = "announce"
        /\ \A x \in Thread : x # Owner => pc'[x] = pc[x]
    BY <1>0, <1>12 DEF Open
  <2> QED
    BY ONLY <1>0, <2>1 DEF Phase, WillAnnounce
<1>13. ASSUME Reset
       PROVE  Phase'
  <2>1. \A th \in Thread : pc'[th] \in {"out", "loop"} /\ node'[th] = None
    BY <1>13, EmptyAtReset DEF Reset, ResetAllowed
  <2>2. waiting'
    BY <1>13 DEF Reset
  <2> QED
    BY ONLY <1>0, <2>1, <2>2 DEF Phase
<1>14. ASSUME UNCHANGED <<pc, waiting, exception, head, oldHead, node, adding, failed>>
       PROVE  Phase'
  BY ONLY <1>0, <1>14 DEF Phase, WillAnnounce
<1> QED
  BY <1>1, <1>2, <1>3, <1>4, <1>5, <1>6, <1>7, <1>8, <1>9, <1>10, <1>11, <1>12, <1>13,
     <1>14 DEF Next, AddStep, Announce, Execute, vars

----------------------------------------------------------------------------
(* The life of a task                                                      *)

(* Every step keeps a task's counts and its execution together. *)
LEMMA TaskStep ==
  ASSUME ListInv, [Next]_vars, NEW t \in Task
  PROVE  TaskOK(t)'
<1>0. /\ TaskOK(t) /\ refCount[t] \in Nat /\ unadded[t] \in Nat /\ runs[t] \in Nat
      /\ refCount \in [Task -> Nat] /\ unadded \in [Task -> Nat] /\ runs \in [Task -> Nat]
      /\ Holders[t] \in Nat /\ Times(t) \in Nat \ {0}
      /\ Times(t) = (IF Holders[t] = 0 THEN 1 ELSE Holders[t])
  BY Constants DEF ListInv, TypeOK
<1>1. ASSUME NEW th \in Adder, NEW u \in Task, Add(th, u)
      PROVE  TaskOK(t)'
  <2>1. /\ UNCHANGED <<spawned, runs>> /\ unadded[u] > 0
        /\ unadded' = [unadded EXCEPT ![u] = @ - 1]
        /\ refCount' = [refCount EXCEPT ![u] = IF Holders[u] > 0 THEN @ ELSE @ + 1]
    BY <1>1 DEF Add
  <2>2. CASE u # t
    BY <1>0, <2>1, <2>2 DEF TaskOK
  <2>3. CASE u = t /\ Holders[t] = 0
    <3>1. refCount'[t] = refCount[t] + 1 /\ unadded'[t] = unadded[t] - 1 /\ runs'[t] = runs[t]
      BY <1>0, <2>1, <2>3
    <3> QED
      BY <1>0, <2>1, <2>3, <3>1 DEF TaskOK
  <2>4. CASE u = t /\ Holders[t] > 0
    <3>1. refCount'[t] = refCount[t] /\ unadded'[t] = unadded[t] - 1 /\ runs'[t] = runs[t]
      BY <1>0, <2>1, <2>4
    <3>2. refCount[t] >= unadded[t]
      <4>1. PICK live \in SUBSET Node : Balanced(live, t)
        BY DEF ListInv, HasChains, ChainType
      <4>2. /\ Cardinality(NodesFor(live, t)) \in Nat
            /\ Cardinality(ThreadsFor(t)) \in Nat
        BY CountsFinite
      <4> QED
        BY ONLY <1>0, <2>4, <4>1, <4>2 DEF Balanced, HoldersOf
    <3> QED
      BY <1>0, <2>1, <2>4, <3>1, <3>2 DEF TaskOK
  <2> QED
    BY <1>0, <2>2, <2>3, <2>4
<1>2. ASSUME NEW th \in Thread, pc[th] \in Referring, Release(adding[th]),
             UNCHANGED <<unadded, runs>>
      PROVE  TaskOK(t)'
  <2> DEFINE u == adding[th]
  <2>1. /\ u \in Task /\ refCount[u] \in Nat /\ refCount[u] > 0
        /\ u \notin spawned /\ runs[u] = 0
        /\ refCount[u] = 1 => unadded[u] = 0
    BY <1>2, Referred
  <2>2. /\ refCount' = [refCount EXCEPT ![u] = @ - 1]
        /\ spawned' = IF refCount[u] = 1 THEN spawned \cup {u} ELSE spawned
    BY <1>2 DEF Release
  <2> HIDE DEF u
  <2>3. CASE u # t
    BY <1>0, <1>2, <2>1, <2>2, <2>3 DEF TaskOK
  <2>4. CASE u = t
    <3>1. refCount'[t] = refCount[t] - 1 /\ (t \in spawned' <=> refCount[t] = 1)
      BY <1>0, <2>1, <2>2, <2>4
    <3> QED
      BY <1>0, <1>2, <2>1, <2>4, <3>1 DEF TaskOK
  <2> QED
    BY <2>3, <2>4
<1>3. ASSUME NEW u \in Task, Execute(u)
      PROVE  TaskOK(t)'
  <2>1. /\ u \in spawned /\ spawned' = spawned \ {u}
        /\ runs' = [runs EXCEPT ![u] = @ + 1] /\ UNCHANGED <<refCount, unadded>>
    BY <1>3 DEF Execute
  <2> QED
    BY <1>0, <2>1 DEF TaskOK
<1>4. ASSUME UNCHANGED <<refCount, unadded, spawned, runs>>
      PROVE  TaskOK(t)'
  BY <1>0, <1>4 DEF TaskOK
<1>5. ASSUME NEW th \in Thread, AddLate(th) \/ ReleaseVisited(th)
      PROVE  TaskOK(t)'
  BY <1>2, <1>5 DEF AddLate, ReleaseVisited, Referring
<1>6. ASSUME NEW th \in Adder, AddStep(th), ~AddLate(th)
      PROVE  UNCHANGED <<refCount, unadded, spawned, runs>>
  BY <1>6 DEF AddStep, ReadWaiting, CreateNode, ExchangeHead, SetNext, SetNextAgain, Recheck, taskVars
<1>7. ASSUME NEW th \in Thread, Announce(th), ~ReleaseVisited(th)
      PROVE  UNCHANGED <<refCount, unadded, spawned, runs>>
  BY <1>7 DEF Announce, TakeHead, Visit, EndAnnounce, taskVars
<1>8. ASSUME \/ \E e : Preset(e) \/ DoneWaiting(e)
             \/ PresetVisit \/ Open \/ Reset \/ UNCHANGED vars
      PROVE  UNCHANGED <<refCount, unadded, spawned, runs>>
  BY <1>8 DEF Preset, DoneWaiting, PresetVisit, Open, Reset, vars, taskVars
<1> QED
  BY <1>1, <1>3, <1>4, <1>5, <1>6, <1>7, <1>8, Constants DEF Next

----------------------------------------------------------------------------
(* Counting references                                                     *)

One(condition) == IF condition THEN 1 ELSE 0
Refers(th, t) == pc[th] \in Referring /\ adding[th] = t

(* When one thread moves, only its own reference can come or go. *)
LEMMA ThreadCount ==
  ASSUME NEW th \in Thread, NEW t,
         \A x \in Thread : x # th => pc'[x] = pc[x] /\ adding'[x] = adding[x]
  PROVE  Cardinality(ThreadsFor(t)') + One(Refers(th, t))
           = Cardinality(ThreadsFor(t)) + One(Refers(th, t)')
<1> DEFINE S == ThreadsFor(t) \ {th}
<1>1. IsFiniteSet(S) /\ th \notin S
  BY CountsFinite, FS_RemoveElement
<1>2. /\ ThreadsFor(t) = IF Refers(th, t) THEN S \cup {th} ELSE S
      /\ ThreadsFor(t)' = IF Refers(th, t)' THEN S \cup {th} ELSE S
  BY DEF ThreadsFor, Refers
<1>3. Cardinality(S) \in Nat /\ Cardinality(S \cup {th}) = Cardinality(S) + 1
  BY <1>1, FS_AddElement, FS_CardinalityType
<1> HIDE DEF S
<1> QED
  BY <1>2, <1>3 DEF One

(* One more node, or one less. *)
LEMMA NodeCount ==
  ASSUME NEW S \in SUBSET Node, NEW n, n \notin S
  PROVE  Cardinality(S) \in Nat /\ Cardinality(S \cup {n}) = Cardinality(S) + 1
<1>1. IsFiniteSet(S)
  BY Constants, FS_Subset
<1> QED
  BY <1>1, FS_AddElement, FS_CardinalityType

(* The references stay right when a thread takes one up, lets one go or    *)
(* keeps it, and refCount follows.                                         *)
LEMMA BalancedMove ==
  ASSUME TypeOK, NEW live \in SUBSET Node, NEW t \in Task, Balanced(live, t),
         \A m \in live : taskOf'[m] = taskOf[m],
         NEW th \in Thread,
         \A x \in Thread : x # th => pc'[x] = pc[x] /\ adding'[x] = adding[x],
         refCount'[t] \in Nat, unadded'[t] \in Nat,
         refCount'[t] + One(Refers(th, t)) + HoldersOf(t)
           = refCount[t] + One(Refers(th, t)') + HoldersOf(t)'
  PROVE  Balanced(live, t)'
<1>1. NodesFor(live, t)' = NodesFor(live, t)
  BY DEF NodesFor
<1>2. Cardinality(ThreadsFor(t)') + One(Refers(th, t))
        = Cardinality(ThreadsFor(t)) + One(Refers(th, t)')
  BY ThreadCount
<1>3. /\ Cardinality(NodesFor(live, t)) \in Nat /\ Cardinality(ThreadsFor(t)) \in Nat
      /\ refCount[t] \in Nat
  BY CountsFinite DEF TypeOK
<1>4. Cardinality(ThreadsFor(t)') \in Nat
  <2>1. ThreadsFor(t)' \in SUBSET Thread
    BY DEF ThreadsFor
  <2> QED
    BY <2>1, Constants, FS_Subset, FS_CardinalityType
<1>5. /\ One(Refers(th, t)) \in Nat /\ One(Refers(th, t)') \in Nat
  BY DEF One
<1>6. HoldersOf(t) \in Nat /\ HoldersOf(t)' \in Nat
  BY DEF HoldersOf, TypeOK
<1> QED
  BY <1>1, <1>2, <1>3, <1>4, <1>5, <1>6 DEF Balanced

(* Steps that do not concern a task's references. *)
LEMMA BalancedQuiet ==
  ASSUME NEW live, NEW t \in Task, Balanced(live, t),
         \A m \in live : taskOf'[m] = taskOf[m],
         \A x \in Thread : Refers(x, t)' <=> Refers(x, t),
         UNCHANGED <<refCount, unadded>>
  PROVE  Balanced(live, t)'
<1>1. NodesFor(live, t)' = NodesFor(live, t)
  BY DEF NodesFor
<1>2. ThreadsFor(t)' = ThreadsFor(t)
  BY DEF ThreadsFor, Refers
<1> QED
  BY <1>1, <1>2 DEF Balanced, HoldersOf

----------------------------------------------------------------------------
(* Steps that leave the chains alone                                       *)

(* The chains stay as they are when nobody links, takes or visits a node. *)
LEMMA Steady ==
  ASSUME NEW live, NEW own, NEW rank, NEW top,
         ChainType(live, own, rank, top), Chains(live, own, rank, top),
         \A o \in Key : Entry(o)' = Entry(o),
         index \in Nat, index' \in Nat, index <= index', freed' = freed,
         \A n \in live : nextNode'[n] = nextNode[n] /\ taskOf'[n] = taskOf[n],
         \A y \in Adder : pc[y] = "setNext" =>
           pc'[y] = "setNext" /\ node'[y] = node[y] /\ oldHead'[y] = oldHead[y],
         \A y \in Adder : pc'[y] = "exchangeHead" => node'[y] \notin live,
         pc'[Owner] = "preset" => node'[Owner] = None \/ node'[Owner] \in Part(None, live, own)
  PROVE  Chains(live, own, rank, top)'
<1>1. \A n \in live : /\ n < index' /\ n \notin freed' /\ taskOf'[n] \in Task /\ rank[n] < top
  BY Constants DEF Chains, ChainType
<1>2. \A n, m \in live : rank[n] = rank[m] => n = m
  BY DEF Chains
<1>3. \A o \in Key : IsTop(Entry(o)', Part(o, live, own), rank)
  BY DEF Chains
<1>4. ASSUME NEW n \in live
      PROVE  \E x \in Node \cup {None} :
               Points(n, x)' /\ IsTop(x, Under(n, live, own, rank), rank)
  <2>1. PICK x \in Node \cup {None} : Points(n, x) /\ IsTop(x, Under(n, live, own, rank), rank)
    BY DEF Chains
  <2>2. Points(n, x)'
    BY <2>1 DEF Points
  <2> QED
    BY <2>1, <2>2
<1> QED
  BY <1>1, <1>2, <1>3, <1>4 DEF Chains, IsTop, Part, Under

(* The number of references to a task after a step, for those steps. *)
LEMMA HasChainsQuiet ==
  ASSUME NEW live, NEW own, NEW rank, NEW top,
         ChainType(live, own, rank, top), Chains(live, own, rank, top)',
         \A t \in Task : Balanced(live, t)'
  PROVE  HasChains'
<1>1. ChainType(live, own, rank, top)'
  BY DEF ChainType, Key
<1> QED
  BY <1>1 DEF HasChains

(* Steps of add that leave the chains alone. *)
LEMMA AddSteady ==
  ASSUME ListInv, TypeOK', NEW th \in Adder,
         \/ \E u \in Task : Add(th, u)
         \/ ReadWaiting(th) \/ AddLate(th) \/ CreateNode(th) \/ SetNextAgain(th) \/ Recheck(th)
  PROVE  HasChains'
<1>0. /\ Owner \notin Adder /\ Owner \in Thread /\ Adder \subseteq Thread /\ th \in Thread /\ th # None
      /\ pc \in [Thread -> {"out", "preset", "open"} \cup InAdd \cup InAnnounce]
      /\ node \in [Thread -> Node \cup {None}] /\ adding \in [Thread -> Task \cup {None}]
      /\ oldHead \in [Thread -> Node \cup {None}] /\ nextNode \in [Node -> Node \cup {None}]
      /\ taskOf \in [Node -> Task \cup {None}] /\ index \in Nat /\ None \notin Node
      /\ \A x \in Adder : x \in Thread
  BY Constants DEF ListInv, TypeOK
<1>1. PICK live, own, rank, top :
        /\ ChainType(live, own, rank, top) /\ Chains(live, own, rank, top)
        /\ \A t \in Task : Balanced(live, t)
  BY DEF ListInv, HasChains
<1>2. /\ \A n \in live : n \in Node /\ n < index
      /\ \A x \in Adder : pc[x] = "exchangeHead" => node[x] \notin live
      /\ pc[Owner] = "preset" => node[Owner] = None \/ node[Owner] \in Part(None, live, own)
      /\ live \in SUBSET Node
  BY <1>1 DEF Chains, ChainType
<1>3. /\ freed' = freed /\ head' = head /\ index' \in Nat /\ index <= index'
      /\ pc[th] \notin {"loop", "release", "setNext"} /\ pc'[th] \notin {"loop", "release"}
      /\ \A x \in Thread : x # th => /\ pc'[x] = pc[x] /\ node'[x] = node[x]
                                     /\ adding'[x] = adding[x] /\ oldHead'[x] = oldHead[x]
  <2> USE DEF Goto, members, nodes, locals
  <2>1. CASE \E u \in Task : Add(th, u)
    BY <1>0, <2>1 DEF Add
  <2>2. CASE ReadWaiting(th)
    BY <1>0, <2>2 DEF ReadWaiting
  <2>3. CASE AddLate(th)
    BY <1>0, <2>3 DEF AddLate, Return
  <2>4. CASE CreateNode(th)
    BY <1>0, <2>4 DEF CreateNode
  <2>5. CASE SetNextAgain(th)
    BY <1>0, <2>5 DEF SetNextAgain
  <2>6. CASE Recheck(th)
    BY <1>0, <2>6 DEF Recheck, Return
  <2> QED
    BY <2>1, <2>2, <2>3, <2>4, <2>5, <2>6
<1>4. \A o \in Key : Entry(o)' = Entry(o)
  BY <1>0, <1>3 DEF Entry, Key
<1>5. \A n \in live : nextNode'[n] = nextNode[n] /\ taskOf'[n] = taskOf[n]
  <2>1. CASE CreateNode(th)
    BY <1>0, <1>2, <2>1 DEF CreateNode
  <2>2. CASE SetNextAgain(th)
    BY <1>0, <1>2, <2>2 DEF SetNextAgain, ListInv, OwnNodes
  <2>3. CASE UNCHANGED nodes
    BY <2>3 DEF nodes
  <2> QED
    BY <2>1, <2>2, <2>3 DEF Add, ReadWaiting, AddLate, Recheck
<1>6. \A y \in Adder : pc'[y] = "exchangeHead" => node'[y] \notin live
  <2>1. CASE CreateNode(th)
    BY <1>0, <1>2, <1>3, <2>1 DEF CreateNode
  <2>2. pc'[th] = "exchangeHead" => CreateNode(th)
    BY <1>0 DEF Goto, Add, ReadWaiting, AddLate, SetNextAgain, Recheck, Return
  <2> QED
    BY <1>0, <1>2, <1>3, <2>1, <2>2
<1>7. Chains(live, own, rank, top)'
  <2>1. pc'[Owner] = "preset" => node'[Owner] = None \/ node'[Owner] \in Part(None, live, own)
    BY <1>0, <1>2, <1>3
  <2>2. \A y \in Adder : pc[y] = "setNext" =>
          pc'[y] = "setNext" /\ node'[y] = node[y] /\ oldHead'[y] = oldHead[y]
    BY <1>0, <1>3
  <2> QED
    BY ONLY <1>0, <1>1, <1>3, <1>4, <1>5, <1>6, <2>1, <2>2, Steady
<1>8. ASSUME NEW t \in Task
      PROVE  Balanced(live, t)'
  <2>0. /\ refCount \in [Task -> Nat] /\ unadded \in [Task -> Nat] /\ Holders[t] \in Nat
        /\ refCount'[t] \in Nat /\ unadded'[t] \in Nat /\ refCount[t] \in Nat /\ unadded[t] \in Nat
    BY Constants DEF TypeOK, ListInv
  <2>1. CASE \E u \in Task : Add(th, u)
    <3>1. PICK u \in Task : Add(th, u)
      BY <2>1
    <3>2. /\ ~Refers(th, t) /\ (Refers(th, t)' <=> u = t)
          /\ unadded[u] > 0 /\ unadded' = [unadded EXCEPT ![u] = @ - 1]
          /\ refCount' = [refCount EXCEPT ![u] = IF Holders[u] > 0 THEN @ ELSE @ + 1]
      BY <1>0, <3>1 DEF Add, Refers, Referring, Goto
    <3>3. refCount'[t] + One(Refers(th, t)) + HoldersOf(t)
            = refCount[t] + One(Refers(th, t)') + HoldersOf(t)'
      BY ONLY <2>0, <3>2 DEF One, HoldersOf
    <3> QED
      BY <1>0, <1>1, <1>2, <1>3, <1>5, <2>0, <3>3, BalancedMove DEF ListInv
  <2>2. CASE AddLate(th)
    <3>1. adding[th] \in Task
      BY <1>0, <2>2 DEF ListInv, Locals, AddLate, Referring
    <3>2. /\ Refers(th, t) <=> adding[th] = t
          /\ ~Refers(th, t)'
          /\ unadded' = unadded
          /\ refCount' = [refCount EXCEPT ![adding[th]] = @ - 1]
          /\ refCount[adding[th]] \in Nat /\ refCount[adding[th]] > 0
      BY <1>0, <2>2, Referred DEF AddLate, Refers, Referring, Goto, Return, Release
    <3>3. refCount'[t] + One(Refers(th, t)) + HoldersOf(t)
            = refCount[t] + One(Refers(th, t)') + HoldersOf(t)'
      BY ONLY <2>0, <3>1, <3>2 DEF One, HoldersOf
    <3> QED
      BY <1>0, <1>1, <1>2, <1>3, <1>5, <2>0, <3>3, BalancedMove DEF ListInv
  <2>3. CASE ReadWaiting(th) \/ CreateNode(th) \/ SetNextAgain(th) \/ Recheck(th)
    <3>1. Refers(th, t)' <=> Refers(th, t)
      BY <1>0, <2>3 DEF ReadWaiting, CreateNode, SetNextAgain, Recheck, Refers, Referring, Goto,
                        Return
    <3>2. \A x \in Thread : Refers(x, t)' <=> Refers(x, t)
      BY <1>3, <3>1 DEF Refers
    <3>3. UNCHANGED <<refCount, unadded>>
      BY <2>3 DEF ReadWaiting, CreateNode, SetNextAgain, Recheck, taskVars
    <3> QED
      BY <1>1, <1>5, <3>2, <3>3, BalancedQuiet
  <2> QED
    BY <2>1, <2>2, <2>3
<1> QED
  BY <1>1, <1>7, <1>8, HasChainsQuiet

(* Steps of announce, of the owner and of the arena that leave the chains  *)
(* alone.                                                                  *)
LEMMA AnnounceSteady ==
  ASSUME ListInv, TypeOK', NEW th \in Thread,
         \/ ReleaseVisited(th) \/ EndAnnounce(th)
         \/ /\ th = Owner
            /\ \/ \E e : Preset(e) \/ DoneWaiting(e)
               \/ PresetVisit \/ Open \/ (\E t \in Task : Execute(t)) \/ UNCHANGED vars
  PROVE  HasChains'
<1>0. /\ Owner \notin Adder /\ Owner \in Thread /\ Adder \subseteq Thread /\ th # None
      /\ pc \in [Thread -> {"out", "preset", "open"} \cup InAdd \cup InAnnounce]
      /\ node \in [Thread -> Node \cup {None}] /\ adding \in [Thread -> Task \cup {None}]
      /\ oldHead \in [Thread -> Node \cup {None}] /\ nextNode \in [Node -> Node \cup {None}]
      /\ taskOf \in [Node -> Task \cup {None}] /\ index \in Nat /\ None \notin Node
      /\ \A x \in Adder : x \in Thread
      /\ pc[Owner] \notin InAdd /\ \A x \in Adder : pc[x] \notin {"preset", "open"}
  BY Constants DEF ListInv, TypeOK, Locals
<1>1. PICK live, own, rank, top :
        /\ ChainType(live, own, rank, top) /\ Chains(live, own, rank, top)
        /\ \A t \in Task : Balanced(live, t)
  BY DEF ListInv, HasChains
<1>2. /\ \A x \in Adder : pc[x] = "exchangeHead" => node[x] \notin live
      /\ pc[Owner] = "preset" => node[Owner] = None \/ node[Owner] \in Part(None, live, own)
      /\ live \in SUBSET Node /\ IsTop(head, Part(None, live, own), rank)
      /\ own \in [Node -> Key] /\ rank \in [Node -> Nat]
  BY <1>0, <1>1 DEF Chains, ChainType, Key, Entry
<1>3. /\ UNCHANGED <<freed, head, index, nextNode, taskOf>>
      /\ pc'[th] \notin {"exchangeHead", "setNext"} \/ (pc'[th] = pc[th] /\ node'[th] = node[th])
      /\ pc[th] # "setNext" \/ (pc'[th] = pc[th] /\ node'[th] = node[th] /\ oldHead'[th] = oldHead[th])
      /\ \A x \in Thread : x # th => /\ pc'[x] = pc[x] /\ node'[x] = node[x]
                                     /\ adding'[x] = adding[x] /\ oldHead'[x] = oldHead[x]
      /\ Entry(th)' = Entry(th)
  <2> USE DEF Goto, members, nodes, locals, Entry
  <2>1. CASE ReleaseVisited(th)
    BY <1>0, <2>1 DEF ReleaseVisited
  <2>2. CASE EndAnnounce(th)
    BY <1>0, <2>2 DEF EndAnnounce, Return
  <2>3. CASE th = Owner /\ \E e : Preset(e) \/ DoneWaiting(e)
    BY <1>0, <2>3 DEF Preset, DoneWaiting
  <2>4. CASE th = Owner /\ PresetVisit
    BY <1>0, <2>4 DEF PresetVisit
  <2>5. CASE th = Owner /\ Open
    BY <1>0, <2>5 DEF Open
  <2>6. CASE UNCHANGED <<members, nodes, locals>>
    BY <1>0, <2>6
  <2> QED
    BY <2>1, <2>2, <2>3, <2>4, <2>5, <2>6 DEF Execute, vars
<1>4. \A o \in Key : Entry(o)' = Entry(o)
  BY <1>0, <1>3 DEF Entry, Key
<1>5. pc'[Owner] = "preset" => node'[Owner] = None \/ node'[Owner] \in Part(None, live, own)
  <2>1. CASE th # Owner
    BY <1>0, <1>2, <1>3, <2>1
  <2>2. CASE \E e : Preset(e)
    BY <1>0, <1>2, <2>2 DEF Preset, IsTop
  <2>3. CASE PresetVisit /\ node[Owner] # None /\ pc'[Owner] = "preset"
    <3> DEFINE n == node[Owner]
    <3>1. /\ n \in live /\ own[n] = None /\ nextNode[n] # n /\ node'[Owner] = nextNode[n]
      BY <1>0, <1>2, <2>3 DEF PresetVisit, Goto, Part
    <3> HIDE DEF n
    <3>2. PICK x \in Node \cup {None} : Points(n, x) /\ IsTop(x, Under(n, live, own, rank), rank)
      BY <1>1, <3>1 DEF Chains
    <3>3. node'[Owner] = x
      BY <3>1, <3>2 DEF Points
    <3> QED
      BY <3>1, <3>2, <3>3 DEF IsTop, Under, Part
  <2>4. CASE UNCHANGED <<pc, node>>
    BY <1>2, <2>4
  <2>5. CASE pc'[Owner] # "preset"
    BY <2>5
  <2>6. th = Owner => \/ \E e : Preset(e)
                      \/ PresetVisit /\ node[Owner] # None /\ pc'[Owner] = "preset"
                      \/ UNCHANGED <<pc, node>>
                      \/ pc'[Owner] # "preset"
    BY <1>0 DEF ReleaseVisited, EndAnnounce, Return, DoneWaiting, PresetVisit, Open, Execute, vars,
                locals, Goto
  <2> QED
    BY <2>1, <2>2, <2>3, <2>4, <2>5, <2>6
<1>6. Chains(live, own, rank, top)'
  <2>1. \A y \in Adder : pc[y] = "setNext" =>
          pc'[y] = "setNext" /\ node'[y] = node[y] /\ oldHead'[y] = oldHead[y]
    BY <1>0, <1>3
  <2>2. \A y \in Adder : pc'[y] = "exchangeHead" => node'[y] \notin live
    BY <1>0, <1>2, <1>3
  <2>3. index' \in Nat /\ index <= index'
    BY <1>0, <1>3
  <2> QED
    BY ONLY <1>0, <1>1, <1>3, <1>4, <1>5, <2>1, <2>2, <2>3, Steady
<1>7. ASSUME NEW t \in Task
      PROVE  Balanced(live, t)'
  <2>0. /\ refCount \in [Task -> Nat] /\ unadded \in [Task -> Nat] /\ Holders[t] \in Nat
        /\ refCount'[t] \in Nat /\ unadded'[t] \in Nat /\ refCount[t] \in Nat /\ unadded[t] \in Nat
    BY Constants DEF TypeOK, ListInv
  <2>1. CASE ReleaseVisited(th)
    <3>1. adding[th] \in Task
      BY <1>0, <2>1 DEF ListInv, Locals, ReleaseVisited, Referring
    <3>2. /\ Refers(th, t) <=> adding[th] = t
          /\ ~Refers(th, t)'
          /\ unadded' = unadded
          /\ refCount' = [refCount EXCEPT ![adding[th]] = @ - 1]
          /\ refCount[adding[th]] \in Nat /\ refCount[adding[th]] > 0
      BY <1>0, <2>1, Referred DEF ReleaseVisited, Refers, Referring, Goto, Release
    <3>3. refCount'[t] + One(Refers(th, t)) + HoldersOf(t)
            = refCount[t] + One(Refers(th, t)') + HoldersOf(t)'
      BY ONLY <2>0, <3>1, <3>2 DEF One, HoldersOf
    <3> QED
      BY <1>0, <1>1, <1>2, <1>3, <2>0, <3>3, BalancedMove DEF ListInv
  <2>2. CASE ~ReleaseVisited(th)
    <3>1. Refers(th, t)' <=> Refers(th, t)
      BY <1>0, <2>2 DEF EndAnnounce, Preset, DoneWaiting, PresetVisit, Open, Execute, vars, locals,
                        Refers, Referring, Goto, Return
    <3>2. \A x \in Thread : Refers(x, t)' <=> Refers(x, t)
      BY <1>3, <3>1 DEF Refers
    <3>3. UNCHANGED <<refCount, unadded>>
      BY <2>2 DEF EndAnnounce, Preset, DoneWaiting, PresetVisit, Open, Execute, vars, taskVars
    <3> QED
      BY <1>1, <1>3, <3>2, <3>3, BalancedQuiet
  <2> QED
    BY <2>1, <2>2
<1> QED
  BY <1>1, <1>6, <1>7, HasChainsQuiet

(* The adder links its node: what was to follow the node now follows it.  *)
LEMMA SetNextKeeps ==
  ASSUME ListInv, NEW th \in Adder, SetNext(th)
  PROVE  HasChains'
<1>0. /\ Owner \notin Adder /\ Owner \in Thread /\ th \in Thread
      /\ pc \in [Thread -> {"out", "preset", "open"} \cup InAdd \cup InAnnounce]
      /\ node \in [Thread -> Node \cup {None}] /\ adding \in [Thread -> Task \cup {None}]
      /\ oldHead \in [Thread -> Node \cup {None}] /\ nextNode \in [Node -> Node \cup {None}]
      /\ None \notin Node /\ \A x \in Adder : x \in Thread
  BY Constants DEF ListInv, TypeOK
<1>1. PICK live, own, rank, top :
        /\ ChainType(live, own, rank, top) /\ Chains(live, own, rank, top)
        /\ \A t \in Task : Balanced(live, t)
  BY DEF ListInv, HasChains
<1>2. /\ pc[th] = "setNext" /\ pc'[th] \in {"out", "setNextAgain", "recheck"}
      /\ UNCHANGED <<head, taskOf, freed, index, refCount, unadded>>
      /\ nextNode' = [nextNode EXCEPT ![node[th]] = oldHead[th]]
      /\ \A x \in Thread : x # th => /\ pc'[x] = pc[x] /\ node'[x] = node[x]
                                     /\ adding'[x] = adding[x] /\ oldHead'[x] = oldHead[x]
  BY <1>0 DEF SetNext, Return, Goto, members, taskVars
<1>3. \A y \in Adder : pc[y] = "setNext" /\ node[y] = node[th] => y = th
  BY <1>2 DEF ListInv, OwnNodes
<1>4. \A n \in live : n \in Node /\ rank[n] \in Nat
  BY <1>1 DEF ChainType
<1>5. ASSUME NEW n \in live
      PROVE  \E x \in Node \cup {None} :
               Points(n, x)' /\ IsTop(x, Under(n, live, own, rank), rank)
  <2>1. PICK x \in Node \cup {None} : Points(n, x) /\ IsTop(x, Under(n, live, own, rank), rank)
    BY <1>1 DEF Chains
  <2>2. x # n
    BY <1>0, <1>4, <2>1 DEF IsTop, Under
  <2>3. Points(n, x)'
    <3>1. CASE n = node[th]
      <4>1. nextNode[n] = n
        BY <1>2, <3>1 DEF ListInv, OwnNodes
      <4>2. oldHead[th] = x
        BY <1>3, <2>1, <3>1, <4>1 DEF Points
      <4> QED
        BY <1>0, <1>2, <1>4, <2>2, <3>1, <4>2 DEF Points
    <3>2. CASE n # node[th]
      <4>1. nextNode'[n] = nextNode[n]
        BY <1>0, <1>2, <1>4, <3>2
      <4> QED
        BY <1>0, <1>2, <2>1, <3>2, <4>1 DEF Points
    <3> QED
      BY <3>1, <3>2
  <2> QED
    BY <2>1, <2>3
<1>6. \A o \in Key : Entry(o)' = Entry(o)
  BY <1>0, <1>2 DEF Entry, Key
<1>7. Chains(live, own, rank, top)'
  <2>1. /\ \A n \in live : n < index' /\ n \notin freed' /\ taskOf'[n] \in Task /\ rank[n] < top
        /\ \A n, m \in live : rank[n] = rank[m] => n = m
    BY <1>1, <1>2 DEF Chains
  <2>2. \A o \in Key : IsTop(Entry(o)', Part(o, live, own), rank)
    BY <1>1, <1>6 DEF Chains
  <2>3. \A y \in Adder : pc'[y] = "exchangeHead" => node'[y] \notin live
    BY <1>0, <1>1, <1>2 DEF Chains
  <2>4. pc'[Owner] = "preset" => node'[Owner] = None \/ node'[Owner] \in Part(None, live, own)
    BY <1>0, <1>1, <1>2 DEF Chains
  <2> QED
    BY <1>5, <2>1, <2>2, <2>3, <2>4 DEF Chains, IsTop, Part, Under
<1>8. ASSUME NEW t \in Task
      PROVE  Balanced(live, t)'
  <2>1. \A x \in Thread : Refers(x, t)' <=> Refers(x, t)
    BY <1>2 DEF Refers, Referring
  <2> QED
    BY <1>1, <1>2, <2>1, BalancedQuiet
<1> QED
  BY <1>1, <1>7, <1>8, HasChainsQuiet

(* The new round starts with no chain. *)
LEMMA ResetKeeps ==
  ASSUME ListInv, Reset
  PROVE  HasChains'
<1>1. PICK live, own, rank, top :
        /\ ChainType(live, own, rank, top) /\ Chains(live, own, rank, top)
        /\ \A t \in Task : Balanced(live, t)
  BY DEF ListInv, HasChains
<1>2. ResetAllowed /\ UNCHANGED <<head, pc, node, adding, taskOf, refCount, unadded>>
  BY DEF Reset, taskVars
<1>3. live = {}
  BY <1>1, <1>2, NoLiveAtReset
<1>4. \A o \in Key : Entry(o)' = Entry(o)
  BY <1>2 DEF Entry
<1>5. /\ \A th \in Thread : pc[th] \in {"out", "loop"} /\ node[th] = None
      /\ Owner \in Thread /\ \A x \in Adder : x \in Thread
  BY <1>2, EmptyAtReset, Constants DEF ResetAllowed
<1>6. Chains(live, own, rank, top)'
  BY <1>1, <1>2, <1>3, <1>4, <1>5 DEF Chains, IsTop, Part, Under
<1>7. ASSUME NEW t \in Task
      PROVE  Balanced(live, t)'
  BY <1>1, <1>2, BalancedQuiet DEF Refers
<1> QED
  BY <1>1, <1>6, <1>7, HasChainsQuiet

----------------------------------------------------------------------------
(* Steps that change the chains                                            *)

(* The node becomes the highest of the list's chain; the former head will  *)
(* follow it.                                                              *)
LEMMA ExchangeHeadKeeps ==
  ASSUME ListInv, NEW th \in Adder, ExchangeHead(th)
  PROVE  HasChains'
<1>0. /\ Owner \notin Adder /\ Owner \in Thread /\ th \in Thread /\ th # None /\ None \in Key
      /\ pc \in [Thread -> {"out", "preset", "open"} \cup InAdd \cup InAnnounce]
      /\ node \in [Thread -> Node \cup {None}]
      /\ oldHead \in [Thread -> Node \cup {None}] /\ head \in Node \cup {None}
      /\ None \notin Node /\ \A x \in Adder : x \in Thread
      /\ \A x \in Node : x < index => x \in Nat
  BY Constants DEF ListInv, TypeOK, Key
<1>1. PICK live, own, rank, top :
        /\ ChainType(live, own, rank, top) /\ Chains(live, own, rank, top)
        /\ \A t \in Task : Balanced(live, t)
  BY DEF ListInv, HasChains
<1>2. PICK n : n = node[th]
  OBVIOUS
<1>3. /\ pc[th] = "exchangeHead" /\ pc'[th] = "setNext"
      /\ head' = n /\ oldHead'[th] = head
      /\ UNCHANGED <<nextNode, taskOf, freed, index, refCount, unadded, node, adding>>
      /\ \A x \in Thread : x # th => pc'[x] = pc[x] /\ oldHead'[x] = oldHead[x]
  BY <1>0, <1>2 DEF ExchangeHead, Goto, nodes, taskVars
<1>4. /\ n \in Node /\ n < index /\ n \notin freed /\ nextNode[n] = n
      /\ taskOf[n] = adding[th] /\ taskOf[n] \in Task
      /\ \A y \in Adder : y # th /\ pc[y] = "exchangeHead" => node[y] # n
  <2>1. adding[th] \in Task
    BY <1>0, <1>3 DEF ListInv, Locals, Referring
  <2>2. n \in 0..(index - 1) /\ index \in Nat /\ index <= MaxNodes
    BY <1>2, <1>3 DEF ListInv, OwnNodes, TypeOK
  <2>3. n \in Node /\ n < index
    BY <2>2, Constants
  <2> QED
    BY <1>2, <1>3, <2>1, <2>3 DEF ListInv, OwnNodes
<1>5. /\ live \in SUBSET Node /\ n \notin live
      /\ own \in [Node -> Key] /\ rank \in [Node -> Nat] /\ top \in Nat
      /\ \A m \in live : m < index /\ m \notin freed /\ taskOf[m] \in Task /\ rank[m] < top
      /\ \A x, y \in live : rank[x] = rank[y] => x = y
      /\ \A o \in Key : IsTop(Entry(o), Part(o, live, own), rank)
      /\ \A m \in live : \E x \in Node \cup {None} :
           Points(m, x) /\ IsTop(x, Under(m, live, own, rank), rank)
      /\ \A y \in Adder : pc[y] = "exchangeHead" => node[y] \notin live
      /\ pc[Owner] = "preset" => node[Owner] = None \/ node[Owner] \in Part(None, live, own)
  BY <1>1, <1>2, <1>3 DEF Chains, ChainType
<1> DEFINE live2 == live \cup {n}
           own2 == [own EXCEPT ![n] = None]
           rank2 == [rank EXCEPT ![n] = top]
<1>6. /\ live2 \in SUBSET Node /\ own2 \in [Node -> Key] /\ rank2 \in [Node -> Nat]
      /\ own2[n] = None /\ rank2[n] = top
      /\ \A m \in live : m # n /\ own2[m] = own[m] /\ rank2[m] = rank[m] /\ rank[m] \in Nat
      /\ \A m : m \in live2 <=> m \in live \/ m = n
  BY <1>0, <1>4, <1>5
<1> HIDE DEF live2, own2, rank2
<1>7. ChainType(live2, own2, rank2, top + 1)'
  BY <1>5, <1>6 DEF ChainType, Key
<1>8. /\ Part(None, live2, own2) = Part(None, live, own) \cup {n}
      /\ \A o \in Key : o # None => Part(o, live2, own2) = Part(o, live, own)
      /\ Under(n, live2, own2, rank2) = Part(None, live, own)
      /\ \A m \in live : Under(m, live2, own2, rank2) = Under(m, live, own, rank)
  <2>1. /\ Part(None, live2, own2) = Part(None, live, own) \cup {n}
        /\ \A o \in Key : o # None => Part(o, live2, own2) = Part(o, live, own)
    BY ONLY <1>6 DEF Part
  <2>2. Under(n, live2, own2, rank2) = Part(None, live, own)
    BY ONLY <1>5, <1>6 DEF Part, Under
  <2>3. \A m \in live : Under(m, live2, own2, rank2) = Under(m, live, own, rank)
    BY ONLY <1>5, <1>6 DEF Under
  <2> QED
    BY <2>1, <2>2, <2>3
<1>9. ASSUME NEW S \in SUBSET live, NEW x, IsTop(x, S, rank)
      PROVE  IsTop(x, S, rank2)
  BY ONLY <1>6, <1>9 DEF IsTop
<1>10. \A o \in Key : IsTop(Entry(o)', Part(o, live2, own2), rank2)
  <2>1. IsTop(n, Part(None, live2, own2), rank2)
    BY ONLY <1>5, <1>6, <1>8 DEF IsTop, Part
  <2>2. Entry(None)' = n
    BY <1>3 DEF Entry
  <2>3. ASSUME NEW o \in Key, o # None
        PROVE  IsTop(Entry(o)', Part(o, live2, own2), rank2)
    <3>1. Entry(o)' = Entry(o)
      BY <1>3, <2>3 DEF Entry, Key
    <3> QED
      BY <1>5, <1>8, <1>9, <2>3, <3>1 DEF Part
  <2> QED
    BY <2>1, <2>2, <2>3
<1>11. ASSUME NEW m \in live2
       PROVE  \E x \in Node \cup {None} :
                Points(m, x)' /\ IsTop(x, Under(m, live2, own2, rank2), rank2)
  <2>1. CASE m = n
    <3>1. PICK h \in Node \cup {None} : h = head
      BY <1>0
    <3>2. Points(n, h)'
      BY <1>2, <1>3, <1>4, <3>1 DEF Points
    <3>3. IsTop(h, Part(None, live, own), rank)
      BY <1>0, <1>5, <3>1 DEF Entry
    <3>4. IsTop(h, Part(None, live, own), rank2)
      BY <1>9, <3>3 DEF Part
    <3> QED
      BY <1>8, <2>1, <3>2, <3>4
  <2>2. CASE m \in live
    <3>1. PICK x \in Node \cup {None} : Points(m, x) /\ IsTop(x, Under(m, live, own, rank), rank)
      BY <1>5, <2>2
    <3>2. Points(m, x)'
      BY <1>0, <1>3, <3>1 DEF Points
    <3>3. IsTop(x, Under(m, live, own, rank), rank2)
      BY <1>9, <3>1 DEF Under
    <3> QED
      BY <1>8, <2>2, <3>2, <3>3
  <2> QED
    BY <1>6, <2>1, <2>2
<1>12. Chains(live2, own2, rank2, top + 1)'
  <2>1. \A m \in live2 : m < index' /\ m \notin freed' /\ taskOf'[m] \in Task /\ rank2[m] < top + 1
    BY ONLY <1>3, <1>4, <1>5, <1>6
  <2>2. \A x, y \in live2 : rank2[x] = rank2[y] => x = y
    BY ONLY <1>5, <1>6
  <2>3. \A y \in Adder : pc'[y] = "exchangeHead" => node'[y] \notin live2
    BY <1>0, <1>3, <1>4, <1>5, <1>6
  <2>4. pc'[Owner] = "preset" => node'[Owner] = None \/ node'[Owner] \in Part(None, live2, own2)
    BY <1>0, <1>3, <1>5, <1>8
  <2> QED
    BY <1>10, <1>11, <2>1, <2>2, <2>3, <2>4 DEF Chains, IsTop, Part, Under
<1>13. ASSUME NEW t \in Task
       PROVE  Balanced(live2, t)'
  <2>1. /\ Cardinality(NodesFor(live, t)) \in Nat
        /\ Cardinality(NodesFor(live2, t)') = Cardinality(NodesFor(live, t)) + One(taskOf[n] = t)
    <3>1. NodesFor(live, t) \in SUBSET Node /\ n \notin NodesFor(live, t)
      BY <1>5 DEF NodesFor
    <3>2. NodesFor(live2, t)' = IF taskOf[n] = t THEN NodesFor(live, t) \cup {n}
                                                ELSE NodesFor(live, t)
      BY <1>3, <1>6 DEF NodesFor
    <3>3. /\ Cardinality(NodesFor(live, t)) \in Nat
          /\ Cardinality(NodesFor(live, t) \cup {n}) = Cardinality(NodesFor(live, t)) + 1
      BY ONLY <3>1, NodeCount
    <3> QED
      BY ONLY <3>2, <3>3 DEF One
  <2>2. Cardinality(ThreadsFor(t)') + One(Refers(th, t))
          = Cardinality(ThreadsFor(t)) + One(Refers(th, t)')
    BY <1>0, <1>3, ThreadCount
  <2>3. /\ Refers(th, t) <=> taskOf[n] = t
        /\ ~Refers(th, t)'
    BY <1>3, <1>4 DEF Refers, Referring
  <2>4. Cardinality(ThreadsFor(t)') \in Nat /\ Cardinality(ThreadsFor(t)) \in Nat
    <3>1. ThreadsFor(t)' \in SUBSET Thread
      BY DEF ThreadsFor
    <3> QED
      BY <1>5, <3>1, Constants, FS_Subset, FS_CardinalityType, CountsFinite
  <2>5. Cardinality(NodesFor(live2, t)') + Cardinality(ThreadsFor(t)')
          = Cardinality(NodesFor(live, t)) + Cardinality(ThreadsFor(t))
    BY ONLY <2>1, <2>2, <2>3, <2>4 DEF One
  <2>6. refCount'[t] = refCount[t] /\ HoldersOf(t)' = HoldersOf(t) /\ HoldersOf(t) \in Nat
    BY <1>3 DEF HoldersOf, ListInv, TypeOK
  <2>7. Balanced(live, t)
    BY <1>1
  <2> QED
    BY <2>1, <2>4, <2>5, <2>6, <2>7, <1>3 DEF Balanced
<1> QED
  BY <1>7, <1>12, <1>13 DEF HasChains

(* The announcer takes the chain of the list over. *)
LEMMA TakeHeadKeeps ==
  ASSUME ListInv, NEW th \in Thread, TakeHead(th)
  PROVE  HasChains'
<1>0. /\ Owner \notin Adder /\ Owner \in Thread /\ th # None /\ None \in Key /\ th \in Key
      /\ pc \in [Thread -> {"out", "preset", "open"} \cup InAdd \cup InAnnounce]
      /\ node \in [Thread -> Node \cup {None}] /\ None \notin Node
      /\ \A x \in Adder : x \in Thread
  BY Constants DEF ListInv, TypeOK, Key
<1>1. PICK live, own, rank, top :
        /\ ChainType(live, own, rank, top) /\ Chains(live, own, rank, top)
        /\ \A t \in Task : Balanced(live, t)
  BY DEF ListInv, HasChains
<1>2. /\ pc[th] = "announce" /\ pc'[th] = "loop"
      /\ head' = None /\ node'[th] = head
      /\ UNCHANGED <<nextNode, taskOf, freed, index, refCount, unadded, adding, oldHead>>
      /\ \A x \in Thread : x # th => pc'[x] = pc[x] /\ node'[x] = node[x]
  BY <1>0 DEF TakeHead, Goto, nodes, taskVars
<1>3. pc[Owner] # "preset"
  BY <1>0, <1>2 DEF ListInv, Phase
<1>4. /\ live \in SUBSET Node /\ own \in [Node -> Key] /\ rank \in [Node -> Nat]
      /\ \A o \in Key : IsTop(Entry(o), Part(o, live, own), rank)
      /\ \A m \in live : \E x \in Node \cup {None} :
           Points(m, x) /\ IsTop(x, Under(m, live, own, rank), rank)
  BY <1>1 DEF Chains, ChainType
<1>5. Entry(th) = None /\ Entry(None) = head
  BY <1>0, <1>2 DEF Entry
<1>6. Part(th, live, own) = {}
  BY <1>0, <1>4, <1>5 DEF IsTop, Part
<1> DEFINE own2 == [m \in Node |-> IF own[m] = None THEN th ELSE own[m]]
<1>7. /\ own2 \in [Node -> Key]
      /\ \A m \in live : /\ own[m] # th /\ own[m] \in Key
                         /\ own2[m] = IF own[m] = None THEN th ELSE own[m]
  BY <1>0, <1>4, <1>6 DEF Part
<1> HIDE DEF own2
<1>8. /\ Part(None, live, own2) = {}
      /\ Part(th, live, own2) = Part(None, live, own)
      /\ \A o \in Key : o # None /\ o # th => Part(o, live, own2) = Part(o, live, own)
      /\ \A m \in live : Under(m, live, own2, rank) = Under(m, live, own, rank)
  <2>1. /\ Part(None, live, own2) = {}
        /\ Part(th, live, own2) = Part(None, live, own)
        /\ \A o \in Key : o # None /\ o # th => Part(o, live, own2) = Part(o, live, own)
    BY ONLY <1>0, <1>7 DEF Part
  <2>2. \A m \in live : Under(m, live, own2, rank) = Under(m, live, own, rank)
    BY ONLY <1>0, <1>7 DEF Under
  <2> QED
    BY <2>1, <2>2
<1>9. \A o \in Key : IsTop(Entry(o)', Part(o, live, own2), rank)
  <2>1. IsTop(Entry(None)', Part(None, live, own2), rank)
    BY <1>2, <1>8 DEF IsTop, Entry
  <2>2. IsTop(Entry(th)', Part(th, live, own2), rank)
    <3>1. Entry(th)' = head
      BY <1>0, <1>2 DEF Entry
    <3> QED
      BY <1>0, <1>4, <1>5, <1>8, <3>1
  <2>3. ASSUME NEW o \in Key, o # None, o # th
        PROVE  IsTop(Entry(o)', Part(o, live, own2), rank)
    <3>1. Entry(o)' = Entry(o)
      BY <1>2, <2>3 DEF Entry, Key
    <3> QED
      BY <1>4, <1>8, <2>3, <3>1
  <2> QED
    BY <2>1, <2>2, <2>3
<1>10. ASSUME NEW m \in live
       PROVE  \E x \in Node \cup {None} :
                Points(m, x)' /\ IsTop(x, Under(m, live, own2, rank), rank)
  <2>1. PICK x \in Node \cup {None} : Points(m, x) /\ IsTop(x, Under(m, live, own, rank), rank)
    BY <1>4
  <2>2. Points(m, x)'
    BY <1>0, <1>2, <2>1 DEF Points
  <2> QED
    BY <1>8, <2>1, <2>2
<1>11. Chains(live, own2, rank, top)'
  <2>1. /\ \A m \in live : m < index' /\ m \notin freed' /\ taskOf'[m] \in Task /\ rank[m] < top
        /\ \A x, y \in live : rank[x] = rank[y] => x = y
    BY <1>1, <1>2 DEF Chains
  <2>2. \A y \in Adder : pc'[y] = "exchangeHead" => node'[y] \notin live
    BY <1>0, <1>1, <1>2 DEF Chains
  <2>3. pc'[Owner] # "preset"
    BY <1>0, <1>2, <1>3
  <2> QED
    BY <1>9, <1>10, <2>1, <2>2, <2>3 DEF Chains, IsTop, Part, Under
<1>12. ChainType(live, own2, rank, top)'
  BY <1>1, <1>7 DEF ChainType, Key
<1>13. ASSUME NEW t \in Task
       PROVE  Balanced(live, t)'
  <2>1. \A x \in Thread : Refers(x, t)' <=> Refers(x, t)
    BY <1>2 DEF Refers, Referring
  <2> QED
    BY <1>1, <1>2, <2>1, BalancedQuiet
<1> QED
  BY <1>11, <1>12, <1>13 DEF HasChains

(* The announcer's chain loses its highest node; the thread holds the      *)
(* node's reference.                                                       *)
LEMMA VisitKeeps ==
  ASSUME ListInv, NEW th \in Thread, Visit(th)
  PROVE  HasChains'
<1>0. /\ Owner \notin Adder /\ Owner \in Thread /\ th # None /\ None \in Key /\ th \in Key
      /\ pc \in [Thread -> {"out", "preset", "open"} \cup InAdd \cup InAnnounce]
      /\ node \in [Thread -> Node \cup {None}] /\ None \notin Node
      /\ adding \in [Thread -> Task \cup {None}]
      /\ \A x \in Adder : x \in Thread
  BY Constants DEF ListInv, TypeOK, Key
<1>1. PICK live, own, rank, top :
        /\ ChainType(live, own, rank, top) /\ Chains(live, own, rank, top)
        /\ \A t \in Task : Balanced(live, t)
  BY DEF ListInv, HasChains
<1>2. PICK n : n = node[th]
  OBVIOUS
<1>3. /\ pc[th] = "loop" /\ pc'[th] = "release" /\ n # None /\ nextNode[n] # n
      /\ node'[th] = nextNode[n] /\ adding'[th] = taskOf[n]
      /\ freed' \subseteq freed \cup {n}
      /\ UNCHANGED <<head, index, nextNode, taskOf, refCount, unadded, oldHead>>
      /\ \A x \in Thread : x # th => /\ pc'[x] = pc[x] /\ node'[x] = node[x]
                                     /\ adding'[x] = adding[x]
  BY <1>0, <1>2 DEF Visit, Goto, members
<1>4. pc[Owner] # "preset"
  BY <1>2, <1>3 DEF ListInv, Phase
<1>5. /\ live \in SUBSET Node /\ own \in [Node -> Key] /\ rank \in [Node -> Nat] /\ top \in Nat
      /\ \A m \in live : m < index /\ m \notin freed /\ taskOf[m] \in Task /\ rank[m] < top
      /\ \A x, y \in live : rank[x] = rank[y] => x = y
      /\ \A o \in Key : IsTop(Entry(o), Part(o, live, own), rank)
      /\ \A m \in live : \E x \in Node \cup {None} :
           Points(m, x) /\ IsTop(x, Under(m, live, own, rank), rank)
      /\ \A y \in Adder : pc[y] = "exchangeHead" => node[y] \notin live
  BY <1>1 DEF Chains, ChainType
<1>6. /\ IsTop(n, Part(th, live, own), rank)
      /\ n \in live /\ own[n] = th
  <2>1. Entry(th) = n
    BY <1>0, <1>2, <1>3 DEF Entry
  <2> QED
    BY <1>0, <1>3, <1>5, <2>1 DEF IsTop, Part
<1>7. PICK x \in Node \cup {None} : Points(n, x) /\ IsTop(x, Under(n, live, own, rank), rank)
  BY <1>5, <1>6
<1>8. nextNode[n] = x
  BY <1>3, <1>7 DEF Points
<1> DEFINE live2 == live \ {n}
<1>9. /\ live2 \in SUBSET live /\ n \notin live2 /\ live = live2 \cup {n}
      /\ \A m : m \in live2 <=> m \in live /\ m # n
      /\ \A m \in live : rank[m] \in Nat
  BY <1>5, <1>6
<1> HIDE DEF live2
<1>10. /\ Part(th, live2, own) = Under(n, live, own, rank)
       /\ \A o \in Key : o # th => Part(o, live2, own) = Part(o, live, own)
       /\ \A m \in live2 : Under(m, live2, own, rank) = Under(m, live, own, rank)
  <2>1. \A m \in live : own[m] = th => rank[m] <= rank[n]
    BY ONLY <1>6 DEF IsTop, Part
  <2>2. \A m \in live2 : own[m] = th => rank[m] < rank[n]
    BY ONLY <1>5, <1>6, <1>9, <2>1
  <2>3. Part(th, live2, own) = Under(n, live, own, rank)
    BY ONLY <1>6, <1>9, <2>2 DEF Part, Under
  <2>4. \A o \in Key : o # th => Part(o, live2, own) = Part(o, live, own)
    BY ONLY <1>6, <1>9 DEF Part
  <2>5. \A m \in live2 : Under(m, live2, own, rank) = Under(m, live, own, rank)
    BY ONLY <1>6, <1>9, <2>2 DEF Under
  <2> QED
    BY <2>3, <2>4, <2>5
<1>11. \A o \in Key : IsTop(Entry(o)', Part(o, live2, own), rank)
  <2>1. IsTop(Entry(th)', Part(th, live2, own), rank)
    <3>1. Entry(th)' = x
      BY <1>0, <1>3, <1>8 DEF Entry
    <3> QED
      BY <1>7, <1>10, <3>1
  <2>2. ASSUME NEW o \in Key, o # th
        PROVE  IsTop(Entry(o)', Part(o, live2, own), rank)
    <3>1. Entry(o)' = Entry(o)
      BY <1>3, <2>2 DEF Entry, Key
    <3> QED
      BY <1>5, <1>10, <2>2, <3>1
  <2> QED
    BY <2>1, <2>2
<1>12. ASSUME NEW m \in live2
       PROVE  \E y \in Node \cup {None} :
                Points(m, y)' /\ IsTop(y, Under(m, live2, own, rank), rank)
  <2>1. PICK y \in Node \cup {None} : Points(m, y) /\ IsTop(y, Under(m, live, own, rank), rank)
    BY <1>5, <1>9
  <2>2. Points(m, y)'
    BY <1>0, <1>3, <2>1 DEF Points
  <2> QED
    BY <1>10, <2>1, <2>2
<1>13. Chains(live2, own, rank, top)'
  <2>1. /\ \A m \in live2 : m < index' /\ m \notin freed' /\ taskOf'[m] \in Task /\ rank[m] < top
        /\ \A a, b \in live2 : rank[a] = rank[b] => a = b
    BY <1>3, <1>5, <1>9
  <2>2. \A y \in Adder : pc'[y] = "exchangeHead" => node'[y] \notin live2
    BY <1>0, <1>3, <1>5, <1>9
  <2>3. pc'[Owner] # "preset"
    BY <1>0, <1>3, <1>4
  <2> QED
    BY <1>11, <1>12, <2>1, <2>2, <2>3 DEF Chains, IsTop, Part, Under
<1>14. ChainType(live2, own, rank, top)'
  BY <1>5, <1>9 DEF ChainType, Key
<1>15. ASSUME NEW t \in Task
       PROVE  Balanced(live2, t)'
  <2>1. /\ Cardinality(NodesFor(live2, t)') \in Nat
        /\ Cardinality(NodesFor(live, t)) = Cardinality(NodesFor(live2, t)') + One(taskOf[n] = t)
    <3>1. NodesFor(live2, t)' \in SUBSET Node /\ n \notin NodesFor(live2, t)'
      BY <1>5, <1>9 DEF NodesFor
    <3>2. NodesFor(live, t) = IF taskOf[n] = t THEN NodesFor(live2, t)' \cup {n}
                                               ELSE NodesFor(live2, t)'
      BY <1>3, <1>6, <1>9 DEF NodesFor
    <3>3. /\ Cardinality(NodesFor(live2, t)') \in Nat
          /\ Cardinality(NodesFor(live2, t)' \cup {n}) = Cardinality(NodesFor(live2, t)') + 1
      BY ONLY <3>1, NodeCount
    <3> QED
      BY ONLY <3>2, <3>3 DEF One
  <2>2. Cardinality(ThreadsFor(t)') + One(Refers(th, t))
          = Cardinality(ThreadsFor(t)) + One(Refers(th, t)')
    BY <1>0, <1>3, ThreadCount
  <2>3. /\ Refers(th, t)' <=> taskOf[n] = t
        /\ ~Refers(th, t)
    BY <1>3 DEF Refers, Referring
  <2>4. Cardinality(ThreadsFor(t)') \in Nat /\ Cardinality(ThreadsFor(t)) \in Nat
    <3>1. ThreadsFor(t)' \in SUBSET Thread
      BY DEF ThreadsFor
    <3> QED
      BY <1>5, <3>1, Constants, FS_Subset, FS_CardinalityType, CountsFinite
  <2>5. Cardinality(NodesFor(live2, t)') + Cardinality(ThreadsFor(t)')
          = Cardinality(NodesFor(live, t)) + Cardinality(ThreadsFor(t))
    BY ONLY <2>1, <2>2, <2>3, <2>4 DEF One
  <2>6. refCount'[t] = refCount[t] /\ HoldersOf(t)' = HoldersOf(t) /\ HoldersOf(t) \in Nat
    BY <1>3 DEF HoldersOf, ListInv, TypeOK
  <2>7. Balanced(live, t)
    BY <1>1
  <2> QED
    BY <2>1, <2>4, <2>5, <2>6, <2>7, <1>3 DEF Balanced
<1> QED
  BY <1>13, <1>14, <1>15 DEF HasChains

----------------------------------------------------------------------------
(* The invariant                                                           *)

LEMMA InitListInv ==
  Init => ListInv
<1> SUFFICES ASSUME Init
             PROVE  ListInv
  OBVIOUS
<1> USE Constants
<1>1. TypeOK
  BY DEF Init, TypeOK
<1>2. Locals /\ OwnNodes /\ Phase
  BY DEF Init, Locals, OwnNodes, Phase, InAdd, Referring
<1>3. ASSUME NEW t \in Task
      PROVE  TaskOK(t)
  BY DEF Init, TaskOK
<1>4. HasChains
  <2> DEFINE own == [n \in Node |-> None]
             rank == [n \in Node |-> 0]
  <2>1. ChainType({}, own, rank, 0)
    BY DEF ChainType, Key
  <2>2. Chains({}, own, rank, 0)
    <3>1. \A o \in Key : Entry(o) = None
      BY DEF Init, Entry, Key
    <3> QED
      BY <3>1 DEF Init, Chains, IsTop, Part
  <2>3. ASSUME NEW t \in Task
        PROVE  Balanced({}, t)
    <3>1. NodesFor({}, t) = {} /\ ThreadsFor(t) = {}
      BY DEF Init, NodesFor, ThreadsFor, Referring
    <3>2. Cardinality(NodesFor({}, t)) = 0 /\ Cardinality(ThreadsFor(t)) = 0
      BY <3>1, FS_EmptySet
    <3> QED
      BY <3>2 DEF Init, Balanced, HoldersOf
  <2> HIDE DEF own, rank
  <2> QED
    BY <2>1, <2>2, <2>3 DEF HasChains
<1> QED
  BY <1>1, <1>2, <1>3, <1>4 DEF ListInv

LEMMA NextListInv ==
  ListInv /\ [Next]_vars => ListInv'
<1> SUFFICES ASSUME ListInv, [Next]_vars
             PROVE  ListInv'
  OBVIOUS
<1>1. TypeOK' /\ Locals' /\ OwnNodes' /\ Phase'
  BY TypeStep, LocalsStep, OwnNodesStep, PhaseStep
<1>2. (\A t \in Task : TaskOK(t))'
  BY TaskStep
<1>3. HasChains'
  <2>1. ASSUME NEW th \in Adder, AddStep(th) \/ \E t \in Task : Add(th, t)
        PROVE  HasChains'
    BY <1>1, <2>1, AddSteady, ExchangeHeadKeeps, SetNextKeeps DEF AddStep
  <2>2. ASSUME NEW th \in Thread, Announce(th)
        PROVE  HasChains'
    BY <1>1, <2>2, AnnounceSteady, TakeHeadKeeps, VisitKeeps DEF Announce
  <2>3. CASE \/ \E e : Preset(e) \/ DoneWaiting(e)
             \/ PresetVisit \/ Open \/ (\E t \in Task : Execute(t)) \/ UNCHANGED vars
    BY <1>1, <2>3, AnnounceSteady, Constants
  <2>4. CASE Reset
    BY <2>4, ResetKeeps
  <2> QED
    BY <2>1, <2>2, <2>3, <2>4 DEF Next
<1> QED
  BY <1>1, <1>2, <1>3 DEF ListInv

(* The chains, the references and the announcers to come are always as     *)
(* described, whatever the threads that add and the owner do.              *)
THEOREM ListInvariance ==
  Spec => []ListInv
BY InitListInv, NextListInv, PTL DEF Spec

(* The variables keep their types; above all, no release takes a count of  *)
(* references below zero.                                                  *)
THEOREM ListTypeCorrect ==
  Spec => []TypeOK
<1>1. ListInv => TypeOK
  BY DEF ListInv
<1> QED
  BY <1>1, ListInvariance, PTL

(* No thread touches a node that another deleted, save in the second       *)
(* setNextNode of the overload of add that takes a holder.                 *)
THEOREM NodesAlive ==
  Spec => []NodeAliveWhenUsed
<1>1. ASSUME ListInv, NEW th \in Thread, pc[th] # "setNextAgain"
      PROVE  Touches(th) \cap freed = {}
  <2>1. CASE pc[th] = "setNext"
    BY <1>1, <2>1, Constants DEF ListInv, Locals, OwnNodes, Touches, InAdd
  <2>2. CASE pc[th] = "loop"
    BY <1>1, <2>2, AtEntry DEF Touches
  <2>3. CASE pc[th] = "preset"
    <3>1. th = Owner
      BY <1>1, <2>3, Constants DEF ListInv, Locals
    <3>2. node[Owner] = None \/ node[Owner] \notin freed
      BY <1>1, <2>3, <3>1 DEF ListInv, HasChains, Chains, Part
    <3> QED
      BY <3>1, <3>2 DEF Touches
  <2> QED
    BY <1>1, <2>1, <2>2, <2>3 DEF Touches
<1>2. ListInv => NodeAliveWhenUsed
  BY <1>1 DEF NodeAliveWhenUsed
<1> QED
  BY <1>2, ListInvariance, PTL

(* When the list is open and no call is in progress, every task that was   *)
(* added was released, and m_head is null.                                 *)
THEOREM ListDrained ==
  Spec => []NothingLeftBehind
<1>1. ASSUME ListInv, ~waiting, Quiet
      PROVE  head = None /\ \A t \in Task : Added(t) => t \in spawned \/ runs[t] > 0
  <2>1. head = None
    BY <1>1 DEF ListInv, Phase, WillAnnounce, Quiet
  <2>2. PICK live, own, rank, top :
          /\ ChainType(live, own, rank, top) /\ Chains(live, own, rank, top)
          /\ \A t \in Task : Balanced(live, t)
    BY <1>1 DEF ListInv, HasChains
  <2>3. \A o \in Key : Entry(o) = None
    BY <1>1, <2>1 DEF Entry, Key, Quiet
  <2>4. live = {}
    <3> SUFFICES ASSUME NEW n \in live
                 PROVE  FALSE
      OBVIOUS
    <3>1. own[n] \in Key /\ live \in SUBSET Node
      BY <2>2 DEF ChainType
    <3>2. IsTop(None, Part(own[n], live, own), rank)
      BY <2>2, <2>3, <3>1 DEF Chains
    <3> QED
      BY <3>1, <3>2, Constants DEF IsTop, Part
  <2>5. ASSUME NEW t \in Task, Added(t)
        PROVE  t \in spawned \/ runs[t] > 0
    <3>1. NodesFor(live, t) = {} /\ ThreadsFor(t) = {}
      BY <1>1, <2>4 DEF NodesFor, ThreadsFor, Quiet, Referring
    <3>2. refCount[t] = 0
      BY <2>2, <2>5, <3>1, FS_EmptySet DEF Balanced, HoldersOf, Added
    <3> QED
      BY <1>1, <2>5, <3>2 DEF ListInv, TaskOK, Added
  <2> QED
    BY <2>1, <2>5
<1>2. ListInv => NothingLeftBehind
  BY <1>1 DEF NothingLeftBehind
<1> QED
  BY <1>2, ListInvariance, PTL

(* A task is executed once, when the last of its holders was released and  *)
(* it was added as often as it will be.                                    *)
THEOREM TasksRunOnce ==
  Spec => []ExecutedOnce
<1>1. ListInv => ExecutedOnce
  BY Constants DEF ListInv, TypeOK, TaskOK, ExecutedOnce, Added
<1> QED
  BY <1>1, ListInvariance, PTL

(* The assertion in reset holds whenever its contract is kept.             *)
THEOREM ResetSafe ==
  Spec => []ResetFindsEmptyList
<1>1. ListInv => ResetFindsEmptyList
  BY EmptyAtReset DEF ResetFindsEmptyList
<1> QED
  BY <1>1, ListInvariance, PTL

(* Only the two releases lower a count of references. *)
LEMMA WhoReleases ==
  ASSUME ListInv, [Next]_vars, NEW t \in Task, refCount'[t] < refCount[t]
  PROVE  \E th \in Thread : /\ AddLate(th) \/ ReleaseVisited(th)
                            /\ adding[th] = t
<1>0. /\ refCount \in [Task -> Nat] /\ refCount' \in [Task -> Nat]
      /\ \A x \in Adder : x \in Thread
  BY TypeStep, Constants DEF ListInv, TypeOK
<1>1. refCount' # refCount /\ ~(refCount'[t] >= refCount[t])
  BY <1>0
<1>2. ASSUME NEW th \in Adder, NEW u \in Task, Add(th, u)
      PROVE  FALSE
  BY <1>0, <1>1, <1>2 DEF Add
<1>3. \E th \in Thread : AddLate(th) \/ ReleaseVisited(th)
  BY <1>0, <1>1, <1>2 DEF Next, AddStep, Announce, ReadWaiting, CreateNode, ExchangeHead, SetNext,
     SetNextAgain, Recheck, TakeHead, Visit, EndAnnounce, Preset, PresetVisit, DoneWaiting, Open,
     Execute, Reset, vars, taskVars
<1> QED
  BY <1>0, <1>1, <1>3 DEF AddLate, ReleaseVisited, Release

(* No task is released while the list waits.                               *)
THEOREM ReleasedWhenOpen ==
  Spec => NoEarlyRelease
<1>1. ListInv /\ [Next]_vars
        => [\A t \in Task : refCount'[t] < refCount[t] => ~waiting]_vars
  <2> SUFFICES ASSUME ListInv, [Next]_vars, NEW t \in Task, refCount'[t] < refCount[t]
               PROVE  ~waiting
    OBVIOUS
  <2> QED
    BY WhoReleases DEF AddLate, ReleaseVisited, ListInv, Phase
<1> QED
  BY <1>1, ListInvariance, PTL DEF Spec, NoEarlyRelease

(* The exception the owner has decided on is the one that adders and       *)
(* announcers find in m_exceptionPtr, from before the list opens until it  *)
(* is reset.                                                               *)
Outcome ==
  /\ ~waiting \/ pc[Owner] = "open" => exception = given
  /\ pc[Owner] = "preset" => given # None

GateInv == ListInv /\ Outcome

(* No step lets the member and what the owner gave fall apart. *)
LEMMA OutcomeStep ==
  ASSUME GateInv, [Next]_vars
  PROVE  Outcome'
<1> USE Constants DEF GateInv, Outcome
<1>0. /\ pc \in [Thread -> {"out", "preset", "open"} \cup InAdd \cup InAnnounce]
      /\ pc[Owner] \in {"preset", "open"} => waiting
  BY DEF ListInv, TypeOK, Phase
<1>1. ASSUME NEW th \in Adder, AddStep(th) \/ \E t \in Task : Add(th, t)
      PROVE  Outcome'
  <2>1. UNCHANGED <<waiting, exception, given>> /\ pc'[Owner] = pc[Owner]
    BY <1>0, <1>1 DEF AddStep, Add, ReadWaiting, AddLate, CreateNode, ExchangeHead, SetNext,
       SetNextAgain, Recheck, Return, Goto, members
  <2> QED
    BY <2>1
<1>2. ASSUME NEW th \in Thread, Announce(th)
      PROVE  Outcome'
  <2>1. /\ UNCHANGED <<waiting, exception, given>>
        /\ pc'[Owner] \in {"preset", "open"} => pc'[Owner] = pc[Owner]
    BY <1>0, <1>2 DEF Announce, TakeHead, Visit, ReleaseVisited, EndAnnounce, Return, Goto, members
  <2> QED
    BY <2>1
<1>3. ASSUME NEW e \in Exception, Preset(e)
      PROVE  Outcome'
  BY <1>0, <1>3 DEF Preset, Goto, members
<1>4. CASE PresetVisit
  BY <1>0, <1>4 DEF PresetVisit, Goto, members
<1>5. ASSUME NEW e \in Exception \cup {None}, DoneWaiting(e)
      PROVE  Outcome'
  BY <1>0, <1>5 DEF DoneWaiting, Goto
<1>6. CASE Open
  BY <1>0, <1>6 DEF Open, Goto
<1>7. CASE \E t \in Task : Execute(t)
  BY <1>7 DEF Execute, members, locals
<1>8. CASE Reset
  BY <1>0, <1>8 DEF Reset, ResetAllowed
<1>9. CASE UNCHANGED vars
  BY <1>9 DEF vars
<1> QED
  BY <1>1, <1>2, <1>3, <1>4, <1>5, <1>6, <1>7, <1>8, <1>9 DEF Next

(* In a round that failed no task is released before it was told of an     *)
(* exception, and in one that did not no task is told of any.              *)
THEOREM ExceptionsSeen ==
  Spec => TasksSeeException
<1>1. ASSUME GateInv, [Next]_vars, NEW t \in Task, refCount'[t] < refCount[t], given # None
      PROVE  failed'[t] # None
  <2>1. PICK th \in Thread : (AddLate(th) \/ ReleaseVisited(th)) /\ adding[th] = t
    BY <1>1, WhoReleases DEF GateInv
  <2>2. exception # None
    BY <1>1, <2>1 DEF AddLate, ReleaseVisited, GateInv, Outcome, ListInv, Phase
  <2>3. CASE AddLate(th)
    BY <1>1, <2>1, <2>2, <2>3 DEF AddLate, TellFailed, GateInv, ListInv, TypeOK
  <2>4. CASE ReleaseVisited(th)
    BY <1>1, <2>1, <2>2, <2>4 DEF ReleaseVisited, GateInv, ListInv, Phase
  <2> QED
    BY <2>1, <2>3, <2>4
<1>2. ASSUME GateInv, [Next]_vars, NEW t \in Task, given = None
      PROVE  failed'[t] = failed[t]
  <2>0. failed \in [Task -> Exception \cup {None}]
    BY <1>2 DEF GateInv, ListInv, TypeOK
  <2>1. ASSUME NEW th \in Thread, AddLate(th) \/ Visit(th)
        PROVE  failed' = failed
    <3>1. exception = None
      BY <1>2, <2>1 DEF AddLate, Visit, GateInv, Outcome, ListInv, Phase
    <3> QED
      BY <2>0, <2>1, <3>1 DEF AddLate, Visit, TellFailed
  <2>2. ~PresetVisit
    BY <1>2 DEF PresetVisit, GateInv, Outcome
  <2>3. \A x \in Adder : x \in Thread
    BY Constants
  <2>4. failed' = failed
    BY <1>2, <2>1, <2>2, <2>3 DEF Next, AddStep, Announce, Add, ReadWaiting, CreateNode,
       ExchangeHead, SetNext, SetNextAgain, Recheck, TakeHead, ReleaseVisited, EndAnnounce,
       Preset, DoneWaiting, Open, Execute, Reset, vars, taskVars
  <2> QED
    BY <2>4
<1>3. GateInv /\ [Next]_vars
        => [\A t \in Task :
              /\ refCount'[t] < refCount[t] /\ given # None => failed'[t] # None
              /\ given = None => failed'[t] = failed[t]]_vars
  BY <1>1, <1>2
<1>4. Init => Outcome
  BY Constants DEF Init, Outcome
<1>5. GateInv /\ [Next]_vars => Outcome'
  BY OutcomeStep
<1> QED
  BY <1>3, <1>4, <1>5, ListInvariance, PTL DEF Spec, GateInv, TasksSeeException

----------------------------------------------------------------------------
(* The promise: the list is a gate                                         *)

(* References counted, a release is due for each but those of the holders  *)
(* not added yet.                                                          *)
LEMMA DueCounted ==
  ASSUME ListInv, NEW t \in Task
  PROVE  /\ refCount[t] \in Nat /\ unadded[t] \in Nat /\ HoldersOf(t) \in Nat
         /\ HoldersOf(t) <= refCount[t] /\ DueReleases[t] = refCount[t] - HoldersOf(t)
         /\ DueReleases[t] \in Nat
<1>1. PICK live \in SUBSET Node : Balanced(live, t)
  BY DEF ListInv, HasChains, ChainType
<1>2. Cardinality(NodesFor(live, t)) \in Nat /\ Cardinality(ThreadsFor(t)) \in Nat
  BY <1>1, CountsFinite
<1>3. refCount[t] \in Nat /\ unadded[t] \in Nat
  BY DEF ListInv, TypeOK
<1>4. HoldersOf(t) \in Nat /\ HoldersOf(t) <= refCount[t]
  BY <1>1, <1>2, <1>3 DEF Balanced, HoldersOf
<1>5. DueReleases[t] = refCount[t] - HoldersOf(t)
  BY <1>3, Constants DEF DueReleases, HoldersOf
<1> QED
  BY <1>3, <1>4, <1>5

(* Whoever refers to a task, in add, in announce or from a node, has a     *)
(* release of it to make, or knows of one to come.                         *)
LEMMA DueWhenReferred ==
  ASSUME ListInv, NEW th \in Thread, pc[th] \in Referring
  PROVE  adding[th] \in Task /\ DueReleases[adding[th]] > 0
<1> DEFINE t == adding[th]
<1>1. t \in Task
  BY DEF ListInv, Locals
<1>2. PICK live \in SUBSET Node : Balanced(live, t)
  BY <1>1 DEF ListInv, HasChains, ChainType
<1>3. th \in ThreadsFor(t)
  BY DEF ThreadsFor
<1> HIDE DEF t
<1>4. /\ Cardinality(NodesFor(live, t)) \in Nat
      /\ Cardinality(ThreadsFor(t)) \in Nat /\ Cardinality(ThreadsFor(t)) > 0
  BY <1>2, <1>3, CountsFinite
<1>5. DueReleases[t] > 0
  BY <1>1, <1>2, <1>4, DueCounted DEF Balanced
<1> QED
  BY <1>1, <1>5 DEF t

LEMMA DueAtNode ==
  ASSUME ListInv, NEW th \in Thread, node[th] # None,
         pc[th] = "loop" \/ (pc[th] = "preset" /\ th = Owner)
  PROVE  taskOf[node[th]] \in Task /\ DueReleases[taskOf[node[th]]] > 0
<1> DEFINE n == node[th]
           t == taskOf[n]
<1>1. PICK live, own, rank, top :
        /\ ChainType(live, own, rank, top) /\ Chains(live, own, rank, top)
        /\ \A u \in Task : Balanced(live, u)
  BY DEF ListInv, HasChains
<1>2. n \in live
  <2>1. CASE pc[th] = "loop"
    <3>1. th \in Key /\ Entry(th) = n
      BY <2>1, Constants DEF Key, Entry
    <3> QED
      BY <1>1, <3>1 DEF Chains, IsTop, Part
  <2>2. CASE pc[th] = "preset" /\ th = Owner
    BY <1>1, <2>2 DEF Chains, Part
  <2> QED
    BY <2>1, <2>2
<1> HIDE DEF n
<1>3. t \in Task /\ n \in NodesFor(live, t) /\ live \in SUBSET Node
  BY <1>1, <1>2 DEF Chains, ChainType, NodesFor
<1> HIDE DEF t
<1>4. /\ Cardinality(NodesFor(live, t)) \in Nat /\ Cardinality(NodesFor(live, t)) > 0
      /\ Cardinality(ThreadsFor(t)) \in Nat
  BY <1>3, CountsFinite
<1>5. Balanced(live, t)
  BY <1>1, <1>3
<1>6. DueReleases[t] > 0
  BY <1>3, <1>4, <1>5, DueCounted DEF Balanced
<1> QED
  BY <1>3, <1>6 DEF n, t

(* Telling a task of the exception decided on is a step of the gate, or    *)
(* the task has heard of one before.                                       *)
LEMMA TellIsTell ==
  ASSUME NEW t \in Task, DueReleases[t] > 0, TellFailed(t, given),
         failed \in [Task -> Exception \cup {None}],
         UNCHANGED <<waiting, given, refCount, unadded, spawned, runs>>
  PROVE  Gate!Tell(t) \/ UNCHANGED Gate!vars
<1>1. DueReleases' = DueReleases
  BY DEF DueReleases
<1>2. CASE failed[t] = None /\ given # None
  BY <1>1, <1>2 DEF TellFailed, Gate!Tell
<1>3. CASE failed[t] # None \/ given = None
  <2>1. failed' = failed
    BY <1>3 DEF TellFailed
  <2> QED
    BY <1>1, <2>1 DEF Gate!vars
<1> QED
  BY <1>2, <1>3

(* A reference given back by a thread that knows of a due release.         *)
LEMMA ReleaseIsRelease ==
  ASSUME GateInv, NEW th \in Thread, pc[th] \in Referring, NEW t \in Task, t = adding[th],
         ~waiting, Release(t), UNCHANGED <<waiting, given, unadded, runs>>,
         failed' = [failed EXCEPT ![t] = IF @ = None THEN given ELSE @]
  PROVE  Gate!Release(t)
<1>0. DueReleases[t] > 0
  BY DueWhenReferred DEF GateInv
<1>1. /\ refCount \in [Task -> Nat] /\ unadded \in [Task -> Nat]
      /\ refCount[t] = 1 => unadded[t] = 0
  BY Referred DEF GateInv, ListInv, TypeOK
<1>2. refCount' = [refCount EXCEPT ![t] = @ - 1]
  BY DEF Release
<1>3. DueReleases' = [DueReleases EXCEPT ![t] = @ - 1]
  <2>1. \A u \in Task : u # t => DueReleases'[u] = DueReleases[u]
    BY <1>1, <1>2 DEF DueReleases
  <2>2. DueReleases'[t] = DueReleases[t] - 1
    <3>1. refCount'[t] = refCount[t] - 1 /\ unadded'[t] = unadded[t]
      BY <1>1, <1>2
    <3>2. refCount[t] \in Nat /\ unadded[t] \in Nat
      BY <1>1
    <3> QED
      BY <3>1, <3>2 DEF DueReleases
  <2>3. DueReleases' = [u \in Task |-> DueReleases'[u]]
        /\ DueReleases = [u \in Task |-> DueReleases[u]]
    BY DEF DueReleases
  <2> HIDE DEF DueReleases
  <2> QED
    BY <2>1, <2>2, <2>3
<1>4. refCount[t] = 1 <=> DueReleases[t] = 1 /\ unadded[t] = 0
  <2>1. /\ HoldersOf(t) <= refCount[t] /\ DueReleases[t] = refCount[t] - HoldersOf(t)
        /\ refCount[t] \in Nat /\ unadded[t] \in Nat
    BY DueCounted DEF GateInv
  <2>2. HoldersOf(t) = IF Holders[t] > 0 THEN unadded[t] ELSE 0
    BY DEF HoldersOf
  <2> QED
    BY <1>1, <2>1, <2>2
<1>5. spawned' = IF DueReleases[t] = 1 /\ unadded[t] = 0 THEN spawned \cup {t} ELSE spawned
  BY <1>4 DEF Release
<1> QED
  BY <1>0, <1>3, <1>5 DEF Gate!Release

LEMMA AddImplements ==
  ASSUME GateInv, NEW th \in Adder, AddStep(th) \/ \E t \in Task : Add(th, t)
  PROVE  (\E t \in Task : Gate!Give(t) \/ Gate!Release(t)) \/ UNCHANGED Gate!vars
<1> USE Constants
<1>0. /\ refCount \in [Task -> Nat] /\ unadded \in [Task -> Nat]
      /\ failed \in [Task -> Exception \cup {None}] /\ th \in Thread
  BY DEF GateInv, ListInv, TypeOK
<1>1. ASSUME NEW t \in Task, Add(th, t)
      PROVE  Gate!Give(t)
  <2>1. /\ unadded[t] > 0 /\ unadded' = [unadded EXCEPT ![t] = @ - 1]
        /\ refCount' = [refCount EXCEPT ![t] = IF Holders[t] > 0 THEN @ ELSE @ + 1]
        /\ UNCHANGED <<waiting, given, failed, spawned, runs>>
    BY <1>1 DEF Add, members
  <2>2. \A u \in Task : u # t => DueReleases'[u] = DueReleases[u]
    BY <1>0, <2>1 DEF DueReleases
  <2>3. DueReleases'[t] = DueReleases[t] + 1
    <3>1. /\ unadded'[t] = unadded[t] - 1
          /\ refCount'[t] = IF Holders[t] > 0 THEN refCount[t] ELSE refCount[t] + 1
          /\ refCount[t] \in Nat /\ unadded[t] \in Nat
      BY <1>0, <2>1
    <3>2. /\ DueReleases'[t] = IF Holders[t] = 0 THEN refCount'[t] ELSE refCount'[t] - unadded'[t]
          /\ DueReleases[t] = IF Holders[t] = 0 THEN refCount[t] ELSE refCount[t] - unadded[t]
      BY DEF DueReleases
    <3>3. Holders[t] \in Nat
      OBVIOUS
    <3> QED
      BY ONLY <2>1, <3>1, <3>2, <3>3
  <2>4. DueReleases' = [DueReleases EXCEPT ![t] = @ + 1]
    <3>1. DueReleases' = [u \in Task |-> DueReleases'[u]]
          /\ DueReleases = [u \in Task |-> DueReleases[u]]
      BY DEF DueReleases
    <3> HIDE DEF DueReleases
    <3> QED
      BY <2>2, <2>3, <3>1
  <2> QED
    BY <2>1, <2>4 DEF Gate!Give
<1>2. CASE AddLate(th)
  <2>1. pc[th] \in Referring /\ adding[th] \in Task /\ ~waiting
    BY <1>0, <1>2 DEF AddLate, Referring, GateInv, ListInv, Locals, Phase
  <2>2. exception = given
    BY <2>1 DEF GateInv, Outcome
  <2>3. /\ Release(adding[th]) /\ UNCHANGED <<waiting, given, unadded, runs>>
        /\ failed' = [failed EXCEPT ![adding[th]] = IF @ = None THEN given ELSE @]
    BY <1>2, <2>2 DEF AddLate, TellFailed, members
  <2> QED
    BY <1>0, <2>1, <2>3, ReleaseIsRelease
<1>3. CASE ReadWaiting(th) \/ CreateNode(th) \/ ExchangeHead(th) \/ SetNext(th)
             \/ SetNextAgain(th) \/ Recheck(th)
  <2>1. UNCHANGED <<waiting, given, taskVars>>
    BY <1>3 DEF ReadWaiting, CreateNode, ExchangeHead, SetNext, SetNextAgain, Recheck, members
  <2> QED
    BY <2>1 DEF taskVars, Gate!vars, DueReleases
<1> QED
  BY <1>1, <1>2, <1>3 DEF AddStep

LEMMA AnnounceImplements ==
  ASSUME GateInv, NEW th \in Thread, Announce(th)
  PROVE  (\E t \in Task : Gate!Tell(t) \/ Gate!Release(t)) \/ UNCHANGED Gate!vars
<1> USE Constants
<1>0. failed \in [Task -> Exception \cup {None}]
  BY DEF GateInv, ListInv, TypeOK
<1>1. CASE Visit(th)
  <2>1. /\ pc[th] = "loop" /\ node[th] # None /\ TellFailed(taskOf[node[th]], exception)
        /\ UNCHANGED <<waiting, given, refCount, unadded, spawned, runs>>
    BY <1>1 DEF Visit, members
  <2>2. ~waiting
    BY <2>1 DEF GateInv, ListInv, Phase
  <2>3. exception = given
    BY <2>2 DEF GateInv, Outcome
  <2>4. taskOf[node[th]] \in Task /\ DueReleases[taskOf[node[th]]] > 0
    BY <2>1, DueAtNode DEF GateInv
  <2> QED
    BY <1>0, <2>1, <2>3, <2>4, TellIsTell
<1>2. CASE ReleaseVisited(th)
  <2>1. /\ pc[th] = "release" /\ Release(adding[th])
        /\ UNCHANGED <<waiting, given, failed, unadded, runs>>
    BY <1>2 DEF ReleaseVisited, members
  <2>2. pc[th] \in Referring /\ adding[th] \in Task /\ ~waiting
        /\ (exception # None => failed[adding[th]] # None)
    BY <2>1 DEF Referring, GateInv, ListInv, Locals, Phase
  <2>3. exception = given
    BY <2>2 DEF GateInv, Outcome
  <2>4. failed' = [failed EXCEPT ![adding[th]] = IF @ = None THEN given ELSE @]
    BY <1>0, <2>1, <2>2, <2>3
  <2> QED
    BY <2>1, <2>2, <2>4, ReleaseIsRelease
<1>3. CASE TakeHead(th) \/ EndAnnounce(th)
  BY <1>3 DEF TakeHead, EndAnnounce, members, taskVars, Gate!vars, DueReleases
<1> QED
  BY <1>1, <1>2, <1>3 DEF Announce

(* What the owner does, and the execution of tasks. *)
LEMMA OwnerImplements ==
  ASSUME GateInv
  PROVE  /\ \A e \in Exception : Preset(e) => Gate!Decide(e)
         /\ PresetVisit => (\E t \in Task : Gate!Tell(t)) \/ UNCHANGED Gate!vars
         /\ \A e \in Exception \cup {None} :
              DoneWaiting(e) => (\E x \in Exception : Gate!Decide(x)) \/ UNCHANGED Gate!vars
         /\ Open => Gate!Open
         /\ \A t \in Task : Execute(t) => Gate!Run(t)
         /\ Reset => Gate!CloseAgain
<1> USE Constants
<1>0. UNCHANGED <<refCount, unadded>> => DueReleases' = DueReleases
  BY DEF DueReleases
<1>1. ASSUME NEW e \in Exception, Preset(e)
      PROVE  Gate!Decide(e)
  BY <1>0, <1>1 DEF Preset, members, taskVars, Gate!Decide
<1>2. ASSUME PresetVisit
      PROVE  (\E t \in Task : Gate!Tell(t)) \/ UNCHANGED Gate!vars
  <2>1. CASE node[Owner] = None
    BY <1>0, <1>2, <2>1 DEF PresetVisit, members, Gate!vars
  <2>2. CASE node[Owner] # None
    <3>1. /\ pc[Owner] = "preset" /\ TellFailed(taskOf[node[Owner]], given)
          /\ UNCHANGED <<waiting, given, refCount, unadded, spawned, runs>>
      BY <1>2, <2>2 DEF PresetVisit, members
    <3>2. taskOf[node[Owner]] \in Task /\ DueReleases[taskOf[node[Owner]]] > 0
      BY <2>2, <3>1, DueAtNode DEF GateInv
    <3>3. failed \in [Task -> Exception \cup {None}]
      BY DEF GateInv, ListInv, TypeOK
    <3> QED
      BY <3>1, <3>2, <3>3, TellIsTell
  <2> QED
    BY <2>1, <2>2
<1>3. ASSUME NEW e \in Exception \cup {None}, DoneWaiting(e)
      PROVE  (\E x \in Exception : Gate!Decide(x)) \/ UNCHANGED Gate!vars
  <2>1. /\ waiting /\ waiting' = waiting /\ given' = e /\ (given # None => e = given)
        /\ UNCHANGED taskVars
    BY <1>3 DEF DoneWaiting
  <2>2. DueReleases' = DueReleases
    BY <1>0, <2>1 DEF taskVars
  <2>3. CASE given = None /\ e # None
    BY <2>1, <2>2, <2>3 DEF Gate!Decide, taskVars
  <2>4. CASE e = given
    BY <2>1, <2>2, <2>4 DEF Gate!vars, taskVars
  <2> QED
    BY <2>1, <2>3, <2>4
<1>4. ASSUME Open
      PROVE  Gate!Open
  <2>1. pc[Owner] = "open" => waiting
    BY DEF GateInv, ListInv, Phase
  <2> QED
    BY <1>0, <1>4, <2>1 DEF Open, taskVars, Gate!Open
<1>5. ASSUME NEW t \in Task, Execute(t)
      PROVE  Gate!Run(t)
  BY <1>0, <1>5 DEF Execute, members, locals, Gate!Run
<1>6. ASSUME Reset
      PROVE  Gate!CloseAgain
  BY <1>0, <1>6 DEF Reset, ResetAllowed, taskVars, Gate!CloseAgain
<1> QED
  BY <1>1, <1>2, <1>3, <1>4, <1>5, <1>6

(* Every step is one of the gate, or nothing that can be seen of it. *)
LEMMA StepImplementsGate ==
  GateInv /\ [Next]_vars => [Gate!Next]_(Gate!vars)
<1> SUFFICES ASSUME GateInv, [Next]_vars
             PROVE  Gate!Next \/ UNCHANGED Gate!vars
  OBVIOUS
<1>1. ASSUME NEW th \in Adder, AddStep(th) \/ \E t \in Task : Add(th, t)
      PROVE  Gate!Next \/ UNCHANGED Gate!vars
  BY <1>1, AddImplements DEF Gate!Next
<1>2. ASSUME NEW th \in Thread, Announce(th)
      PROVE  Gate!Next \/ UNCHANGED Gate!vars
  BY <1>2, AnnounceImplements DEF Gate!Next
<1>3. CASE \/ (\E e \in Exception : Preset(e)) \/ PresetVisit
           \/ (\E e \in Exception \cup {None} : DoneWaiting(e)) \/ Open
           \/ (\E t \in Task : Execute(t)) \/ Reset
  BY <1>3, OwnerImplements DEF Gate!Next
<1>4. CASE UNCHANGED vars
  BY <1>4 DEF vars, Gate!vars, DueReleases
<1> QED
  BY <1>1, <1>2, <1>3, <1>4 DEF Next

LEMMA InitImplementsGate ==
  Init => GateInv /\ Gate!Init
<1> SUFFICES ASSUME Init
             PROVE  GateInv /\ Gate!Init
  OBVIOUS
<1> USE Constants
<1>1. Outcome
  BY DEF Init, Outcome
<1>2. DueReleases = [t \in Task |-> 0]
  BY DEF Init, DueReleases
<1> QED
  BY <1>1, <1>2, InitListInv DEF GateInv, Init, Gate!Init

(* The list implements the gate: its nodes, links and announcers, the      *)
(* second look at m_waiting and the preset of exceptions cannot be told    *)
(* from a gate that opens once a round.                                    *)
THEOREM ImplementsGate ==
  Spec => ImplementsTaskGate
<1>1. GateInv /\ [Next]_vars => GateInv'
  BY NextListInv, OutcomeStep DEF GateInv
<1> QED
  BY <1>1, InitImplementsGate, StepImplementsGate, PTL DEF Spec, ImplementsTaskGate, Gate!Spec
================================================================================
