---------------------------- MODULE AddOnlyContainer ----------------------------
(***************************************************************************)
(* ThreadSafeAddOnlyContainer: makeAndHold puts a new node in front of a   *)
(* singly linked list with a compare-exchange that it repeats until no     *)
(* other thread came first; the destructor follows the links and deletes.  *)
(***************************************************************************)
EXTENDS Naturals, Sequences, FiniteSets

CONSTANTS Maker,  \* threads that call makeAndHold
          Node,   \* the nodes that new may return
          NoNode  \* nullptr

ASSUME NodeAssumption == NoNode \notin Node

VARIABLES
  front_,
  next_,      \* of each node, NoNode for one not made
  expected,   \* local variables of each call
  newNode,
  step,       \* where each maker is in makeAndHold
  held,       \* history: the nodes whose address was returned
  walk,       \* the node pointer of the destructor
  destroyed,  \* "no", "walking" or "yes"
  deleted     \* the nodes deleted, in order

containerVars == <<front_, next_, expected, newNode, step, held, walk, destroyed, deleted>>

InitContainer ==
  /\ front_ = NoNode
  /\ next_ = [n \in Node |-> NoNode]
  /\ expected = [m \in Maker |-> NoNode]
  /\ newNode = [m \in Maker |-> NoNode]
  /\ step = [m \in Maker |-> "out"]
  /\ held = {}
  /\ walk = NoNode
  /\ destroyed = "no"
  /\ deleted = <<>>

Advance(m, from, to) == step[m] = from /\ step' = [step EXCEPT ![m] = to]

LoadFront(m) ==
  /\ destroyed = "no"
  /\ Advance(m, "out", "loaded")
  /\ expected' = [expected EXCEPT ![m] = front_]
  /\ UNCHANGED <<front_, next_, newNode, held, walk, destroyed, deleted>>

NewNode(m, n) ==
  /\ n \notin held
  /\ \A other \in Maker : newNode[other] # n
  /\ Advance(m, "loaded", "linked")
  /\ newNode' = [newNode EXCEPT ![m] = n]
  /\ next_' = [next_ EXCEPT ![n] = expected[m]]
  /\ UNCHANGED <<front_, expected, held, walk, destroyed, deleted>>

(* Mutant of Exchange: repeats it with the link of the first try. *)
ExchangeAgain(m) ==
  /\ \/ /\ front_ = expected[m]
        /\ Advance(m, "linked", "out")
        /\ front_' = newNode[m]
        /\ held' = held \cup {newNode[m]}
        /\ newNode' = [newNode EXCEPT ![m] = NoNode]
        /\ UNCHANGED expected
     \/ /\ front_ # expected[m]
        /\ Advance(m, "linked", "linked")
        /\ expected' = [expected EXCEPT ![m] = front_]
        /\ UNCHANGED <<front_, held, newNode>>
  /\ UNCHANGED <<next_, walk, destroyed, deleted>>

(* compare_exchange_strong: a failed one stores front_ in expected. *)
Exchange(m) ==
  /\ \/ /\ front_ = expected[m]
        /\ Advance(m, "linked", "out")
        /\ front_' = newNode[m]
        /\ held' = held \cup {newNode[m]}
        /\ newNode' = [newNode EXCEPT ![m] = NoNode]
        /\ UNCHANGED expected
     \/ /\ front_ # expected[m]
        /\ Advance(m, "linked", "failed")
        /\ expected' = [expected EXCEPT ![m] = front_]
        /\ UNCHANGED <<front_, held, newNode>>
  /\ UNCHANGED <<next_, walk, destroyed, deleted>>

SetNext(m) ==
  /\ Advance(m, "failed", "linked")
  /\ next_' = [next_ EXCEPT ![newNode[m]] = expected[m]]
  /\ UNCHANGED <<front_, expected, newNode, held, walk, destroyed, deleted>>

(* The destructor: nobody adds any more. *)
StartWalk ==
  /\ destroyed = "no"
  /\ \A m \in Maker : step[m] = "out"
  /\ destroyed' = "walking"
  /\ walk' = front_
  /\ UNCHANGED <<front_, next_, expected, newNode, step, held, deleted>>

DeleteNode ==
  /\ destroyed = "walking"
  /\ walk # NoNode
  /\ deleted' = Append(deleted, walk)
  /\ walk' = next_[walk]
  /\ UNCHANGED <<front_, next_, expected, newNode, step, held, destroyed>>

EndWalk ==
  /\ destroyed = "walking"
  /\ walk = NoNode
  /\ destroyed' = "yes"
  /\ UNCHANGED <<front_, next_, expected, newNode, step, held, walk, deleted>>

NextContainer ==
  \/ \E m \in Maker : \/ LoadFront(m) \/ \E n \in Node : NewNode(m, n)
                      \/ Exchange(m) \/ SetNext(m)
  \/ StartWalk \/ DeleteNode \/ EndWalk

ContainerSpec == InitContainer /\ [][NextContainer]_containerVars

----------------------------------------------------------------------------
WasDeleted(n) == \E i \in DOMAIN deleted : deleted[i] = n

(* Every object whose address makeAndHold returned lives until the         *)
(* destructor, which deletes it, and deletes nothing twice, although other *)
(* threads changed front_ between the load and the exchange.               *)
DeletedOnce ==
  /\ \A i, j \in DOMAIN deleted : deleted[i] = deleted[j] => i = j
  /\ \A n \in Node : WasDeleted(n) => n \in held
  /\ destroyed = "yes" => \A n \in held : WasDeleted(n)
=============================================================================
