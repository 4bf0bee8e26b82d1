----------------------------- MODULE DecisionGraph -----------------------------
(***************************************************************************)
(* The decision graph of src/ControlFlow.  Leaves decide GO, SKIP or       *)
(* EXCEPTION in tasks of their own; and/or nodes ask their left child,     *)
(* then the right one unless the left decides alone, and answer all of     *)
(* their requestors; StartDecisionGraph asks the nodes on top.  A node all *)
(* of whose requestors told it NO_REQUEST_COMING will not run.             *)
(*                                                                         *)
(* The program is sequential here ("if this were a threaded program",      *)
(* BinaryDecisionNode.cc): one task at a time, in any order, and the calls *)
(* it makes run to completion.  They are kept in the line `calls': every   *)
(* handler first changes its node and then calls others, so it is one      *)
(* action that replaces its own call by the calls it makes.  The leaves    *)
(* are the DummyDecisionNode of the tests.                                 *)
(***************************************************************************)
EXTENDS Naturals, Sequences, FiniteSets

CONSTANTS Graphs,   \* the graphs that are considered
          Rounds    \* bound on the number of transitions

Decision == {"GO", "SKIP", "EXCEPTION"}
NONE == "NOT_STARTED"           \* ControlFlowStatus::NOT_STARTED
Start == 0

(* Nodes are numbered in the order of construction, so children come first. *)
IsGraph(g) ==
  LET Nodes == DOMAIN g.kind IN
  /\ g.kind \in Seq({"leaf", "and", "or"})
  /\ DOMAIN g.left = Nodes /\ DOMAIN g.right = Nodes
  /\ \A n \in Nodes :
       g.kind[n] # "leaf" => g.left[n] \in 1..(n - 1) /\ g.right[n] \in 1..(n - 1)
  /\ g.tops \in Seq(Nodes)

ASSUME GraphAssumption ==
  /\ \A g \in Graphs : IsGraph(g)
  /\ Rounds \in Nat \ {0}

VARIABLES
  graph,      \* the graph of this run
  verdict,    \* what each leaf decides: status_ of DummyDecisionNode
  status,     \* runStatus_
  notRun,     \* willNotRunRequests_
  answers,    \* decisionsFromComposites_
  left,       \* leftDecision_
  right,      \* rightDecision_
  pending,    \* leaves whose task waits in the group
  calls,      \* the calls in progress, innermost first
  finished,   \* finishedLeafNodes_ of the start
  started,    \* startAsync was called in this transition
  round,      \* transitions begun, bounded by Rounds
  sent        \* the decisions each node sent in this transition

vars == <<graph, verdict, status, notRun, answers, left, right, pending, calls,
          finished, started, round, sent>>

Node == DOMAIN graph.kind
IsLeaf(n) == graph.kind[n] = "leaf"
Left(n) == graph.left[n]
Right(n) == graph.right[n]

(* The two operands of every node, in the order of construction. *)
Parent(i) == (i + 1) \div 2
Operand(i) == IF i % 2 = 1 THEN Left(Parent(i)) ELSE Right(Parent(i))
OperandsThatAre(n) ==
  {i \in 1..(2 * Len(graph.kind)) : ~IsLeaf(Parent(i)) /\ Operand(i) = n}

(* The numbers in S from 1 to k, in their order. *)
Ascending(S, k) ==
  LET upTo[i \in 0..k] ==
        IF i = 0 THEN << >>
        ELSE IF i \in S THEN Append(upTo[i - 1], i) ELSE upTo[i - 1]
  IN upTo[k]

(* requestors_: every node that has n as a child, once for each side, in   *)
(* the order of construction; the start adds itself when all is built.     *)
Requestors(n) ==
  LET parents == Ascending(OperandsThatAre(n), 2 * Len(graph.kind))
  IN  [i \in 1..Len(parents) |-> Parent(parents[i])]
        \o [i \in 1..Cardinality({i \in DOMAIN graph.tops : graph.tops[i] = n}) |-> Start]

Init ==
  /\ graph \in Graphs
  /\ verdict \in [{n \in Node : IsLeaf(n)} -> Decision]
  /\ status = [n \in Node |-> "NOT_STARTED"]
  /\ notRun = [n \in Node |-> 0]
  /\ answers = [n \in Node |-> 0]
  /\ left = [n \in Node |-> NONE]
  /\ right = [n \in Node |-> NONE]
  /\ pending = {}
  /\ calls = << >>
  /\ finished = 0
  /\ started = FALSE
  /\ round = 1
  /\ sent = [n \in Node |-> << >>]

(* A call to node `to' by `from': requestDecisionAsync with a RequestState *)
(* or decisionFromNodeAsync with a ControlFlowStatus.                      *)
Call(from, to, what) == [from |-> from, to |-> to, what |-> what]

Current(what) == calls # << >> /\ Head(calls).what = what

SetStatus(n, s) == status' = [status EXCEPT ![n] = s]

(* Mutant of Answers: the last requestor of the list is left out. *)
AnswersAllButLast(n, d) ==
  [i \in 1..(Len(Requestors(n)) - 1) |-> Call(n, Requestors(n)[i], d)]

(* The calls of sendDecisionToRequestorsAsync_. *)
Answers(n, d) ==
  [i \in 1..Len(Requestors(n)) |-> Call(n, Requestors(n)[i], d)]

(* sendDecisionToRequestorsAsync_, then the calls `after' it. *)
Send(n, d, after) ==
  /\ SetStatus(n, IF status[n] = "WILL_NOT_RUN" THEN status[n] ELSE "COMPLETED")
  /\ sent' = [sent EXCEPT ![n] = Append(@, d)]
  /\ calls' = Answers(n, d) \o after

----------------------------------------------------------------------------
(* The logic of the nodes                                                  *)

(* Mutant of ShortCircuit: an or node stops at SKIP as an and node does. *)
ShortCircuitAlwaysAnd(n, d) ==
  IF d \in {"EXCEPTION", "SKIP"} THEN d ELSE NONE

AndShortCircuit(d) == IF d \in {"EXCEPTION", "SKIP"} THEN d ELSE NONE
OrShortCircuit(d) == IF d \in {"EXCEPTION", "GO"} THEN d ELSE NONE

(* The decision one child settles, if it does. *)
ShortCircuit(n, d) ==
  IF graph.kind[n] = "and" THEN AndShortCircuit(d) ELSE OrShortCircuit(d)

(* Mutant of FullDecision: exceptions are not looked at first. *)
FullDecisionWithoutException(n, l, r) ==
  IF graph.kind[n] = "and"
  THEN IF l = "GO" /\ r = "GO" THEN "GO" ELSE "SKIP"
  ELSE IF l = "GO" \/ r = "GO" THEN "GO" ELSE "SKIP"

AndDecision(l, r) ==
  CASE "EXCEPTION" \in {l, r} -> "EXCEPTION"
    [] {l, r} = {"GO"} -> "GO"
    [] OTHER -> "SKIP"

OrDecision(l, r) ==
  CASE "EXCEPTION" \in {l, r} -> "EXCEPTION"
    [] "EXCEPTION" \notin {l, r} /\ "GO" \in {l, r} -> "GO"
    [] OTHER -> "SKIP"

FullDecision(n, l, r) ==
  IF graph.kind[n] = "and" THEN AndDecision(l, r) ELSE OrDecision(l, r)

----------------------------------------------------------------------------
(* StartDecisionGraph                                                      *)

StartAsync ==
  /\ ~started
  /\ started' = TRUE
  /\ calls' = [i \in 1..Len(graph.tops) |->
                 Call(Start, graph.tops[i], "REQUEST_DECISION")]
  /\ UNCHANGED <<graph, verdict, status, notRun, answers, left, right, pending,
                 finished, round, sent>>

LeafFinished ==
  /\ \E d \in Decision : Current(d)
  /\ Head(calls).to = Start
  /\ finished' = finished + 1
  /\ calls' = Tail(calls)
  /\ UNCHANGED <<graph, verdict, status, notRun, answers, left, right, pending,
                 started, round, sent>>

----------------------------------------------------------------------------
(* requestDecisionAsync with makeDecisionAsync_ of the leaf and of the     *)
(* binary nodes                                                            *)

RequestDecision ==
  LET n == Head(calls).to IN
  /\ Current("REQUEST_DECISION")
  /\ status[n] = "NOT_STARTED"
  /\ IF IsLeaf(n)
     THEN /\ SetStatus(n, "SHOULD_RUN")
          /\ pending' = pending \cup {n}
          /\ calls' = Tail(calls)
     ELSE /\ SetStatus(n, "IN_PROGRESS")
          /\ calls' = <<Call(n, Left(n), "REQUEST_DECISION")>> \o Tail(calls)
          /\ UNCHANGED pending
  /\ UNCHANGED <<graph, verdict, notRun, answers, left, right, finished, started,
                 round, sent>>

(* Mutant of Refuse: one refusal is enough. *)
RefuseAtOnce ==
  LET n == Head(calls).to IN
  /\ Current("NO_REQUEST_COMING")
  /\ status[n] = "NOT_STARTED"
  /\ notRun' = [notRun EXCEPT ![n] = @ + 1]
  /\ IF IsLeaf(n)
     THEN SetStatus(n, "WILL_NOT_RUN") /\ calls' = Tail(calls)
     ELSE /\ SetStatus(n, "IN_PROGRESS")
          /\ calls' = <<Call(n, Left(n), "NO_REQUEST_COMING"),
                        Call(n, Right(n), "NO_REQUEST_COMING")>> \o Tail(calls)
  /\ UNCHANGED <<graph, verdict, answers, left, right, pending, finished,
                 started, round, sent>>

(* A requestor will not ask: with the last of them the node will not run   *)
(* and tells its children.  A binary node calls                            *)
(* setInProgressForDiagnostics in this case too.                           *)
Refuse ==
  LET n == Head(calls).to IN
  /\ Current("NO_REQUEST_COMING")
  /\ status[n] = "NOT_STARTED"
  /\ notRun' = [notRun EXCEPT ![n] = @ + 1]
  /\ \/ /\ notRun'[n] # Len(Requestors(n))
        /\ calls' = Tail(calls)
        /\ UNCHANGED status
     \/ /\ notRun'[n] = Len(Requestors(n))
        /\ IsLeaf(n)
        /\ SetStatus(n, "WILL_NOT_RUN")
        /\ calls' = Tail(calls)
     \/ /\ notRun'[n] = Len(Requestors(n))
        /\ ~IsLeaf(n)
        /\ SetStatus(n, "IN_PROGRESS")
        /\ calls' = <<Call(n, Left(n), "NO_REQUEST_COMING"),
                      Call(n, Right(n), "NO_REQUEST_COMING")>> \o Tail(calls)
  /\ UNCHANGED <<graph, verdict, answers, left, right, pending, finished,
                 started, round, sent>>

(* Either request finds a node that was started before. *)
RequestIgnored ==
  /\ Current("REQUEST_DECISION") \/ Current("NO_REQUEST_COMING")
  /\ status[Head(calls).to] # "NOT_STARTED"
  /\ calls' = Tail(calls)
  /\ UNCHANGED <<graph, verdict, status, notRun, answers, left, right, pending,
                 finished, started, round, sent>>

(* The task of a leaf; it waits for the calls of other tasks to return.    *)
LeafRuns(n) ==
  /\ calls = << >>
  /\ n \in pending
  /\ pending' = pending \ {n}
  /\ Send(n, verdict[n], << >>)
  /\ UNCHANGED <<graph, verdict, notRun, answers, left, right, finished, started,
                 round>>

----------------------------------------------------------------------------
(* decisionFromNodeAsync of the binary nodes                               *)

(* Mutant of Continue: forgets to tell the right child it is not needed. *)
ContinueWithoutRefusal(n, m, d) ==
  \/ /\ answers'[n] = 2
     /\ Send(n, FullDecision(n, left'[n], right'[n]), Tail(calls))
  \/ /\ answers'[n] # 2
     /\ ShortCircuit(n, d) # NONE
     /\ Send(n, ShortCircuit(n, d), Tail(calls))
  \/ /\ answers'[n] # 2
     /\ ShortCircuit(n, d) = NONE
     /\ calls' = IF m = Left(n)
                 THEN <<Call(n, Right(n), "REQUEST_DECISION")>> \o Tail(calls)
                 ELSE Tail(calls)
     /\ UNCHANGED <<status, sent>>

(* What a node in progress does with the decision d of its child m. *)
Continue(n, m, d) ==
  \/ (* both children have decided *)
     /\ answers'[n] = 2
     /\ Send(n, FullDecision(n, left'[n], right'[n]), Tail(calls))
  \/ (* the left child settles it *)
     /\ answers'[n] # 2
     /\ m = Left(n)
     /\ ShortCircuit(n, d) # NONE
     /\ Send(n, ShortCircuit(n, d),
             <<Call(n, Right(n), "NO_REQUEST_COMING")>> \o Tail(calls))
  \/ (* the right child is needed too *)
     /\ answers'[n] # 2
     /\ m = Left(n)
     /\ ShortCircuit(n, d) = NONE
     /\ calls' = <<Call(n, Right(n), "REQUEST_DECISION")>> \o Tail(calls)
     /\ UNCHANGED <<status, sent>>
  \/ (* the right child, asked by another node, settles it first *)
     /\ answers'[n] # 2
     /\ m # Left(n)
     /\ ShortCircuit(n, d) # NONE
     /\ Send(n, ShortCircuit(n, d), Tail(calls))
  \/ /\ answers'[n] # 2
     /\ m # Left(n)
     /\ ShortCircuit(n, d) = NONE
     /\ calls' = Tail(calls)
     /\ UNCHANGED <<status, sent>>

DecisionFromNode(d) ==
  LET n == Head(calls).to
      m == Head(calls).from
  IN
  /\ Current(d)
  /\ n # Start
  /\ left' = IF m = Left(n) THEN [left EXCEPT ![n] = d] ELSE left
  /\ right' = IF m = Left(n) THEN right ELSE [right EXCEPT ![n] = d]
  /\ answers' = [answers EXCEPT ![n] = @ + 1]
  /\ \/ status[n] = "IN_PROGRESS" /\ Continue(n, m, d)
     \/ /\ status[n] # "IN_PROGRESS"
        /\ calls' = Tail(calls)
        /\ UNCHANGED <<status, sent>>
  /\ UNCHANGED <<graph, verdict, notRun, pending, finished, started, round>>

----------------------------------------------------------------------------
(* Nothing is left to run: the task given to startAsync is released. *)
Quiet == started /\ calls = << >> /\ pending = {}

(* Mutant of ResetForNewTransition: does not reset runStatus_. *)
ResetKeepsStatus ==
  /\ Quiet
  /\ round < Rounds
  /\ round' = round + 1
  /\ started' = FALSE
  /\ notRun' = [n \in Node |-> 0]
  /\ sent' = [n \in Node |-> << >>]
  /\ UNCHANGED <<graph, verdict, status, answers, left, right, pending, calls,
                 finished>>

(* resetForNewTransition of every node. *)
ResetForNewTransition ==
  /\ Quiet
  /\ round < Rounds
  /\ round' = round + 1
  /\ started' = FALSE
  /\ status' = [n \in Node |-> IF Requestors(n) = << >> THEN "SHOULD_RUN"
                               ELSE "NOT_STARTED"]
  /\ notRun' = [n \in Node |-> 0]
  /\ sent' = [n \in Node |-> << >>]
  /\ UNCHANGED <<graph, verdict, answers, left, right, pending, calls, finished>>

Handler ==
  \/ StartAsync \/ LeafFinished
  \/ RequestDecision \/ Refuse \/ RequestIgnored
  \/ \E n \in Node : LeafRuns(n)
  \/ \E d \in Decision : DecisionFromNode(d)

Next == Handler \/ ResetForNewTransition

Spec == Init /\ [][Next]_vars

(* The tasks in the group are executed and calls return. *)
FairSpec == Spec /\ WF_vars(Handler)

----------------------------------------------------------------------------
(* Reference definitions                                                   *)

(* The decision of all children that makes it the decision of the node;    *)
(* any other one of the left child settles it alone.                       *)
Unanimous(n) == IF graph.kind[n] = "and" THEN "GO" ELSE "SKIP"

(* The formula of a node over the verdicts of the leaves, the left operand *)
(* first.                                                                  *)
Value[n \in Node] ==
  IF IsLeaf(n) THEN verdict[n]
  ELSE IF Value[Left(n)] = Unanimous(n) THEN Value[Right(n)] ELSE Value[Left(n)]

IsTop(n) == \E i \in 1..Len(graph.tops) : graph.tops[i] = n

(* Whether an evaluation from the top, left to right, comes to a node. *)
Needed[n \in Node] ==
  \/ IsTop(n)
  \/ \E p \in Node :
       /\ ~IsLeaf(p)
       /\ n \in {Left(p), Right(p)}
       /\ Needed[p]
       /\ n = Left(p) \/ Value[Left(p)] = Unanimous(p)

FirstLeaf[n \in Node] == IF IsLeaf(n) THEN n ELSE FirstLeaf[Left(n)]

----------------------------------------------------------------------------
TypeOK ==
  /\ status \in [Node -> {"NOT_STARTED", "IN_PROGRESS", "COMPLETED",
                         "WILL_NOT_RUN", "SHOULD_RUN"}]
  /\ notRun \in [Node -> Nat]
  /\ answers \in [Node -> Nat]
  /\ left \in [Node -> Decision \cup {NONE}]
  /\ right \in [Node -> Decision \cup {NONE}]
  /\ pending \subseteq {n \in Node : IsLeaf(n)}
  /\ \A i \in 1..Len(calls) :
       /\ calls[i].from \in Node \cup {Start}
       /\ calls[i].to \in Node \cup {Start}
       /\ calls[i].to = Start => calls[i].what \in Decision
       /\ calls[i].to \in Node /\ IsLeaf(calls[i].to)
            => calls[i].what \in {"REQUEST_DECISION", "NO_REQUEST_COMING"}
  /\ sent \in [Node -> Seq(Decision)]

(* A graph without sharing, in the transition it was built for: the ones   *)
(* after it do not find the binary nodes as they were (see AllGoMeansGo).  *)
FreshTree == round = 1 /\ \A n \in Node : Len(Requestors(n)) = 1

(* In a tree a node that decides decides the value of its formula over all *)
(* the leaves below it, and says so once.                                  *)
DecidesItsFormula ==
  FreshTree => \A n \in Node : sent[n] # << >> => sent[n] = <<Value[n]>>

(* When the task of the transition is released everything is settled: the  *)
(* start heard from all tops, the nodes an evaluation of the formulas      *)
(* comes to have decided, no others have, and the leaves not needed know.  *)
RunsWhatIsNeeded ==
  FreshTree /\ Quiet =>
    /\ finished = Len(graph.tops)
    /\ \A n \in Node : /\ Needed[n] <=> sent[n] # << >>
                       /\ IsLeaf(n) /\ ~Needed[n] => status[n] = "WILL_NOT_RUN"

(* Handlers calling each other come to an end, with an answer for the      *)
(* start from each of its nodes.                                           *)
TopsAnswered ==
  <>(\A i \in 1..Len(graph.tops) : sent[graph.tops[i]] # << >>)

SaidBy(n, d) == \E m \in {Left(n), Right(n)} : sent[m] = <<d>>

(* With shared children too, whichever of them answers first, the decision *)
(* of a node has its cause in the children's.  (A node that is given twice *)
(* to an and node would count as its left operand both times.)             *)
DecisionHasCause ==
  \A n \in Node :
    ~IsLeaf(n) /\ Left(n) # Right(n) /\ round = 1 /\ sent[n] # << >> =>
      IF sent[n] = <<Unanimous(n)>>
      THEN sent[Left(n)] = sent[n] /\ sent[Right(n)] = sent[n]
      ELSE SaidBy(n, sent[n][1])

(* Only the operands of nodes on top are shared: the start asks these      *)
(* before any task runs, so none of them hears from an operand too early.  *)
SharesBelowTops ==
  \A p \in Node : ~IsLeaf(p) =>
    /\ Left(p) # Right(p)
    /\ \A n \in {Left(p), Right(p)} : Len(Requestors(n)) = 1 \/ IsTop(p)

(* Whoever is left waiting: when the task is released every node that was  *)
(* asked has answered, or its requestor would never go on.                 *)
AskedMeansAnswered ==
  round = 1 /\ Quiet /\ SharesBelowTops =>
    \A n \in Node :
      /\ status[n] \in {"SHOULD_RUN", "IN_PROGRESS"}
      /\ notRun[n] < Len(Requestors(n))
      => sent[n] # << >>

(* A graph can be used again: in every transition the first leaf of each   *)
(* tree decides, once, and no node answers twice.                          *)
StartsAnew ==
  /\ \A n \in Node : Len(sent[n]) <= 1
  /\ Quiet => \A i \in 1..Len(graph.tops) :
                LET n == FirstLeaf[graph.tops[i]] IN sent[n] = <<verdict[n]>>

----------------------------------------------------------------------------
(* AndDecisionNode.h: "The decision is GO if all requestors decide GO."    *)
(* In the second transition over a graph the code does not keep it.        *)
AllGoMeansGo ==
  Quiet =>
    \A n \in Node :
      /\ graph.kind[n] = "and"
      /\ status[n] \in {"IN_PROGRESS", "COMPLETED"}
      /\ sent[Left(n)] = <<"GO">>
      /\ sent[Right(n)] = <<"GO">>
      => sent[n] = <<"GO">>
=============================================================================
