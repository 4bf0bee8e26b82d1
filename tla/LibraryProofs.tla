------------------------------ MODULE LibraryProofs ------------------------------
(***************************************************************************)
(* Proofs about the small classes of the library: for any writers and      *)
(* messages the file of an output stream has the messages in the order of  *)
(* the calls, and all of them when it is closed; for any threads and nodes *)
(* the nodes whose address the add-only container returned are, in some    *)
(* order, the linked list, each of which the destructor deletes once; for  *)
(* any fragments the messages of exceptions keep the text they were told;  *)
(* for any records, products and processes a look-up finds the product it  *)
(* asks for, and without a process name the one of the preferred process.  *)
(***************************************************************************)
EXTENDS OutputFileStream, AddOnlyContainer, ExceptionText, ProductLookup, SequenceTheorems,
        FiniteSetTheorems, WellFoundedInduction, TLAPS

----------------------------------------------------------------------------
(* The output stream                                                       *)

(* What has been said is what is in the file, then the message in the hand *)
(* of the writer that logs, if there is one, and then the queue.           *)
(* The next two facts move a message from one of these parts to another.   *)
LEMMA PopMoves ==
  ASSUME NEW f \in Seq(Message), NEW q \in Seq(Message), q # <<>>
  PROVE  /\ Head(q) \in Message
         /\ Tail(q) \in Seq(Message)
         /\ f \o q = Append(f, Head(q)) \o Tail(q)
<1>1. Head(q) \in Message /\ Tail(q) \in Seq(Message)
  BY HeadTailProperties
<1>2. q = <<Head(q)>> \o Tail(q)
  BY <1>1, HeadTailProperties, ConcatProperties, SeqEqual
<1>3. Append(f, Head(q)) = f \o <<Head(q)>>
  BY <1>1, AppendIsConcat
<1>4. <<Head(q)>> \in Seq(Message)
  BY <1>1
<1>5. (f \o <<Head(q)>>) \o Tail(q) = f \o (<<Head(q)>> \o Tail(q))
  BY <1>1, <1>4, ConcatAssociative
<1> QED
  BY <1>1, <1>2, <1>3, <1>5

LEMMA PushAppends ==
  ASSUME NEW f \in Seq(Message), NEW q \in Seq(Message), NEW m \in Message
  PROVE  Append(f \o q, m) = f \o Append(q, m)
<1>1. f \o q \in Seq(Message) /\ <<m>> \in Seq(Message)
  BY ConcatProperties
<1>2. Append(f \o q, m) = (f \o q) \o <<m>>
  BY <1>1, AppendIsConcat
<1>3. Append(q, m) = q \o <<m>>
  BY AppendIsConcat
<1>4. (f \o q) \o <<m>> = f \o (q \o <<m>>)
  BY <1>1, ConcatAssociative
<1> QED
  BY <1>2, <1>3, <1>4

----------------------------------------------------------------------------
LEMMA StreamInit == InitStream => StreamIInv
<1> SUFFICES ASSUME InitStream PROVE StreamIInv
  OBVIOUS
<1>1. StreamTypeOK
  <2>1. <<>> \in Seq(Message)
    BY EmptySeq
  <2> QED
    BY <2>1 DEF InitStream, StreamTypeOK
<1>2. InHand = {}
  BY WriterAssumption DEF InitStream, InHand
<1>3. said = file_ \o waitingMessages_
  BY EmptySeq, ConcatEmptySeq DEF InitStream
<1>4. WrittenInOrder
  BY <1>2, <1>3 DEF WrittenInOrder, InitStream, Logs
<1> QED
  BY <1>1, <1>4 DEF StreamIInv, InitStream, Logs

(* The hand of the only writer that logs is the hand of all. *)
LEMMA HandOfLogger ==
  ASSUME StreamIInv, NEW w \in Writer, Logs(w)
  PROVE  /\ at[w] # "popped" => InHand = {} /\ said = file_ \o waitingMessages_
         /\ at[w] = "popped" =>
               /\ InHand = {tmp[w]}
               /\ tmp[w] \in Message
               /\ said = Append(file_, tmp[w]) \o waitingMessages_
<1>1. \A v \in Writer : v # w => tmp[v] = NoMessage
  BY DEF StreamIInv, WrittenInOrder, Logs
<1>2. tmp[w] \in Message \cup {NoMessage}
  BY DEF StreamIInv, StreamTypeOK
<1>3. CASE at[w] # "popped"
  <2>1. tmp[w] = NoMessage
    BY <1>3 DEF StreamIInv
  <2>2. InHand = {}
    BY <2>1, <1>1, WriterAssumption DEF InHand
  <2>3. said = file_ \o waitingMessages_
    BY <2>2 DEF StreamIInv, WrittenInOrder
  <2> QED
    BY <1>3, <2>2, <2>3
<1>4. CASE at[w] = "popped"
  <2>1. tmp[w] \in Message
    BY <1>2, <1>4 DEF StreamIInv
  <2>2. InHand = {tmp[w]}
    BY <2>1, <1>1, WriterAssumption DEF InHand
  <2>3. PICK m \in Message : InHand = {m} /\ said = Append(file_, m) \o waitingMessages_
    BY <2>2 DEF StreamIInv, WrittenInOrder
  <2>4. m = tmp[w]
    BY <2>2, <2>3
  <2> QED
    BY <1>4, <2>1, <2>2, <2>3, <2>4
<1> QED
  BY <1>3, <1>4

(* A step that neither pops nor inserts leaves the hand as it is. *)
LEMMA SameHand == ASSUME tmp' = tmp PROVE InHand' = InHand
BY DEF InHand

LEMMA KeptByWrite ==
  ASSUME StreamIInv, NEW w \in Writer, NEW m \in Message, Write(w, m)
  PROVE  StreamIInv'
<1> USE DEF Write, Move, Logs
<1>1. StreamTypeOK'
  BY AppendProperties DEF StreamIInv, StreamTypeOK
<1>2. InHand' = InHand
  BY SameHand
<1>3. file_ \in Seq(Message) /\ waitingMessages_ \in Seq(Message)
  BY DEF StreamIInv, StreamTypeOK
<1>4. CASE InHand = {} /\ said = file_ \o waitingMessages_
  <2>1. said' = file_' \o waitingMessages_'
    BY <1>3, <1>4, PushAppends
  <2> QED
    BY <1>1, <1>2, <1>4, <2>1 DEF StreamIInv, StreamTypeOK, WrittenInOrder
<1>5. ASSUME NEW t \in Message, InHand = {t}, said = Append(file_, t) \o waitingMessages_
      PROVE  StreamIInv'
  <2>1. Append(file_, t) \in Seq(Message)
    BY <1>3, AppendProperties
  <2>2. said' = Append(file_', t) \o waitingMessages_'
    BY <1>3, <1>5, <2>1, PushAppends
  <2> QED
    BY <1>1, <1>2, <1>5, <2>2 DEF StreamIInv, StreamTypeOK, WrittenInOrder
<1> QED
  BY <1>4, <1>5 DEF StreamIInv, WrittenInOrder

LEMMA KeptByTakeOver ==
  ASSUME StreamIInv, NEW w \in Writer, TakeOver(w)
  PROVE  StreamIInv'
<1> USE DEF TakeOver, Move, Logs
<1>1. StreamTypeOK'
  BY DEF StreamIInv, StreamTypeOK
<1>2. InHand' = InHand
  BY SameHand
<1>3. \A v, x \in Writer : (Logs(v) /\ Logs(x) => v = x)'
  BY DEF StreamIInv, StreamTypeOK, WrittenInOrder
<1>4. WrittenInOrder'
  BY <1>2, <1>3 DEF StreamIInv, WrittenInOrder
<1> QED
  BY <1>1, <1>4 DEF StreamIInv, StreamTypeOK

LEMMA KeptByTryPop ==
  ASSUME StreamIInv, NEW w \in Writer, TryPop(w)
  PROVE  StreamIInv'
<1> USE DEF TryPop, Move, Logs
<1> DEFINE m == Head(waitingMessages_)
<1>1. file_ \in Seq(Message) /\ waitingMessages_ \in Seq(Message)
  BY DEF StreamIInv, StreamTypeOK
<1>2. /\ m \in Message
      /\ waitingMessages_' \in Seq(Message)
      /\ file_ \o waitingMessages_ = Append(file_, m) \o waitingMessages_'
  BY <1>1, PopMoves
<1> HIDE DEF m
<1>3. StreamTypeOK'
  BY <1>2 DEF StreamIInv, StreamTypeOK, m
<1>4. InHand = {} /\ said = file_ \o waitingMessages_
  BY HandOfLogger
<1>5. tmp' = [tmp EXCEPT ![w] = m]
  BY DEF m
<1>6. InHand' = {m}
  BY <1>2, <1>4, <1>5, WriterAssumption DEF InHand, StreamIInv, StreamTypeOK
<1>7. said' = Append(file_', m) \o waitingMessages_'
  BY <1>2, <1>4
<1>8. \A v, x \in Writer : (Logs(v) /\ Logs(x) => v = x)'
  BY DEF StreamIInv, StreamTypeOK, WrittenInOrder
<1>9. WrittenInOrder'
  BY <1>2, <1>6, <1>7, <1>8 DEF WrittenInOrder
<1>10. \A v \in Writer : (at[v] = "popped" <=> tmp[v] # NoMessage)'
  BY <1>2, <1>5, WriterAssumption DEF StreamIInv, StreamTypeOK
<1> QED
  BY <1>3, <1>9, <1>10 DEF StreamIInv, StreamTypeOK

LEMMA KeptByLog ==
  ASSUME StreamIInv, NEW w \in Writer, Log(w)
  PROVE  StreamIInv'
<1> USE DEF Log, Move, Logs
<1>1. InHand = {tmp[w]} /\ tmp[w] \in Message /\ said = Append(file_, tmp[w]) \o waitingMessages_
  BY HandOfLogger
<1>2. StreamTypeOK'
  BY <1>1, AppendProperties DEF StreamIInv, StreamTypeOK
<1>3. \A v \in Writer : v # w => tmp[v] = NoMessage
  BY DEF StreamIInv, WrittenInOrder
<1>4. InHand' = {}
  BY <1>3, WriterAssumption DEF InHand, StreamIInv, StreamTypeOK
<1>5. \A v, x \in Writer : (Logs(v) /\ Logs(x) => v = x)'
  BY DEF StreamIInv, StreamTypeOK, WrittenInOrder
<1>6. WrittenInOrder'
  BY <1>1, <1>4, <1>5 DEF WrittenInOrder
<1> QED
  BY <1>2, <1>3, <1>6 DEF StreamIInv, StreamTypeOK

LEMMA KeptByFindEmpty ==
  ASSUME StreamIInv, NEW w \in Writer, FindEmpty(w)
  PROVE  StreamIInv'
<1> USE DEF FindEmpty, Move, Logs
<1>1. StreamTypeOK'
  BY DEF StreamIInv, StreamTypeOK
<1>2. InHand' = InHand
  BY SameHand
<1>3. WrittenInOrder'
  BY <1>2 DEF StreamIInv, StreamTypeOK, WrittenInOrder
<1> QED
  BY <1>1, <1>3 DEF StreamIInv, StreamTypeOK

(* The flag that is cleared is the writer's own: nobody else logs. *)
LEMMA KeptByStoreFalse ==
  ASSUME StreamIInv, NEW w \in Writer, StoreFalse(w)
  PROVE  StreamIInv'
<1> USE DEF StoreFalse, Move, Logs
<1>1. StreamTypeOK'
  BY DEF StreamIInv, StreamTypeOK
<1>2. InHand' = InHand
  BY SameHand
<1>3. \A v \in Writer : Logs(v)' => FALSE
  BY DEF StreamIInv, StreamTypeOK, WrittenInOrder
<1>4. WrittenInOrder'
  BY <1>2, <1>3 DEF StreamIInv, WrittenInOrder
<1> QED
  BY <1>1, <1>3, <1>4 DEF StreamIInv, StreamTypeOK

LEMMA KeptByClose ==
  ASSUME StreamIInv, Close
  PROVE  StreamIInv'
<1> USE DEF Close, Logs
<1>1. file_ \in Seq(Message) /\ waitingMessages_ \in Seq(Message)
  BY DEF StreamIInv, StreamTypeOK
<1>2. StreamTypeOK'
  BY <1>1, ConcatProperties, EmptySeq DEF StreamIInv, StreamTypeOK
<1>3. InHand = {}
  BY WriterAssumption DEF StreamIInv, InHand
<1>4. said = file_ \o waitingMessages_
  BY <1>3 DEF StreamIInv, WrittenInOrder
<1>5. said' = file_' \o waitingMessages_'
  BY <1>1, <1>4, ConcatProperties, ConcatEmptySeq
<1>6. InHand' = {}
  BY <1>3, SameHand
<1> QED
  BY <1>2, <1>5, <1>6 DEF StreamIInv, WrittenInOrder

LEMMA StreamKept ==
  ASSUME StreamIInv, UNCHANGED streamVars
  PROVE  StreamIInv'
<1>1. InHand' = InHand
  BY SameHand DEF streamVars
<1>2. WrittenInOrder'
  BY <1>1 DEF StreamIInv, WrittenInOrder, Logs, streamVars
<1> QED
  BY <1>2 DEF StreamIInv, StreamTypeOK, Logs, streamVars

----------------------------------------------------------------------------
(* The inductive invariant of the stream: types, the flag set while        *)
(* somebody logs, a message in the hand between pop and insertion, nothing *)
(* in progress once closed, and the order of the messages.                 *)
THEOREM StreamInvariance == StreamSpec => []StreamIInv
<1>1. StreamIInv /\ [NextStream]_streamVars => StreamIInv'
  BY KeptByWrite, KeptByTakeOver, KeptByTryPop, KeptByLog, KeptByFindEmpty, KeptByStoreFalse,
     KeptByClose, StreamKept DEF NextStream
<1> QED
  BY <1>1, StreamInit, PTL DEF StreamSpec

(* One writer at a time uses the file, and it writes the messages in the   *)
(* order in which they were pushed.                                        *)
THEOREM FileInOrder == StreamSpec => []WrittenInOrder
<1>1. StreamIInv => WrittenInOrder
  BY DEF StreamIInv
<1> QED
  BY <1>1, StreamInvariance, PTL

(* The closed file has every message, also one that was pushed between a   *)
(* failed try_pop and the clearing of msgBeingLogged_.                     *)
THEOREM NothingUnwritten == StreamSpec => []ClosedFileIsComplete
<1>1. StreamIInv => ClosedFileIsComplete
  <2> SUFFICES ASSUME StreamIInv, ~isOpen PROVE file_ = said
    BY DEF ClosedFileIsComplete
  <2>1. waitingMessages_ = <<>> /\ file_ \in Seq(Message)
    BY DEF StreamIInv, StreamTypeOK
  <2>2. InHand = {}
    BY WriterAssumption DEF StreamIInv, InHand
  <2>3. said = file_ \o waitingMessages_
    BY <2>2 DEF StreamIInv, WrittenInOrder
  <2> QED
    BY <2>1, <2>3, ConcatEmptySeq
<1> QED
  BY <1>1, StreamInvariance, PTL

----------------------------------------------------------------------------
(* The add-only container                                                  *)

Pointer == Node \cup {NoNode}

ContainerTypeOK ==
  /\ front_ \in Pointer
  /\ next_ \in [Node -> Pointer]
  /\ expected \in [Maker -> Pointer]
  /\ newNode \in [Maker -> Pointer]
  /\ step \in [Maker -> {"out", "loaded", "linked", "failed"}]
  /\ held \in SUBSET Node
  /\ walk \in Pointer
  /\ destroyed \in {"no", "walking", "yes"}
  /\ deleted \in Seq(Node)

(* The i-th node of list, nullptr past its end. *)
At(list, i) == IF i \in 1 .. Len(list) THEN list[i] ELSE NoNode

(* The links lead from front_ through list, which has every held node once. *)
IsList(list) ==
  /\ \A i, j \in 1 .. Len(list) : list[i] = list[j] => i = j
  /\ \A n \in Node : n \in held <=> \E i \in 1 .. Len(list) : list[i] = n
  /\ front_ = At(list, 1)
  /\ \A i \in 1 .. Len(list) : next_[list[i]] = At(list, i + 1)

(* The destructor has deleted the first part of list and stands behind it. *)
WalksAlong(list) ==
  /\ Len(deleted) <= Len(list)
  /\ \A i \in 1 .. Len(deleted) : deleted[i] = list[i]
  /\ destroyed # "no" => walk = At(list, Len(deleted) + 1)

(* A node that is not yet in the list belongs to one call of makeAndHold,  *)
(* and points to what that call takes for the front.                       *)
OwnNode ==
  /\ \A m \in Maker : newNode[m] # NoNode <=> step[m] \in {"linked", "failed"}
  /\ \A m \in Maker : newNode[m] \notin held
  /\ \A m, o \in Maker : newNode[m] = newNode[o] /\ newNode[m] # NoNode => m = o
  /\ \A m \in Maker : step[m] = "linked" => next_[newNode[m]] = expected[m]

ContainerIInv ==
  /\ ContainerTypeOK
  /\ OwnNode
  /\ destroyed = "no" => deleted = <<>>
  /\ destroyed # "no" => \A m \in Maker : step[m] = "out"
  /\ destroyed = "yes" => walk = NoNode
  /\ \E list \in Seq(Node) : IsList(list) /\ WalksAlong(list)

----------------------------------------------------------------------------
LEMMA ContainerInit == InitContainer => ContainerIInv
<1> SUFFICES ASSUME InitContainer PROVE ContainerIInv
  OBVIOUS
<1>1. <<>> \in Seq(Node) /\ Len(<<>>) = 0
  BY EmptySeq
<1>2. ContainerTypeOK
  BY <1>1 DEF InitContainer, ContainerTypeOK, Pointer
<1>3. OwnNode
  BY DEF InitContainer, OwnNode
<1>4. IsList(<<>>)
  BY <1>1 DEF InitContainer, IsList, At
<1>5. WalksAlong(<<>>)
  BY <1>1 DEF InitContainer, WalksAlong
<1> QED
  BY <1>1, <1>2, <1>3, <1>4, <1>5 DEF InitContainer, ContainerIInv

(* The list stays when the nodes in it keep their links. *)
LEMMA SameList ==
  ASSUME ContainerIInv, NEW list \in Seq(Node), IsList(list), WalksAlong(list),
         UNCHANGED <<front_, held, deleted, walk, destroyed>>,
         \A n \in held : next_'[n] = next_[n]
  PROVE  IsList(list)' /\ WalksAlong(list)'
<1>1. \A i \in 1 .. Len(list) : list[i] \in held
  BY ElementOfSeq DEF IsList
<1> QED
  BY <1>1 DEF IsList, WalksAlong, At

LEMMA KeptByLoadFront ==
  ASSUME ContainerIInv, NEW m \in Maker, LoadFront(m)
  PROVE  ContainerIInv'
<1> USE DEF LoadFront, Advance
<1>1. ContainerTypeOK'
  BY DEF ContainerIInv, ContainerTypeOK
<1>2. OwnNode'
  BY DEF ContainerIInv, ContainerTypeOK, OwnNode
<1>3. PICK list \in Seq(Node) : IsList(list) /\ WalksAlong(list)
  BY DEF ContainerIInv
<1>4. IsList(list)' /\ WalksAlong(list)'
  BY <1>3, SameList
<1> QED
  BY <1>1, <1>2, <1>4 DEF ContainerIInv

LEMMA KeptByNewNode ==
  ASSUME ContainerIInv, NEW m \in Maker, NEW n \in Node, NewNode(m, n)
  PROVE  ContainerIInv'
<1> USE DEF NewNode, Advance
<1>1. ContainerTypeOK'
  BY DEF ContainerIInv, ContainerTypeOK, Pointer
<1>2. OwnNode'
  BY NodeAssumption DEF ContainerIInv, ContainerTypeOK, OwnNode
<1>3. PICK list \in Seq(Node) : IsList(list) /\ WalksAlong(list)
  BY DEF ContainerIInv
<1>4. \A o \in held : next_'[o] = next_[o]
  BY DEF ContainerIInv, ContainerTypeOK
<1>5. IsList(list)' /\ WalksAlong(list)'
  BY <1>3, <1>4, SameList
<1>6. destroyed = "no"
  BY DEF ContainerIInv
<1> QED
  BY <1>1, <1>2, <1>5, <1>6 DEF ContainerIInv

(* A link is mended in a node that nobody else can reach. *)
LEMMA KeptBySetNext ==
  ASSUME ContainerIInv, NEW m \in Maker, SetNext(m)
  PROVE  ContainerIInv'
<1> USE DEF SetNext, Advance
<1>1. newNode[m] \in Node /\ newNode[m] \notin held
  BY DEF ContainerIInv, ContainerTypeOK, OwnNode, Pointer
<1>2. ContainerTypeOK'
  BY DEF ContainerIInv, ContainerTypeOK
<1>3. OwnNode'
  BY <1>1 DEF ContainerIInv, ContainerTypeOK, OwnNode
<1>4. PICK list \in Seq(Node) : IsList(list) /\ WalksAlong(list)
  BY DEF ContainerIInv
<1>5. \A o \in held : next_'[o] = next_[o]
  BY <1>1 DEF ContainerIInv, ContainerTypeOK
<1>6. IsList(list)' /\ WalksAlong(list)'
  BY <1>4, <1>5, SameList
<1>7. destroyed = "no"
  BY DEF ContainerIInv
<1> QED
  BY <1>2, <1>3, <1>6, <1>7 DEF ContainerIInv

(* The exchange succeeds only when the new node points to the front, and   *)
(* so puts it before the whole list.                                       *)
LEMMA KeptByExchange ==
  ASSUME ContainerIInv, NEW m \in Maker, Exchange(m)
  PROVE  ContainerIInv'
<1> USE DEF Exchange, Advance
<1>1. destroyed = "no" /\ deleted = <<>>
  BY DEF ContainerIInv
<1>2. ContainerTypeOK'
  <2>1. ContainerTypeOK /\ (step[m] = "linked" => newNode[m] \in Node) /\ NoNode \in Pointer
    BY DEF ContainerIInv, ContainerTypeOK, OwnNode, Pointer
  <2>2. held' \in SUBSET Node /\ front_' \in Pointer
    BY <2>1 DEF ContainerTypeOK
  <2> QED
    BY <2>1, <2>2 DEF ContainerTypeOK
<1>3. PICK list \in Seq(Node) : IsList(list) /\ WalksAlong(list)
  BY DEF ContainerIInv
<1>4. CASE front_ # expected[m]
  <2>1. OwnNode'
    <3>1. /\ step[m] = "linked" /\ step' = [step EXCEPT ![m] = "failed"]
          /\ UNCHANGED <<newNode, held, next_>> /\ OwnNode
          /\ step \in [Maker -> {"out", "loaded", "linked", "failed"}]
          /\ expected' = [expected EXCEPT ![m] = front_]
          /\ expected \in [Maker -> Pointer]
      BY <1>4 DEF ContainerIInv, ContainerTypeOK
    <3> QED
      BY ONLY <3>1 DEF OwnNode
  <2>2. IsList(list)' /\ WalksAlong(list)'
    BY <1>3, <1>4, SameList
  <2> QED
    BY <1>1, <1>2, <1>4, <2>1, <2>2 DEF ContainerIInv
<1>5. CASE front_ = expected[m]
  <2>1. PICK n \in Node : n = newNode[m]
    BY <1>5 DEF ContainerIInv, ContainerTypeOK, OwnNode, Pointer
  <2>2. /\ front_' = n /\ held' = held \cup {n}
        /\ newNode' = [newNode EXCEPT ![m] = NoNode]
        /\ step' = [step EXCEPT ![m] = "out"]
        /\ UNCHANGED <<expected, next_, walk, destroyed, deleted>>
    BY <1>5, <2>1
  <2>3. n \notin held /\ next_[n] = front_
    BY <1>5, <2>1 DEF ContainerIInv, ContainerTypeOK, OwnNode
  <2>4. OwnNode'
    BY <2>1, <2>2, <2>3, NodeAssumption DEF ContainerIInv, ContainerTypeOK, OwnNode
  <2>5. PICK longer \in Seq(Node) :
          /\ Len(longer) = 1 + Len(list)
          /\ \A i \in 1 .. 1 + Len(list) : longer[i] = IF i = 1 THEN n ELSE list[i - 1]
    <3>1. <<n>> \in Seq(Node) /\ Len(<<n>>) = 1 /\ <<n>>[1] = n
      OBVIOUS
    <3>2. /\ <<n>> \o list \in Seq(Node)
          /\ Len(<<n>> \o list) = Len(<<n>>) + Len(list)
          /\ \A i \in 1 .. Len(<<n>>) + Len(list) :
               (<<n>> \o list)[i] = IF i <= Len(<<n>>) THEN <<n>>[i] ELSE list[i - Len(<<n>>)]
      BY <3>1, ConcatProperties
    <3>3. \A i \in 1 .. 1 + Len(list) : i <= 1 <=> i = 1
      OBVIOUS
    <3> QED
      <4>1. \A i \in 1 .. 1 + Len(list) :
              (<<n>> \o list)[i] = IF i = 1 THEN n ELSE list[i - 1]
        BY <3>1, <3>2, <3>3
      <4> QED
        BY ONLY <3>1, <3>2, <4>1
  <2>6. Len(list) \in Nat /\ \A i \in 1 .. Len(list) : list[i] \in held /\ list[i] # n /\ list[i] \in Node
    BY <2>3, <1>3, ElementOfSeq DEF IsList
  <2>7. \A i, j \in 1 .. Len(longer) : longer[i] = longer[j] => i = j
    <3>1. ASSUME NEW i \in 1 .. Len(longer), NEW j \in 1 .. Len(longer),
                 longer[i] = longer[j], i # 1, j # 1
          PROVE  i = j
      <4>1. i - 1 \in 1 .. Len(list) /\ j - 1 \in 1 .. Len(list)
        BY <2>5, <2>6, <3>1
      <4>2. list[i - 1] = list[j - 1]
        BY <2>5, <3>1
      <4>3. i - 1 = j - 1
        BY <1>3, <4>1, <4>2 DEF IsList
      <4> QED
        BY <4>3
    <3>2. ASSUME NEW i \in 1 .. Len(longer), i # 1
          PROVE  longer[i] # longer[1]
      <4>1. i - 1 \in 1 .. Len(list) /\ longer[i] = list[i - 1] /\ longer[1] = n
        BY <2>5, <2>6, <3>2
      <4> QED
        BY <2>6, <4>1
    <3> QED
      BY <3>1, <3>2
  <2>8. \A o \in Node : o \in held' <=> \E i \in 1 .. Len(longer) : longer[i] = o
    <3>1. ASSUME NEW o \in Node, o \in held'
          PROVE  \E i \in 1 .. Len(longer) : longer[i] = o
      <4>1. CASE o = n
        BY <4>1, <2>5, <2>6
      <4>2. CASE o # n
        <5>1. PICK i \in 1 .. Len(list) : list[i] = o
          BY <1>3, <2>2, <3>1, <4>2 DEF IsList
        <5>2. longer[i + 1] = o /\ i + 1 \in 1 .. Len(longer)
          BY <5>1, <2>5, <2>6
        <5> QED
          BY <5>2
      <4> QED
        BY <4>1, <4>2
    <3>2. ASSUME NEW i \in 1 .. Len(longer)
          PROVE  longer[i] \in held'
      BY <2>2, <2>5, <2>6
    <3> QED
      BY <3>1, <3>2
  <2>9. front_' = At(longer, 1)
    BY <2>2, <2>5, <2>6 DEF At
  <2>10. \A i \in 1 .. Len(longer) : next_[longer[i]] = At(longer, i + 1)
    <3>1. CASE Len(list) = 0
      BY <1>3, <2>3, <2>5, <3>1 DEF IsList, At
    <3>2. CASE Len(list) > 0
      <4>1. next_[longer[1]] = At(longer, 2)
        BY <1>3, <2>3, <2>5, <2>6, <3>2 DEF IsList, At
      <4>2. ASSUME NEW i \in 1 .. Len(list) PROVE next_[longer[i + 1]] = At(longer, i + 2)
        <5>1. longer[i + 1] = list[i]
          <6>1. i + 1 \in 1 .. 1 + Len(list) /\ i + 1 # 1 /\ (i + 1) - 1 = i
            BY <2>6
          <6> QED
            BY <2>5, <6>1
        <5>2. next_[list[i]] = At(list, i + 1)
          BY <1>3 DEF IsList
        <5>3. At(list, i + 1) = At(longer, i + 2)
          BY <2>5, <2>6 DEF At
        <5> QED
          BY <5>1, <5>2, <5>3
      <4>3. ASSUME NEW i \in 1 .. Len(longer), i # 1
            PROVE  next_[longer[i]] = At(longer, i + 1)
        <5>1. i - 1 \in 1 .. Len(list)
          BY <2>5, <2>6, <4>3
        <5>2. next_[longer[(i - 1) + 1]] = At(longer, (i - 1) + 2)
          BY <4>2, <5>1
        <5>3. (i - 1) + 1 = i /\ (i - 1) + 2 = i + 1
          OBVIOUS
        <5> QED
          BY <5>2, <5>3
      <4> QED
        BY <4>1, <4>3
    <3> QED
      BY <3>1, <3>2, <2>6
  <2>11. IsList(longer)'
    BY <2>2, <2>7, <2>8, <2>9, <2>10 DEF IsList, At
  <2>12. WalksAlong(longer)'
    BY <1>1, <2>2, <2>5, <2>6, EmptySeq DEF WalksAlong
  <2> QED
    BY <1>1, <1>2, <2>2, <2>4, <2>11, <2>12 DEF ContainerIInv
<1> QED
  BY <1>4, <1>5

----------------------------------------------------------------------------
LEMMA KeptByStartWalk ==
  ASSUME ContainerIInv, StartWalk
  PROVE  ContainerIInv'
<1> USE DEF StartWalk
<1>1. ContainerTypeOK' /\ OwnNode'
  BY DEF ContainerIInv, ContainerTypeOK, OwnNode
<1>2. PICK list \in Seq(Node) : IsList(list) /\ WalksAlong(list)
  BY DEF ContainerIInv
<1>3. deleted = <<>> /\ Len(<<>>) = 0
  BY EmptySeq DEF ContainerIInv
<1>4. IsList(list)' /\ WalksAlong(list)'
  BY <1>2, <1>3 DEF IsList, WalksAlong, At
<1> QED
  BY <1>1, <1>4 DEF ContainerIInv

LEMMA KeptByDeleteNode ==
  ASSUME ContainerIInv, DeleteNode
  PROVE  ContainerIInv'
<1> USE DEF DeleteNode
<1>1. walk \in Node /\ deleted \in Seq(Node)
  BY DEF ContainerIInv, ContainerTypeOK, Pointer
<1>2. /\ deleted' \in Seq(Node) /\ Len(deleted') = Len(deleted) + 1
      /\ deleted'[Len(deleted) + 1] = walk
      /\ \A i \in 1 .. Len(deleted) : deleted'[i] = deleted[i]
  BY <1>1, AppendProperties
<1>3. ContainerTypeOK' /\ OwnNode'
  BY <1>1, <1>2 DEF ContainerIInv, ContainerTypeOK, OwnNode
<1>4. PICK list \in Seq(Node) : IsList(list) /\ WalksAlong(list)
  BY DEF ContainerIInv
<1>5. Len(deleted) \in Nat /\ Len(list) \in Nat
  BY <1>1
<1>6. Len(deleted) + 1 \in 1 .. Len(list) /\ list[Len(deleted) + 1] = walk
  BY <1>4, <1>5, NodeAssumption DEF WalksAlong, At
<1>7. walk' = At(list, Len(deleted) + 2)
  BY <1>4, <1>5, <1>6 DEF IsList
<1>8. IsList(list)'
  BY <1>4 DEF IsList, At
<1>9. WalksAlong(list)'
  BY <1>2, <1>4, <1>5, <1>6, <1>7 DEF WalksAlong, At
<1> QED
  BY <1>3, <1>4, <1>8, <1>9 DEF ContainerIInv

LEMMA KeptByEndWalk ==
  ASSUME ContainerIInv, EndWalk
  PROVE  ContainerIInv'
<1> USE DEF EndWalk
<1>1. ContainerTypeOK' /\ OwnNode'
  BY DEF ContainerIInv, ContainerTypeOK, OwnNode
<1>2. PICK list \in Seq(Node) : IsList(list) /\ WalksAlong(list)
  BY DEF ContainerIInv
<1>3. IsList(list)' /\ WalksAlong(list)'
  BY <1>2 DEF IsList, WalksAlong, At
<1> QED
  BY <1>1, <1>3 DEF ContainerIInv

LEMMA ContainerKept ==
  ASSUME ContainerIInv, UNCHANGED containerVars
  PROVE  ContainerIInv'
<1> USE DEF containerVars
<1>1. ContainerTypeOK' /\ OwnNode'
  BY DEF ContainerIInv, ContainerTypeOK, OwnNode
<1>2. PICK list \in Seq(Node) : IsList(list) /\ WalksAlong(list)
  BY DEF ContainerIInv
<1>3. IsList(list)' /\ WalksAlong(list)'
  BY <1>2 DEF IsList, WalksAlong, At
<1> QED
  BY <1>1, <1>3 DEF ContainerIInv

----------------------------------------------------------------------------
(* The inductive invariant of the container: types, the owner of a new     *)
(* node, and the linked list with the place of the destructor in it.       *)
THEOREM ContainerInvariance == ContainerSpec => []ContainerIInv
<1>1. ContainerIInv /\ [NextContainer]_containerVars => ContainerIInv'
  BY KeptByLoadFront, KeptByNewNode, KeptBySetNext, KeptByExchange, KeptByStartWalk,
     KeptByDeleteNode, KeptByEndWalk, ContainerKept DEF NextContainer
<1> QED
  BY <1>1, ContainerInit, PTL DEF ContainerSpec

(* The destructor deletes every node whose address was returned, no other  *)
(* and none twice, whatever the threads that added them did to each other. *)
THEOREM HeldAreDeletedOnce == ContainerSpec => []DeletedOnce
<1>1. ContainerIInv => DeletedOnce
  <2> SUFFICES ASSUME ContainerIInv PROVE DeletedOnce
    OBVIOUS
  <2>1. PICK list \in Seq(Node) : IsList(list) /\ WalksAlong(list)
    BY DEF ContainerIInv
  <2>2. Len(deleted) \in Nat /\ Len(list) \in Nat /\ DOMAIN deleted = 1 .. Len(deleted)
    BY DEF ContainerIInv, ContainerTypeOK
  <2>3. \A i \in DOMAIN deleted : i \in 1 .. Len(list) /\ deleted[i] = list[i]
    BY <2>1, <2>2 DEF WalksAlong
  <2>4. \A i, j \in DOMAIN deleted : deleted[i] = deleted[j] => i = j
    BY <2>1, <2>3 DEF IsList
  <2>5. \A n \in Node : WasDeleted(n) => n \in held
    BY <2>1, <2>3 DEF IsList, WasDeleted
  <2>6. destroyed = "yes" => \A n \in held : WasDeleted(n)
    <3> SUFFICES ASSUME destroyed = "yes", NEW n \in held PROVE WasDeleted(n)
      OBVIOUS
    <3>1. At(list, Len(deleted) + 1) = NoNode
      BY <2>1 DEF ContainerIInv, WalksAlong
    <3>2. ~ (Len(deleted) + 1 \in 1 .. Len(list))
      BY <3>1, ElementOfSeq, NodeAssumption DEF At
    <3>3. Len(deleted) = Len(list)
      BY <2>1, <2>2, <3>2 DEF WalksAlong
    <3>4. PICK i \in 1 .. Len(list) : list[i] = n
      BY <2>1 DEF IsList, ContainerIInv, ContainerTypeOK
    <3> QED
      BY <2>2, <2>3, <3>3, <3>4 DEF WasDeleted
  <2> QED
    BY <2>4, <2>5, <2>6 DEF DeletedOnce
<1> QED
  BY <1>1, ContainerInvariance, PTL
----------------------------------------------------------------------------
(* Exceptions                                                              *)

(* All that explainSelf may write. *)
Piece == Fragment \cup Category \cup Framing
Text == Seq(Fragment \cup {" ", "\n"})

(* What an exception holds of what it was told. *)
Said(e) == ToSet(e.context) \cup ToSet(e.info) \cup Words(e.ost)

IsException(e) ==
  e \in [ost : Text, category : Category, context : Seq(Fragment), info : Seq(Fragment),
         printed : BOOLEAN]

(* What an exception was told is in one of the three parts that            *)
(* explainSelf reads.                                                      *)
ExceptionIInv ==
  /\ DOMAIN exception = Object /\ DOMAIN told = Object
  /\ \A x \in Object : Made(x) => IsException(exception[x]) /\ told[x] = Said(exception[x])

(* The elements of the sequences that the text is put together from. *)
LEMMA ToSetOfParts ==
  ASSUME NEW S
  PROVE  /\ ToSet(<<>>) = {}
         /\ \A a \in S : ToSet(<<a>>) = {a}
         /\ \A s, t \in Seq(S) : ToSet(s \o t) = ToSet(s) \cup ToSet(t)
         /\ \A s \in Seq(S), a \in S : ToSet(Append(s, a)) = ToSet(s) \cup {a}
         /\ \A s \in Seq(S) : ToSet(Reverse(s)) = ToSet(s)
         /\ \A s \in Seq(S) : ToSet(s) \subseteq S
<1>1. ToSet(<<>>) = {}
  BY DEF ToSet
<1>2. \A a \in S : ToSet(<<a>>) = {a}
  BY DEF ToSet
<1>3. \A s, t \in Seq(S) : ToSet(s \o t) = ToSet(s) \cup ToSet(t)
  <2>1. \A s : ToSet(s) = Range(s)
    BY DEF ToSet, Range
  <2> QED
    BY <2>1, RangeConcatenation
<1>4. \A s \in Seq(S), a \in S : ToSet(Append(s, a)) = ToSet(s) \cup {a}
  <2> SUFFICES ASSUME NEW s \in Seq(S), NEW a \in S
               PROVE  ToSet(Append(s, a)) = ToSet(s) \cup {a}
    OBVIOUS
  <2>1. Append(s, a) = s \o <<a>> /\ <<a>> \in Seq(S)
    BY AppendIsConcat
  <2> QED
    <3>1. ToSet(s \o <<a>>) = ToSet(s) \cup ToSet(<<a>>)
      BY <2>1, <1>3
    <3> QED
      BY ONLY <2>1, <1>2, <3>1
<1>5. \A s \in Seq(S) : ToSet(Reverse(s)) = ToSet(s)
  <2> SUFFICES ASSUME NEW s \in Seq(S) PROVE ToSet(Reverse(s)) = ToSet(s)
    OBVIOUS
  <2>1. Len(s) \in Nat /\ DOMAIN s = 1 .. Len(s)
    BY LenProperties
  <2>2. DOMAIN Reverse(s) = 1 .. Len(s)
    BY DEF Reverse
  <2>3. \A i \in 1 .. Len(s) : Len(s) - i + 1 \in 1 .. Len(s) /\ Reverse(s)[i] = s[Len(s) - i + 1]
    BY <2>1 DEF Reverse
  <2>4. \A i \in 1 .. Len(s) : Reverse(s)[Len(s) - i + 1] = s[i]
    <3> TAKE i \in 1 .. Len(s)
    <3>1. Len(s) - i + 1 \in 1 .. Len(s) /\ Len(s) - (Len(s) - i + 1) + 1 = i
      BY <2>1
    <3> QED
      BY <2>3, <3>1
  <2> QED
    BY <2>1, <2>2, <2>3, <2>4 DEF ToSet
<1>6. \A s \in Seq(S) : ToSet(s) \subseteq S
  BY RangeOfSeq DEF ToSet, Range
<1> QED
  BY <1>1, <1>2, <1>3, <1>4, <1>5, <1>6

LEMMA OneAndTwo ==
  ASSUME NEW S, NEW a \in S, NEW b \in S
  PROVE  /\ <<a>> \in Seq(S) /\ ToSet(<<a>>) = {a}
         /\ <<a, b>> \in Seq(S) /\ ToSet(<<a, b>>) = {a, b}
<1>1. <<a>> \in Seq(S) /\ <<a, b>> \in Seq(S)
  OBVIOUS
<1>2. DOMAIN <<a>> = {1} /\ DOMAIN <<a, b>> = {1, 2}
  OBVIOUS
<1>3. ToSet(<<a>>) = {<<a>>[1]} /\ ToSet(<<a, b>>) = {<<a, b>>[1], <<a, b>>[2]}
  BY <1>2 DEF ToSet
<1> QED
  BY <1>1, <1>3

(* The words of a text are those of its parts, and white space is none. *)
LEMMA NoWords ==
  ASSUME NEW S, S \cap Fragment = {}, NEW s, ToSet(s) \subseteq S
  PROVE  Words(s) = {}
  BY DEF Words

LEMMA WordsOfParts ==
  /\ Words(<<>>) = {}
  /\ \A s, t \in Seq(Piece) : Words(s \o t) = Words(s) \cup Words(t)
  /\ \A s \in Seq(Piece), f \in Fragment : Words(Append(s, f)) = Words(s) \cup {f}
  /\ \A s \in Seq(Piece), w \in Category \cup Framing : Words(Append(s, w)) = Words(s)
  /\ \A w \in Category \cup Framing : <<w>> \in Seq(Piece) /\ Words(<<w>>) = {}
  /\ \A w, c \in Category \cup Framing : <<w, c>> \in Seq(Piece) /\ Words(<<w, c>>) = {}
  /\ \A s \in Seq(Fragment) : Words(s) = ToSet(s)
<1>1. Fragment \subseteq Piece /\ Category \cup Framing \subseteq Piece
  BY DEF Piece
<1>2. Words(<<>>) = {}
  BY ToSetOfParts DEF Words
<1>3. ASSUME NEW s \in Seq(Piece), NEW t \in Seq(Piece) PROVE Words(s \o t) = Words(s) \cup Words(t)
  <2>1. ToSet(s \o t) = ToSet(s) \cup ToSet(t)
    BY ToSetOfParts
  <2> QED
    BY <2>1, Zenon DEF Words
<1>4. ASSUME NEW s \in Seq(Piece), NEW f \in Fragment PROVE Words(Append(s, f)) = Words(s) \cup {f}
  <2>1. ToSet(Append(s, f)) = ToSet(s) \cup {f}
    BY <1>1, ToSetOfParts
  <2> QED
    BY <2>1, Zenon DEF Words
<1>5. ASSUME NEW s \in Seq(Piece), NEW w \in Category \cup Framing PROVE Words(Append(s, w)) = Words(s)
  <2>1. ToSet(Append(s, w)) = ToSet(s) \cup {w}
    BY <1>1, ToSetOfParts
  <2>2. w \notin Fragment
    BY TextAssumption, Zenon
  <2> QED
    BY <2>1, <2>2, Zenon DEF Words
<1>6. ASSUME NEW w \in Category \cup Framing PROVE <<w>> \in Seq(Piece) /\ Words(<<w>>) = {}
  <2>1. w \in Piece /\ w \notin Fragment
    BY <1>1, TextAssumption, Zenon
  <2>2. <<w>> \in Seq(Piece) /\ ToSet(<<w>>) = {w}
    BY <2>1, OneAndTwo
  <2> QED
    BY <2>1, <2>2, Zenon DEF Words
<1>7. ASSUME NEW w \in Category \cup Framing, NEW c \in Category \cup Framing
      PROVE  <<w, c>> \in Seq(Piece) /\ Words(<<w, c>>) = {}
  <2>1. w \in Piece /\ w \notin Fragment /\ c \in Piece /\ c \notin Fragment
    BY <1>1, TextAssumption, Zenon
  <2>2. <<w, c>> \in Seq(Piece) /\ ToSet(<<w, c>>) = {w, c}
    BY <2>1, OneAndTwo
  <2> QED
    BY <2>1, <2>2, Zenon DEF Words
<1>8. ASSUME NEW s \in Seq(Fragment) PROVE Words(s) = ToSet(s)
  <2>1. ToSet(s) \subseteq Fragment
    BY ToSetOfParts
  <2> QED
    BY <2>1 DEF Words
<1> QED
  BY <1>2, <1>3, <1>4, <1>5, <1>6, <1>7, <1>8

LEMMA WordsOfJoined ==
  ASSUME NEW s \in Seq(Piece), NEW t \in Seq(Piece)
  PROVE  s \o t \in Seq(Piece) /\ Words(s \o t) = Words(s) \cup Words(t)
  BY WordsOfParts, ConcatProperties

(* The words that are not told. *)
LEMMA Frame ==
  /\ " " \in Category \cup Framing /\ "\n" \in Category \cup Framing
  /\ "An exception of category" \in Category \cup Framing
  /\ "Exception Message:" \in Category \cup Framing
  /\ "Additional Info:" \in Category \cup Framing
  BY DEF Framing

LEMMA TextIsOfPieces ==
  /\ \A s \in Text : s \in Seq(Piece)
  /\ \A s \in Seq(Fragment) : s \in Seq(Piece) /\ s \in Text
<1>1. " " \in Framing /\ "\n" \in Framing
  BY DEF Framing
<1>2. Fragment \subseteq Piece /\ Fragment \cup {" ", "\n"} \subseteq Piece
      /\ Fragment \subseteq Fragment \cup {" ", "\n"}
  BY <1>1, Zenon DEF Piece
<1>3. \A A, B : A \subseteq B => Seq(A) \subseteq Seq(B)
  OBVIOUS
<1> QED
  BY <1>2, <1>3, Zenon DEF Text

LEMMA TextGrows ==
  /\ <<>> \in Text
  /\ \A s, t \in Text : s \o t \in Text
  /\ \A s \in Text, f \in Fragment : Append(s, f) \in Text
  /\ \A s \in Text : Append(s, " ") \in Text /\ Append(s, "\n") \in Text
<1> DEFINE S == Fragment \cup {" ", "\n"}
<1>1. " " \in S /\ "\n" \in S /\ Fragment \subseteq S
  OBVIOUS
<1> HIDE DEF S
<1>2. /\ <<>> \in Seq(S)
      /\ \A s, t \in Seq(S) : s \o t \in Seq(S)
      /\ \A s \in Seq(S), f \in S : Append(s, f) \in Seq(S)
  BY ConcatProperties, EmptySeq, AppendProperties
<1>3. Text = Seq(S)
  BY DEF Text, S
<1> QED
  BY <1>1, <1>2, <1>3, Zenon

LEMMA WordingIsText == Wording \subseteq Text
<1> SUFFICES ASSUME NEW m \in Wording PROVE m \in Text
  OBVIOUS
<1> DEFINE S == Fragment \cup {" ", "\n"}
<1>1. CASE m = <<>>
  BY <1>1, TextGrows
<1>2. ASSUME NEW f \in Fragment, m = <<f>> PROVE m \in Text
  <2>1. f \in S
    OBVIOUS
  <2>2. <<f>> \in Seq(S)
    BY <2>1, OneAndTwo
  <2> QED
    BY <1>2, <2>2 DEF Text
<1>3. ASSUME NEW f \in Fragment, NEW end \in {" ", "\n"}, m = <<f, end>> PROVE m \in Text
  <2>1. f \in S /\ end \in S
    OBVIOUS
  <2>2. <<f, end>> \in Seq(S)
    BY <2>1, OneAndTwo
  <2> QED
    BY <1>3, <2>2 DEF Text
<1>4. \/ m = <<>> \/ \E f \in Fragment : m = <<f>>
      \/ \E f \in Fragment, end \in {" ", "\n"} : m = <<f, end>>
  <2>1. m = <<>> \/ m \in {<<f>> : f \in Fragment} \/ m \in Fragment \X {" ", "\n"}
    BY Zenon DEF Wording
  <2>2. ASSUME m \in {<<f>> : f \in Fragment} PROVE \E f \in Fragment : m = <<f>>
    BY <2>2
  <2>3. ASSUME m \in Fragment \X {" ", "\n"} PROVE \E f \in Fragment, end \in {" ", "\n"} : m = <<f, end>>
    <3>1. \A A, B : m \in A \X B => m = <<m[1], m[2]>> /\ m[1] \in A /\ m[2] \in B
      OBVIOUS
    <3> QED
      BY <2>3, <3>1, Zenon
  <2> QED
    BY <2>1, <2>2, <2>3
<1> QED
  BY <1>1, <1>2, <1>3, <1>4

(* explainSelf writes the words of all three parts and no others. *)
LEMMA ExplainsAll ==
  ASSUME NEW e, IsException(e)
  PROVE  Words(explainSelf(e)) = Said(e)
<1>1. e.ost \in Seq(Piece) /\ e.context \in Seq(Fragment) /\ e.info \in Seq(Fragment)
  BY TextIsOfPieces DEF IsException
<1> DEFINE title == <<"An exception of category", e.category>>
           context == Reverse(e.context)
           info == Reverse(e.info)
           tail == IF e.info = <<>> THEN <<>> ELSE <<"Additional Info:">> \o info
<1>2. context \in Seq(Piece) /\ info \in Seq(Piece)
  <2>1. \A s \in Seq(Fragment) : Reverse(s) \in Seq(Fragment)
    <3> SUFFICES ASSUME NEW s \in Seq(Fragment) PROVE Reverse(s) \in Seq(Fragment)
      OBVIOUS
    <3>1. Len(s) \in Nat /\ \A i \in 1 .. Len(s) : s[i] \in Fragment
      BY LenProperties, ElementOfSeq
    <3>2. \A i \in 1 .. Len(s) : s[Len(s) - i + 1] \in Fragment
      BY <3>1
    <3> QED
      BY <3>1, <3>2, IsASeq DEF Reverse
  <2> QED
    BY <1>1, <2>1, TextIsOfPieces
<1>3. Words(context) = ToSet(e.context) /\ Words(info) = ToSet(e.info)
  <2>1. ToSet(context) = ToSet(e.context) /\ ToSet(info) = ToSet(e.info)
    BY <1>1, ToSetOfParts
  <2>2. ToSet(e.context) \subseteq Fragment /\ ToSet(e.info) \subseteq Fragment
    BY <1>1, ToSetOfParts
  <2> QED
    BY <2>1, <2>2 DEF Words
<1>4. title \in Seq(Piece) /\ Words(title) = {}
  <2>1. e.category \in Category \cup Framing
    BY DEF IsException
  <2> QED
    BY <2>1, Frame, WordsOfParts
<1>5. Header(e) \in Seq(Piece) /\ Words(Header(e)) = ToSet(e.context)
  <2>1. Header(e) = title \o context
    BY DEF Header
  <2> HIDE DEF title, context
  <2>2. title \o context \in Seq(Piece)
    BY <1>2, <1>4, ConcatProperties
  <2>3. Words(title \o context) = Words(title) \cup Words(context)
    BY <1>2, <1>4, WordsOfParts
  <2> QED
    BY <1>3, <1>4, <2>1, <2>2, <2>3
<1>6. CentralMessage(e) \in Seq(Piece) /\ Words(CentralMessage(e)) = Words(e.ost)
  <2>1. CASE e.ost = <<>>
    BY <2>1, WordsOfParts, EmptySeq DEF CentralMessage
  <2>2. CASE e.ost # <<>>
    <3> DEFINE start == <<"Exception Message:">>
               end == IF Last(e.ost) = "\n" THEN <<>> ELSE <<"\n">>
    <3>1. start \in Seq(Piece) /\ Words(start) = {} /\ end \in Seq(Piece) /\ Words(end) = {}
      <4>1. <<"\n">> \in Seq(Piece) /\ Words(<<"\n">>) = {}
        BY Frame, WordsOfParts
      <4>2. <<>> \in Seq(Piece) /\ Words(<<>>) = {}
        BY WordsOfParts, EmptySeq
      <4>3. start \in Seq(Piece) /\ Words(start) = {}
        BY Frame, WordsOfParts
      <4> QED
        BY <4>1, <4>2, <4>3
    <3>2. CentralMessage(e) = (start \o e.ost) \o end
      <4> DEFINE all == start \o e.ost \o end
      <4>1. CentralMessage(e) = IF e.ost = <<>> THEN <<>> ELSE all
        BY DEF CentralMessage
      <4> HIDE DEF all
      <4>2. CentralMessage(e) = all
        BY <2>2, <4>1
      <4> QED
        BY <4>2 DEF all
    <3> HIDE DEF start, end
    <3>3. start \o e.ost \in Seq(Piece) /\ Words(start \o e.ost) = Words(e.ost)
      <4>1. start \o e.ost \in Seq(Piece) /\ Words(start \o e.ost) = Words(start) \cup Words(e.ost)
        BY <1>1, <3>1, WordsOfJoined
      <4> QED
        BY <3>1, <4>1
    <3> QED
      <4>1. /\ (start \o e.ost) \o end \in Seq(Piece)
            /\ Words((start \o e.ost) \o end) = Words(start \o e.ost) \cup Words(end)
        BY <3>1, <3>3, WordsOfJoined
      <4> QED
        BY <3>1, <3>2, <3>3, <4>1
  <2> QED
    BY <2>1, <2>2
<1>7. tail \in Seq(Piece) /\ Words(tail) = ToSet(e.info)
  <2>1. CASE e.info = <<>>
    BY <2>1, WordsOfParts, EmptySeq, ToSetOfParts
  <2>2. CASE e.info # <<>>
    <3> DEFINE start == <<"Additional Info:">>
    <3>1. start \in Seq(Piece) /\ Words(start) = {}
      BY Frame, WordsOfParts
    <3>2. tail = start \o info
      BY <2>2
    <3> HIDE DEF start, tail, info
    <3> QED
      <4>1. start \o info \in Seq(Piece) /\ Words(start \o info) = Words(start) \cup Words(info)
        BY <1>2, <3>1, WordsOfJoined
      <4> QED
        BY <1>3, <3>1, <3>2, <4>1
  <2> QED
    BY <2>1, <2>2
<1>8. explainSelf(e) = (Header(e) \o CentralMessage(e)) \o tail
  BY DEF explainSelf
<1> HIDE DEF tail
<1>9. Words(Header(e) \o CentralMessage(e)) = ToSet(e.context) \cup Words(e.ost)
  BY <1>5, <1>6, WordsOfParts
<1>10. Header(e) \o CentralMessage(e) \in Seq(Piece)
  BY <1>5, <1>6, ConcatProperties
<1>11. Words(explainSelf(e)) = (ToSet(e.context) \cup Words(e.ost)) \cup ToSet(e.info)
  BY <1>7, <1>8, <1>9, <1>10, WordsOfJoined
<1> QED
  BY <1>11 DEF Said

LEMMA ExceptionInit == InitException => ExceptionIInv
  BY DEF InitException, ExceptionIInv, Made

(* One call: it suffices that the object that it changes is an exception   *)
(* with what it was told.                                                  *)
LEMMA ExceptionChanges ==
  ASSUME ExceptionIInv, NEW x \in Object, NEW e, NEW heard,
         Becomes(x, e, heard), IsException(e), heard = Said(e)
  PROVE  ExceptionIInv'
<1>1. exception' = [exception EXCEPT ![x] = e] /\ told' = [told EXCEPT ![x] = heard]
  BY DEF Becomes
<1>2. DOMAIN exception' = Object /\ DOMAIN told' = Object
  BY <1>1 DEF ExceptionIInv
<1>3. ASSUME NEW y \in Object, exception'[y] # <<>>
      PROVE  IsException(exception'[y]) /\ told'[y] = Said(exception'[y])
  <2>1. CASE y = x
    BY <1>1, <2>1 DEF ExceptionIInv
  <2>2. CASE y # x
    <3>1. exception'[y] = exception[y] /\ told'[y] = told[y]
      BY <1>1, <2>2 DEF ExceptionIInv
    <3> QED
      BY <1>3, <3>1 DEF ExceptionIInv, Made
  <2> QED
    BY <2>1, <2>2
<1> QED
  BY <1>2, <1>3 DEF ExceptionIInv, Made

(* A message as the constructors store it. *)
LEMMA StoredMessages ==
  ASSUME NEW m \in Text
  PROVE  /\ Start(m) \in Text /\ Words(Start(m)) = Words(m)
         /\ Append(m, "\n") \in Text /\ Words(Append(m, "\n")) = Words(m)
<1>1. m \in Seq(Piece)
  BY TextIsOfPieces
<1>2. Append(m, "\n") \in Text /\ Words(Append(m, "\n")) = Words(m)
  BY <1>1, Frame, WordsOfParts, TextGrows
<1>3. Append(m, " ") \in Text /\ Words(Append(m, " ")) = Words(m)
  BY <1>1, Frame, WordsOfParts, TextGrows
<1>4. Start(m) = m \/ Start(m) = Append(m, " ")
  BY DEF Start
<1> QED
  BY <1>2, <1>3, <1>4

LEMMA WordsOfText ==
  ASSUME NEW s \in Text, NEW t \in Text
  PROVE  s \o t \in Text /\ Words(s \o t) = Words(s) \cup Words(t)
  BY TextIsOfPieces, TextGrows, WordsOfJoined

LEMMA ExceptionStep == ExceptionIInv /\ [NextException]_exceptionVars => ExceptionIInv'
<1> SUFFICES ASSUME ExceptionIInv, [NextException]_exceptionVars PROVE ExceptionIInv'
  OBVIOUS
<1>1. CASE UNCHANGED exceptionVars
  BY <1>1 DEF ExceptionIInv, exceptionVars, Made
<1>2. ASSUME NEW x \in Object, Made(x)
      PROVE  IsException(exception[x]) /\ told[x] = Said(exception[x])
  BY <1>2 DEF ExceptionIInv
<1>3. ASSUME NEW x \in Object, NEW c \in Category, NEW m \in Wording, Construct(x, c, m)
      PROVE  ExceptionIInv'
  <2> DEFINE e == [ost |-> Start(m), category |-> c, context |-> <<>>,
                   info |-> <<>>, printed |-> FALSE]
  <2>1. Becomes(x, e, Words(m))
    BY <1>3 DEF Construct
  <2>2. Start(m) \in Text /\ Words(Start(m)) = Words(m)
    BY WordingIsText, StoredMessages
  <2>3. IsException(e)
    BY <2>2, EmptySeq DEF IsException
  <2>4. Said(e) = Words(m)
    BY <2>2, ToSetOfParts DEF Said
  <2> QED
    BY <2>1, <2>3, <2>4, ExceptionChanges
<1>4. ASSUME NEW x \in Object, NEW y \in Object, NEW c \in Category, NEW m \in Wording,
             Wrap(x, c, m, y)
      PROVE  ExceptionIInv'
  <2> DEFINE e == Wrapped(c, m, exception[y])
             line == IF m # <<>> /\ Last(m) # "\n" THEN Append(m, "\n") ELSE m
  <2>1. Becomes(x, e, Words(m) \cup told[y]) /\ Made(y)
    BY <1>4 DEF Wrap
  <2>2. IsException(exception[y]) /\ told[y] = Said(exception[y])
    BY <1>2, <2>1
  <2>3. line \in Text /\ Words(line) = Words(m)
    BY WordingIsText, StoredMessages
  <2>4. /\ e.ost = line \o exception[y].ost /\ e.category = c
        /\ e.context = exception[y].context /\ e.info = exception[y].info
    BY DEF Wrapped
  <2> HIDE DEF e, line
  <2>5. e.ost \in Text /\ Words(e.ost) = Words(m) \cup Words(exception[y].ost)
    BY <2>2, <2>3, <2>4, WordsOfText DEF IsException
  <2>6. IsException(e)
    BY <2>2, <2>4, <2>5 DEF IsException, Wrapped, e
  <2>7. Said(e) = Words(m) \cup told[y]
    BY <2>2, <2>4, <2>5, Zenon DEF Said
  <2> QED
    BY <2>1, <2>6, <2>7, ExceptionChanges
<1>5. ASSUME NEW x \in Object, NEW y \in Object, Clone(x, y) PROVE ExceptionIInv'
  <2> DEFINE e == Copied(exception[y])
  <2>1. Becomes(x, e, told[y]) /\ IsException(exception[y]) /\ told[y] = Said(exception[y])
    BY <1>2, <1>5 DEF Clone
  <2>2. /\ e.ost = exception[y].ost /\ e.category = exception[y].category
        /\ e.context = exception[y].context /\ e.info = exception[y].info
    BY DEF Copied
  <2> HIDE DEF e
  <2>3. IsException(e)
    BY <2>1 DEF IsException, Copied, e
  <2>4. Said(e) = told[y]
    BY <2>1, <2>2 DEF Said
  <2> QED
    BY <2>1, <2>3, <2>4, ExceptionChanges
<1>6. ASSUME NEW x \in Object, NEW y \in Object, Assign(x, y) PROVE ExceptionIInv'
  <2> DEFINE e == Swapped(exception[x], Copied(exception[y]))
  <2>1. /\ Becomes(x, e, Words(exception[x].ost) \cup told[y])
        /\ IsException(exception[x])
        /\ IsException(exception[y]) /\ told[y] = Said(exception[y])
    BY <1>2, <1>6 DEF Assign
  <2>2. /\ e.ost = exception[x].ost \o exception[y].ost
        /\ e.category = exception[y].category
        /\ e.context = exception[y].context /\ e.info = exception[y].info
    BY DEF Swapped, Copied
  <2> HIDE DEF e
  <2>3. e.ost \in Text /\ Words(e.ost) = Words(exception[x].ost) \cup Words(exception[y].ost)
    BY <2>1, <2>2, WordsOfText DEF IsException
  <2>4. IsException(e)
    BY <2>1, <2>2, <2>3 DEF IsException, Swapped, Copied, e
  <2>5. Said(e) = Words(exception[x].ost) \cup told[y]
    BY <2>1, <2>2, <2>3, Zenon DEF Said
  <2> QED
    BY <2>1, <2>4, <2>5, ExceptionChanges
<1>7. ASSUME NEW x \in Object, NEW t \in Text, NEW heard, heard = told[x] \cup Words(t),
             Update(x, [exception[x] EXCEPT !.ost = @ \o t], heard)
      PROVE  ExceptionIInv'
  <2> DEFINE e == [exception[x] EXCEPT !.ost = @ \o t]
  <2>1. Made(x) /\ Becomes(x, e, heard)
    BY <1>7 DEF Update
  <2>2. IsException(exception[x]) /\ told[x] = Said(exception[x])
    BY <1>2, <2>1
  <2>3. exception[x].ost \in Text
    BY <2>2 DEF IsException
  <2>4. exception[x].ost \o t \in Text
        /\ Words(exception[x].ost \o t) = Words(exception[x].ost) \cup Words(t)
    BY <2>3, WordsOfText
  <2>5. /\ IsException(e)
        /\ e.ost = exception[x].ost \o t
        /\ e.context = exception[x].context /\ e.info = exception[x].info
    BY <2>2, <2>4 DEF IsException
  <2> HIDE DEF e
  <2>6. Said(e) = heard
    BY <1>7, <2>2, <2>4, <2>5, Zenon DEF Said
  <2> QED
    BY <2>1, <2>5, <2>6, ExceptionChanges
<1>8. ASSUME NEW x \in Object, NEW w \in Fragment \cup {" ", "\n"}, NEW heard,
             heard = told[x] \cup Words(<<w>>),
             Update(x, [exception[x] EXCEPT !.ost = Append(@, w)], heard)
      PROVE  ExceptionIInv'
  <2>1. <<w>> \in Text
    BY OneAndTwo DEF Text
  <2>2. IsException(exception[x])
    BY <1>2, <1>8 DEF Update
  <2>3. exception[x].ost \in Text
    BY <2>2 DEF IsException
  <2>4. Append(exception[x].ost, w) = exception[x].ost \o <<w>>
    BY <2>3, AppendIsConcat DEF Text
  <2>5. Update(x, [exception[x] EXCEPT !.ost = @ \o <<w>>], heard)
    BY <1>8, <2>4
  <2> QED
    BY <1>7, <1>8, <2>1, <2>5
<1>9. ASSUME NEW x \in Object, NEW f \in Fragment, AppendText(x, f) PROVE ExceptionIInv'
  <2>1. Words(<<f>>) = {f}
    BY OneAndTwo DEF Words
  <2>2. told[x] \cup {f} = told[x] \cup Words(<<f>>)
    BY <2>1
  <2> QED
    BY <1>8, <1>9, <2>2 DEF AppendText
<1>10. ASSUME NEW x \in Object, NEW f \in Fragment, Insert(x, f) PROVE ExceptionIInv'
  <2>1. Words(<<"\n">>) = {}
    BY Frame, WordsOfParts
  <2>2. told[x] = told[x] \cup Words(<<"\n">>)
    BY <2>1
  <2>3. CASE Update(x, [exception[x] EXCEPT !.ost = Append(@, "\n")], told[x])
    BY <1>8, <2>2, <2>3
  <2> QED
    BY <1>9, <1>10, <2>3 DEF Insert
<1>11. ASSUME NEW x \in Object, NEW y \in Object, AppendException(x, y) PROVE ExceptionIInv'
  <2>1. IsException(exception[y])
    BY <1>2, <1>11 DEF AppendException
  <2>2. exception[y].ost \in Text
    BY <2>1 DEF IsException
  <2> QED
    BY <1>7, <1>11, <2>2 DEF AppendException
(* The additions to and changes of the context or the information. *)
<1>12. ASSUME NEW x \in Object, NEW context \in Seq(Fragment), NEW heard,
              Update(x, [exception[x] EXCEPT !.context = context], heard),
              Made(x) => heard = (ToSet(context) \cup ToSet(exception[x].info))
                                  \cup Words(exception[x].ost)
       PROVE  ExceptionIInv'
  <2> DEFINE e == [exception[x] EXCEPT !.context = context]
  <2>1. Made(x) /\ Becomes(x, e, heard) /\ IsException(exception[x])
    BY <1>2, <1>12 DEF Update
  <2>2. /\ IsException(e)
        /\ e.context = context
        /\ e.ost = exception[x].ost /\ e.info = exception[x].info
    BY <2>1 DEF IsException
  <2> HIDE DEF e
  <2>3. Said(e) = heard
    BY <1>12, <2>1, <2>2 DEF Said
  <2> QED
    BY <2>1, <2>2, <2>3, ExceptionChanges
<1>13. ASSUME NEW x \in Object, NEW info \in Seq(Fragment), NEW heard,
              Update(x, [exception[x] EXCEPT !.info = info], heard),
              Made(x) => heard = (ToSet(exception[x].context) \cup ToSet(info))
                                  \cup Words(exception[x].ost)
       PROVE  ExceptionIInv'
  <2> DEFINE e == [exception[x] EXCEPT !.info = info]
  <2>1. Made(x) /\ Becomes(x, e, heard) /\ IsException(exception[x])
    BY <1>2, <1>13 DEF Update
  <2>2. /\ IsException(e)
        /\ e.info = info
        /\ e.ost = exception[x].ost /\ e.context = exception[x].context
    BY <2>1 DEF IsException
  <2> HIDE DEF e
  <2>3. Said(e) = heard
    BY <1>13, <2>1, <2>2 DEF Said
  <2> QED
    BY <2>1, <2>2, <2>3, ExceptionChanges
<1>14. ASSUME NEW x \in Object, NEW f \in Fragment, AddContext(x, f) PROVE ExceptionIInv'
  <2> DEFINE context == Append(exception[x].context, f)
  <2>1. IsException(exception[x]) /\ told[x] = Said(exception[x])
    BY <1>2, <1>14 DEF AddContext, Update
  <2>2. exception[x].context \in Seq(Fragment)
    BY <2>1 DEF IsException
  <2>3. context \in Seq(Fragment) /\ ToSet(context) = ToSet(exception[x].context) \cup {f}
    BY <2>2, ToSetOfParts, AppendProperties
  <2>4. Update(x, [exception[x] EXCEPT !.context = context], told[x] \cup {f})
    BY <1>14 DEF AddContext
  <2> HIDE DEF context
  <2>5. told[x] \cup {f} = (ToSet(context) \cup ToSet(exception[x].info)) \cup Words(exception[x].ost)
    BY <2>1, <2>3, Zenon DEF Said
  <2> QED
    BY <1>12, <2>3, <2>4, <2>5
<1>15. ASSUME NEW x \in Object, NEW f \in Fragment, AddAdditionalInfo(x, f) PROVE ExceptionIInv'
  <2> DEFINE info == Append(exception[x].info, f)
  <2>1. IsException(exception[x]) /\ told[x] = Said(exception[x])
    BY <1>2, <1>15 DEF AddAdditionalInfo, Update
  <2>2. exception[x].info \in Seq(Fragment)
    BY <2>1 DEF IsException
  <2>3. info \in Seq(Fragment) /\ ToSet(info) = ToSet(exception[x].info) \cup {f}
    BY <2>2, ToSetOfParts, AppendProperties
  <2>4. Update(x, [exception[x] EXCEPT !.info = info], told[x] \cup {f})
    BY <1>15 DEF AddAdditionalInfo
  <2> HIDE DEF info
  <2>5. told[x] \cup {f} = (ToSet(exception[x].context) \cup ToSet(info)) \cup Words(exception[x].ost)
    BY <2>1, <2>3, Zenon DEF Said
  <2> QED
    BY <1>13, <2>3, <2>4, <2>5
<1>16. ASSUME NEW x \in Object, NEW context \in Seq(Fragment), SetContext(x, context)
       PROVE  ExceptionIInv'
  BY <1>12, <1>16 DEF SetContext
<1>17. ASSUME NEW x \in Object, NEW info \in Seq(Fragment), SetAdditionalInfo(x, info)
       PROVE  ExceptionIInv'
  BY <1>13, <1>17 DEF SetAdditionalInfo
<1>18. ASSUME NEW x \in Object, ClearMessage(x) PROVE ExceptionIInv'
  <2> DEFINE e == [exception[x] EXCEPT !.ost = <<>>]
             heard == ToSet(exception[x].context) \cup ToSet(exception[x].info)
  <2>1. Made(x) /\ Becomes(x, e, heard) /\ IsException(exception[x])
    BY <1>2, <1>18 DEF ClearMessage, Update
  <2>2. /\ IsException(e)
        /\ e.ost = <<>>
        /\ e.info = exception[x].info /\ e.context = exception[x].context
    BY <2>1, TextGrows DEF IsException
  <2>3. Words(<<>>) = {}
    BY WordsOfParts
  <2> HIDE DEF e
  <2>4. Said(e) = heard
    BY <2>2, <2>3 DEF Said
  <2> QED
    BY <2>1, <2>2, <2>4, ExceptionChanges
<1>19. ASSUME NEW x \in Object, SetAlreadyPrinted(x) PROVE ExceptionIInv'
  <2> DEFINE e == [exception[x] EXCEPT !.printed = TRUE]
  <2>1. /\ Made(x) /\ Becomes(x, e, told[x])
        /\ IsException(exception[x]) /\ told[x] = Said(exception[x])
    BY <1>2, <1>19 DEF SetAlreadyPrinted, Update
  <2>2. /\ IsException(e)
        /\ e.ost = exception[x].ost
        /\ e.info = exception[x].info /\ e.context = exception[x].context
    BY <2>1 DEF IsException
  <2> HIDE DEF e
  <2>3. Said(e) = told[x]
    BY <2>1, <2>2 DEF Said
  <2> QED
    BY <2>1, <2>2, <2>3, ExceptionChanges
<1>20. ASSUME NEW x \in Object, ClearContext(x) \/ ClearAdditionalInfo(x) PROVE ExceptionIInv'
  <2>1. <<>> \in Seq(Fragment)
    BY EmptySeq
  <2> QED
    BY <1>16, <1>17, <1>20, <2>1 DEF ClearContext, ClearAdditionalInfo
<1>21. \A f \in Fragment : <<f>> \in Seq(Fragment)
  BY OneAndTwo
<1>22. CASE NextException
  <2>1. PICK x \in Object :
          \/ \E c \in Category, m \in Wording : Construct(x, c, m)
          \/ \E y \in Object : \/ \E c \in Category, m \in Wording : Wrap(x, c, m, y)
                               \/ Clone(x, y) \/ Assign(x, y) \/ AppendException(x, y)
          \/ \E f \in Fragment :
               \/ AppendText(x, f) \/ Insert(x, f) \/ AddContext(x, f) \/ AddAdditionalInfo(x, f)
               \/ SetContext(x, <<f>>) \/ SetAdditionalInfo(x, <<f>>)
          \/ ClearMessage(x) \/ ClearContext(x) \/ ClearAdditionalInfo(x) \/ SetAlreadyPrinted(x)
    BY <1>22, Zenon DEF NextException
  <2>2. CASE \E c \in Category, m \in Wording : Construct(x, c, m)
    BY <1>3, <2>2
  <2>3. ASSUME NEW y \in Object,
               \/ \E c \in Category, m \in Wording : Wrap(x, c, m, y)
               \/ Clone(x, y) \/ Assign(x, y) \/ AppendException(x, y)
        PROVE  ExceptionIInv'
    BY <1>4, <1>5, <1>6, <1>11, <2>3
  <2>4. ASSUME NEW f \in Fragment,
               \/ AppendText(x, f) \/ Insert(x, f) \/ AddContext(x, f) \/ AddAdditionalInfo(x, f)
               \/ SetContext(x, <<f>>) \/ SetAdditionalInfo(x, <<f>>)
        PROVE  ExceptionIInv'
    BY <1>9, <1>10, <1>14, <1>15, <1>16, <1>17, <1>21, <2>4
  <2> QED
    BY <1>18, <1>19, <1>20, <2>1, <2>2, <2>3, <2>4
<1> QED
  BY <1>1, <1>22

(* The invariant that NothingSaidIsLost rests on. *)
THEOREM ExceptionInvariance == ExceptionSpec => []ExceptionIInv
  BY ExceptionInit, ExceptionStep, PTL DEF ExceptionSpec

(* NothingSaidIsLost for any objects, categories and texts, and any number *)
(* of calls: explainSelf writes exactly the words that the exception was   *)
(* told, itself or through what it was copied, wrapped or assigned from.   *)
THEOREM ExceptionsKeepText == ExceptionSpec => []NothingSaidIsLost
<1>1. ExceptionIInv => NothingSaidIsLost
  BY ExplainsAll DEF ExceptionIInv, NothingSaidIsLost
<1> QED
  BY <1>1, ExceptionInvariance, PTL

----------------------------------------------------------------------------
(* Product look-up                                                         *)

(* Every nonempty set of natural numbers has a least one, which Min names. *)
LEMMA NatMin ==
  ASSUME NEW T, T \subseteq Nat, T # {}
  PROVE  Min(T) \in T /\ \A m \in T : Min(T) <= m
<1> DEFINE R == OpToRel(<, Nat)
<1>1. IsWellFoundedOn(R, Nat)
  BY NatLessThanWellFounded
<1>2. \A x, y \in Nat : <<x, y>> \in R <=> x < y
  BY DEF OpToRel
<1> HIDE DEF R
<1>3. \E x \in T : \A y \in T : ~(<<y, x>> \in R)
  BY <1>1, WFMin
<1>4. PICK n \in T : \A y \in T : ~(<<y, n>> \in R)
  BY <1>3
<1>5. \A m \in T : ~(m < n)
  BY <1>2, <1>4, Zenon
<1>6. n \in Nat /\ \A m \in T : m \in Nat
  OBVIOUS
<1>7. \A m \in T : n <= m
  BY <1>5, <1>6
<1> QED
  BY <1>7 DEF Min

(* A loop does what its steps do: what holds before it and is kept by each *)
(* step holds after it.                                                    *)
LEMMA StepByStep ==
  ASSUME NEW N \in Nat, NEW T, 0 \in T, \A i \in 1..N : i - 1 \in T => i \in T
  PROVE  N \in T
<1> DEFINE D == (0..N) \ T
<1> SUFFICES ASSUME D # {} PROVE FALSE
  <2> N \in 0..N
    OBVIOUS
  <2> QED
    OBVIOUS
<1>1. D \subseteq Nat
  OBVIOUS
<1>2. Min(D) \in D /\ \A m \in D : Min(D) <= m
  BY <1>1, NatMin
<1>3. PICK n \in D : \A m \in D : n <= m
  BY <1>2
<1>4. n \in 1..N /\ n - 1 \in 0..N /\ n - 1 < n
  OBVIOUS
<1>5. n - 1 \in T
  BY <1>3, <1>4
<1> QED
  BY <1>4, <1>5

(* The loop over a provider's offers is a function by recursion; it exists. *)
LEMMA AddAllDefined ==
  ASSUME NEW before, NEW offers, Len(offers) \in Nat
  PROVE  \E f : /\ f[0] = before
                /\ \A i \in 1..Len(offers) : f[i] = AddOne(f[i - 1], offers[i])
                /\ AddAll(before, offers) = f[Len(offers)]
<1> DEFINE k == Len(offers)
           value(f, i) == IF i = 0 THEN before ELSE AddOne(f[i - 1], offers[i])
           F == CHOOSE f : f = [i \in 0..k |-> value(f, i)]
           T == {j \in 0..k : \E f : /\ f = [i \in 0..k |-> f[i]]
                                     /\ \A i \in 0..j : f[i] = value(f, i)}
<1>1. 0 \in T
  <2> DEFINE f == [i \in 0..k |-> before]
  <2>1. f = [i \in 0..k |-> f[i]] /\ \A i \in 0..0 : f[i] = value(f, i)
    OBVIOUS
  <2> HIDE DEF f, value
  <2>2. 0 \in 0..k
    OBVIOUS
  <2> QED
    BY <2>1, <2>2
<1>2. \A j \in 1..k : j - 1 \in T => j \in T
  <2> SUFFICES ASSUME NEW j \in 1..k, j - 1 \in T PROVE j \in T
    OBVIOUS
  <2>1. PICK f : f = [i \in 0..k |-> f[i]] /\ \A i \in 0..(j - 1) : f[i] = value(f, i)
    OBVIOUS
  <2> DEFINE g == [i \in 0..k |-> IF i = j THEN value(f, j) ELSE f[i]]
  <2>2. \A i \in 0..k : i # j => g[i] = f[i]
    OBVIOUS
  <2>3. j \in 0..k /\ g[j] = value(f, j)
    OBVIOUS
  <2>4. g = [i \in 0..k |-> g[i]]
    OBVIOUS
  <2> HIDE DEF g
  <2>5. ASSUME NEW i \in 0..j PROVE g[i] = value(g, i)
    <3>1. i \in 0..k /\ (i # 0 => i - 1 \in 0..k /\ i - 1 # j)
      OBVIOUS
    <3>2. i # 0 => g[i - 1] = f[i - 1]
      BY <2>2, <3>1
    <3>3. value(g, i) = value(f, i)
      BY <3>2
    <3>4. CASE i = j
      BY <2>3, <3>3, <3>4
    <3>5. CASE i # j
      <4>1. i \in 0..(j - 1)
        BY <3>5
      <4> QED
        BY <2>1, <2>2, <3>1, <3>3, <3>5, <4>1
    <3> QED
      BY <3>4, <3>5
  <2> QED
    BY <2>3, <2>4, <2>5
<1>3. k \in T
  <2> HIDE DEF T, k
  <2> QED
    BY <1>1, <1>2, StepByStep DEF k
<1>4. PICK f : f = [i \in 0..k |-> f[i]] /\ \A i \in 0..k : f[i] = value(f, i)
  BY <1>3
<1>5. f = [i \in 0..k |-> value(f, i)]
  <2> HIDE DEF value
  <2> QED
    BY <1>4, Zenon
<1>6. F = [i \in 0..k |-> value(F, i)]
  <2> HIDE DEF value
  <2> QED
    BY <1>5
<1>7. AddAll(before, offers) = F[k]
  BY DEF AddAll
<1>8. \A i \in 0..k : F[i] = value(F, i)
  <2> HIDE DEF value, F
  <2> QED
    BY <1>6
<1>9. 0 \in 0..k /\ \A i \in 1..k : i \in 0..k /\ i # 0
  OBVIOUS
<1>10. F[0] = before /\ \A i \in 1..k : F[i] = AddOne(F[i - 1], offers[i])
  <2> HIDE DEF F, k
  <2> QED
    BY <1>8, <1>9
<1> QED
  BY <1>7, <1>10

(* One step of the pass over the processes of a product. *)
Offered(map, product, names, name, prod) ==
  <<product, name>> \in DOMAIN map /\ Preferred(names, name, prod.first)
Entry(map, product, name) == [first |-> name, second |-> map[<<product, name>>]]

(* The same for the pass of finalize over the processes of a product. *)
LEMMA DefaultDefined ==
  ASSUME NEW map, NEW product, NEW names, Len(NameOrder) \in Nat
  PROVE  \E f : /\ f[0] = [first |-> NoName, second |-> Uninitialized]
                /\ \A i \in 1..Len(NameOrder) :
                     f[i] = IF Offered(map, product, names, NameOrder[i], f[i - 1])
                            THEN Entry(map, product, NameOrder[i]) ELSE f[i - 1]
                /\ DefaultEntry(map, product, names) = f[Len(NameOrder)].second
<1> DEFINE k == Len(NameOrder)
           value(f, i) ==
             IF i = 0 THEN [first |-> NoName, second |-> Uninitialized]
             ELSE IF /\ <<product, NameOrder[i]>> \in DOMAIN map
                     /\ Preferred(names, NameOrder[i], f[i - 1].first)
                  THEN [first |-> NameOrder[i], second |-> map[<<product, NameOrder[i]>>]]
                  ELSE f[i - 1]
           F == CHOOSE f : f = [i \in 0..k |-> value(f, i)]
           T == {j \in 0..k : \E f : /\ f = [i \in 0..k |-> f[i]]
                                     /\ \A i \in 0..j : f[i] = value(f, i)}
<1>1. 0 \in T
  <2> DEFINE f == [i \in 0..k |-> [first |-> NoName, second |-> Uninitialized]]
  <2>1. f = [i \in 0..k |-> f[i]] /\ \A i \in 0..0 : f[i] = value(f, i)
    OBVIOUS
  <2> HIDE DEF f, value
  <2>2. 0 \in 0..k
    OBVIOUS
  <2> QED
    BY <2>1, <2>2
<1>2. \A j \in 1..k : j - 1 \in T => j \in T
  <2> SUFFICES ASSUME NEW j \in 1..k, j - 1 \in T PROVE j \in T
    OBVIOUS
  <2>1. PICK f : f = [i \in 0..k |-> f[i]] /\ \A i \in 0..(j - 1) : f[i] = value(f, i)
    OBVIOUS
  <2> DEFINE g == [i \in 0..k |-> IF i = j THEN value(f, j) ELSE f[i]]
  <2>2. \A i \in 0..k : i # j => g[i] = f[i]
    OBVIOUS
  <2>3. j \in 0..k /\ g[j] = value(f, j)
    OBVIOUS
  <2>4. g = [i \in 0..k |-> g[i]]
    OBVIOUS
  <2> HIDE DEF g
  <2>5. ASSUME NEW i \in 0..j PROVE g[i] = value(g, i)
    <3>1. i \in 0..k /\ (i # 0 => i - 1 \in 0..k /\ i - 1 # j)
      OBVIOUS
    <3>2. i # 0 => g[i - 1] = f[i - 1]
      BY <2>2, <3>1
    <3>3. value(g, i) = value(f, i)
      BY <3>2
    <3>4. CASE i = j
      BY <2>3, <3>3, <3>4
    <3>5. CASE i # j
      <4>1. i \in 0..(j - 1)
        BY <3>5
      <4> QED
        BY <2>1, <2>2, <3>1, <3>3, <3>5, <4>1
    <3> QED
      BY <3>4, <3>5
  <2> QED
    BY <2>3, <2>4, <2>5
<1>3. k \in T
  <2> HIDE DEF T, k
  <2> QED
    BY <1>1, <1>2, StepByStep DEF k
<1>4. PICK f : f = [i \in 0..k |-> f[i]] /\ \A i \in 0..k : f[i] = value(f, i)
  BY <1>3
<1>5. f = [i \in 0..k |-> value(f, i)]
  <2> HIDE DEF value
  <2> QED
    BY <1>4, Zenon
<1>6. F = [i \in 0..k |-> value(F, i)]
  <2> HIDE DEF value
  <2> QED
    BY <1>5
<1>7. DefaultEntry(map, product, names) = F[k].second
  BY DEF DefaultEntry
<1>8. \A i \in 0..k : F[i] = value(F, i)
  <2> HIDE DEF value, F
  <2> QED
    BY <1>6
<1>9. 0 \in 0..k /\ \A i \in 1..k : i \in 0..k /\ i # 0
  OBVIOUS
<1>10. F[0] = [first |-> NoName, second |-> Uninitialized]
       /\ \A i \in 1..k : F[i] = IF Offered(map, product, names, NameOrder[i], F[i - 1])
                                  THEN Entry(map, product, NameOrder[i]) ELSE F[i - 1]
  <2> HIDE DEF F, k
  <2> QED
    BY <1>8, <1>9 DEF Offered, Entry
<1> QED
  BY <1>7, <1>10

Names == ProcessName \ {NoName}

LEMMA ElementOfSeqs ==
  ASSUME NEW S, NEW s \in Seq(S)
  PROVE  /\ Len(s) \in Nat /\ DOMAIN s = 1..Len(s)
         /\ \A i \in 1..Len(s) : s[i] \in S /\ s[i] \in ToSet(s)
         /\ \A x : x \in ToSet(s) <=> \E i \in 1..Len(s) : s[i] = x
<1>1. Len(s) \in Nat /\ DOMAIN s = 1..Len(s)
  BY LenProperties
<1>2. \A i \in 1..Len(s) : s[i] \in S
  BY ElementOfSeq
<1> QED
  BY <1>1, <1>2 DEF ToSet

(* std::find stops at the name, or behind the last. *)
LEMMA PositionFinds ==
  ASSUME NEW S, NEW s \in Seq(S), NEW x
  PROVE  /\ Position(s, x) \in Nat
         /\ x \in ToSet(s) => /\ Position(s, x) \in 1..Len(s) /\ s[Position(s, x)] = x
                              /\ \A i \in 1..Len(s) : s[i] = x => Position(s, x) <= i
         /\ x \notin ToSet(s) => Position(s, x) = Len(s) + 1
<1> DEFINE places == {i \in DOMAIN s : s[i] = x}
<1>1. Position(s, x) = IF places = {} THEN Len(s) + 1 ELSE Min(places)
  BY DEF Position
<1>2. places \subseteq 1..Len(s) /\ \A i \in places : s[i] = x
  BY ElementOfSeqs
<1>3. x \in ToSet(s) <=> places # {}
  BY ElementOfSeqs
<1>4. \A i \in 1..Len(s) : s[i] = x => i \in places
  BY ElementOfSeqs
<1> HIDE DEF places
<1>5. CASE places = {}
  BY <1>1, <1>3, <1>5, ElementOfSeqs
<1>6. CASE places # {}
  <2>1. places \subseteq Nat
    BY <1>2
  <2>2. Min(places) \in places /\ \A m \in places : Min(places) <= m
    BY <1>6, <2>1, NatMin
  <2> QED
    BY <1>1, <1>2, <1>3, <1>4, <1>6, <2>1, <2>2
<1> QED
  BY <1>5, <1>6

(* One process comes before another for finalize. *)
Wins(names, n, m) ==
  IF {n, m} \cap ToSet(names) = {}
  THEN Position(NameOrder, n) <= Position(NameOrder, m)
  ELSE Position(names, n) <= Position(names, m)

LEMMA WinnerIsOne ==
  ASSUME NEW names \in Seq(Names), NEW n \in ProcessName, NEW m \in ProcessName,
         Wins(names, n, m), Wins(names, m, n)
  PROVE  n = m
<1>1. /\ Position(names, n) \in Nat /\ Position(names, m) \in Nat
      /\ Position(NameOrder, n) \in Nat /\ Position(NameOrder, m) \in Nat
      /\ Len(names) \in Nat
  BY LookupAssumption, PositionFinds, ElementOfSeqs
<1>2. CASE {n, m} \cap ToSet(names) = {}
  <2>1. {m, n} \cap ToSet(names) = {}
    BY <1>2
  <2>2. Position(NameOrder, n) = Position(NameOrder, m)
    BY <1>1, <1>2, <2>1 DEF Wins
  <2>3. NameOrder[Position(NameOrder, n)] = n /\ NameOrder[Position(NameOrder, m)] = m
    BY LookupAssumption, PositionFinds DEF ProcessName
  <2> QED
    BY <2>2, <2>3
<1>3. CASE {n, m} \cap ToSet(names) # {}
  <2>1. {m, n} \cap ToSet(names) # {}
    BY <1>3
  <2>2. Position(names, n) = Position(names, m)
    BY <1>1, <1>3, <2>1 DEF Wins
  <2>3. /\ n \in ToSet(names) => Position(names, n) \in 1..Len(names)
        /\ m \in ToSet(names) => Position(names, m) \in 1..Len(names)
        /\ n \notin ToSet(names) => Position(names, n) = Len(names) + 1
        /\ m \notin ToSet(names) => Position(names, m) = Len(names) + 1
    BY PositionFinds
  <2>4. n \in ToSet(names) /\ m \in ToSet(names)
    BY <1>1, <1>3, <2>2, <2>3
  <2>5. names[Position(names, n)] = n /\ names[Position(names, m)] = m
    BY <2>4, PositionFinds
  <2> QED
    BY <2>2, <2>5
<1> QED
  BY <1>2, <1>3

(* What the pass has found after i processes: the one that wins among them. *)
Found(map, product, names, i, prod) ==
  /\ prod.first = NoName =>
       \A j \in 1..i : NameOrder[j] # NoName => <<product, NameOrder[j]>> \notin DOMAIN map
  /\ prod.first # NoName =>
       /\ \E j \in 1..i : NameOrder[j] = prod.first
       /\ <<product, prod.first>> \in DOMAIN map
       /\ prod.second = map[<<product, prod.first>>]
       /\ \A j \in 1..i :
            NameOrder[j] # NoName /\ <<product, NameOrder[j]>> \in DOMAIN map
              => Wins(names, prod.first, NameOrder[j])

LEMMA FoundStep ==
  ASSUME NEW map, NEW product, NEW names \in Seq(Names), NEW i \in 1..Len(NameOrder), NEW prod,
         Found(map, product, names, i - 1, prod)
  PROVE  Found(map, product, names, i,
               IF Offered(map, product, names, NameOrder[i], prod)
               THEN Entry(map, product, NameOrder[i]) ELSE prod)
<1> DEFINE c == NameOrder[i]
<1>1. /\ Len(NameOrder) \in Nat /\ NameOrder \in Seq(ProcessName)
      /\ DOMAIN NameOrder = 1..Len(NameOrder) /\ c \in ProcessName
      /\ \A j \in 1..Len(NameOrder) : NameOrder[j] \in ProcessName
      /\ \A j, k \in 1..Len(NameOrder) : NameOrder[j] = NameOrder[k] => j = k
  BY LookupAssumption, ElementOfSeqs DEF IsInjective
<1>2. \A j \in 1..i : j = i \/ j \in 1..(i - 1)
  BY <1>1
<1>3. \A j \in 1..(i - 1) : j \in 1..i /\ j \in 1..Len(NameOrder)
  BY <1>1
<1>4. \A x : Position(names, x) \in Nat
  BY PositionFinds
<1>5. i \in 1..i
  BY <1>1
<1>6. Wins(names, c, c)
  <2>1. Position(names, c) \in Nat /\ Position(NameOrder, c) \in Nat
    BY <1>1, PositionFinds
  <2> HIDE DEF c
  <2> QED
    BY <2>1 DEF Wins
<1> HIDE DEF c
<1>7. CASE c = NoName
  <2>1. NoName = NameOrder[1] /\ 1 \in 1..Len(NameOrder)
    BY <1>1, LookupAssumption DEF NoName
  <2>2. i = 1
    BY <1>1, <1>7, <2>1 DEF c
  <2>3. prod.first = NoName
    BY <2>2 DEF Found
  <2>4. \A j \in 1..i : NameOrder[j] = NoName
    BY <2>1, <2>2
  <2>5. CASE Offered(map, product, names, c, prod)
    <3>1. Entry(map, product, c).first = NoName
      BY <1>7 DEF Entry
    <3> QED
      BY <2>4, <2>5, <3>1 DEF Found, c
  <2>6. CASE ~Offered(map, product, names, c, prod)
    BY <2>3, <2>4, <2>6 DEF Found, c
  <2> QED
    BY <2>5, <2>6
<1>8. CASE c # NoName /\ ~Offered(map, product, names, c, prod)
  <2>1. CASE <<product, c>> \notin DOMAIN map
    <3>1. prod.first = NoName =>
            \A j \in 1..i : NameOrder[j] # NoName => <<product, NameOrder[j]>> \notin DOMAIN map
      BY <1>2, <2>1 DEF Found, c
    <3>2. prod.first # NoName =>
            \A j \in 1..i : NameOrder[j] # NoName /\ <<product, NameOrder[j]>> \in DOMAIN map
                              => Wins(names, prod.first, NameOrder[j])
      BY <1>2, <2>1 DEF Found, c
    <3>3. Found(map, product, names, i, prod)
      BY <1>3, <3>1, <3>2 DEF Found
    <3> QED
      BY <1>8, <3>3 DEF c
  <2>2. CASE <<product, c>> \in DOMAIN map
    <3>1. prod.first # NoName /\ ~(Position(names, c) < Position(names, prod.first))
      BY <1>8, <2>2 DEF Offered, Preferred
    <3>2. Position(names, prod.first) <= Position(names, c)
      BY <1>4, <3>1
    <3>3. PICK j \in 1..(i - 1) : NameOrder[j] = prod.first
      BY <3>1 DEF Found
    <3>4. Position(NameOrder, prod.first) <= Position(NameOrder, c)
      <4>1. j \in 1..Len(NameOrder) /\ j <= i
        BY <1>3, <3>3
      <4>2. prod.first \in ToSet(NameOrder) /\ c \in ToSet(NameOrder)
        BY <1>1, <3>3, <4>1 DEF ProcessName
      <4>3. /\ Position(NameOrder, prod.first) <= j /\ Position(NameOrder, prod.first) \in Nat
            /\ Position(NameOrder, c) \in 1..Len(NameOrder)
            /\ NameOrder[Position(NameOrder, c)] = c
        BY <1>1, <3>3, <4>1, <4>2, PositionFinds
      <4>4. Position(NameOrder, c) = i
        BY <1>1, <4>3 DEF c
      <4> QED
        BY <1>1, <4>1, <4>3, <4>4
    <3>5. Wins(names, prod.first, c)
      BY <3>2, <3>4 DEF Wins
    <3>6. \A k \in 1..i : NameOrder[k] # NoName /\ <<product, NameOrder[k]>> \in DOMAIN map
                            => Wins(names, prod.first, NameOrder[k])
      BY <1>2, <3>1, <3>5 DEF Found, c
    <3>7. Found(map, product, names, i, prod)
      BY <1>3, <3>1, <3>6 DEF Found
    <3> QED
      BY <1>8, <3>7 DEF c
  <2> QED
    BY <2>1, <2>2
<1>9. CASE c # NoName /\ Offered(map, product, names, c, prod)
  <2>1. <<product, c>> \in DOMAIN map
    BY <1>9 DEF Offered
  <2>2. ASSUME NEW j \in 1..(i - 1), NameOrder[j] # NoName, <<product, NameOrder[j]>> \in DOMAIN map
        PROVE  Wins(names, c, NameOrder[j])
    <3>1. prod.first # NoName /\ Wins(names, prod.first, NameOrder[j])
      BY <2>2 DEF Found
    <3>2. Position(names, c) < Position(names, prod.first)
      BY <1>9, <3>1 DEF Offered, Preferred
    <3>3. c \in ToSet(names)
      <4>1. c \notin ToSet(names) => Position(names, c) = Len(names) + 1
        BY PositionFinds
      <4>2. Position(names, prod.first) <= Len(names) + 1
        BY PositionFinds, ElementOfSeqs
      <4> QED
        BY <1>4, <3>2, <4>1, <4>2, ElementOfSeqs
    <3>4. Position(names, prod.first) <= Position(names, NameOrder[j])
      <4>1. CASE {prod.first, NameOrder[j]} \cap ToSet(names) = {}
        <5>1. prod.first \notin ToSet(names) /\ NameOrder[j] \notin ToSet(names)
          BY <4>1
        <5>2. Position(names, prod.first) = Position(names, NameOrder[j])
          BY <5>1, PositionFinds
        <5> QED
          BY <1>4, <5>2
      <4>2. CASE {prod.first, NameOrder[j]} \cap ToSet(names) # {}
        BY <3>1, <4>2 DEF Wins
      <4> QED
        BY <4>1, <4>2
    <3>5. Position(names, c) <= Position(names, NameOrder[j])
      BY <1>4, <3>2, <3>4
    <3>6. {c, NameOrder[j]} \cap ToSet(names) # {}
      BY <3>3
    <3> QED
      BY <3>5, <3>6 DEF Wins
  <2>3. \A j \in 1..i : NameOrder[j] # NoName /\ <<product, NameOrder[j]>> \in DOMAIN map
                          => Wins(names, c, NameOrder[j])
    BY <1>2, <1>6, <2>2 DEF c
  <2>4. Entry(map, product, c).first = c /\ Entry(map, product, c).second = map[<<product, c>>]
    BY DEF Entry
  <2>5. Found(map, product, names, i, Entry(map, product, c))
    BY <1>5, <1>9, <2>1, <2>3, <2>4 DEF Found, c
  <2> QED
    BY <1>9, <2>5 DEF c
<1> QED
  BY <1>7, <1>8, <1>9

(* finalize gives a product the index of the process that comes before all *)
(* others that have it.                                                    *)
LEMMA DefaultWins ==
  ASSUME NEW map, NEW product, NEW names \in Seq(Names),
         NEW n \in Names, <<product, n>> \in DOMAIN map,
         \A m \in Names : <<product, m>> \in DOMAIN map => Wins(names, n, m)
  PROVE  DefaultEntry(map, product, names) = map[<<product, n>>]
<1> DEFINE N == Len(NameOrder)
<1>1. N \in Nat /\ NameOrder \in Seq(ProcessName)
  BY LookupAssumption, ElementOfSeqs
<1>2. PICK f :
        /\ f[0] = [first |-> NoName, second |-> Uninitialized]
        /\ \A i \in 1..N :
             f[i] = IF Offered(map, product, names, NameOrder[i], f[i - 1])
                    THEN Entry(map, product, NameOrder[i]) ELSE f[i - 1]
        /\ DefaultEntry(map, product, names) = f[N].second
  BY <1>1, DefaultDefined
<1> DEFINE T == {i \in 0..N : Found(map, product, names, i, f[i])}
<1>3. 0 \in T
  <2>1. f[0].first = NoName
    BY <1>2
  <2>2. Found(map, product, names, 0, f[0])
    BY <2>1 DEF Found
  <2> QED
    BY <1>1, <2>2
<1>4. ASSUME NEW i \in 1..N, i - 1 \in T PROVE i \in T
  <2>1. Found(map, product, names, i - 1, f[i - 1])
    BY <1>4
  <2>2. Found(map, product, names, i, f[i])
    BY <1>2, <2>1, FoundStep
  <2> QED
    BY <1>1, <2>2
<1>5. N \in T
  <2> HIDE DEF T, N
  <2> QED
    BY <1>1, <1>3, <1>4, StepByStep
<1>6. Found(map, product, names, N, f[N])
  BY <1>5
<1> HIDE DEF T
<1>7. PICK k \in 1..N : NameOrder[k] = n
  BY <1>1, ElementOfSeqs DEF Names, ProcessName
<1>8. f[N].first # NoName
  BY <1>6, <1>7 DEF Found, Names
<1>9. /\ f[N].first \in ProcessName /\ <<product, f[N].first>> \in DOMAIN map
      /\ f[N].second = map[<<product, f[N].first>>]
      /\ Wins(names, f[N].first, n)
  <2>1. PICK j \in 1..N : NameOrder[j] = f[N].first
    BY <1>6, <1>8 DEF Found
  <2>2. f[N].first \in ProcessName
    BY <1>1, <2>1, ElementOfSeqs DEF ProcessName
  <2> QED
    BY <1>6, <1>7, <1>8, <2>2 DEF Found, Names
<1>10. Wins(names, n, f[N].first)
  BY <1>8, <1>9 DEF Names
<1>11. f[N].first = n
  BY <1>9, <1>10, WinnerIsOne DEF Names
<1> QED
  BY <1>2, <1>9, <1>11

(* insert gives a new key the number of keys there are, which is a number  *)
(* that an index can have, and leaves the others alone.                    *)
LEMMA InsertNumbers ==
  ASSUME NEW map, DOMAIN map \subseteq Key, NEW key \in Key \ DOMAIN map,
         NEW new, new = Put(map, key, Cardinality(DOMAIN map))
  PROVE  /\ DOMAIN new = DOMAIN map \cup {key}
         /\ new[key] = Cardinality(DOMAIN map)
         /\ \A k \in DOMAIN map : new[k] = map[k]
         /\ Cardinality(DOMAIN map) \in Nat /\ Cardinality(DOMAIN map) < Uninitialized
         /\ Cardinality(DOMAIN new) = Cardinality(DOMAIN map) + 1
<1>1. /\ DOMAIN new = DOMAIN map \cup {key}
      /\ new[key] = Cardinality(DOMAIN map)
      /\ \A k \in DOMAIN map : new[k] = map[k]
  BY DEF Put
<1>2. IsFiniteSet(DOMAIN map) /\ IsFiniteSet(DOMAIN new) /\ DOMAIN new \subseteq Key
  BY <1>1, LookupAssumption, FS_Subset
<1>3. Cardinality(DOMAIN map) \in Nat /\ Cardinality(Key) \in Nat
  BY <1>2, LookupAssumption, FS_CardinalityType
<1>4. Cardinality(DOMAIN new) = Cardinality(DOMAIN map) + 1
  BY <1>1, <1>2, FS_AddElement
<1>5. Cardinality(DOMAIN new) <= Cardinality(Key)
  BY <1>2, LookupAssumption, FS_Subset
<1>6. Cardinality(Key) <= Uninitialized /\ Uninitialized \in Nat
  BY LookupAssumption
<1> QED
  BY <1>1, <1>3, <1>4, <1>5, <1>6

(* The maps of the helpers, and the products that were listed before       *)
(* finalize: each is where it was put.                                     *)
HelpersTypeOK(all) ==
  DOMAIN all \subseteq Record /\ \A r \in DOMAIN all : DOMAIN all[r] \subseteq Key

HelpersOK(all, listed) ==
  /\ HelpersTypeOK(all) /\ listed \in [Record -> Seq(Key)]
  /\ \A r \in Record : \A i \in 1..Len(listed[r]) :
       /\ r \in DOMAIN all /\ listed[r][i] \in DOMAIN all[r]
       /\ i - 1 < Uninitialized
       /\ listed[r][i][2] # NoName => all[r][listed[r][i]] = i - 1

(* Until finalize the keys are those of the products. *)
Numbered(all, listed) ==
  \A r \in Record : Cardinality(DOMAIN HelperOf(all, r)) = Len(listed[r])

(* A key is new and put into the helper of its record, or nothing happens. *)
Ignores(acc, end) ==
  /\ DOMAIN end.helpers = DOMAIN acc.helpers
  /\ \A r \in DOMAIN acc.helpers : end.helpers[r] = acc.helpers[r]
  /\ end.given = acc.given
Lists(acc, offer, end) ==
  \E map : /\ map = HelperOf(acc.helpers, offer[1])
           /\ offer[2] \in Key \ DOMAIN map
           /\ end.helpers = Put(acc.helpers, offer[1],
                                Put(map, offer[2], Cardinality(DOMAIN map)))
           /\ end.given = [acc.given EXCEPT ![offer[1]] = Append(@, offer[2])]

LEMMA AddsOrNot ==
  ASSUME NEW acc, NEW offer \in Record \X Key, HelpersTypeOK(acc.helpers),
         NEW end, end = AddOne(acc, offer)
  PROVE  Ignores(acc, end) \/ Lists(acc, offer, end)
<1> DEFINE r == offer[1]
           map == HelperOf(acc.helpers, r)
           inserted == InsertKey(map, offer[2])
<1>1. r \in Record /\ offer[2] \in Key
  OBVIOUS
<1>2. end = IF acc.threw THEN acc
            ELSE [threw |-> inserted.threw,
                  helpers |-> Put(acc.helpers, r, inserted.map),
                  given |-> IF inserted.threw THEN acc.given
                            ELSE [acc.given EXCEPT ![r] = Append(@, offer[2])]]
  BY DEF AddOne
<1>3. CASE acc.threw
  BY <1>2, <1>3 DEF Ignores
<1>4. CASE ~acc.threw /\ offer[2] \in DOMAIN map
  <2>1. inserted = [threw |-> TRUE, map |-> map]
    BY <1>4 DEF InsertKey
  <2>2. r \in DOMAIN acc.helpers
    <3> SUFFICES ASSUME r \notin DOMAIN acc.helpers PROVE FALSE
      OBVIOUS
    <3>1. map = <<>>
      BY DEF HelperOf
    <3> QED
      BY <1>4, <3>1
  <2>3. map = acc.helpers[r]
    BY <2>2 DEF HelperOf
  <2> HIDE DEF map, inserted
  <2>4. end.helpers = Put(acc.helpers, r, map) /\ end.given = acc.given
    BY <1>2, <1>4, <2>1
  <2> QED
    BY <2>2, <2>3, <2>4 DEF Put, Ignores
<1>5. CASE ~acc.threw /\ offer[2] \notin DOMAIN map
  <2>1. inserted = [threw |-> FALSE, map |-> Put(map, offer[2], Cardinality(DOMAIN map))]
    BY <1>5 DEF InsertKey
  <2> HIDE DEF inserted
  <2>2. /\ end.helpers = Put(acc.helpers, r, Put(map, offer[2], Cardinality(DOMAIN map)))
        /\ end.given = [acc.given EXCEPT ![r] = Append(@, offer[2])]
    BY <1>2, <1>5, <2>1
  <2> QED
    BY <1>1, <1>5, <2>2 DEF Lists
<1> QED
  BY <1>3, <1>4, <1>5

LEMMA AddOneKeeps ==
  ASSUME NEW acc, NEW offer \in Record \X Key, NEW listed, HelpersOK(acc.helpers, listed),
         NEW end, end = AddOne(acc, offer)
  PROVE  /\ HelpersOK(end.helpers, listed) /\ DOMAIN acc.helpers \subseteq DOMAIN end.helpers
         /\ acc.given = listed /\ Numbered(acc.helpers, listed)
              => HelpersOK(end.helpers, end.given) /\ Numbered(end.helpers, end.given)
<1>1. HelpersTypeOK(acc.helpers) /\ listed \in [Record -> Seq(Key)]
  BY DEF HelpersOK
<1>2. \A r \in Record : Len(listed[r]) \in Nat
  BY <1>1, LenProperties
<1>3. CASE Ignores(acc, end)
  <2> USE DEF Ignores
  <2>1. HelpersTypeOK(end.helpers)
    BY <1>1, <1>3 DEF HelpersTypeOK
  <2>2. HelpersOK(end.helpers, listed)
    BY <1>1, <1>3, <2>1 DEF HelpersOK
  <2>3. \A r \in Record : HelperOf(end.helpers, r) = HelperOf(acc.helpers, r)
    BY <1>3 DEF HelperOf
  <2>4. Numbered(acc.helpers, listed) => Numbered(end.helpers, listed)
    BY <2>3 DEF Numbered
  <2> QED
    BY <1>3, <2>2, <2>4
<1>4. CASE Lists(acc, offer, end)
  <2>1. PICK r, key, map, new :
          /\ r = offer[1] /\ key = offer[2] /\ r \in Record /\ key \in Key \ DOMAIN map
          /\ map = HelperOf(acc.helpers, r)
          /\ new = Put(map, key, Cardinality(DOMAIN map))
          /\ end.helpers = Put(acc.helpers, r, new)
          /\ end.given = [acc.given EXCEPT ![r] = Append(@, key)]
    BY <1>4 DEF Lists
  <2>2. DOMAIN map \subseteq Key /\ (r \in DOMAIN acc.helpers => map = acc.helpers[r])
    BY <1>1, <2>1 DEF HelperOf, HelpersTypeOK
  <2>3. /\ DOMAIN new = DOMAIN map \cup {key}
        /\ new[key] = Cardinality(DOMAIN map)
        /\ \A k \in DOMAIN map : new[k] = map[k]
        /\ Cardinality(DOMAIN map) \in Nat /\ Cardinality(DOMAIN map) < Uninitialized
        /\ Cardinality(DOMAIN new) = Cardinality(DOMAIN map) + 1
    BY <2>1, <2>2, InsertNumbers
  <2>4. /\ DOMAIN end.helpers = DOMAIN acc.helpers \cup {r}
        /\ end.helpers[r] = new
        /\ \A q \in DOMAIN acc.helpers : q # r => end.helpers[q] = acc.helpers[q]
    BY <2>1 DEF Put
  <2>5. HelpersTypeOK(end.helpers)
    BY <1>1, <2>1, <2>2, <2>3, <2>4 DEF HelpersTypeOK
  <2>6. \A q \in DOMAIN acc.helpers : \A k \in DOMAIN acc.helpers[q] :
          k \in DOMAIN end.helpers[q] /\ end.helpers[q][k] = acc.helpers[q][k]
    BY <2>2, <2>3, <2>4
  <2>7. HelpersOK(end.helpers, listed)
    <3> SUFFICES ASSUME NEW q \in Record, NEW i \in 1..Len(listed[q])
                 PROVE  /\ q \in DOMAIN end.helpers /\ listed[q][i] \in DOMAIN end.helpers[q]
                        /\ i - 1 < Uninitialized
                        /\ listed[q][i][2] # NoName => end.helpers[q][listed[q][i]] = i - 1
      BY <1>1, <2>5 DEF HelpersOK
    <3>1. /\ q \in DOMAIN acc.helpers /\ listed[q][i] \in DOMAIN acc.helpers[q]
          /\ i - 1 < Uninitialized
          /\ listed[q][i][2] # NoName => acc.helpers[q][listed[q][i]] = i - 1
      BY DEF HelpersOK
    <3> QED
      BY <2>4, <2>6, <3>1
  <2>8. ASSUME acc.given = listed, Numbered(acc.helpers, listed)
        PROVE  HelpersOK(end.helpers, end.given) /\ Numbered(end.helpers, end.given)
    <3>1. PICK more : more = Append(listed[r], key)
      OBVIOUS
    <3>2. /\ listed[r] \in Seq(Key) /\ more \in Seq(Key) /\ Len(more) = Len(listed[r]) + 1
          /\ \A i \in 1..Len(listed[r]) : more[i] = listed[r][i]
          /\ more[Len(listed[r]) + 1] = key
      BY <1>1, <2>1, <3>1, AppendProperties
    <3>3. end.given \in [Record -> Seq(Key)] /\ end.given[r] = more
          /\ \A q \in Record : q # r => end.given[q] = listed[q]
      BY <1>1, <2>1, <2>8, <3>1, <3>2
    <3>4. Cardinality(DOMAIN map) = Len(listed[r])
      BY <2>1, <2>8 DEF Numbered
    <3>5. Numbered(end.helpers, end.given)
      <4>1. HelperOf(end.helpers, r) = new
        BY <2>4 DEF HelperOf
      <4>2. \A q \in Record : q # r => HelperOf(end.helpers, q) = HelperOf(acc.helpers, q)
        BY <2>4 DEF HelperOf
      <4>3. ASSUME NEW q \in Record
            PROVE  Cardinality(DOMAIN HelperOf(end.helpers, q)) = Len(end.given[q])
        <5>1. CASE q = r
          BY <2>3, <3>2, <3>3, <3>4, <4>1, <5>1
        <5>2. CASE q # r
          BY <2>8, <3>3, <4>2, <5>2 DEF Numbered
        <5> QED
          BY <5>1, <5>2
      <4> QED
        BY <4>3 DEF Numbered
    <3>6. ASSUME NEW q \in Record, NEW i \in 1..Len(end.given[q])
          PROVE  /\ q \in DOMAIN end.helpers /\ end.given[q][i] \in DOMAIN end.helpers[q]
                 /\ i - 1 < Uninitialized
                 /\ end.given[q][i][2] # NoName => end.helpers[q][end.given[q][i]] = i - 1
      <4>1. CASE q = r /\ i = Len(listed[r]) + 1
        <5>1. end.given[q][i] = key /\ i - 1 = Len(listed[r])
          BY <1>2, <2>1, <3>2, <3>3, <4>1
        <5> QED
          <6>1. /\ q \in DOMAIN end.helpers /\ end.helpers[q] = new
                /\ key \in DOMAIN new /\ new[key] = i - 1 /\ i - 1 < Uninitialized
            BY <2>3, <2>4, <3>4, <4>1, <5>1
          <6> QED
            BY ONLY <5>1, <6>1
      <4>2. CASE ~(q = r /\ i = Len(listed[r]) + 1)
        <5>1. i \in 1..Len(listed[q]) /\ end.given[q][i] = listed[q][i]
          <6>1. q = r => i \in 1..Len(listed[r]) /\ more[i] = listed[r][i]
            BY <3>2, <3>3, <4>2
          <6> QED
            BY <3>3, <6>1
        <5> QED
          BY <2>7, <5>1 DEF HelpersOK
      <4> QED
        BY <4>1, <4>2
    <3> QED
      BY <2>5, <3>3, <3>5, <3>6 DEF HelpersOK
  <2> QED
    BY <2>4, <2>7, <2>8
<1> QED
  BY <1>1, <1>3, <1>4, AddsOrNot

(* A whole provider, if it lists what it may. *)
LEMMA AddAllKeeps ==
  ASSUME NEW before, NEW offers \in Seq(Record \X Key), NEW listed,
         HelpersOK(before.helpers, listed), NEW end, end = AddAll(before, offers)
  PROVE  /\ HelpersOK(end.helpers, listed) /\ DOMAIN before.helpers \subseteq DOMAIN end.helpers
         /\ before.given = listed /\ Numbered(before.helpers, listed)
              => HelpersOK(end.helpers, end.given) /\ Numbered(end.helpers, end.given)
<1>1. Len(offers) \in Nat /\ \A i \in 1..Len(offers) : offers[i] \in Record \X Key
  BY ElementOfSeqs
<1>2. PICK f : /\ f[0] = before
               /\ \A i \in 1..Len(offers) : f[i] = AddOne(f[i - 1], offers[i])
               /\ end = f[Len(offers)]
  BY <1>1, AddAllDefined
<1> DEFINE Fresh == before.given = listed /\ Numbered(before.helpers, listed)
           Keeps(acc) == /\ HelpersOK(acc.helpers, listed)
                         /\ DOMAIN before.helpers \subseteq DOMAIN acc.helpers
                         /\ Fresh => HelpersOK(acc.helpers, acc.given)
                                     /\ Numbered(acc.helpers, acc.given)
           T == {i \in 0..Len(offers) : Keeps(f[i])}
<1>3. 0 \in T
  <2>1. 0 \in 0..Len(offers)
    BY <1>1
  <2> QED
    BY <1>2, <2>1
<1>4. ASSUME NEW i \in 1..Len(offers), i - 1 \in T PROVE i \in T
  <2>1. PICK acc, e : /\ acc = f[i - 1] /\ e = AddOne(acc, offers[i]) /\ e = f[i]
                      /\ offers[i] \in Record \X Key
    BY <1>1, <1>2
  <2>2. Keeps(acc)
    BY <1>4, <2>1
  <2>3. HelpersOK(e.helpers, listed) /\ DOMAIN acc.helpers \subseteq DOMAIN e.helpers
    BY <2>1, <2>2, AddOneKeeps
  <2>4. Fresh => HelpersOK(e.helpers, e.given) /\ Numbered(e.helpers, e.given)
    <3> SUFFICES ASSUME Fresh PROVE HelpersOK(e.helpers, e.given) /\ Numbered(e.helpers, e.given)
      OBVIOUS
    <3>1. PICK l : l = acc.given
      OBVIOUS
    <3>2. HelpersOK(acc.helpers, l) /\ Numbered(acc.helpers, l)
      BY <2>2, <3>1
    <3> HIDE DEF Fresh, Keeps, T
    <3> QED
      BY <2>1, <3>1, <3>2, AddOneKeeps
  <2>5. Keeps(f[i])
    BY <2>1, <2>2, <2>3, <2>4
  <2> QED
    BY <1>1, <2>5
<1>5. Len(offers) \in T
  <2> HIDE DEF T
  <2> QED
    BY <1>1, <1>3, <1>4, StepByStep
<1> QED
  BY <1>2, <1>5

LookupIInv ==
  /\ HelpersOK(helpers_, given)
  /\ final \/ Numbered(helpers_, given)
  /\ DOMAIN records_ \subseteq DOMAIN helpers_
  /\ DefaultIsFirstInOrder

LEMMA LookupInit == InitLookup => LookupIInv
<1> SUFFICES ASSUME InitLookup PROVE LookupIInv
  OBVIOUS
<1>1. DOMAIN helpers_ = {} /\ DOMAIN records_ = {} /\ order = NoOrder
  BY DEF InitLookup
<1>2. \A r \in Record : given[r] = <<>> /\ Len(given[r]) = 0 /\ given[r] \in Seq(Key)
  BY DEF InitLookup
<1>3. given \in [Record -> Seq(Key)]
  BY <1>2 DEF InitLookup
<1>4. HelpersOK(helpers_, given)
  BY <1>1, <1>2, <1>3 DEF HelpersOK, HelpersTypeOK
<1>5. Numbered(helpers_, given)
  <2>1. \A r \in Record : HelperOf(helpers_, r) = <<>>
    BY <1>1 DEF HelperOf
  <2>2. DOMAIN <<>> = {} /\ Cardinality({}) = 0
    BY FS_EmptySet
  <2> QED
    BY <1>2, <2>1, <2>2 DEF Numbered
<1>6. DefaultIsFirstInOrder
  BY <1>1 DEF DefaultIsFirstInOrder
<1> QED
  BY <1>1, <1>4, <1>5, <1>6 DEF LookupIInv

LEMMA LookupInserts ==
  ASSUME LookupIInv, NEW p \in Provider, DetermineProductsFrom(p)
  PROVE  LookupIInv'
<1> USE DEF LookupIInv
<1>1. PICK before, end :
        /\ before = [threw |-> FALSE, helpers |-> helpers_, given |-> given]
        /\ end = AddAll(before, p)
        /\ helpers_' = end.helpers /\ given' = (IF final THEN given ELSE end.given)
        /\ order' = NoOrder /\ records_' = records_ /\ final' = final
  BY DEF DetermineProductsFrom
<1>2. p \in Seq(Record \X Key) /\ before.helpers = helpers_ /\ before.given = given
  BY <1>1, LookupAssumption
<1>3. /\ HelpersOK(end.helpers, given) /\ DOMAIN helpers_ \subseteq DOMAIN end.helpers
      /\ Numbered(helpers_, given) => HelpersOK(end.helpers, end.given) /\ Numbered(end.helpers, end.given)
  BY <1>1, <1>2, AddAllKeeps
<1>4. HelpersOK(helpers_', given') /\ (final' \/ Numbered(helpers_', given'))
  <2>1. CASE final
    <3>1. helpers_' = end.helpers /\ given' = given /\ final'
      BY <1>1, <2>1
    <3> QED
      BY <1>3, <3>1
  <2>2. CASE ~final
    <3>1. helpers_' = end.helpers /\ given' = end.given
      BY <1>1, <2>2
    <3> QED
      BY <1>3, <2>2, <3>1
  <2> QED
    BY <2>1, <2>2
<1>5. DefaultIsFirstInOrder'
  BY <1>1 DEF DefaultIsFirstInOrder, NoOrder, NoName
<1> QED
  BY <1>1, <1>3, <1>4, <1>5

LEMMA LookupFinalizes ==
  ASSUME LookupIInv, NEW names \in Order, Finalize(names)
  PROVE  LookupIInv'
<1> USE DEF LookupIInv
<1>1. /\ DOMAIN helpers_' = DOMAIN helpers_
      /\ \A r \in DOMAIN helpers_ : helpers_'[r] = FinalizeHelper(helpers_[r], names)
      /\ order' = names /\ final' = TRUE /\ records_' = records_ /\ given' = given
  BY DEF Finalize, UsedRecords
<1>2. names \in Seq(Names) /\ NoName \in ProcessName
  <2>1. 1 \in 1..Len(NameOrder)
    BY LookupAssumption
  <2> QED
    BY <2>1, LookupAssumption, ElementOfSeqs DEF Names, NoName, ProcessName
<1>3. /\ DOMAIN helpers_ \subseteq Record /\ given \in [Record -> Seq(Key)]
      /\ \A r \in DOMAIN helpers_ : DOMAIN helpers_[r] \subseteq Key
  BY DEF HelpersOK, HelpersTypeOK
<1>4. ASSUME NEW r \in DOMAIN helpers_
      PROVE  /\ DOMAIN helpers_'[r] \subseteq Key
             /\ \A k \in DOMAIN helpers_[r] :
                  k \in DOMAIN helpers_'[r] /\ (k[2] # NoName => helpers_'[r][k] = helpers_[r][k])
             /\ \A k \in DOMAIN helpers_'[r] : k[2] # NoName => k \in DOMAIN helpers_[r]
             /\ \A p, n : <<p, n>> \in DOMAIN helpers_[r] =>
                  /\ <<p, NoName>> \in DOMAIN helpers_'[r]
                  /\ helpers_'[r][<<p, NoName>>] = DefaultEntry(helpers_[r], p, names)
  <2>1. PICK map, new : map = helpers_[r] /\ new = helpers_'[r] /\ new = FinalizeHelper(map, names)
    BY <1>1
  <2>2. \A key \in DOMAIN map : <<key[1], NoName>> \in Key
    BY <1>2, <1>3, <2>1 DEF Key
  <2>3. DOMAIN new = DOMAIN map \cup {<<key[1], NoName>> : key \in DOMAIN map}
    BY <2>1 DEF FinalizeHelper
  <2>4. \A k \in DOMAIN new :
          new[k] = IF k[2] = NoName THEN DefaultEntry(map, k[1], names) ELSE map[k]
    BY <2>1 DEF FinalizeHelper
  <2>5. \A p, n : <<p, n>> \in DOMAIN map => <<p, NoName>> \in DOMAIN new
    BY <2>3
  <2>6. \A p : <<p, NoName>> \in DOMAIN new => new[<<p, NoName>>] = DefaultEntry(map, p, names)
    BY <2>4
  <2> QED
    BY <1>3, <2>1, <2>2, <2>3, <2>4, <2>5, <2>6
<1>5. HelpersOK(helpers_', given')
  <2>1. HelpersTypeOK(helpers_')
    BY <1>1, <1>3, <1>4 DEF HelpersTypeOK
  <2>2. ASSUME NEW r \in Record, NEW i \in 1..Len(given[r])
        PROVE  /\ r \in DOMAIN helpers_' /\ given[r][i] \in DOMAIN helpers_'[r]
               /\ i - 1 < Uninitialized
               /\ given[r][i][2] # NoName => helpers_'[r][given[r][i]] = i - 1
    <3>1. /\ r \in DOMAIN helpers_ /\ given[r][i] \in DOMAIN helpers_[r]
          /\ i - 1 < Uninitialized
          /\ given[r][i][2] # NoName => helpers_[r][given[r][i]] = i - 1
      BY DEF HelpersOK
    <3> QED
      BY <1>1, <1>4, <3>1
  <2> QED
    BY <1>1, <1>3, <2>1, <2>2 DEF HelpersOK
<1>6. DefaultIsFirstInOrder'
  <2> SUFFICES ASSUME NEW r \in DOMAIN helpers_, NEW p \in Product,
                      NEW n \in Names, <<p, n>> \in DOMAIN helpers_'[r],
                      \A m \in Names : <<p, m>> \in DOMAIN helpers_'[r] => Wins(names, n, m)
               PROVE  GetIndex(helpers_'[r], <<p, NoName>>) = helpers_'[r][<<p, n>>]
    BY <1>1 DEF DefaultIsFirstInOrder, UsedRecords, Wins, Names
  <2>1. \A m \in Names : <<p, m>> \in DOMAIN helpers_[r] => <<p, m>> \in DOMAIN helpers_'[r]
    BY <1>4
  <2>2. <<p, n>> \in DOMAIN helpers_[r] /\ helpers_'[r][<<p, n>>] = helpers_[r][<<p, n>>]
    BY <1>4 DEF Names
  <2>3. DefaultEntry(helpers_[r], p, names) = helpers_[r][<<p, n>>]
    BY <1>2, <2>1, <2>2, DefaultWins
  <2>4. /\ <<p, NoName>> \in DOMAIN helpers_'[r]
        /\ helpers_'[r][<<p, NoName>>] = DefaultEntry(helpers_[r], p, names)
    BY <1>4, <2>2
  <2> QED
    BY <2>2, <2>3, <2>4 DEF GetIndex
<1> QED
  BY <1>1, <1>5, <1>6

LEMMA LookupRecords ==
  ASSUME LookupIInv, NEW r \in Record, NEW replica \in Replica, InsertRecord(r, replica)
  PROVE  LookupIInv'
<1>1. /\ DOMAIN records_' \subseteq DOMAIN helpers_
      /\ UNCHANGED <<helpers_, order, final, given>>
  BY DEF InsertRecord, UsedRecords, Put, LookupIInv
<1> QED
  BY <1>1 DEF LookupIInv, DefaultIsFirstInOrder, UsedRecords

(* What was listed before finalize is where it was put, and the entries    *)
(* without a process name are those finalize was last asked for.           *)
THEOREM LookupInvariance == LookupSpec => []LookupIInv
<1>1. LookupIInv /\ [NextLookup]_lookupVars => LookupIInv'
  <2> SUFFICES ASSUME LookupIInv, [NextLookup]_lookupVars PROVE LookupIInv'
    OBVIOUS
  <2>1. CASE NextLookup
    BY <2>1, LookupInserts, LookupFinalizes, LookupRecords DEF NextLookup
  <2>2. CASE UNCHANGED lookupVars
    BY <2>2 DEF lookupVars, LookupIInv, DefaultIsFirstInOrder, UsedRecords
  <2> QED
    BY <2>1, <2>2
<1> QED
  BY <1>1, LookupInit, PTL DEF LookupSpec

(* LookupFindsProduct: for any products, records and providers that list   *)
(* them, some of them twice, before finalize and after it.                 *)
THEOREM ProductsAreFound == LookupSpec => []LookupFindsProduct
<1>1. LookupIInv => LookupFindsProduct
  <2> SUFFICES ASSUME LookupIInv, NEW r \in DOMAIN records_, NEW i \in DOMAIN given[r],
                      given[r][i][2] # NoName
               PROVE  Resolver(r, GetIndex(helpers_[r], given[r][i])) = given[r][i]
    BY DEF LookupFindsProduct
  <2>1. r \in Record /\ given \in [Record -> Seq(Key)]
    BY DEF LookupIInv, HelpersOK, HelpersTypeOK
  <2>2. Len(given[r]) \in Nat /\ i \in 1..Len(given[r])
    BY <2>1, ElementOfSeqs
  <2>3. /\ given[r][i] \in DOMAIN helpers_[r] /\ i - 1 < Uninitialized
        /\ helpers_[r][given[r][i]] = i - 1
    BY <2>1, <2>2 DEF LookupIInv, HelpersOK
  <2>4. GetIndex(helpers_[r], given[r][i]) = i - 1
    BY <2>3 DEF GetIndex
  <2>5. i - 1 # Uninitialized /\ (i - 1) + 1 = i
    BY <2>2, <2>3, LookupAssumption
  <2> QED
    BY <2>4, <2>5 DEF Resolver
<1> QED
  BY <1>1, LookupInvariance, PTL

(* DefaultIsFirstInOrder: for any order given to finalize, and any names   *)
(* that are not in it.                                                     *)
THEOREM DefaultsFollowOrder == LookupSpec => []DefaultIsFirstInOrder
<1>1. LookupIInv => DefaultIsFirstInOrder
  BY DEF LookupIInv
<1> QED
  BY <1>1, LookupInvariance, PTL
================================================================================
