-------------------------- MODULE DecisionGraphProofs --------------------------
(***************************************************************************)
(* Proofs about DecisionGraph, for graphs of any size and any verdicts of  *)
(* the leaves.                                                             *)
(***************************************************************************)
EXTENDS DecisionGraph, SequenceTheorems, FiniteSetTheorems, TLAPS

----------------------------------------------------------------------------
(* Induction over the numbers of the nodes                                 *)

(* Every nonempty set of natural numbers has a least one. *)
LEMMA NatMin ==
  ASSUME NEW T, T \subseteq Nat, T # {}
  PROVE  \E n \in T : \A m \in T : n <= m
<1> DEFINE R == OpToRel(<, Nat)
<1>1. IsWellFoundedOn(R, Nat)
  BY NatLessThanWellFounded
<1>2. \A x, y \in Nat : <<x, y>> \in R <=> x < y
  BY DEF OpToRel
<1> HIDE DEF R
<1>3. \E x \in T : \A y \in T : ~(<<y, x>> \in R)
  BY <1>1, WFMin
<1>4. PICK n \in T : \A y \in T : ~(<<y, n>> \in R)
  BY <1>3
<1>5. \A m \in T : ~(m < n)
  BY <1>2, <1>4, Zenon
<1>6. n \in Nat /\ \A m \in T : m \in Nat
  OBVIOUS
<1>7. \A m \in T : n <= m
  BY <1>5, <1>6
<1> QED
  BY <1>7

(* What holds for a number when it holds for the smaller ones holds for    *)
(* all of them, and the same from the top.                                 *)
LEMMA Upwards ==
  ASSUME NEW N \in Nat, NEW T,
         \A n \in 1 .. N : (\A m \in 1 .. N : m < n => m \in T) => n \in T
  PROVE  1 .. N \subseteq T
<1> DEFINE D == (1 .. N) \ T
<1> SUFFICES ASSUME D # {} PROVE FALSE
  OBVIOUS
<1>1. D \subseteq Nat
  OBVIOUS
<1>2. PICK n \in D : \A m \in D : n <= m
  BY <1>1, NatMin
<1>3. n \in 1 .. N /\ n \notin T
  OBVIOUS
<1>4. \A m \in 1 .. N : m < n => m \in T
  <2> SUFFICES ASSUME NEW m \in 1 .. N, m < n, m \notin T PROVE FALSE
    OBVIOUS
  <2>1. n <= m
    BY <1>2
  <2> QED
    BY <2>1, <1>3
<1> QED
  BY <1>3, <1>4

LEMMA Downwards ==
  ASSUME NEW N \in Nat, NEW T,
         \A n \in 1 .. N : (\A m \in 1 .. N : n < m => m \in T) => n \in T
  PROVE  1 .. N \subseteq T
<1> DEFINE U == {i \in 1 .. N : N + 1 - i \in T}
<1>1. ASSUME NEW i \in 1 .. N, \A j \in 1 .. N : j < i => j \in U
      PROVE  i \in U
  <2>1. N + 1 - i \in 1 .. N
    OBVIOUS
  <2>2. ASSUME NEW m \in 1 .. N, N + 1 - i < m PROVE m \in T
    <3>1. N + 1 - m \in 1 .. N /\ N + 1 - m < i /\ N + 1 - (N + 1 - m) = m
      BY <2>2
    <3>2. N + 1 - m \in U
      BY <1>1, <3>1
    <3> QED
      BY <3>1, <3>2
  <2>3. N + 1 - i \in T
    BY <2>1, <2>2
  <2> QED
    BY <2>3
<1> HIDE DEF U
<1>2. 1 .. N \subseteq U
  BY <1>1, Upwards
<1>3. ASSUME NEW n \in 1 .. N PROVE n \in T
  <2>1. N + 1 - n \in 1 .. N /\ N + 1 - (N + 1 - n) = n
    OBVIOUS
  <2>2. N + 1 - n \in U
    BY <1>2, <2>1
  <2> QED
    BY <2>1, <2>2 DEF U
<1> QED
  BY <1>3

LEMMA StepByStep ==
  ASSUME NEW N \in Nat, NEW T, 0 \in T, \A i \in 1 .. N : i - 1 \in T => i \in T
  PROVE  0 .. N \subseteq T
<1>1. ASSUME NEW i \in 1 .. N, \A j \in 1 .. N : j < i => j \in T
      PROVE  i \in T
  <2>1. i - 1 \in T
    <3>1. CASE i = 1
      BY <3>1
    <3>2. CASE i # 1
      <4>1. i - 1 \in 1 .. N /\ i - 1 < i
        BY <3>2
      <4> QED
        BY <1>1, <4>1
    <3> QED
      BY <3>1, <3>2
  <2> QED
    BY <2>1
<1>2. 1 .. N \subseteq T
  BY <1>1, Upwards
<1>3. \A n \in 0 .. N : n = 0 \/ n \in 1 .. N
  OBVIOUS
<1> QED
  BY <1>2, <1>3

----------------------------------------------------------------------------
(* The requestors of a node                                                *)

(* Ascending is a function by recursion; it exists and lists the set.      *)
LEMMA AscendingDefined ==
  ASSUME NEW S, NEW k \in Nat
  PROVE  \E f : /\ f = [i \in 0 .. k |-> IF i = 0 THEN << >>
                                        ELSE IF i \in S THEN Append(f[i - 1], i) ELSE f[i - 1]]
                /\ Ascending(S, k) = f[k]
<1> DEFINE value(f, i) == IF i = 0 THEN << >>
                          ELSE IF i \in S THEN Append(f[i - 1], i) ELSE f[i - 1]
           F == CHOOSE f : f = [i \in 0 .. k |-> value(f, i)]
           T == {j \in 0 .. k : \E f : /\ f = [i \in 0 .. k |-> f[i]]
                                       /\ \A i \in 0 .. j : f[i] = value(f, i)}
<1>1. 0 \in T
  <2> DEFINE f == [i \in 0 .. k |-> << >>]
  <2>1. f = [i \in 0 .. k |-> f[i]] /\ \A i \in 0 .. 0 : f[i] = value(f, i)
    OBVIOUS
  <2> HIDE DEF f, value
  <2>2. 0 \in 0 .. k
    OBVIOUS
  <2> QED
    BY <2>1, <2>2
<1>2. ASSUME NEW j \in 1 .. k, j - 1 \in T PROVE j \in T
  <2>1. PICK f : f = [i \in 0 .. k |-> f[i]] /\ \A i \in 0 .. (j - 1) : f[i] = value(f, i)
    BY <1>2
  <2> DEFINE g == [i \in 0 .. k |-> IF i = j THEN value(f, j) ELSE f[i]]
  <2>2. g = [i \in 0 .. k |-> g[i]]
    OBVIOUS
  <2>3. \A i \in 0 .. (j - 1) : g[i] = f[i]
    OBVIOUS
  <2>4. \A i \in 0 .. j : value(g, i) = value(f, i)
    <3>1. \A i \in 1 .. j : i - 1 \in 0 .. (j - 1)
      OBVIOUS
    <3> HIDE DEF g
    <3> QED
      BY <2>3, <3>1
  <2>5. g[j] = value(f, j)
    OBVIOUS
  <2>6. \A i \in 0 .. j : g[i] = value(g, i)
    <3> HIDE DEF g, value
    <3>1. \A i \in 0 .. j : i = j \/ i \in 0 .. (j - 1)
      OBVIOUS
    <3> QED
      BY <2>1, <2>3, <2>4, <2>5, <3>1
  <2> HIDE DEF g
  <2>7. j \in 0 .. k
    OBVIOUS
  <2> QED
    BY <2>2, <2>6, <2>7
<1>3. k \in T
  <2> HIDE DEF T
  <2>1. 0 .. k \subseteq T
    BY <1>1, <1>2, StepByStep
  <2>2. k \in 0 .. k
    OBVIOUS
  <2> QED
    BY <2>1, <2>2, Zenon
<1>4. PICK f : f = [i \in 0 .. k |-> f[i]] /\ \A i \in 0 .. k : f[i] = value(f, i)
  BY <1>3
<1>5. f = [i \in 0 .. k |-> value(f, i)]
  <2> HIDE DEF value
  <2> QED
    BY <1>4, Zenon
<1>6. F = [i \in 0 .. k |-> value(F, i)]
  <2> HIDE DEF value
  <2> QED
    BY <1>5
<1>7. Ascending(S, k) = F[k]
  BY DEF Ascending
<1> QED
  BY <1>6, <1>7
LEMMA AscendingProperties ==
  ASSUME NEW k \in Nat, NEW S \in SUBSET (1 .. k)
  PROVE  /\ Ascending(S, k) \in Seq(S)
         /\ \A i \in S : \E j \in 1 .. Len(Ascending(S, k)) : Ascending(S, k)[j] = i
         /\ \A i, j \in 1 .. Len(Ascending(S, k)) :
              Ascending(S, k)[i] = Ascending(S, k)[j] => i = j
<1>1. PICK f : /\ f = [i \in 0 .. k |-> IF i = 0 THEN << >>
                                        ELSE IF i \in S THEN Append(f[i - 1], i) ELSE f[i - 1]]
               /\ Ascending(S, k) = f[k]
  BY AscendingDefined
<1>2. f[0] = << >>
  <2>1. 0 \in 0 .. k
    OBVIOUS
  <2> QED
    BY <1>1, <2>1
<1>3. \A i \in 1 .. k : f[i] = IF i \in S THEN Append(f[i - 1], i) ELSE f[i - 1]
  <2> SUFFICES ASSUME NEW i \in 1 .. k
               PROVE  f[i] = IF i \in S THEN Append(f[i - 1], i) ELSE f[i - 1]
    OBVIOUS
  <2>1. i \in 0 .. k /\ i # 0
    OBVIOUS
  <2> QED
    BY <1>1, <2>1
<1> DEFINE Lists(j) ==
             /\ f[j] \in Seq(S)
             /\ \A n \in 1 .. Len(f[j]) : f[j][n] <= j
             /\ \A i \in S : i <= j => \E n \in 1 .. Len(f[j]) : f[j][n] = i
             /\ \A m, n \in 1 .. Len(f[j]) : f[j][m] = f[j][n] => m = n
           T == {j \in 0 .. k : Lists(j)}
<1>4. 0 \in T
  <2>1. 0 \in 0 .. k /\ f[0] \in Seq(S) /\ Len(f[0]) = 0 /\ \A i \in S : ~ (i <= 0)
    BY <1>2, EmptySeq
  <2>2. \A n \in 1 .. Len(f[0]) : FALSE
    BY <2>1
  <2> QED
    BY <2>1, <2>2
<1>5. ASSUME NEW j \in 1 .. k, j - 1 \in T PROVE j \in T
  <2>1. Lists(j - 1) /\ j \in 0 .. k /\ \A i \in S : i \in Int
    BY <1>5
  <2>2. Len(f[j - 1]) \in Nat /\ \A n \in 1 .. Len(f[j - 1]) : f[j - 1][n] \in S
    BY <2>1, LenProperties, ElementOfSeq
  <2>3. CASE j \in S
    <3> DEFINE g == f[j - 1]
    <3>1. f[j] = Append(g, j)
      BY <1>3, <2>3
    <3>2. /\ f[j] \in Seq(S) /\ Len(f[j]) = Len(g) + 1
          /\ \A i \in 1 .. Len(g) : f[j][i] = g[i]
          /\ f[j][Len(g) + 1] = j
      BY <2>1, <2>3, <3>1, AppendProperties
    <3>3. \A n \in 1 .. Len(f[j]) : n \in 1 .. Len(g) \/ n = Len(g) + 1
      BY <2>2, <3>2
    <3>4. \A n \in 1 .. Len(g) : n \in 1 .. Len(f[j]) /\ g[n] <= j - 1 /\ g[n] \in Int
      <4>1. \A n \in 1 .. Len(g) : g[n] <= j - 1 /\ g[n] \in S
        BY <2>1, <2>2
      <4> HIDE DEF g
      <4>2. \A n \in 1 .. Len(g) : n \in 1 .. Len(f[j])
        BY <2>2, <3>2 DEF g
      <4> QED
        BY <2>1, <4>1, <4>2
    <3>5. Len(g) + 1 \in 1 .. Len(f[j])
      BY <2>2, <3>2
    <3>6. \A n \in 1 .. Len(f[j]) : f[j][n] <= j
      <4> SUFFICES ASSUME NEW n \in 1 .. Len(f[j]) PROVE f[j][n] <= j
        OBVIOUS
      <4>1. CASE n \in 1 .. Len(g)
        <5>1. f[j][n] = g[n]
          BY <3>2, <4>1
        <5>2. g[n] \in Int /\ g[n] <= j - 1 /\ j \in Int
          BY <3>4, <4>1
        <5> QED
          BY ONLY <5>1, <5>2
      <4>2. CASE n = Len(g) + 1
        BY <3>2, <4>2
      <4> QED
        BY <3>3, <4>1, <4>2
    <3>7. ASSUME NEW i \in S, i <= j PROVE \E n \in 1 .. Len(f[j]) : f[j][n] = i
      <4>1. CASE i = j
        BY <3>2, <3>5, <4>1
      <4>2. CASE i # j
        <5>1. i <= j - 1
          BY <2>1, <3>7, <4>2
        <5>2. PICK n \in 1 .. Len(g) : g[n] = i
          BY <2>1, <5>1
        <5> QED
          BY <3>2, <3>4, <5>2
      <4> QED
        BY <4>1, <4>2
    <3>8. \A m, n \in 1 .. Len(g) : g[m] = g[n] => m = n
      BY <2>1
    <3>9. \A m \in 1 .. Len(g) : g[m] # j
      BY <3>4
    <3> HIDE DEF g
    <3>10. \A m, n \in 1 .. Len(f[j]) : f[j][m] = f[j][n] => m = n
      BY <3>2, <3>3, <3>8, <3>9
    <3> QED
      BY <2>1, <3>2, <3>6, <3>7, <3>10
  <2>4. CASE j \notin S
    <3>1. f[j] = f[j - 1]
      BY <1>3, <2>4
    <3>2. \A i \in S : i <= j => i <= j - 1
      BY <2>1, <2>4
    <3>3. \A n \in 1 .. Len(f[j]) : f[j][n] <= j
      <4>1. \A n \in 1 .. Len(f[j]) : f[j][n] <= j - 1 /\ f[j][n] \in S
        BY <2>1, <2>2, <3>1
      <4>2. \A x \in S : x <= j - 1 => x <= j
        BY <2>1
      <4> QED
        BY <4>1, <4>2
    <3> QED
      BY <2>1, <3>1, <3>2, <3>3
  <2> QED
    BY <2>3, <2>4
<1>6. k \in T
  <2> HIDE DEF T
  <2>1. 0 .. k \subseteq T
    BY <1>4, <1>5, StepByStep
  <2>2. k \in 0 .. k
    OBVIOUS
  <2> QED
    BY <2>1, <2>2, Zenon
<1>7. Lists(k)
  BY <1>6
<1>8. \A i \in S : i <= k
  OBVIOUS
<1> QED
  BY <1>1, <1>7, <1>8
Binary(n) == n \in Node /\ ~IsLeaf(n)
ChildOf(m, p) == Binary(p) /\ m \in {Left(p), Right(p)}

(* What IsGraph says of the graph of a behaviour. *)
LEMMA Numbered ==
  ASSUME graph \in Graphs
  PROVE  /\ Len(graph.kind) \in Nat /\ Node = 1 .. Len(graph.kind)
         /\ \A n \in Node : n \in Nat /\ n # Start
         /\ \A p : Binary(p) => /\ Left(p) \in Node /\ Left(p) < p
                                /\ Right(p) \in Node /\ Right(p) < p
         /\ graph.tops \in Seq(Node)
         /\ \A n \in Node : graph.kind[n] \in {"leaf", "and", "or"}
<1>1. IsGraph(graph)
  BY GraphAssumption
<1>2. /\ graph.kind \in Seq({"leaf", "and", "or"})
      /\ graph.tops \in Seq(Node)
      /\ \A n \in Node : graph.kind[n] # "leaf" =>
           graph.left[n] \in 1..(n - 1) /\ graph.right[n] \in 1..(n - 1)
  BY <1>1 DEF IsGraph, Node
<1>3. Len(graph.kind) \in Nat /\ Node = 1 .. Len(graph.kind)
  BY <1>2, LenProperties DEF Node
<1>4. \A n \in Node : graph.kind[n] \in {"leaf", "and", "or"}
  BY <1>2, <1>3, ElementOfSeq
<1>5. ASSUME NEW p, Binary(p)
      PROVE  Left(p) \in Node /\ Left(p) < p /\ Right(p) \in Node /\ Right(p) < p
  <2>1. p \in Node /\ Left(p) \in 1..(p - 1) /\ Right(p) \in 1..(p - 1)
    BY <1>2, <1>5 DEF Binary, IsLeaf, Left, Right
  <2> QED
    BY <1>3, <2>1
<1>6. \A n \in Node : n \in Nat /\ n # Start
  BY <1>3 DEF Start
<1> QED
  BY <1>2, <1>3, <1>4, <1>5, <1>6

(* The operands 2p - 1 and 2p are those of node p. *)
LEMMA OperandNumbers ==
  ASSUME NEW N \in Nat
  PROVE  /\ \A i \in 1 .. (2 * N) :
              /\ Parent(i) \in 1 .. N
              /\ i = (IF i % 2 = 1 THEN 2 * Parent(i) - 1 ELSE 2 * Parent(i))
         /\ \A p \in 1 .. N :
              /\ 2 * p - 1 \in 1 .. (2 * N) /\ Parent(2 * p - 1) = p /\ (2 * p - 1) % 2 = 1
              /\ 2 * p \in 1 .. (2 * N) /\ Parent(2 * p) = p /\ (2 * p) % 2 = 0
  BY DEF Parent
(* The requestors of a node: each node that has it as a child, for as many *)
(* sides as it does, and the start if the node is on top.                  *)
LEMMA Requesting ==
  ASSUME graph \in Graphs, NEW n \in Node
  PROVE  /\ Requestors(n) \in Seq(Node \cup {Start})
         /\ \A i \in 1 .. Len(Requestors(n)) :
              \/ Requestors(n)[i] = Start /\ IsTop(n)
              \/ ChildOf(n, Requestors(n)[i])
         /\ \A p : ChildOf(n, p) => \E i \in 1 .. Len(Requestors(n)) : Requestors(n)[i] = p
         /\ IsTop(n) => \E i \in 1 .. Len(Requestors(n)) : Requestors(n)[i] = Start
         /\ \A p : Binary(p) /\ Left(p) # Right(p) =>
              \A i, j \in 1 .. Len(Requestors(n)) :
                Requestors(n)[i] = p /\ Requestors(n)[j] = p => i = j
         /\ Len(Requestors(n)) = 1 =>
              /\ \A p, q : ChildOf(n, p) /\ ChildOf(n, q) => p = q
              /\ \A p : ChildOf(n, p) => Left(p) # Right(p) /\ ~IsTop(n)
              /\ \A i, j \in 1 .. Len(graph.tops) :
                   graph.tops[i] = n /\ graph.tops[j] = n => i = j
<1> DEFINE N == Len(graph.kind)
           O == OperandsThatAre(n)
           a == Ascending(O, 2 * N)
           places == {i \in DOMAIN graph.tops : graph.tops[i] = n}
           s == [i \in 1 .. Len(a) |-> Parent(a[i])]
           t == [i \in 1 .. Cardinality(places) |-> Start]
           R == Requestors(n)
<1>1. N \in Nat /\ Node = 1 .. N /\ 2 * N \in Nat
  BY Numbered
<1>2. O \in SUBSET (1 .. (2 * N))
  BY DEF OperandsThatAre
<1>3. /\ a \in Seq(O)
      /\ \A i \in O : \E j \in 1 .. Len(a) : a[j] = i
      /\ \A i, j \in 1 .. Len(a) : a[i] = a[j] => i = j
  BY <1>1, <1>2, AscendingProperties
<1>4. /\ Len(a) \in Nat
      /\ \A i \in 1 .. Len(a) : a[i] \in O
  BY <1>3, LenProperties, ElementOfSeq
<1>5. /\ Len(graph.tops) \in Nat /\ DOMAIN graph.tops = 1 .. Len(graph.tops)
      /\ IsFiniteSet(places) /\ Cardinality(places) \in Nat
      /\ IsTop(n) <=> Cardinality(places) # 0
      /\ Cardinality(places) = 1 => \A i, j \in 1 .. Len(graph.tops) :
                                      graph.tops[i] = n /\ graph.tops[j] = n => i = j
  <2>1. Len(graph.tops) \in Nat /\ DOMAIN graph.tops = 1 .. Len(graph.tops)
    BY Numbered, LenProperties
  <2>2. IsFiniteSet(1 .. Len(graph.tops))
    BY <2>1, FS_Interval
  <2>3. IsFiniteSet(places) /\ Cardinality(places) \in Nat
    BY <2>1, <2>2, FS_Subset, FS_CardinalityType
  <2>4. IsTop(n) <=> places # {}
    BY <2>1 DEF IsTop
  <2>5. Cardinality(places) = 0 <=> places = {}
    BY <2>3, FS_EmptySet
  <2>6. Cardinality(places) = 1 => \E x : places = {x}
    BY <2>3, FS_Singleton
  <2> QED
    BY <2>1, <2>3, <2>4, <2>5, <2>6
<1>6. \A i \in O : ChildOf(n, Parent(i))
  BY <1>1, <1>2, OperandNumbers DEF OperandsThatAre, Operand, ChildOf, Binary
<1>7. ASSUME NEW p, ChildOf(n, p)
      PROVE  /\ Left(p) = n => 2 * p - 1 \in O /\ Parent(2 * p - 1) = p
             /\ Right(p) = n => 2 * p \in O /\ Parent(2 * p) = p
  <2>1. p \in 1 .. N /\ ~IsLeaf(p)
    BY <1>1, <1>7 DEF ChildOf, Binary
  <2>2. /\ 2 * p - 1 \in 1 .. (2 * N) /\ Parent(2 * p - 1) = p /\ (2 * p - 1) % 2 = 1
        /\ 2 * p \in 1 .. (2 * N) /\ Parent(2 * p) = p /\ (2 * p) % 2 = 0
    BY <1>1, <2>1, OperandNumbers
  <2>3. Operand(2 * p - 1) = Left(p) /\ Operand(2 * p) = Right(p)
    BY <2>2 DEF Operand
  <2> QED
    BY <2>1, <2>2, <2>3 DEF OperandsThatAre
<1>8. ASSUME NEW i \in O, NEW j \in O, i # j, Parent(i) = Parent(j)
      PROVE  Left(Parent(i)) = Right(Parent(i))
  <2>1. /\ i = (IF i % 2 = 1 THEN 2 * Parent(i) - 1 ELSE 2 * Parent(i))
        /\ j = (IF j % 2 = 1 THEN 2 * Parent(j) - 1 ELSE 2 * Parent(j))
    BY <1>1, <1>2, OperandNumbers
  <2>2. ~(i % 2 = 1 <=> j % 2 = 1)
    <3>1. (i % 2 = 1 <=> j % 2 = 1) => i = j
      <4> DEFINE even == 2 * Parent(i)
                 odd == 2 * Parent(i) - 1
      <4>1. i = (IF i % 2 = 1 THEN odd ELSE even) /\ j = (IF j % 2 = 1 THEN odd ELSE even)
        BY <1>8, <2>1
      <4> HIDE DEF even, odd
      <4> QED
        BY <4>1
    <3>2. i # j
      BY <1>8
    <3> QED
      BY <3>1, <3>2, Zenon
  <2>3. Operand(i) = n /\ Operand(j) = n
    BY DEF OperandsThatAre
  <2> QED
    BY <1>8, <2>2, <2>3 DEF Operand
<1>9. \A i \in O : Parent(i) \in Node
  BY <1>6 DEF ChildOf, Binary
<1>10. s \in Seq(Node \cup {Start}) /\ Len(s) = Len(a)
  <2>1. \A i \in 1 .. Len(a) : Parent(a[i]) \in Node \cup {Start}
    BY <1>4, <1>9
  <2> HIDE DEF a
  <2> QED
    BY <1>4, <2>1, IsASeq
<1>11. t \in Seq(Node \cup {Start}) /\ Len(t) = Cardinality(places)
  BY <1>5, IsASeq
<1>12. R = s \o t
  BY DEF Requestors
<1>13. /\ R \in Seq(Node \cup {Start}) /\ Len(R) = Len(a) + Cardinality(places)
       /\ \A i \in 1 .. Len(a) : i \in 1 .. Len(R) /\ R[i] = Parent(a[i])
       /\ \A i \in 1 .. Len(R) : i \notin 1 .. Len(a) => R[i] = Start
  <2>1. /\ R \in Seq(Node \cup {Start}) /\ Len(R) = Len(s) + Len(t)
        /\ \A i \in 1 .. Len(s) + Len(t) :
             R[i] = IF i <= Len(s) THEN s[i] ELSE t[i - Len(s)]
    <3> HIDE DEF s, t, R
    <3> QED
      <4>1. \A T : \A x, y \in Seq(T) :
              /\ x \o y \in Seq(T) /\ Len(x \o y) = Len(x) + Len(y)
              /\ \A i \in 1 .. Len(x) + Len(y) :
                   (x \o y)[i] = IF i <= Len(x) THEN x[i] ELSE y[i - Len(x)]
        BY ConcatProperties
      <4>2. s \in Seq(Node \cup {Start}) /\ t \in Seq(Node \cup {Start})
        BY <1>10, <1>11
      <4> QED
        BY ONLY <1>12, <4>1, <4>2
  <2>2. \A i \in 1 .. Len(a) : s[i] = Parent(a[i])
    OBVIOUS
  <2>3. \A i \in 1 .. Cardinality(places) : t[i] = Start
    OBVIOUS
  <2>4. ASSUME NEW i \in 1 .. Len(R), i \notin 1 .. Len(a) PROVE R[i] = Start
    <3> HIDE DEF a, places, s, t, R
    <3>1. i - Len(s) \in 1 .. Cardinality(places) /\ ~(i <= Len(s))
      BY <1>4, <1>5, <1>10, <1>11, <2>1, <2>4
    <3> QED
      BY <1>4, <1>5, <1>10, <1>11, <2>1, <2>3, <3>1
  <2> HIDE DEF a, places, s, t, R
  <2>5. \A i \in 1 .. Len(a) : i \in 1 .. Len(R) /\ R[i] = Parent(a[i])
    BY <1>4, <1>5, <1>10, <1>11, <2>1, <2>2
  <2> QED
    BY <1>10, <1>11, <2>1, <2>4, <2>5
<1> HIDE DEF a, places, s, t, O, N
<1>14. \A i \in 1 .. Len(R) : (R[i] = Start /\ IsTop(n)) \/ ChildOf(n, R[i])
  <2> SUFFICES ASSUME NEW i \in 1 .. Len(R)
               PROVE  (R[i] = Start /\ IsTop(n)) \/ ChildOf(n, R[i])
    OBVIOUS
  <2>1. CASE i \in 1 .. Len(a)
    BY <1>4, <1>6, <1>13, <2>1
  <2>2. CASE i \notin 1 .. Len(a)
    <3>1. R[i] = Start /\ Cardinality(places) # 0
      BY <1>4, <1>5, <1>13, <2>2
    <3> QED
      BY <1>5, <3>1
  <2> QED
    BY <2>1, <2>2
<1>15. ASSUME NEW p, ChildOf(n, p) PROVE \E i \in 1 .. Len(R) : R[i] = p
  <2>1. PICK k \in O : Parent(k) = p
    BY <1>7, <1>15 DEF ChildOf
  <2>2. PICK i \in 1 .. Len(a) : a[i] = k
    BY <1>3
  <2> QED
    BY <1>13, <2>1, <2>2
<1>16. ASSUME IsTop(n) PROVE \E i \in 1 .. Len(R) : R[i] = Start
  <2>1. Len(a) + 1 \in 1 .. Len(R) /\ Len(a) + 1 \notin 1 .. Len(a)
    BY <1>4, <1>5, <1>13, <1>16
  <2> QED
    BY <1>13, <2>1
<1>17. ASSUME NEW p, Binary(p), Left(p) # Right(p),
              NEW i \in 1 .. Len(R), NEW j \in 1 .. Len(R), R[i] = p, R[j] = p
       PROVE  i = j
  <2>1. p # Start
    BY <1>17, Numbered DEF Binary
  <2>2. i \in 1 .. Len(a) /\ j \in 1 .. Len(a)
    BY <1>13, <1>17, <2>1
  <2>3. Parent(a[i]) = p /\ Parent(a[j]) = p
    BY <1>13, <1>17, <2>2
  <2>4. a[i] = a[j]
    BY <1>4, <1>8, <1>17, <2>2, <2>3
  <2> QED
    BY <1>3, <2>2, <2>4
<1>18. ASSUME Len(R) = 1
       PROVE  /\ \A p, q : ChildOf(n, p) /\ ChildOf(n, q) => p = q
              /\ \A p : ChildOf(n, p) => Left(p) # Right(p) /\ ~IsTop(n)
              /\ \A i, j \in 1 .. Len(graph.tops) :
                   graph.tops[i] = n /\ graph.tops[j] = n => i = j
  <2>1. \A i, j \in 1 .. Len(R) : i = j
    BY <1>18
  <2>2. \A p, q : ChildOf(n, p) /\ ChildOf(n, q) => p = q
    BY <1>15, <2>1
  <2>3. \A k, m \in O : k = m
    BY <1>3, <1>13, <2>1
  <2>4. ASSUME NEW p, ChildOf(n, p) PROVE Left(p) # Right(p) /\ ~IsTop(n)
    <3>1. Left(p) # Right(p)
      <4> SUFFICES ASSUME Left(p) = Right(p) PROVE FALSE
        OBVIOUS
      <4>1. 2 * p - 1 \in O /\ 2 * p \in O
        BY <1>7, <2>4 DEF ChildOf
      <4>2. p \in Nat
        BY <2>4, Numbered DEF ChildOf, Binary
      <4>3. 2 * p - 1 # 2 * p
        BY <4>2
      <4> QED
        BY <2>3, <4>1, <4>3
    <3>2. ~IsTop(n)
      <4> SUFFICES ASSUME IsTop(n) PROVE FALSE
        OBVIOUS
      <4>1. PICK i \in 1 .. Len(R) : R[i] = Start
        BY <1>16
      <4>2. PICK j \in 1 .. Len(R) : R[j] = p
        BY <1>15, <2>4
      <4>3. p # Start
        BY <2>4, Numbered DEF ChildOf, Binary
      <4> QED
        BY <2>1, <4>1, <4>2, <4>3
    <3> QED
      BY <3>1, <3>2
  <2>5. Cardinality(places) = 1 \/ Cardinality(places) = 0
    <3>1. Len(a) + Cardinality(places) = 1
      BY <1>13, <1>18
    <3>2. Len(a) \in Nat /\ Cardinality(places) \in Nat
      BY <1>4, <1>5
    <3> QED
      BY <3>1, <3>2
  <2>6. \A i, j \in 1 .. Len(graph.tops) :
          graph.tops[i] = n /\ graph.tops[j] = n => i = j
    BY <1>5, <2>5 DEF IsTop
  <2> QED
    BY <2>2, <2>4, <2>6
<1> QED
  BY <1>13, <1>14, <1>15, <1>16, <1>17, <1>18
----------------------------------------------------------------------------
(* Value, FirstLeaf and Needed are functions by recursion; they exist.     *)
(* FirstLeaf descends on the left. *)
LEMMA FirstLeafDefined ==
  ASSUME graph \in Graphs
  PROVE  \A n \in Node : FirstLeaf[n] = IF IsLeaf(n) THEN n ELSE FirstLeaf[Left(n)]
<1> DEFINE N == Len(graph.kind)
           value(f, n) == IF IsLeaf(n) THEN n ELSE f[Left(n)]
           F == CHOOSE f : f = [n \in Node |-> value(f, n)]
           T == {k \in 0 .. N : \E f : /\ f = [n \in Node |-> f[n]]
                                       /\ \A n \in 1 .. k : f[n] = value(f, n)}
<1>1. N \in Nat /\ Node = 1 .. N
  BY Numbered
<1>2. 0 \in T
  <2> DEFINE f == [n \in Node |-> NONE]
  <2>1. f = [n \in Node |-> f[n]] /\ \A n \in 1 .. 0 : f[n] = value(f, n)
    OBVIOUS
  <2>2. 0 \in 0 .. N
    BY <1>1
  <2> HIDE DEF f, value, N
  <2> QED
    BY <2>1, <2>2
<1>3. ASSUME NEW k \in 1 .. N, k - 1 \in T PROVE k \in T
  <2>1. PICK f : f = [n \in Node |-> f[n]] /\ \A n \in 1 .. (k - 1) : f[n] = value(f, n)
    BY <1>3
  <2> DEFINE g == [n \in Node |-> IF n = k THEN value(f, k) ELSE f[n]]
  <2>2. g = [n \in Node |-> g[n]]
    OBVIOUS
  <2>3. k \in Node /\ g[k] = value(f, k)
    BY <1>1
  <2>4. \A n \in Node : n # k => g[n] = f[n]
    OBVIOUS
  <2> HIDE DEF g, N
  <2>5. \A n \in 1 .. k : value(g, n) = value(f, n)
    <3> SUFFICES ASSUME NEW n \in 1 .. k PROVE value(g, n) = value(f, n)
      OBVIOUS
    <3>1. CASE IsLeaf(n)
      BY <3>1
    <3>2. CASE ~IsLeaf(n)
      <4>1. n \in Node /\ n <= k /\ k \in Nat
        BY <1>1
      <4>2. /\ Left(n) \in Node /\ Left(n) < n /\ Left(n) \in Nat
            /\ Right(n) \in Node /\ Right(n) < n /\ Right(n) \in Nat
        BY <3>2, <4>1, Numbered DEF Binary
      <4>3. Left(n) # k /\ Right(n) # k
        BY <4>1, <4>2
      <4>4. g[Left(n)] = f[Left(n)] /\ g[Right(n)] = f[Right(n)]
        BY <2>4, <4>2, <4>3
      <4> QED
        BY <4>4
    <3> QED
      BY <3>1, <3>2
  <2>6. \A n \in 1 .. k : g[n] = value(g, n)
    <3> SUFFICES ASSUME NEW n \in 1 .. k PROVE g[n] = value(g, n)
      OBVIOUS
    <3>1. value(g, n) = value(f, n)
      BY <2>5
    <3> HIDE DEF value
    <3>2. CASE n = k
      BY <2>3, <3>1, <3>2
    <3>3. CASE n # k
      <4>1. n \in 1 .. (k - 1) /\ n \in Node
        BY <1>1, <3>3
      <4> QED
        BY <2>1, <2>4, <3>1, <3>3, <4>1
    <3> QED
      BY <3>2, <3>3
  <2>7. k \in 0 .. N
    BY <1>1
  <2> HIDE DEF value
  <2> QED
    BY <2>2, <2>6, <2>7
<1>4. N \in T
  <2> HIDE DEF T, N
  <2>1. 0 .. N \subseteq T
    BY <1>1, <1>2, <1>3, StepByStep
  <2>2. N \in 0 .. N
    BY <1>1
  <2> QED
    BY <2>1, <2>2, Zenon
<1>5. PICK f : f = [n \in Node |-> f[n]] /\ \A n \in 1 .. N : f[n] = value(f, n)
  BY <1>4
<1>6. F = [n \in Node |-> value(F, n)]
  <2> HIDE DEF value, N
  <2>1. \A n \in Node : f[n] = value(f, n)
    BY <1>1, <1>5
  <2>2. f = [n \in Node |-> value(f, n)]
    BY <1>5, <2>1, Zenon
  <2> QED
    BY <2>2
<1>7. FirstLeaf = F
  BY DEF FirstLeaf
<1>8. \A n \in Node : F[n] = value(F, n)
  <2> HIDE DEF F, value
  <2> QED
    BY <1>6, Zenon
<1> HIDE DEF F
<1> QED
  BY <1>7, <1>8

(* Value evaluates the left operand first. *)
LEMMA ValueDefined ==
  ASSUME graph \in Graphs
  PROVE  \A n \in Node : Value[n] = IF IsLeaf(n) THEN verdict[n] ELSE IF Value[Left(n)] = Unanimous(n) THEN Value[Right(n)] ELSE Value[Left(n)]
<1> DEFINE N == Len(graph.kind)
           value(f, n) == IF IsLeaf(n) THEN verdict[n] ELSE IF f[Left(n)] = Unanimous(n) THEN f[Right(n)] ELSE f[Left(n)]
           F == CHOOSE f : f = [n \in Node |-> value(f, n)]
           T == {k \in 0 .. N : \E f : /\ f = [n \in Node |-> f[n]]
                                       /\ \A n \in 1 .. k : f[n] = value(f, n)}
<1>1. N \in Nat /\ Node = 1 .. N
  BY Numbered
<1>2. 0 \in T
  <2> DEFINE f == [n \in Node |-> NONE]
  <2>1. f = [n \in Node |-> f[n]] /\ \A n \in 1 .. 0 : f[n] = value(f, n)
    OBVIOUS
  <2>2. 0 \in 0 .. N
    BY <1>1
  <2> HIDE DEF f, value, N
  <2> QED
    BY <2>1, <2>2
<1>3. ASSUME NEW k \in 1 .. N, k - 1 \in T PROVE k \in T
  <2>1. PICK f : f = [n \in Node |-> f[n]] /\ \A n \in 1 .. (k - 1) : f[n] = value(f, n)
    BY <1>3
  <2> DEFINE g == [n \in Node |-> IF n = k THEN value(f, k) ELSE f[n]]
  <2>2. g = [n \in Node |-> g[n]]
    OBVIOUS
  <2>3. k \in Node /\ g[k] = value(f, k)
    BY <1>1
  <2>4. \A n \in Node : n # k => g[n] = f[n]
    OBVIOUS
  <2> HIDE DEF g, N
  <2>5. \A n \in 1 .. k : value(g, n) = value(f, n)
    <3> SUFFICES ASSUME NEW n \in 1 .. k PROVE value(g, n) = value(f, n)
      OBVIOUS
    <3>1. CASE IsLeaf(n)
      BY <3>1
    <3>2. CASE ~IsLeaf(n)
      <4>1. n \in Node /\ n <= k /\ k \in Nat
        BY <1>1
      <4>2. /\ Left(n) \in Node /\ Left(n) < n /\ Left(n) \in Nat
            /\ Right(n) \in Node /\ Right(n) < n /\ Right(n) \in Nat
        BY <3>2, <4>1, Numbered DEF Binary
      <4>3. Left(n) # k /\ Right(n) # k
        BY <4>1, <4>2
      <4>4. g[Left(n)] = f[Left(n)] /\ g[Right(n)] = f[Right(n)]
        BY <2>4, <4>2, <4>3
      <4> QED
        BY <4>4
    <3> QED
      BY <3>1, <3>2
  <2>6. \A n \in 1 .. k : g[n] = value(g, n)
    <3> SUFFICES ASSUME NEW n \in 1 .. k PROVE g[n] = value(g, n)
      OBVIOUS
    <3>1. value(g, n) = value(f, n)
      BY <2>5
    <3> HIDE DEF value
    <3>2. CASE n = k
      BY <2>3, <3>1, <3>2
    <3>3. CASE n # k
      <4>1. n \in 1 .. (k - 1) /\ n \in Node
        BY <1>1, <3>3
      <4> QED
        BY <2>1, <2>4, <3>1, <3>3, <4>1
    <3> QED
      BY <3>2, <3>3
  <2>7. k \in 0 .. N
    BY <1>1
  <2> HIDE DEF value
  <2> QED
    BY <2>2, <2>6, <2>7
<1>4. N \in T
  <2> HIDE DEF T, N
  <2>1. 0 .. N \subseteq T
    BY <1>1, <1>2, <1>3, StepByStep
  <2>2. N \in 0 .. N
    BY <1>1
  <2> QED
    BY <2>1, <2>2, Zenon
<1>5. PICK f : f = [n \in Node |-> f[n]] /\ \A n \in 1 .. N : f[n] = value(f, n)
  BY <1>4
<1>6. F = [n \in Node |-> value(F, n)]
  <2> HIDE DEF value, N
  <2>1. \A n \in Node : f[n] = value(f, n)
    BY <1>1, <1>5
  <2>2. f = [n \in Node |-> value(f, n)]
    BY <1>5, <2>1, Zenon
  <2> QED
    BY <2>2
<1>7. Value = F
  BY DEF Value
<1>8. \A n \in Node : F[n] = value(F, n)
  <2> HIDE DEF F, value
  <2> QED
    BY <1>6, Zenon
<1> HIDE DEF F
<1> QED
  BY <1>7, <1>8
(* Needed comes down from the tops. *)
LEMMA NeededDefined ==
  ASSUME graph \in Graphs
  PROVE  \A n \in Node :
           Needed[n] <=> \/ IsTop(n)
                         \/ \E p \in Node :
                              /\ ~IsLeaf(p)
                              /\ n \in {Left(p), Right(p)}
                              /\ Needed[p]
                              /\ n = Left(p) \/ Value[Left(p)] = Unanimous(p)
<1> DEFINE N == Len(graph.kind)
           value(f, n) == \/ IsTop(n)
                          \/ \E p \in Node :
                               /\ ~IsLeaf(p)
                               /\ n \in {Left(p), Right(p)}
                               /\ f[p]
                               /\ n = Left(p) \/ Value[Left(p)] = Unanimous(p)
           F == CHOOSE f : f = [n \in Node |-> value(f, n)]
           T == {k \in 0 .. N : \E f : /\ f = [n \in Node |-> f[n]]
                                       /\ \A n \in Node : N - k < n => f[n] = value(f, n)}
<1>1. N \in Nat /\ Node = 1 .. N
  BY Numbered
<1>2. 0 \in T
  <2> DEFINE f == [n \in Node |-> FALSE]
  <2>1. f = [n \in Node |-> f[n]]
    OBVIOUS
  <2>2. 0 \in 0 .. N /\ \A n \in Node : ~(N - 0 < n)
    BY <1>1
  <2> HIDE DEF f, value, N
  <2> QED
    BY <2>1, <2>2
<1>3. ASSUME NEW k \in 1 .. N, k - 1 \in T PROVE k \in T
  <2> DEFINE j == N - (k - 1)
  <2>1. PICK f : f = [n \in Node |-> f[n]] /\ \A n \in Node : j < n => f[n] = value(f, n)
    BY <1>3
  <2> DEFINE g == [n \in Node |-> IF n = j THEN value(f, j) ELSE f[n]]
  <2>2. g = [n \in Node |-> g[n]]
    OBVIOUS
  <2>3. j \in Node
    BY <1>1
  <2>4. g[j] = value(f, j)
    <3> HIDE DEF j, value
    <3> QED
      BY <2>3
  <2>5. \A n \in Node : n # j => g[n] = f[n]
    OBVIOUS
  <2>6. \A n \in Node : N - k < n => n = j \/ j < n
    BY <1>1
  <2>7. \A n \in Node : n \in Nat
    BY <1>1
  <2> HIDE DEF g, N, j
  <2>8. \A n \in Node : N - k < n => (value(g, n) <=> value(f, n))
    <3> SUFFICES ASSUME NEW n \in Node, N - k < n PROVE value(g, n) <=> value(f, n)
      OBVIOUS
    <3>1. ASSUME NEW p \in Node, ~IsLeaf(p), n \in {Left(p), Right(p)} PROVE g[p] = f[p]
      <4>1. n < p
        BY <3>1, Numbered DEF Binary
      <4>2. p # j
        BY <2>3, <2>6, <2>7, <4>1
      <4> QED
        BY <2>5, <4>2
    <3> QED
      BY <3>1, Zenon
  <2>9. \A n \in Node : N - k < n => g[n] = value(g, n)
    <3> SUFFICES ASSUME NEW n \in Node, N - k < n PROVE g[n] = value(g, n)
      OBVIOUS
    <3>1. value(g, n) = value(f, n)
      BY <2>8, Zenon
    <3>2. n = j \/ (n # j /\ j < n)
      BY <2>6, Zenon
    <3> HIDE DEF value
    <3> QED
      BY <2>1, <2>4, <2>5, <3>1, <3>2
  <2>10. k \in 0 .. N
    BY <1>1
  <2> HIDE DEF value
  <2> QED
    BY <2>2, <2>9, <2>10
<1>4. N \in T
  <2> HIDE DEF T, N
  <2>1. 0 .. N \subseteq T
    BY <1>1, <1>2, <1>3, StepByStep
  <2>2. N \in 0 .. N
    BY <1>1
  <2> QED
    BY <2>1, <2>2, Zenon
<1>5. PICK f : f = [n \in Node |-> f[n]] /\ \A n \in Node : N - N < n => f[n] = value(f, n)
  BY <1>4
<1>6. F = [n \in Node |-> value(F, n)]
  <2>1. \A n \in Node : N - N < n
    BY <1>1
  <2> HIDE DEF value, N
  <2>2. \A n \in Node : f[n] = value(f, n)
    BY <1>5, <2>1
  <2>3. f = [n \in Node |-> value(f, n)]
    BY <1>5, <2>2, Zenon
  <2> QED
    BY <2>3
<1>7. Needed = F
  BY DEF Needed
<1>8. \A n \in Node : F[n] = value(F, n)
  <2> HIDE DEF F, value
  <2> QED
    BY <1>6, Zenon
<1> HIDE DEF F
<1> QED
  BY <1>7, <1>8, Zenon
----------------------------------------------------------------------------
(* The inductive invariant                                                 *)

CallSet ==
  [from : Node \cup {Start}, to : Node \cup {Start},
   what : Decision \cup {"REQUEST_DECISION", "NO_REQUEST_COMING"}]

(* Whether a call is in a line of calls, or in it more than once. *)
In(c, s) == \E i \in 1 .. Len(s) : s[i] = c
Twice(c, s) == \E i, j \in 1 .. Len(s) : i # j /\ s[i] = c /\ s[j] = c

Asks(m, n) == In(Call(m, n, "REQUEST_DECISION"), calls)
Declines(m, n) == In(Call(m, n, "NO_REQUEST_COMING"), calls)
Tells(m, n, d) == In(Call(m, n, d), calls)

GraphTypeOK ==
  /\ graph \in Graphs
  /\ verdict \in [{n \in Node : IsLeaf(n)} -> Decision]
  /\ calls \in Seq(CallSet)
  /\ finished \in Nat /\ round \in Nat \ {0} /\ started \in BOOLEAN
  /\ status \in [Node -> {"NOT_STARTED", "IN_PROGRESS", "COMPLETED",
                         "WILL_NOT_RUN", "SHOULD_RUN"}]
  /\ notRun \in [Node -> Nat] /\ answers \in [Node -> Nat]
  /\ left \in [Node -> Decision \cup {NONE}] /\ right \in [Node -> Decision \cup {NONE}]
  /\ pending \subseteq {n \in Node : IsLeaf(n)}
  /\ sent \in [Node -> Seq(Decision)]

RequestorOf(r, n) == (r = Start /\ IsTop(n)) \/ ChildOf(n, r)

(* A call goes from a requestor to a node, or from a node that decided to  *)
(* one of its requestors.                                                  *)
CallsOK ==
  /\ \A m, n : Asks(m, n) => n \in Node /\ RequestorOf(m, n)
  /\ \A m, n : Declines(m, n) => ChildOf(n, m)
  /\ \A m, n : \A d \in Decision :
       Tells(m, n, d) => m \in Node /\ sent[m] = <<d>> /\ RequestorOf(n, m)

SentOnce ==
  \A n \in Node :
    sent[n] # << >> => status[n] = "COMPLETED" /\ \E d \in Decision : sent[n] = <<d>>

LeavesOK ==
  /\ \A n \in pending : status[n] = "SHOULD_RUN"
  /\ \A n \in Node : IsLeaf(n) /\ sent[n] # << >> => sent[n] = <<verdict[n]>>

HasRequestor(n) == \E r \in Node \cup {Start} : RequestorOf(r, n)

Idle ==
  ~started =>
    /\ calls = << >> /\ pending = {}
    /\ \A n \in Node : sent[n] = << >> /\ notRun[n] = 0
    /\ \A n \in Node : HasRequestor(n) => status[n] = "NOT_STARTED"

(* Until every top has made its first leaf wait no task runs and nobody     *)
(* declines: a node that was asked has asked its left operand.              *)
Reached(f) == f \in pending \/ sent[f] # << >>
TopsReached == \A i \in 1 .. Len(graph.tops) : Reached(FirstLeaf[graph.tops[i]])
Begun(n) == status[n] # "NOT_STARTED" \/ \E m : Asks(m, n)
Opening ==
  /\ \A n \in Node : sent[n] = << >> /\ notRun[n] = 0
  /\ \A m, n : ~Declines(m, n) /\ \A d \in Decision : ~Tells(m, n, d)
  /\ \A n \in Node : HasRequestor(n) /\ status[n] # "NOT_STARTED" =>
       IF IsLeaf(n) THEN n \in pending ELSE Begun(Left(n))
  /\ \A i \in 1 .. Len(graph.tops) : Begun(graph.tops[i])
OpeningOK == started => TopsReached \/ Opening

(* In the first transition a node has heard what its children sent.        *)
Heard(n, m, d) ==
  /\ d # NONE => sent[m] = <<d>>
  /\ \A e \in Decision : Tells(m, n, e) => d = NONE /\ ~Twice(Call(m, n, e), calls)

(* What a node decides is what settles it. *)
Cause(n) ==
  \/ left[n] = Unanimous(n) /\ right[n] = Unanimous(n) /\ sent[n] = <<Unanimous(n)>>
  \/ left[n] \notin {NONE, Unanimous(n)} /\ sent[n] = <<left[n]>>
  \/ right[n] \notin {NONE, Unanimous(n)} /\ sent[n] = <<right[n]>>

HeardOK ==
  round = 1 =>
    \A n \in Node : ~IsLeaf(n) /\ Left(n) # Right(n) =>
      /\ Heard(n, Left(n), left[n])
      /\ Heard(n, Right(n), right[n])
      /\ answers[n] = (IF left[n] = NONE THEN 0 ELSE 1) + (IF right[n] = NONE THEN 0 ELSE 1)
      /\ sent[n] # << >> => Cause(n)

GraphIInv ==
  /\ GraphTypeOK /\ CallsOK /\ SentOnce /\ LeavesOK /\ Idle /\ OpeningOK /\ HeardOK

----------------------------------------------------------------------------
(* Calls and lines of calls                                                *)

LEMMA CallFields ==
  /\ \A m, n, w : Call(m, n, w).from = m /\ Call(m, n, w).to = n /\ Call(m, n, w).what = w
  /\ \A m, n, w, i, j, v : Call(m, n, w) = Call(i, j, v) <=> m = i /\ n = j /\ w = v
  /\ \A c \in CallSet : c = Call(c.from, c.to, c.what)
  /\ \A m, n \in Node \cup {Start} :
       \A w \in Decision \cup {"REQUEST_DECISION", "NO_REQUEST_COMING"} : Call(m, n, w) \in CallSet
<1>1. \A m, n, w : Call(m, n, w).from = m /\ Call(m, n, w).to = n /\ Call(m, n, w).what = w
  BY DEF Call
<1>2. \A m, n, w, i, j, v : Call(m, n, w) = Call(i, j, v) <=> m = i /\ n = j /\ w = v
  BY DEF Call
<1>3. \A c \in CallSet : c = Call(c.from, c.to, c.what)
  BY DEF Call, CallSet
<1>4. \A m, n \in Node \cup {Start} :
        \A w \in Decision \cup {"REQUEST_DECISION", "NO_REQUEST_COMING"} : Call(m, n, w) \in CallSet
  BY DEF Call, CallSet
<1> QED
  BY <1>1, <1>2, <1>3, <1>4

(* The first call is replaced by a line of others. *)
LEMMA Replaced ==
  ASSUME NEW S, NEW s \in Seq(S), s # << >>, NEW p \in Seq(S), NEW t, t = p \o Tail(s)
  PROVE  /\ t \in Seq(S)
         /\ Head(s) \in S /\ In(Head(s), s)
         /\ \A c : In(c, s) => c = Head(s) \/ In(c, t)
         /\ \A c : In(c, t) => In(c, p) \/ In(c, s)
         /\ \A c : In(c, p) => In(c, t)
         /\ \A c : In(c, t) /\ ~In(c, p) /\ ~Twice(c, s) => c # Head(s)
         /\ \A c : Twice(c, t) /\ ~Twice(c, s) => In(c, p)
         /\ \A c : Twice(c, t) /\ ~Twice(c, p) => In(c, s)
<1> DEFINE r == Tail(s)
<1>1. /\ Head(s) \in S /\ r \in Seq(S) /\ Len(r) = Len(s) - 1
      /\ \A i \in 1 .. Len(r) : r[i] = s[i + 1]
  BY HeadTailProperties
<1>2. /\ t \in Seq(S) /\ Len(t) = Len(p) + Len(r)
      /\ \A i \in 1 .. Len(p) + Len(r) : t[i] = IF i <= Len(p) THEN p[i] ELSE r[i - Len(p)]
  BY <1>1, ConcatProperties
<1>3. Len(p) \in Nat /\ Len(s) \in Nat \ {0} /\ Len(r) \in Nat /\ Head(s) = s[1]
  BY <1>1, LenProperties, EmptySeq
<1> HIDE DEF r
<1>4. \A i \in 1 .. Len(s) : i = 1 \/ (i - 1 \in 1 .. Len(r) /\ r[i - 1] = s[i])
  BY <1>1, <1>3
<1>5. \A i \in 1 .. Len(r) : Len(p) + i \in 1 .. Len(t) /\ t[Len(p) + i] = r[i]
  <2> SUFFICES ASSUME NEW i \in 1 .. Len(r)
               PROVE  Len(p) + i \in 1 .. Len(t) /\ t[Len(p) + i] = r[i]
    OBVIOUS
  <2>1. Len(p) + i \in 1 .. Len(p) + Len(r) /\ ~(Len(p) + i <= Len(p))
    BY <1>3
  <2>2. (Len(p) + i) - Len(p) = i
    BY <1>3
  <2> QED
    BY <1>2, <2>1, <2>2
<1>6. \A i \in 1 .. Len(p) : i \in 1 .. Len(t) /\ t[i] = p[i]
  BY <1>2, <1>3
<1>7. \A i \in 1 .. Len(t) :
        IF i \in 1 .. Len(p) THEN t[i] = p[i]
        ELSE i - Len(p) \in 1 .. Len(r) /\ t[i] = r[i - Len(p)]
  BY <1>2, <1>3
<1>8. \A i \in 1 .. Len(r) : i + 1 \in 1 .. Len(s) /\ i + 1 # 1 /\ r[i] = s[i + 1]
  BY <1>1, <1>3
<1>9. In(Head(s), s)
  BY <1>3 DEF In
<1>10. \A c : In(c, s) => c = Head(s) \/ In(c, r)
  BY <1>3, <1>4 DEF In
<1>11. \A c : In(c, r) => In(c, t) /\ In(c, s)
  BY <1>5, <1>8 DEF In
<1>12. \A c : In(c, p) => In(c, t)
  BY <1>6 DEF In
<1>13. \A c : In(c, t) => In(c, p) \/ In(c, r)
  BY <1>7 DEF In
<1>14. \A c : c = Head(s) /\ In(c, r) => Twice(c, s)
  <2> SUFFICES ASSUME NEW i \in 1 .. Len(r), r[i] = Head(s) PROVE Twice(Head(s), s)
    BY DEF In
  <2>1. 1 \in 1 .. Len(s)
    BY <1>3
  <2> QED
    BY <1>3, <1>8, <2>1 DEF Twice
<1>15. \A c : Twice(c, r) => Twice(c, s) /\ In(c, r)
  <2> SUFFICES ASSUME NEW c, NEW i \in 1 .. Len(r), NEW j \in 1 .. Len(r),
                      i # j, r[i] = c, r[j] = c
               PROVE  Twice(c, s) /\ In(c, r)
    BY Zenon DEF Twice
  <2>1. i + 1 # j + 1
    BY <1>3
  <2> QED
    BY <1>8, <2>1 DEF Twice, In
<1>16. \A c : Twice(c, t) => Twice(c, p) \/ Twice(c, r) \/ (In(c, p) /\ In(c, r))
  <2> SUFFICES ASSUME NEW c, NEW i \in 1 .. Len(t), NEW j \in 1 .. Len(t),
                      i # j, t[i] = c, t[j] = c
               PROVE  Twice(c, p) \/ Twice(c, r) \/ (In(c, p) /\ In(c, r))
    BY Zenon DEF Twice
  <2>1. CASE i \in 1 .. Len(p) /\ j \in 1 .. Len(p)
    BY <1>6, <2>1 DEF Twice
  <2>2. CASE i \notin 1 .. Len(p) /\ j \notin 1 .. Len(p)
    <3>1. /\ i - Len(p) \in 1 .. Len(r) /\ t[i] = r[i - Len(p)]
          /\ j - Len(p) \in 1 .. Len(r) /\ t[j] = r[j - Len(p)]
      BY <1>7, <2>2
    <3>2. i - Len(p) # j - Len(p)
      BY <1>3
    <3> QED
      BY <3>1, <3>2 DEF Twice
  <2>3. CASE i \in 1 .. Len(p) /\ j \notin 1 .. Len(p)
    BY <1>6, <1>7, <2>3 DEF In
  <2>4. CASE i \notin 1 .. Len(p) /\ j \in 1 .. Len(p)
    BY <1>6, <1>7, <2>4 DEF In
  <2> QED
    BY <2>1, <2>2, <2>3, <2>4
<1>17. \A c : Twice(c, p) => In(c, p)
  BY DEF Twice, In
<1> QED
  BY <1>1, <1>2, <1>9, <1>10, <1>11, <1>12, <1>13, <1>14, <1>15, <1>16, <1>17, Zenon

LEMMA ShortLines ==
  /\ \A c : ~In(c, << >>) /\ ~Twice(c, << >>)
  /\ \A c, a : (In(c, <<a>>) <=> c = a) /\ ~Twice(c, <<a>>)
  /\ \A c, a, b : /\ In(c, <<a, b>>) <=> c = a \/ c = b
                  /\ Twice(c, <<a, b>>) => a = b
<1>1. \A c : ~In(c, << >>) /\ ~Twice(c, << >>)
  BY DEF In, Twice
<1>2. \A c, a : (In(c, <<a>>) <=> c = a) /\ ~Twice(c, <<a>>)
  BY DEF In, Twice
<1>3. \A c, a, b : /\ In(c, <<a, b>>) <=> c = a \/ c = b
                   /\ Twice(c, <<a, b>>) => a = b
  <2> SUFFICES ASSUME NEW c, NEW a, NEW b
               PROVE  /\ In(c, <<a, b>>) <=> c = a \/ c = b
                      /\ Twice(c, <<a, b>>) => a = b
    OBVIOUS
  <2>1. 1 .. Len(<<a, b>>) = {1, 2} /\ <<a, b>>[1] = a /\ <<a, b>>[2] = b
    OBVIOUS
  <2> HIDE DEF In, Twice
  <2> QED
    BY <2>1 DEF In, Twice
<1> QED
  BY <1>1, <1>2, <1>3
(* The lines of calls after a step. *)
LEMMA LinesPrimed ==
  /\ \A m, n : Asks(m, n)' <=> In(Call(m, n, "REQUEST_DECISION"), calls')
  /\ \A m, n : Declines(m, n)' <=> In(Call(m, n, "NO_REQUEST_COMING"), calls')
  /\ \A m, n, d : Tells(m, n, d)' <=> In(Call(m, n, d), calls')
  /\ \A m, n, d : Twice(Call(m, n, d), calls)' <=> Twice(Call(m, n, d), calls')
  BY DEF Asks, Declines, Tells, In, Twice, Call

(* A step that keeps the graph keeps what is said of it. *)
LEMMA SameGraph ==
  ASSUME graph' = graph
  PROVE  /\ Node' = Node
         /\ \A n : /\ Binary(n)' <=> Binary(n)
                   /\ IsLeaf(n)' <=> IsLeaf(n)
                   /\ Left(n)' = Left(n) /\ Right(n)' = Right(n)
                   /\ IsTop(n)' <=> IsTop(n)
                   /\ HasRequestor(n)' <=> HasRequestor(n)
                   /\ Unanimous(n)' = Unanimous(n)
         /\ \A m, n : /\ ChildOf(m, n)' <=> ChildOf(m, n)
                      /\ RequestorOf(m, n)' <=> RequestorOf(m, n)
         /\ FirstLeaf' = FirstLeaf
<1>1. Node' = Node
  BY DEF Node
<1>2. \A n : Binary(n)' <=> Binary(n)
  BY DEF Binary, Node, IsLeaf
<1>3. \A n : (IsLeaf(n)' <=> IsLeaf(n)) /\ Left(n)' = Left(n) /\ Right(n)' = Right(n)
  BY DEF IsLeaf, Left, Right
<1>4. \A n : (IsTop(n)' <=> IsTop(n)) /\ Unanimous(n)' = Unanimous(n)
  BY DEF IsTop, Unanimous
<1>5. \A m, n : ChildOf(m, n)' <=> ChildOf(m, n)
  BY DEF ChildOf, Binary, Node, IsLeaf, Left, Right
<1>6. \A m, n : RequestorOf(m, n)' <=> RequestorOf(m, n)
  BY DEF RequestorOf, IsTop, ChildOf, Binary, Node, IsLeaf, Left, Right
<1>7. \A n : HasRequestor(n)' <=> HasRequestor(n)
  BY DEF HasRequestor, RequestorOf, IsTop, ChildOf, Binary, Node, IsLeaf, Left, Right
<1>8. FirstLeaf' = FirstLeaf
  BY DEF FirstLeaf, Node, IsLeaf, Left
<1> QED
  BY <1>1, <1>2, <1>3, <1>4, <1>5, <1>6, <1>7, <1>8

(* The answers of a node go to each of its requestors, once to a node of   *)
(* which it is one operand.                                                *)
LEMMA InAnswers ==
  ASSUME graph \in Graphs, NEW n \in Node, NEW d \in Decision
  PROVE  /\ Answers(n, d) \in Seq(CallSet)
         /\ \A c : In(c, Answers(n, d)) <=> \E r : RequestorOf(r, n) /\ c = Call(n, r, d)
         /\ \A r : Binary(r) /\ Left(r) # Right(r) => ~Twice(Call(n, r, d), Answers(n, d))
<1> DEFINE R == Requestors(n)
<1>1. /\ R \in Seq(Node \cup {Start}) /\ Len(R) \in Nat
      /\ \A i \in 1 .. Len(R) : R[i] \in Node \cup {Start}
  BY Requesting, LenProperties, ElementOfSeq
<1>2. \A i \in 1 .. Len(R) : RequestorOf(R[i], n)
  BY Requesting DEF RequestorOf
<1>3. \A r : RequestorOf(r, n) => \E i \in 1 .. Len(R) : R[i] = r
  BY Requesting DEF RequestorOf
<1>4. \A r : Binary(r) /\ Left(r) # Right(r) =>
        \A i, j \in 1 .. Len(R) : R[i] = r /\ R[j] = r => i = j
  BY Requesting
<1> HIDE DEF R
<1>5. Answers(n, d) = [i \in 1 .. Len(R) |-> Call(n, R[i], d)]
  BY DEF Answers, R
<1>6. Len(Answers(n, d)) = Len(R) /\ \A i \in 1 .. Len(R) : Answers(n, d)[i] = Call(n, R[i], d)
  BY <1>1, <1>5
<1>7. \A i \in 1 .. Len(R) : Call(n, R[i], d) \in CallSet
  BY <1>1, CallFields
<1>8. Answers(n, d) \in Seq(CallSet)
  BY <1>1, <1>5, <1>7, IsASeq
<1>9. \A c : In(c, Answers(n, d)) <=> \E r : RequestorOf(r, n) /\ c = Call(n, r, d)
  BY <1>2, <1>3, <1>6 DEF In
<1>10. \A q, r : Call(n, q, d) = Call(n, r, d) => q = r
  BY CallFields
<1>11. \A r : Binary(r) /\ Left(r) # Right(r) => ~Twice(Call(n, r, d), Answers(n, d))
  BY <1>4, <1>6, <1>10 DEF Twice
<1> QED
  BY <1>8, <1>9, <1>11
----------------------------------------------------------------------------
(* Each action keeps the invariant                                         *)

(* What the call that returns or is answered next says. *)
LEMMA HeadCall ==
  ASSUME GraphIInv, calls # << >>, NEW m, m = Head(calls).from, NEW n, n = Head(calls).to
  PROVE  /\ started
         /\ Head(calls) \in CallSet /\ In(Head(calls), calls)
         /\ \A w : Current(w) => Head(calls) = Call(m, n, w)
         /\ Current("REQUEST_DECISION") => n \in Node /\ RequestorOf(m, n)
         /\ Current("NO_REQUEST_COMING") => ChildOf(n, m) /\ TopsReached
         /\ \A d \in Decision : Current(d) =>
              /\ m \in Node /\ sent[m] = <<d>> /\ RequestorOf(n, m)
              /\ Tells(m, n, d) /\ TopsReached
<1> DEFINE h == Head(calls)
<1>1. calls \in Seq(CallSet)
  BY DEF GraphIInv, GraphTypeOK
<1>2. h \in CallSet /\ In(h, calls)
  <2>1. << >> \in Seq(CallSet) /\ << >> \o Tail(calls) = << >> \o Tail(calls)
    OBVIOUS
  <2> QED
    BY <1>1, <2>1, Replaced
<1>3. started /\ (TopsReached \/ Opening)
  BY DEF GraphIInv, Idle, OpeningOK
<1>4. \A w : Current(w) => h = Call(m, n, w)
  BY <1>2, CallFields DEF Current
<1> HIDE DEF h
<1>5. Current("REQUEST_DECISION") => n \in Node /\ RequestorOf(m, n)
  <2>1. Current("REQUEST_DECISION") => Asks(m, n)
    BY <1>2, <1>4 DEF Asks
  <2> QED
    BY <2>1 DEF GraphIInv, CallsOK
<1>6. Current("NO_REQUEST_COMING") => ChildOf(n, m) /\ TopsReached
  <2>1. Current("NO_REQUEST_COMING") => Declines(m, n)
    BY <1>2, <1>4 DEF Declines
  <2> QED
    BY <1>3, <2>1 DEF GraphIInv, CallsOK, Opening
<1>7. ASSUME NEW d \in Decision, Current(d)
      PROVE  /\ m \in Node /\ sent[m] = <<d>> /\ RequestorOf(n, m)
             /\ Tells(m, n, d) /\ TopsReached
  <2>1. Tells(m, n, d)
    BY <1>2, <1>4, <1>7 DEF Tells
  <2> QED
    BY <1>3, <2>1 DEF GraphIInv, CallsOK, Opening
<1> QED
  BY <1>2, <1>3, <1>4, <1>5, <1>6, <1>7 DEF h

(* A step that tells nobody a decision changes nothing of what was heard. *)
LEMMA HeardKept ==
  ASSUME HeardOK, graph' = graph, round' = round, left' = left, right' = right,
         answers' = answers, sent' = sent,
         \A m, n : \A d \in Decision :
           In(Call(m, n, d), calls') =>
             In(Call(m, n, d), calls) /\ (Twice(Call(m, n, d), calls') => Twice(Call(m, n, d), calls))
  PROVE  HeardOK'
<1> SUFFICES ASSUME round = 1, NEW n \in Node, ~IsLeaf(n), Left(n) # Right(n)
             PROVE  /\ Heard(n, Left(n), left[n])'
                    /\ Heard(n, Right(n), right[n])'
                    /\ answers'[n] = (IF left'[n] = NONE THEN 0 ELSE 1)
                                       + (IF right'[n] = NONE THEN 0 ELSE 1)
                    /\ sent'[n] # << >> => Cause(n)'
  BY SameGraph DEF HeardOK
<1>1. /\ Heard(n, Left(n), left[n])
      /\ Heard(n, Right(n), right[n])
      /\ answers[n] = (IF left[n] = NONE THEN 0 ELSE 1) + (IF right[n] = NONE THEN 0 ELSE 1)
      /\ sent[n] # << >> => Cause(n)
  BY DEF HeardOK
<1>2. Heard(n, Left(n), left[n])'
  BY <1>1, SameGraph, LinesPrimed DEF Heard, Tells
<1>3. Heard(n, Right(n), right[n])'
  BY <1>1, SameGraph, LinesPrimed DEF Heard, Tells
<1>4. sent'[n] # << >> => Cause(n)'
  BY <1>1, SameGraph DEF Cause
<1> QED
  BY <1>1, <1>2, <1>3, <1>4

LEMMA StartAsyncKeeps ==
  ASSUME GraphIInv, StartAsync
  PROVE  GraphIInv'
<1> DEFINE k == Len(graph.tops)
           t == [i \in 1 .. k |-> Call(Start, graph.tops[i], "REQUEST_DECISION")]
<1> USE DEF GraphIInv
<1>1. /\ ~started /\ started' = TRUE /\ calls' = t
      /\ UNCHANGED <<graph, verdict, status, notRun, answers, left, right, pending,
                     finished, round, sent>>
  BY DEF StartAsync
<1>2. graph \in Graphs /\ graph' = graph
  BY <1>1 DEF GraphTypeOK
<1>3. k \in Nat /\ \A i \in 1 .. k : graph.tops[i] \in Node
  BY <1>2, Numbered, LenProperties, ElementOfSeq
<1>4. \A i \in 1 .. k : Call(Start, graph.tops[i], "REQUEST_DECISION") \in CallSet
  BY <1>3, CallFields
<1>5. t \in Seq(CallSet) /\ Len(t) = k
  BY <1>3, <1>4
<1>6. \A c : In(c, calls') => \E i \in 1 .. k : c = Call(Start, graph.tops[i], "REQUEST_DECISION")
  BY <1>1, <1>5 DEF In
<1>7. \A i \in 1 .. k : In(Call(Start, graph.tops[i], "REQUEST_DECISION"), calls')
  BY <1>1, <1>5 DEF In
<1> HIDE DEF t
<1>8. /\ \A n \in Node : sent[n] = << >> /\ notRun[n] = 0
      /\ \A n \in Node : HasRequestor(n) => status[n] = "NOT_STARTED"
  BY <1>1 DEF Idle
<1>9. \A m, n : /\ ~Declines(m, n)' /\ \A d \in Decision : ~Tells(m, n, d)'
                /\ Asks(m, n)' => m = Start /\ n \in Node /\ IsTop(n)
  <2>1. \A m, n, w : In(Call(m, n, w), calls') =>
          w = "REQUEST_DECISION" /\ m = Start /\ n \in Node /\ IsTop(n)
    BY <1>3, <1>6, CallFields DEF IsTop
  <2>2. "REQUEST_DECISION" \notin Decision
    BY DEF Decision
  <2> QED
    BY <2>1, <2>2, LinesPrimed
<1>10. GraphTypeOK'
  BY <1>1, <1>2, <1>5, SameGraph DEF GraphTypeOK, CallSet
<1>11. CallsOK'
  BY <1>2, <1>9, SameGraph DEF CallsOK, RequestorOf
<1>12. SentOnce' /\ LeavesOK' /\ Idle'
  BY <1>1, <1>2, SameGraph DEF SentOnce, LeavesOK, Idle
<1>13. Opening'
  <2>1. \A i \in 1 .. k : Begun(graph.tops[i])'
    BY <1>1, <1>7, LinesPrimed DEF Begun
  <2> QED
    BY <1>1, <1>2, <1>8, <1>9, <2>1, SameGraph DEF Opening
<1>14. HeardOK'
  <2>1. \A m, n : \A d \in Decision : ~In(Call(m, n, d), calls')
    BY <1>9, LinesPrimed
  <2> QED
    BY <1>1, <2>1, HeardKept
<1> QED
  BY <1>10, <1>11, <1>12, <1>13, <1>14 DEF OpeningOK
(* Replaced, for a step that takes the first call. *)
LEMMA NextLine ==
  ASSUME calls \in Seq(CallSet), calls # << >>, NEW p \in Seq(CallSet),
         calls' = p \o Tail(calls)
  PROVE  /\ calls' \in Seq(CallSet)
         /\ \A c : In(c, calls) => c = Head(calls) \/ In(c, calls')
         /\ \A c : In(c, calls') => In(c, p) \/ In(c, calls)
         /\ \A c : In(c, p) => In(c, calls')
         /\ \A c : In(c, calls') /\ ~In(c, p) /\ ~Twice(c, calls) => c # Head(calls)
         /\ \A c : Twice(c, calls') /\ ~Twice(c, calls) => In(c, p)
         /\ \A c : Twice(c, calls') /\ ~Twice(c, p) => In(c, calls)
<1> DEFINE t == calls'
<1>1. t = p \o Tail(calls)
  OBVIOUS
<1> HIDE DEF t
<1>2. /\ t \in Seq(CallSet)
      /\ \A c : In(c, calls) => c = Head(calls) \/ In(c, t)
      /\ \A c : In(c, t) => In(c, p) \/ In(c, calls)
      /\ \A c : In(c, p) => In(c, t)
      /\ \A c : In(c, t) /\ ~In(c, p) /\ ~Twice(c, calls) => c # Head(calls)
      /\ \A c : Twice(c, t) /\ ~Twice(c, calls) => In(c, p)
      /\ \A c : Twice(c, t) /\ ~Twice(c, p) => In(c, calls)
  BY <1>1, Replaced
<1> QED
  BY <1>2 DEF t

LEMMA LeafFinishedKeeps ==
  ASSUME GraphIInv, LeafFinished
  PROVE  GraphIInv'
<1> USE DEF GraphIInv
<1>1. /\ calls # << >> /\ calls' = << >> \o Tail(calls) /\ finished' = finished + 1
      /\ UNCHANGED <<graph, verdict, status, notRun, answers, left, right, pending,
                     started, round, sent>>
      /\ calls \in Seq(CallSet) /\ graph \in Graphs
  <2>1. calls \in Seq(CallSet) /\ calls # << >>
    BY DEF LeafFinished, Current, GraphTypeOK
  <2>2. Tail(calls) = << >> \o Tail(calls)
    BY <2>1
  <2> QED
    BY <2>1, <2>2 DEF LeafFinished, GraphTypeOK
<1>2. << >> \in Seq(CallSet)
  OBVIOUS
<1>3. /\ calls' \in Seq(CallSet)
      /\ \A c : In(c, calls') => In(c, calls) /\ (Twice(c, calls') => Twice(c, calls))
  <2>1. /\ calls' \in Seq(CallSet)
        /\ \A c : In(c, calls') => In(c, << >>) \/ In(c, calls)
        /\ \A c : Twice(c, calls') /\ ~Twice(c, calls) => In(c, << >>)
    BY <1>1, <1>2, NextLine
  <2> QED
    BY <2>1, ShortLines
<1>4. started /\ TopsReached
  BY <1>1, HeadCall DEF LeafFinished
<1>5. GraphTypeOK'
  BY <1>1, <1>3, SameGraph DEF GraphTypeOK, CallSet
<1>6. CallsOK'
  BY <1>1, <1>3, SameGraph, LinesPrimed DEF CallsOK, Asks, Declines, Tells
<1>7. SentOnce' /\ LeavesOK' /\ Idle'
  BY <1>1, <1>4, SameGraph DEF SentOnce, LeavesOK, Idle
<1>8. TopsReached'
  BY <1>1, <1>4, SameGraph DEF TopsReached, Reached
<1>9. HeardOK'
  BY <1>1, <1>3, HeardKept
<1> QED
  BY <1>5, <1>6, <1>7, <1>8, <1>9 DEF OpeningOK

LEMMA RequestDecisionKeeps ==
  ASSUME GraphIInv, RequestDecision
  PROVE  GraphIInv'
<1> DEFINE n == Head(calls).to
           m == Head(calls).from
           p == IF IsLeaf(n) THEN << >> ELSE <<Call(n, Left(n), "REQUEST_DECISION")>>
<1> USE DEF GraphIInv
<1>1. /\ calls # << >> /\ calls \in Seq(CallSet) /\ graph \in Graphs
      /\ started /\ Head(calls) = Call(m, n, "REQUEST_DECISION")
      /\ n \in Node /\ RequestorOf(m, n) /\ status[n] = "NOT_STARTED"
      /\ UNCHANGED <<graph, verdict, notRun, answers, left, right, finished, started, round, sent>>
  <2>1. calls # << >> /\ Current("REQUEST_DECISION")
    BY DEF RequestDecision, Current
  <2>2. /\ started /\ Head(calls) = Call(m, n, "REQUEST_DECISION")
        /\ n \in Node /\ RequestorOf(m, n)
    BY <2>1, HeadCall
  <2> QED
    BY <2>1, <2>2 DEF RequestDecision, GraphTypeOK
<1>2. ~IsLeaf(n) => ChildOf(Left(n), n) /\ Left(n) \in Node
  BY <1>1, Numbered DEF ChildOf, Binary
<1>3. /\ p \in Seq(CallSet) /\ calls' = p \o Tail(calls)
      /\ IsLeaf(n) => status' = [status EXCEPT ![n] = "SHOULD_RUN"] /\ pending' = pending \cup {n}
      /\ ~IsLeaf(n) => status' = [status EXCEPT ![n] = "IN_PROGRESS"] /\ pending' = pending
  <2>1. CASE IsLeaf(n)
    <3>1. Tail(calls) = << >> \o Tail(calls) /\ << >> \in Seq(CallSet)
      BY <1>1
    <3> QED
      BY <1>1, <2>1, <3>1 DEF RequestDecision, SetStatus
  <2>2. CASE ~IsLeaf(n)
    <3>1. Call(n, Left(n), "REQUEST_DECISION") \in CallSet
      BY <1>1, <1>2, <2>2, CallFields
    <3> QED
      BY <2>2, <3>1 DEF RequestDecision, SetStatus
  <2> QED
    BY <2>1, <2>2
<1>4. \A c : /\ In(c, p) <=> ~IsLeaf(n) /\ c = Call(n, Left(n), "REQUEST_DECISION")
             /\ ~Twice(c, p)
  BY ShortLines
<1> HIDE DEF p
<1>5. /\ calls' \in Seq(CallSet)
      /\ \A c : In(c, calls') => In(c, p) \/ In(c, calls)
      /\ \A c : In(c, calls) => c = Head(calls) \/ In(c, calls')
      /\ \A c : In(c, p) => In(c, calls')
      /\ \A c : Twice(c, calls') /\ ~Twice(c, calls) => In(c, p)
  BY <1>1, <1>3, NextLine
<1>6. sent[n] = << >> /\ n \notin pending
  BY <1>1 DEF SentOnce, LeavesOK
<1> HIDE DEF n, m
<1>7. \A i, j : /\ Declines(i, j)' => Declines(i, j)
                /\ \A d \in Decision : Tells(i, j, d)' => Tells(i, j, d)
                /\ Asks(i, j)' => Asks(i, j) \/ (~IsLeaf(n) /\ i = n /\ j = Left(n))
                /\ Asks(i, j) => Asks(i, j)' \/ (i = m /\ j = n)
  <2>1. \A d \in Decision : d # "REQUEST_DECISION"
    BY DEF Decision
  <2> QED
    BY <1>1, <1>4, <1>5, <2>1, LinesPrimed, CallFields DEF Asks, Declines, Tells
<1>8. GraphTypeOK'
  <2>1. status \in [Node -> {"NOT_STARTED", "IN_PROGRESS", "COMPLETED",
                            "WILL_NOT_RUN", "SHOULD_RUN"}]
    BY DEF GraphTypeOK
  <2>2. status' \in [Node -> {"NOT_STARTED", "IN_PROGRESS", "COMPLETED",
                             "WILL_NOT_RUN", "SHOULD_RUN"}]
    BY <1>3, <2>1
  <2>3. pending' \subseteq {x \in Node : IsLeaf(x)}
    BY <1>1, <1>3 DEF GraphTypeOK
  <2> QED
    BY <1>1, <1>5, <2>2, <2>3, SameGraph DEF GraphTypeOK, CallSet
<1>9. CallsOK'
  <2>1. /\ \A i, j : Asks(i, j)' => j \in Node /\ RequestorOf(i, j)
        /\ \A i, j : Declines(i, j)' => ChildOf(j, i)
        /\ \A i, j : \A d \in Decision :
             Tells(i, j, d)' => i \in Node /\ sent[i] = <<d>> /\ RequestorOf(j, i)
    BY <1>2, <1>7 DEF CallsOK, RequestorOf
  <2> QED
    BY <1>1, <2>1, SameGraph DEF CallsOK
<1>10. SentOnce' /\ LeavesOK' /\ Idle'
  <2>1. \A x \in Node : x # n => status'[x] = status[x]
    BY <1>3 DEF GraphTypeOK
  <2>2. IsLeaf(n) => status'[n] = "SHOULD_RUN"
    BY <1>1, <1>3 DEF GraphTypeOK
  <2>3. SentOnce'
    BY <1>1, <1>6, <2>1, SameGraph DEF SentOnce
  <2>4. LeavesOK'
    BY <1>1, <1>3, <1>6, <2>1, <2>2, SameGraph DEF LeavesOK, GraphTypeOK
  <2> QED
    BY <1>1, <2>3, <2>4 DEF Idle
<1>11. TopsReached => TopsReached'
  BY <1>1, <1>3, SameGraph DEF TopsReached, Reached
<1>12. Opening => Opening'
  <2> SUFFICES ASSUME Opening PROVE Opening'
    OBVIOUS
  <2>1. \A x \in Node : status'[x] = status[x] \/ (x = n /\ status'[x] # "NOT_STARTED")
    BY <1>3 DEF GraphTypeOK
  <2>2. status'[n] # "NOT_STARTED"
    BY <1>1, <1>3 DEF GraphTypeOK
  <2>3. \A x \in Node : Begun(x) => Begun(x)'
    BY <1>7, <2>1, <2>2 DEF Begun
  <2>4. ASSUME NEW x \in Node, HasRequestor(x), status'[x] # "NOT_STARTED"
        PROVE  IF IsLeaf(x) THEN x \in pending' ELSE Begun(Left(x))'
    <3>1. CASE x = n
      <4>1. IsLeaf(x) => x \in pending'
        BY <1>3, <3>1
      <4>2. ~IsLeaf(x) => In(Call(x, Left(x), "REQUEST_DECISION"), calls')
        BY <1>4, <1>5, <3>1
      <4>3. ~IsLeaf(x) => Asks(x, Left(x))'
        BY <1>1, <4>2, LinesPrimed, SameGraph
      <4> QED
        BY <4>1, <4>3 DEF Begun
    <3>2. CASE x # n
      <4>1. IF IsLeaf(x) THEN x \in pending ELSE Begun(Left(x))
        BY <2>1, <2>4, <3>2 DEF Opening
      <4>2. ~IsLeaf(x) => Left(x) \in Node
        BY <1>1, Numbered DEF Binary
      <4>3. pending \subseteq pending'
        BY <1>3
      <4>4. ~IsLeaf(x) => Begun(Left(x))'
        <5>1. Left(x)' = Left(x)
          BY <1>1, SameGraph
        <5> QED
          BY <2>3, <4>1, <4>2, <5>1 DEF Begun
      <4> QED
        BY <4>1, <4>3, <4>4
    <3> QED
      BY <3>1, <3>2
  <2>5. \A i \in 1 .. Len(graph.tops) : Begun(graph.tops[i])'
    <3>1. \A i \in 1 .. Len(graph.tops) : graph.tops[i] \in Node /\ Begun(graph.tops[i])
      BY <1>1, Numbered, ElementOfSeq DEF Opening
    <3>2. graph.tops' = graph.tops
      BY <1>1
    <3> QED
      BY <2>3, <3>1, <3>2 DEF Begun
  <2>6. /\ \A x \in Node' : sent'[x] = << >> /\ notRun'[x] = 0
        /\ \A i, j : ~Declines(i, j)' /\ \A d \in Decision : ~Tells(i, j, d)'
    BY <1>1, <1>7, SameGraph DEF Opening
  <2> QED
    BY <1>1, <2>4, <2>5, <2>6, SameGraph DEF Opening
<1>13. HeardOK'
  <2>1. "REQUEST_DECISION" \notin Decision
    BY DEF Decision
  <2> QED
    BY <1>1, <1>4, <1>5, <2>1, CallFields, HeardKept
<1> QED
  BY <1>1, <1>8, <1>9, <1>10, <1>11, <1>12, <1>13 DEF OpeningOK
LEMMA RefuseKeeps ==
  ASSUME GraphIInv, Refuse
  PROVE  GraphIInv'
<1> USE DEF GraphIInv
<1>1. PICK n, m, p :
        /\ calls # << >> /\ calls \in Seq(CallSet) /\ graph \in Graphs
        /\ started /\ Head(calls) = Call(m, n, "NO_REQUEST_COMING")
        /\ ChildOf(n, m) /\ n \in Node /\ status[n] = "NOT_STARTED" /\ TopsReached
        /\ p \in Seq(CallSet) /\ calls' = p \o Tail(calls)
        /\ \A c : In(c, p) => \E i : ChildOf(i, n) /\ c = Call(n, i, "NO_REQUEST_COMING")
        /\ notRun' = [notRun EXCEPT ![n] = @ + 1]
        /\ \E v \in {"NOT_STARTED", "WILL_NOT_RUN", "IN_PROGRESS"} :
             status' = [status EXCEPT ![n] = v]
        /\ UNCHANGED <<graph, verdict, answers, left, right, pending, finished, started,
                       round, sent>>
  <2> DEFINE n == Head(calls).to
             m == Head(calls).from
             p == <<Call(n, Left(n), "NO_REQUEST_COMING"), Call(n, Right(n), "NO_REQUEST_COMING")>>
  <2>1. /\ calls # << >> /\ Current("NO_REQUEST_COMING") /\ status[n] = "NOT_STARTED"
        /\ calls \in Seq(CallSet) /\ graph \in Graphs
        /\ notRun' = [notRun EXCEPT ![n] = @ + 1]
        /\ UNCHANGED <<graph, verdict, answers, left, right, pending, finished, started,
                       round, sent>>
    BY DEF Refuse, Current, GraphTypeOK
  <2>2. /\ started /\ Head(calls) = Call(m, n, "NO_REQUEST_COMING")
        /\ ChildOf(n, m) /\ TopsReached
    BY <2>1, HeadCall
  <2>3. n \in Node
    BY <2>1, <2>2, Numbered DEF ChildOf
  <2>4. status = [status EXCEPT ![n] = "NOT_STARTED"]
    BY <2>1, <2>3 DEF GraphTypeOK
  <2>5. CASE calls' = Tail(calls) /\ (status' = status \/ SetStatus(n, "WILL_NOT_RUN"))
    <3>1. /\ << >> \in Seq(CallSet) /\ calls' = << >> \o Tail(calls)
          /\ \A c : ~In(c, << >>)
      BY <2>1, <2>5, ShortLines
    <3>2. \E v \in {"NOT_STARTED", "WILL_NOT_RUN", "IN_PROGRESS"} :
            status' = [status EXCEPT ![n] = v]
      BY <2>4, <2>5 DEF SetStatus
    <3> HIDE DEF n, m
    <3> QED
      BY <2>1, <2>2, <2>3, <3>1, <3>2
  <2>6. CASE /\ ~IsLeaf(n) /\ SetStatus(n, "IN_PROGRESS")
             /\ calls' = p \o Tail(calls)
    <3>1. ChildOf(Left(n), n) /\ ChildOf(Right(n), n) /\ Left(n) \in Node /\ Right(n) \in Node
      BY <2>1, <2>3, <2>6, Numbered DEF ChildOf, Binary
    <3>2. p \in Seq(CallSet)
      <4>1. /\ Call(n, Left(n), "NO_REQUEST_COMING") \in CallSet
            /\ Call(n, Right(n), "NO_REQUEST_COMING") \in CallSet
        BY <2>3, <3>1, CallFields
      <4> QED
        BY <4>1
    <3>3. \A c : In(c, p) => \E i : ChildOf(i, n) /\ c = Call(n, i, "NO_REQUEST_COMING")
      BY <3>1, ShortLines
    <3>4. \E v \in {"NOT_STARTED", "WILL_NOT_RUN", "IN_PROGRESS"} :
            status' = [status EXCEPT ![n] = v]
      BY <2>6 DEF SetStatus
    <3> HIDE DEF n, m, p
    <3> QED
      BY <2>1, <2>2, <2>3, <2>6, <3>2, <3>3, <3>4
  <2> QED
    BY <2>5, <2>6 DEF Refuse
<1>2. sent[n] = << >> /\ n \notin pending
  BY <1>1 DEF SentOnce, LeavesOK
<1>3. /\ calls' \in Seq(CallSet)
      /\ \A c : In(c, calls') => In(c, p) \/ In(c, calls)
      /\ \A c : Twice(c, calls') /\ ~Twice(c, calls) => In(c, p)
  BY <1>1, NextLine
<1>4. "NO_REQUEST_COMING" \notin Decision /\ "NO_REQUEST_COMING" # "REQUEST_DECISION"
  BY DEF Decision
<1>5. \A i, j : /\ Asks(i, j)' => Asks(i, j)
                /\ Declines(i, j)' => Declines(i, j) \/ (i = n /\ ChildOf(j, n))
                /\ \A d \in Decision : Tells(i, j, d)' => Tells(i, j, d)
  <2>1. \A i, j, w : In(Call(i, j, w), calls') =>
          \/ In(Call(i, j, w), calls)
          \/ w = "NO_REQUEST_COMING" /\ i = n /\ ChildOf(j, n)
    BY <1>1, <1>3, CallFields
  <2> QED
    BY <1>4, <2>1, LinesPrimed DEF Asks, Declines, Tells
<1>6. GraphTypeOK'
  <2>1. /\ status \in [Node -> {"NOT_STARTED", "IN_PROGRESS", "COMPLETED",
                               "WILL_NOT_RUN", "SHOULD_RUN"}]
        /\ notRun \in [Node -> Nat]
    BY DEF GraphTypeOK
  <2>2. /\ status' \in [Node -> {"NOT_STARTED", "IN_PROGRESS", "COMPLETED",
                                "WILL_NOT_RUN", "SHOULD_RUN"}]
        /\ notRun' \in [Node -> Nat]
    BY <1>1, <2>1
  <2> QED
    BY <1>1, <1>3, <2>2, SameGraph DEF GraphTypeOK, CallSet
<1>7. CallsOK'
  <2>1. /\ \A i, j : Asks(i, j)' => j \in Node /\ RequestorOf(i, j)
        /\ \A i, j : Declines(i, j)' => ChildOf(j, i)
        /\ \A i, j : \A d \in Decision :
             Tells(i, j, d)' => i \in Node /\ sent[i] = <<d>> /\ RequestorOf(j, i)
    BY <1>5 DEF CallsOK
  <2> QED
    BY <1>1, <2>1, SameGraph DEF CallsOK
<1>8. SentOnce' /\ LeavesOK' /\ Idle'
  <2>1. \A x \in Node : x # n => status'[x] = status[x]
    BY <1>1 DEF GraphTypeOK
  <2>2. SentOnce'
    BY <1>1, <1>2, <2>1, SameGraph DEF SentOnce
  <2>3. LeavesOK'
    BY <1>1, <1>2, <2>1, SameGraph DEF LeavesOK, GraphTypeOK
  <2> QED
    BY <1>1, <2>2, <2>3 DEF Idle
<1>9. TopsReached'
  BY <1>1, SameGraph DEF TopsReached, Reached
<1>10. HeardOK'
  <2>1. \A i, j : \A d \in Decision : ~In(Call(i, j, d), p)
    BY <1>1, <1>4, CallFields
  <2> QED
    BY <1>1, <1>3, <2>1, HeardKept
<1> QED
  BY <1>6, <1>7, <1>8, <1>9, <1>10 DEF OpeningOK

LEMMA RequestIgnoredKeeps ==
  ASSUME GraphIInv, RequestIgnored
  PROVE  GraphIInv'
<1> USE DEF GraphIInv
<1>1. PICK n, m, w :
        /\ calls # << >> /\ calls \in Seq(CallSet) /\ graph \in Graphs
        /\ started /\ Head(calls) = Call(m, n, w)
        /\ status[n] # "NOT_STARTED"
        /\ w = "REQUEST_DECISION" => n \in Node /\ RequestorOf(m, n)
        /\ w # "REQUEST_DECISION" => TopsReached
        /\ calls' = << >> \o Tail(calls) /\ << >> \in Seq(CallSet)
        /\ UNCHANGED <<graph, verdict, status, notRun, answers, left, right, pending,
                       finished, started, round, sent>>
  <2> DEFINE n == Head(calls).to
             m == Head(calls).from
             w == Head(calls).what
  <2>1. /\ calls # << >> /\ status[n] # "NOT_STARTED"
        /\ calls \in Seq(CallSet) /\ graph \in Graphs
        /\ w = "REQUEST_DECISION" \/ w = "NO_REQUEST_COMING"
        /\ calls' = Tail(calls)
        /\ UNCHANGED <<graph, verdict, status, notRun, answers, left, right, pending,
                       finished, started, round, sent>>
    BY DEF RequestIgnored, Current, GraphTypeOK
  <2>2. Current(w)
    BY <2>1 DEF Current
  <2>3. /\ started /\ Head(calls) = Call(m, n, w)
        /\ w = "REQUEST_DECISION" => n \in Node /\ RequestorOf(m, n)
        /\ w = "NO_REQUEST_COMING" => TopsReached
    BY <2>1, <2>2, HeadCall
  <2>4. Tail(calls) = << >> \o Tail(calls) /\ << >> \in Seq(CallSet)
    BY <2>1
  <2> HIDE DEF n, m, w
  <2> QED
    BY <2>1, <2>3, <2>4
<1>2. /\ calls' \in Seq(CallSet)
      /\ \A c : In(c, calls') => In(c, << >>) \/ In(c, calls)
      /\ \A c : In(c, calls) => c = Head(calls) \/ In(c, calls')
      /\ \A c : Twice(c, calls') /\ ~Twice(c, calls) => In(c, << >>)
  BY <1>1, NextLine
<1>3. \A c : In(c, calls') => In(c, calls) /\ (Twice(c, calls') => Twice(c, calls))
  BY <1>2, ShortLines
<1>4. \A i, j : /\ Asks(i, j)' => Asks(i, j)
                /\ Asks(i, j) => Asks(i, j)' \/ j = n
                /\ Declines(i, j)' => Declines(i, j)
                /\ \A d \in Decision : Tells(i, j, d)' => Tells(i, j, d)
  BY <1>1, <1>2, <1>3, CallFields, LinesPrimed DEF Asks, Declines, Tells
<1>5. GraphTypeOK'
  BY <1>1, <1>2, SameGraph DEF GraphTypeOK, CallSet
<1>6. CallsOK'
  BY <1>1, <1>4, SameGraph DEF CallsOK
<1>7. SentOnce' /\ LeavesOK' /\ Idle'
  BY <1>1, SameGraph DEF SentOnce, LeavesOK, Idle
<1>8. TopsReached => TopsReached'
  BY <1>1, SameGraph DEF TopsReached, Reached
<1>9. Opening => Opening'
  <2> SUFFICES ASSUME Opening PROVE Opening'
    OBVIOUS
  <2>1. \A x \in Node : Begun(x) => Begun(x)'
    BY <1>1, <1>4 DEF Begun
  <2>2. ASSUME NEW x \in Node, HasRequestor(x), status'[x] # "NOT_STARTED"
        PROVE  IF IsLeaf(x) THEN x \in pending' ELSE Begun(Left(x))'
    <3>1. IF IsLeaf(x) THEN x \in pending ELSE Begun(Left(x))
      BY <1>1, <2>2 DEF Opening
    <3>2. ~IsLeaf(x) => Left(x) \in Node
      BY <1>1, Numbered DEF Binary
    <3>3. Left(x)' = Left(x)
      BY <1>1, SameGraph
    <3>4. ~IsLeaf(x) => Begun(Left(x))'
      BY <2>1, <3>1, <3>2, <3>3 DEF Begun
    <3> QED
      BY <1>1, <3>1, <3>4
  <2>3. \A i \in 1 .. Len(graph.tops) : Begun(graph.tops[i])'
    <3>1. \A i \in 1 .. Len(graph.tops) : graph.tops[i] \in Node /\ Begun(graph.tops[i])
      BY <1>1, Numbered, ElementOfSeq DEF Opening
    <3>2. graph.tops' = graph.tops
      BY <1>1
    <3> QED
      BY <2>1, <3>1, <3>2 DEF Begun
  <2>4. /\ \A x \in Node' : sent'[x] = << >> /\ notRun'[x] = 0
        /\ \A i, j : ~Declines(i, j)' /\ \A d \in Decision : ~Tells(i, j, d)'
    BY <1>1, <1>4, SameGraph DEF Opening
  <2> QED
    BY <1>1, <2>2, <2>3, <2>4, SameGraph DEF Opening
<1>10. HeardOK'
  BY <1>1, <1>3, HeardKept
<1> QED
  BY <1>1, <1>5, <1>6, <1>7, <1>8, <1>9, <1>10 DEF OpeningOK
LEMMA FirstLeafIsLeaf ==
  ASSUME graph \in Graphs
  PROVE  \A n \in Node : FirstLeaf[n] \in Node /\ IsLeaf(FirstLeaf[n])
<1> DEFINE N == Len(graph.kind)
           T == {n \in Node : FirstLeaf[n] \in Node /\ IsLeaf(FirstLeaf[n])}
<1>1. N \in Nat /\ Node = 1 .. N
  BY Numbered
<1>2. ASSUME NEW n \in 1 .. N, \A m \in 1 .. N : m < n => m \in T
      PROVE  n \in T
  <2>1. FirstLeaf[n] = IF IsLeaf(n) THEN n ELSE FirstLeaf[Left(n)]
    BY <1>1, FirstLeafDefined
  <2>2. ~IsLeaf(n) => Left(n) \in 1 .. N /\ Left(n) < n
    BY <1>1, Numbered DEF Binary
  <2>3. ~IsLeaf(n) => Left(n) \in T
    BY <1>2, <2>2
  <2> QED
    BY <1>1, <2>1, <2>3
<1> HIDE DEF T
<1>3. 1 .. N \subseteq T
  BY <1>1, <1>2, Upwards
<1> QED
  BY <1>1, <1>3 DEF T

(* When the opening calls have returned the first leaf of every top waits. *)
LEMMA OpeningEnds ==
  ASSUME GraphIInv, started, calls = << >>
  PROVE  TopsReached
<1> USE DEF GraphIInv
<1> SUFFICES ASSUME Opening PROVE TopsReached
  BY DEF OpeningOK
<1> DEFINE N == Len(graph.kind)
           T == {n \in Node : HasRequestor(n) /\ status[n] # "NOT_STARTED"
                                => Reached(FirstLeaf[n])}
<1>1. graph \in Graphs /\ N \in Nat /\ Node = 1 .. N
  BY Numbered DEF GraphTypeOK
<1>2. \A n : Begun(n) => status[n] # "NOT_STARTED"
  BY ShortLines DEF Begun, Asks
<1>3. ASSUME NEW n \in 1 .. N, \A m \in 1 .. N : m < n => m \in T
      PROVE  n \in T
  <2> SUFFICES ASSUME HasRequestor(n), status[n] # "NOT_STARTED"
               PROVE  Reached(FirstLeaf[n])
    BY <1>1
  <2>1. n \in Node
    BY <1>1
  <2>2. CASE IsLeaf(n)
    <3>1. FirstLeaf[n] = n /\ n \in pending
      BY <1>1, <2>1, <2>2, FirstLeafDefined DEF Opening
    <3> QED
      BY <3>1 DEF Reached
  <2>3. CASE ~IsLeaf(n)
    <3>1. FirstLeaf[n] = FirstLeaf[Left(n)]
      BY <1>1, <2>1, <2>3, FirstLeafDefined
    <3>2. status[Left(n)] # "NOT_STARTED"
      BY <1>2, <2>1, <2>3 DEF Opening
    <3>3. Left(n) \in Node /\ Left(n) < n /\ RequestorOf(n, Left(n))
      BY <1>1, <2>1, <2>3, Numbered DEF Binary, ChildOf, RequestorOf
    <3>4. HasRequestor(Left(n))
      BY <2>1, <3>3 DEF HasRequestor
    <3>5. Left(n) \in T
      BY <1>1, <1>3, <3>3
    <3> QED
      BY <3>1, <3>2, <3>4, <3>5
  <2> QED
    BY <2>2, <2>3
<1> HIDE DEF T
<1>4. 1 .. N \subseteq T
  BY <1>1, <1>3, Upwards
<1> USE DEF T
<1> SUFFICES ASSUME NEW i \in 1 .. Len(graph.tops)
             PROVE  Reached(FirstLeaf[graph.tops[i]])
  BY DEF TopsReached
<1>5. graph.tops[i] \in Node /\ IsTop(graph.tops[i])
  BY <1>1, Numbered, ElementOfSeq DEF IsTop
<1>6. HasRequestor(graph.tops[i])
  BY <1>5 DEF HasRequestor, RequestorOf
<1>7. status[graph.tops[i]] # "NOT_STARTED"
  BY <1>2 DEF Opening
<1> QED
  BY <1>1, <1>4, <1>5, <1>6, <1>7

LEMMA LeafRunsKeeps ==
  ASSUME GraphIInv, NEW n \in Node, LeafRuns(n)
  PROVE  GraphIInv'
<1> DEFINE d == verdict[n]
           p == Answers(n, verdict[n])
<1> USE DEF GraphIInv
<1>1. /\ calls = << >> /\ n \in pending /\ graph \in Graphs
      /\ IsLeaf(n) /\ d \in Decision /\ status[n] = "SHOULD_RUN" /\ sent[n] = << >>
      /\ UNCHANGED <<graph, verdict, notRun, answers, left, right, finished, started, round>>
      /\ pending' = pending \ {n}
      /\ started
  <2>1. calls = << >> /\ n \in pending /\ graph \in Graphs
    BY DEF LeafRuns, GraphTypeOK
  <2>2. IsLeaf(n) /\ status[n] = "SHOULD_RUN"
    BY <2>1 DEF GraphTypeOK, LeavesOK
  <2>3. d \in Decision
    BY <2>2 DEF GraphTypeOK
  <2>4. sent[n] = << >>
    BY <2>2 DEF SentOnce
  <2>5. started
    BY <2>1 DEF Idle
  <2> QED
    BY <2>1, <2>2, <2>3, <2>4, <2>5 DEF LeafRuns
<1>2. /\ p \in Seq(CallSet)
      /\ \A c : In(c, p) <=> \E r : RequestorOf(r, n) /\ c = Call(n, r, d)
      /\ \A r : Binary(r) /\ Left(r) # Right(r) => ~Twice(Call(n, r, d), p)
  BY <1>1, InAnswers
<1>3. /\ calls' = p
      /\ status' = [status EXCEPT ![n] = "COMPLETED"]
      /\ sent' = [sent EXCEPT ![n] = <<d>>]
  <2>1. p \o << >> = p
    BY <1>2
  <2>2. Append(sent[n], d) = <<d>>
    BY <1>1
  <2>3. calls' = p \o << >> /\ SetStatus(n, "COMPLETED")
        /\ sent' = [sent EXCEPT ![n] = Append(@, d)]
    BY <1>1 DEF LeafRuns, Send
  <2>4. sent' = [sent EXCEPT ![n] = <<d>>]
    BY <2>2, <2>3
  <2> QED
    BY <2>1, <2>3, <2>4 DEF SetStatus
<1>4. /\ \A x \in Node : x # n => status'[x] = status[x] /\ sent'[x] = sent[x]
      /\ status'[n] = "COMPLETED" /\ sent'[n] = <<d>>
  BY <1>3 DEF GraphTypeOK
<1> HIDE DEF d, p
<1>5. \A i, j : /\ ~Asks(i, j)' /\ ~Declines(i, j)'
                /\ \A e \in Decision : Tells(i, j, e)' =>
                     i = n /\ e = d /\ RequestorOf(j, n)
  <2>1. \A i, j, w : In(Call(i, j, w), calls') => i = n /\ w = d /\ RequestorOf(j, n)
    BY <1>2, <1>3, CallFields
  <2>2. d # "REQUEST_DECISION" /\ d # "NO_REQUEST_COMING"
    BY <1>1 DEF Decision
  <2> QED
    BY <2>1, <2>2, LinesPrimed
<1>6. GraphTypeOK'
  <2>1. /\ status \in [Node -> {"NOT_STARTED", "IN_PROGRESS", "COMPLETED",
                               "WILL_NOT_RUN", "SHOULD_RUN"}]
        /\ sent \in [Node -> Seq(Decision)]
    BY DEF GraphTypeOK
  <2>2. /\ status' \in [Node -> {"NOT_STARTED", "IN_PROGRESS", "COMPLETED",
                                "WILL_NOT_RUN", "SHOULD_RUN"}]
        /\ sent' \in [Node -> Seq(Decision)]
    BY <1>1, <1>3, <2>1
  <2>3. calls' \in Seq(CallSet)
    BY <1>2, <1>3
  <2> QED
    BY <1>1, <2>2, <2>3, SameGraph DEF GraphTypeOK, CallSet
<1>7. CallsOK'
  <2>1. ASSUME NEW m, NEW f, NEW e \in Decision, Tells(m, f, e)'
        PROVE  m \in Node' /\ sent'[m] = <<e>> /\ RequestorOf(f, m)'
    <3>1. m = n /\ e = d /\ RequestorOf(f, n)
      BY <1>5, <2>1
    <3>2. n \in Node' /\ sent'[n] = <<d>> /\ (RequestorOf(f, n)' <=> RequestorOf(f, n))
      BY <1>1, <1>4, SameGraph
    <3> QED
      BY ONLY <3>1, <3>2
  <2> QED
    BY <1>1, <1>5, <2>1 DEF CallsOK
<1>8. SentOnce' /\ LeavesOK' /\ Idle'
  <2>1. SentOnce'
    BY <1>1, <1>4, SameGraph DEF SentOnce
  <2>2. LeavesOK'
    BY <1>1, <1>4, SameGraph DEF LeavesOK, GraphTypeOK, d
  <2> QED
    BY <1>1, <2>1, <2>2 DEF Idle
<1>9. TopsReached'
  <2>1. TopsReached
    BY <1>1, OpeningEnds
  <2>2. \A f \in Node : Reached(f) => Reached(f)'
    BY <1>1, <1>4 DEF Reached
  <2>3. graph.tops' = graph.tops /\ FirstLeaf' = FirstLeaf
    BY <1>1, SameGraph
  <2>4. \A i \in 1 .. Len(graph.tops) : FirstLeaf[graph.tops[i]] \in Node
    BY <1>1, Numbered, FirstLeafIsLeaf, ElementOfSeq
  <2> QED
    BY <2>1, <2>2, <2>3, <2>4 DEF TopsReached, Reached
<1>10. HeardOK'
  <2> SUFFICES ASSUME round = 1, NEW x \in Node, ~IsLeaf(x), Left(x) # Right(x)
               PROVE  /\ Heard(x, Left(x), left[x])'
                      /\ Heard(x, Right(x), right[x])'
                      /\ answers'[x] = (IF left'[x] = NONE THEN 0 ELSE 1)
                                         + (IF right'[x] = NONE THEN 0 ELSE 1)
                      /\ sent'[x] # << >> => Cause(x)'
    BY <1>1, SameGraph DEF HeardOK
  <2>1. /\ Heard(x, Left(x), left[x])
        /\ Heard(x, Right(x), right[x])
        /\ answers[x] = (IF left[x] = NONE THEN 0 ELSE 1) + (IF right[x] = NONE THEN 0 ELSE 1)
        /\ sent[x] # << >> => Cause(x)
    BY DEF HeardOK
  <2>2. Binary(x) /\ Left(x) \in Node /\ Right(x) \in Node
    BY <1>1, Numbered DEF Binary
  <2>3. Left(x)' = Left(x) /\ Right(x)' = Right(x) /\ Unanimous(x)' = Unanimous(x)
    BY <1>1, SameGraph
  <2>4. \A e \in Decision : ~Twice(Call(n, x, e), calls')
    <3>1. \A c : Twice(c, calls') => In(c, calls')
      BY DEF Twice, In
    <3> QED
      BY <1>2, <1>3, <2>2, <3>1, CallFields
  <2>5. ASSUME NEW m \in Node, NEW a, Heard(x, m, a)
        PROVE  /\ a # NONE => sent'[m] = <<a>>
               /\ \A e \in Decision : In(Call(m, x, e), calls') =>
                    a = NONE /\ ~Twice(Call(m, x, e), calls')
    <3>1. CASE m = n
      BY <1>1, <2>4, <2>5, <3>1 DEF Heard
    <3>2. CASE m # n
      BY <1>4, <1>5, <2>5, <3>2, LinesPrimed DEF Heard
    <3> QED
      BY <3>1, <3>2
  <2>6. Heard(x, Left(x), left[x])'
    <3>1. /\ left[x] # NONE => sent'[Left(x)] = <<left[x]>>
          /\ \A e \in Decision : In(Call(Left(x), x, e), calls') =>
               left[x] = NONE /\ ~Twice(Call(Left(x), x, e), calls')
      <4>1. Left(x) \in Node /\ Heard(x, Left(x), left[x])
        BY ONLY <2>1, <2>2
      <4> QED
        BY ONLY <4>1, <2>5
    <3> QED
      BY ONLY <1>1, <2>3, <3>1, LinesPrimed DEF Heard
  <2>7. Heard(x, Right(x), right[x])'
    <3>1. /\ right[x] # NONE => sent'[Right(x)] = <<right[x]>>
          /\ \A e \in Decision : In(Call(Right(x), x, e), calls') =>
               right[x] = NONE /\ ~Twice(Call(Right(x), x, e), calls')
      <4>1. Right(x) \in Node /\ Heard(x, Right(x), right[x])
        BY ONLY <2>1, <2>2
      <4> QED
        BY ONLY <4>1, <2>5
    <3> QED
      BY ONLY <1>1, <2>3, <3>1, LinesPrimed DEF Heard
  <2>8. sent'[x] # << >> => Cause(x)'
    <3>1. x # n
      BY <1>1
    <3> QED
      BY <1>1, <1>4, <2>1, <2>3, <3>1 DEF Cause
  <2> QED
    BY <1>1, <2>1, <2>6, <2>7, <2>8
<1> QED
  BY <1>6, <1>7, <1>8, <1>9, <1>10 DEF OpeningOK

LEMMA ResetKeeps ==
  ASSUME GraphIInv, ResetForNewTransition
  PROVE  GraphIInv'
<1> USE DEF GraphIInv
<1>1. /\ calls = << >> /\ pending = {} /\ round' = round + 1 /\ started' = FALSE
      /\ notRun' = [n \in Node |-> 0] /\ sent' = [n \in Node |-> << >>]
      /\ status' = [n \in Node |-> IF Requestors(n) = << >> THEN "SHOULD_RUN"
                                   ELSE "NOT_STARTED"]
      /\ UNCHANGED <<graph, verdict, answers, left, right, pending, calls, finished>>
      /\ graph \in Graphs /\ round \in Nat \ {0}
  BY DEF ResetForNewTransition, Quiet, GraphTypeOK
<1>2. \A m, n : ~Asks(m, n)' /\ ~Declines(m, n)' /\ \A d \in Decision : ~Tells(m, n, d)'
  BY <1>1, LinesPrimed, ShortLines
<1>3. GraphTypeOK'
  <2>1. << >> \in Seq(Decision)
    OBVIOUS
  <2>2. /\ status' \in [Node -> {"NOT_STARTED", "IN_PROGRESS", "COMPLETED",
                                "WILL_NOT_RUN", "SHOULD_RUN"}]
        /\ sent' \in [Node -> Seq(Decision)] /\ notRun' \in [Node -> Nat]
        /\ round' \in Nat \ {0}
    BY <1>1, <2>1
  <2> QED
    BY <1>1, <2>2, SameGraph DEF GraphTypeOK, CallSet
<1>4. CallsOK'
  BY <1>2 DEF CallsOK
<1>5. SentOnce' /\ LeavesOK'
  BY <1>1, SameGraph DEF SentOnce, LeavesOK
<1>6. Idle'
  <2>1. ASSUME NEW n \in Node, HasRequestor(n)
        PROVE  Requestors(n) # << >>
    <3>1. \E i \in 1 .. Len(Requestors(n)) : TRUE
      BY <1>1, <2>1, Requesting DEF HasRequestor, RequestorOf
    <3> QED
      BY <3>1
  <2> QED
    BY <1>1, <2>1, SameGraph DEF Idle
<1>7. HeardOK'
  BY <1>1 DEF HeardOK
<1> QED
  BY <1>1, <1>3, <1>4, <1>5, <1>6, <1>7 DEF OpeningOK
(* What settles a node. *)
LEMMA Settling ==
  ASSUME NEW n \in Node, ~IsLeaf(n), graph \in Graphs
  PROVE  /\ Unanimous(n) \in Decision
         /\ \A d \in Decision : /\ ShortCircuit(n, d) # NONE =>
                                     ShortCircuit(n, d) = d /\ d # Unanimous(n)
                                /\ ShortCircuit(n, d) = NONE => d = Unanimous(n)
         /\ \A l, r \in Decision :
              /\ FullDecision(n, l, r) \in Decision
              /\ \/ l = Unanimous(n) /\ r = Unanimous(n) /\ FullDecision(n, l, r) = Unanimous(n)
                 \/ l # Unanimous(n) /\ FullDecision(n, l, r) = l
                 \/ r # Unanimous(n) /\ FullDecision(n, l, r) = r
<1>1. graph.kind[n] \in {"and", "or"}
  BY Numbered DEF IsLeaf
<1>2. Unanimous(n) \in Decision
  BY DEF Unanimous, Decision
<1>3. ASSUME NEW d \in Decision
      PROVE  /\ ShortCircuit(n, d) # NONE => ShortCircuit(n, d) = d /\ d # Unanimous(n)
             /\ ShortCircuit(n, d) = NONE => d = Unanimous(n)
  BY <1>1 DEF ShortCircuit, AndShortCircuit, OrShortCircuit, Unanimous, Decision, NONE
<1>4. ASSUME NEW l \in Decision, NEW r \in Decision
      PROVE  /\ FullDecision(n, l, r) \in Decision
             /\ \/ l = Unanimous(n) /\ r = Unanimous(n) /\ FullDecision(n, l, r) = Unanimous(n)
                \/ l # Unanimous(n) /\ FullDecision(n, l, r) = l
                \/ r # Unanimous(n) /\ FullDecision(n, l, r) = r
  <2>1. CASE graph.kind[n] = "and"
    <3>1. /\ FullDecision(n, l, r) = AndDecision(l, r) /\ Unanimous(n) = "GO"
      BY <2>1 DEF FullDecision, Unanimous
    <3>2. CASE l = "EXCEPTION" \/ r = "EXCEPTION"
      BY <3>1, <3>2 DEF AndDecision, Decision
    <3>3. CASE l # "EXCEPTION" /\ r # "EXCEPTION"
      <4>1. "EXCEPTION" \notin {l, r}
        BY <3>3
      <4>2. {l, r} = {"GO"} <=> l = "GO" /\ r = "GO"
        OBVIOUS
      <4>3. AndDecision(l, r) = IF l = "GO" /\ r = "GO" THEN "GO" ELSE "SKIP"
        BY <4>1, <4>2 DEF AndDecision
      <4> QED
        BY <3>1, <3>3, <4>3 DEF Decision
    <3> QED
      BY <3>2, <3>3
  <2>2. CASE graph.kind[n] # "and"
    <3>1. /\ FullDecision(n, l, r) = OrDecision(l, r) /\ Unanimous(n) = "SKIP"
      BY <2>2 DEF FullDecision, Unanimous
    <3>2. CASE l = "EXCEPTION" \/ r = "EXCEPTION"
      BY <3>1, <3>2 DEF OrDecision, Decision
    <3>3. CASE l # "EXCEPTION" /\ r # "EXCEPTION"
      <4>1. OrDecision(l, r) = IF l = "GO" \/ r = "GO" THEN "GO" ELSE "SKIP"
        BY <3>3 DEF OrDecision
      <4> QED
        BY <3>1, <3>3, <4>1 DEF Decision
    <3> QED
      BY <3>2, <3>3
  <2> QED
    BY <2>1, <2>2
<1> QED
  BY <1>2, <1>3, <1>4

(* The answers of a node, and then perhaps one call that declines.         *)
LEMMA AnswersThen ==
  ASSUME graph \in Graphs, NEW n \in Node, ~IsLeaf(n), NEW d \in Decision,
         NEW e \in {<< >>, <<Call(n, Right(n), "NO_REQUEST_COMING")>>}
  PROVE  /\ Answers(n, d) \o e \in Seq(CallSet)
         /\ \A c : In(c, Answers(n, d) \o e) =>
              \/ c = Call(n, Right(n), "NO_REQUEST_COMING")
              \/ \E r : RequestorOf(r, n) /\ c = Call(n, r, d)
         /\ \A r : RequestorOf(r, n) => In(Call(n, r, d), Answers(n, d) \o e)
         /\ \A r : Binary(r) /\ Left(r) # Right(r) =>
              \A v \in Decision : ~Twice(Call(n, r, v), Answers(n, d) \o e)
         /\ e # << >> => In(Call(n, Right(n), "NO_REQUEST_COMING"), Answers(n, d) \o e)
<1> DEFINE A == Answers(n, d)
           x == Call(n, Right(n), "NO_REQUEST_COMING")
           s == IF e = << >> THEN <<x>> ELSE <<x, x>>
<1>1. /\ A \in Seq(CallSet)
      /\ \A c : In(c, A) <=> \E r : RequestorOf(r, n) /\ c = Call(n, r, d)
      /\ \A r : Binary(r) /\ Left(r) # Right(r) => ~Twice(Call(n, r, d), A)
  BY InAnswers
<1>2. x \in CallSet
  BY Numbered, CallFields DEF Binary
<1>3. s \in Seq(CallSet) /\ s # << >> /\ Tail(s) = e /\ (e = << >> \/ e = <<x>>)
  <2>1. CASE e = << >>
    BY <1>2, <2>1
  <2>2. CASE e = <<x>>
    BY <1>2, <2>2
  <2> QED
    BY <2>1, <2>2
<1>4. \A c : In(c, s) => c = x
  <2>1. s = <<x>> \/ s = <<x, x>>
    OBVIOUS
  <2> HIDE DEF s, x
  <2> QED
    BY <2>1, ShortLines
<1> HIDE DEF A, s
<1>5. A \o e = A \o Tail(s)
  BY <1>3
<1>6. /\ A \o e \in Seq(CallSet)
      /\ \A c : In(c, A \o e) => In(c, A) \/ In(c, s)
      /\ \A c : In(c, A) => In(c, A \o e)
      /\ \A c : Twice(c, A \o e) /\ ~Twice(c, A) => In(c, s)
  BY <1>1, <1>3, <1>5, Replaced
<1>7. \A c : Twice(c, A) => In(c, A)
  BY DEF Twice, In
<1>8. \A r, v : v \in Decision => Call(n, r, v) # x
  BY CallFields DEF Decision
<1>9. ASSUME NEW r, Binary(r), Left(r) # Right(r), NEW v \in Decision
      PROVE  ~Twice(Call(n, r, v), A \o e)
  <2>1. v # d => ~In(Call(n, r, v), A)
    BY <1>1, CallFields
  <2>2. ~Twice(Call(n, r, v), A)
    BY <1>1, <1>7, <1>9, <2>1
  <2> QED
    BY <1>4, <1>6, <1>8, <2>2
<1>10. ASSUME e # << >> PROVE In(x, A \o e)
  <2>1. Len(A) \in Nat /\ e = <<x>> /\ Len(e) = 1
    BY <1>1, <1>3, <1>10, LenProperties
  <2>2. Len(A \o e) = Len(A) + 1 /\ (A \o e)[Len(A) + 1] = x
    BY <1>1, <1>2, <2>1
  <2>3. Len(A) + 1 \in 1 .. Len(A \o e)
    BY <2>1, <2>2
  <2> QED
    BY <2>2, <2>3 DEF In
<1> QED
  BY <1>1, <1>4, <1>6, <1>9, <1>10 DEF A
(* What a binary node does with an answer: nothing when it is not in       *)
(* progress; it asks on, or waits on, when nothing is settled; it sends.   *)
Ignores(n, p) ==
  status[n] # "IN_PROGRESS" /\ p = << >> /\ UNCHANGED <<status, sent>>
AsksOn(n, m, d, p) ==
  /\ status[n] = "IN_PROGRESS" /\ answers[n] + 1 # 2 /\ ShortCircuit(n, d) = NONE
  /\ p = IF m = Left(n) THEN <<Call(n, Right(n), "REQUEST_DECISION")>> ELSE << >>
  /\ UNCHANGED <<status, sent>>
Settles(n, m, d, v, e, p) ==
  /\ status[n] = "IN_PROGRESS" /\ v \in Decision
  /\ \/ answers[n] + 1 = 2 /\ v = FullDecision(n, left'[n], right'[n])
     \/ answers[n] + 1 # 2 /\ ShortCircuit(n, d) # NONE /\ v = ShortCircuit(n, d)
  /\ e = IF answers[n] + 1 # 2 /\ m = Left(n)
         THEN <<Call(n, Right(n), "NO_REQUEST_COMING")>> ELSE << >>
  /\ p = Answers(n, v) \o e
  /\ status' = [status EXCEPT ![n] = "COMPLETED"]
  /\ sent' = [sent EXCEPT ![n] = <<v>>]

(* The value FullDecision is given is a decision: the first transition     *)
(* counts the answers, later ones find the values of the one before or     *)
(* NOT_STARTED, which it treats as any other value that is not GO.         *)
LEMMA FullDecisionDecides ==
  ASSUME NEW n, NEW l, NEW r
  PROVE  FullDecision(n, l, r) \in Decision
<1>1. AndDecision(l, r) \in {"EXCEPTION", "GO", "SKIP"}
  <2>1. CASE "EXCEPTION" \in {l, r}
    BY <2>1 DEF AndDecision
  <2>2. CASE "EXCEPTION" \notin {l, r} /\ {l, r} = {"GO"}
    BY <2>2 DEF AndDecision
  <2>3. CASE "EXCEPTION" \notin {l, r} /\ {l, r} # {"GO"}
    BY <2>3 DEF AndDecision
  <2> QED
    BY <2>1, <2>2, <2>3
<1>2. OrDecision(l, r) \in {"EXCEPTION", "GO", "SKIP"}
  <2>1. CASE "EXCEPTION" \in {l, r}
    BY <2>1 DEF OrDecision
  <2>2. CASE "EXCEPTION" \notin {l, r} /\ "GO" \in {l, r}
    BY <2>2 DEF OrDecision
  <2>3. CASE "EXCEPTION" \notin {l, r} /\ "GO" \notin {l, r}
    BY <2>3 DEF OrDecision
  <2> QED
    BY <2>1, <2>2, <2>3
<1> QED
  BY <1>1, <1>2 DEF FullDecision, Decision

LEMMA Told ==
  ASSUME GraphIInv, NEW d \in Decision, DecisionFromNode(d)
  PROVE  \E n, m \in Node : \E p \in Seq(CallSet) :
           /\ calls # << >> /\ calls \in Seq(CallSet) /\ graph \in Graphs /\ started
           /\ Head(calls) = Call(m, n, d)
           /\ Binary(n) /\ ~IsLeaf(n) /\ m \in {Left(n), Right(n)} /\ m # n
           /\ sent[m] = <<d>> /\ Tells(m, n, d) /\ TopsReached
           /\ left' = IF m = Left(n) THEN [left EXCEPT ![n] = d] ELSE left
           /\ right' = IF m = Left(n) THEN right ELSE [right EXCEPT ![n] = d]
           /\ answers' = [answers EXCEPT ![n] = @ + 1]
           /\ UNCHANGED <<graph, verdict, notRun, pending, finished, started, round>>
           /\ calls' = p \o Tail(calls)
           /\ \/ Ignores(n, p)
              \/ AsksOn(n, m, d, p)
              \/ \E v, e : Settles(n, m, d, v, e, p)
<1> DEFINE n == Head(calls).to
           m == Head(calls).from
           ask == <<Call(n, Right(n), "REQUEST_DECISION")>>
           decline == <<Call(n, Right(n), "NO_REQUEST_COMING")>>
<1> USE DEF GraphIInv
<1>1. /\ calls # << >> /\ calls \in Seq(CallSet) /\ graph \in Graphs
      /\ Current(d) /\ n # Start
      /\ left' = IF m = Left(n) THEN [left EXCEPT ![n] = d] ELSE left
      /\ right' = IF m = Left(n) THEN right ELSE [right EXCEPT ![n] = d]
      /\ answers' = [answers EXCEPT ![n] = @ + 1]
      /\ \/ status[n] = "IN_PROGRESS" /\ Continue(n, m, d)
         \/ status[n] # "IN_PROGRESS" /\ calls' = Tail(calls) /\ UNCHANGED <<status, sent>>
      /\ UNCHANGED <<graph, verdict, notRun, pending, finished, started, round>>
  BY DEF DecisionFromNode, Current, GraphTypeOK
<1>2. /\ started /\ Head(calls) = Call(m, n, d)
      /\ m \in Node /\ sent[m] = <<d>> /\ RequestorOf(n, m) /\ Tells(m, n, d) /\ TopsReached
  BY <1>1, HeadCall
<1>3. /\ Binary(n) /\ n \in Node /\ ~IsLeaf(n) /\ m \in {Left(n), Right(n)} /\ m # n
      /\ Right(n) \in Node
  <2>1. ChildOf(m, n)
    BY <1>1, <1>2 DEF RequestorOf
  <2>2. Binary(n) /\ m \in {Left(n), Right(n)}
    BY <2>1 DEF ChildOf
  <2>3. m < n /\ n \in Nat /\ m \in Nat /\ Right(n) \in Node
    BY <1>1, <1>2, <2>2, Numbered DEF Binary
  <2> QED
    BY <2>2, <2>3 DEF Binary
<1>4. /\ Tail(calls) \in Seq(CallSet) /\ Tail(calls) = << >> \o Tail(calls)
      /\ << >> \in Seq(CallSet) /\ ask \in Seq(CallSet) /\ decline \in Seq(CallSet)
  BY <1>1, <1>3, CallFields
<1>5. /\ answers[n] + 1 \in Nat /\ answers'[n] = answers[n] + 1
      /\ status[n] = "IN_PROGRESS" => sent[n] = << >>
  BY <1>1, <1>3 DEF GraphTypeOK, SentOnce
<1> HIDE DEF n, m, ask, decline
<1>6. ASSUME NEW v \in Decision, NEW e \in {<< >>, decline}, status[n] = "IN_PROGRESS",
             Send(n, v, e \o Tail(calls))
      PROVE  /\ Answers(n, v) \o e \in Seq(CallSet)
             /\ calls' = (Answers(n, v) \o e) \o Tail(calls)
             /\ status' = [status EXCEPT ![n] = "COMPLETED"]
             /\ sent' = [sent EXCEPT ![n] = <<v>>]
  <2>1. Answers(n, v) \o e \in Seq(CallSet) /\ Answers(n, v) \in Seq(CallSet)
    BY <1>1, <1>3, AnswersThen, InAnswers DEF decline
  <2>2. e \in Seq(CallSet)
    BY <1>4
  <2>3. calls' = Answers(n, v) \o (e \o Tail(calls))
    BY <1>6 DEF Send
  <2>4. Answers(n, v) \o (e \o Tail(calls)) = (Answers(n, v) \o e) \o Tail(calls)
    <3> DEFINE a == Answers(n, v)
               b == Tail(calls)
    <3>1. a \in Seq(CallSet) /\ b \in Seq(CallSet)
      BY <1>4, <2>1
    <3> HIDE DEF a, b
    <3>2. a \o (e \o b) = (a \o e) \o b
      BY <2>2, <3>1, ConcatAssociative
    <3> QED
      BY <3>2 DEF a, b
  <2>5. status' = [status EXCEPT ![n] = "COMPLETED"]
    BY <1>6 DEF Send, SetStatus
  <2>6. Append(sent[n], v) = <<v>>
    <3>1. sent[n] = << >>
      BY <1>5, <1>6
    <3> QED
      BY <3>1
  <2>7. sent' = [sent EXCEPT ![n] = <<v>>]
    BY <1>6, <2>6 DEF Send
  <2> QED
    BY <2>1, <2>3, <2>4, <2>5, <2>7
<1>7. ASSUME status[n] # "IN_PROGRESS", calls' = Tail(calls), UNCHANGED <<status, sent>>
      PROVE  \E p \in Seq(CallSet) : calls' = p \o Tail(calls) /\ Ignores(n, p)
  BY <1>4, <1>7 DEF Ignores
<1>8. ASSUME NEW v \in Decision, status[n] = "IN_PROGRESS",
             \/ answers'[n] = 2 /\ v = FullDecision(n, left'[n], right'[n])
             \/ answers'[n] # 2 /\ ShortCircuit(n, d) # NONE /\ v = ShortCircuit(n, d),
             Send(n, v, (IF answers'[n] # 2 /\ m = Left(n) THEN decline ELSE << >>)
                          \o Tail(calls))
      PROVE  \E p \in Seq(CallSet) : /\ calls' = p \o Tail(calls)
                                     /\ \E x, e : Settles(n, m, d, x, e, p)
  <2> DEFINE e == IF answers'[n] # 2 /\ m = Left(n) THEN decline ELSE << >>
  <2>1. e \in {<< >>, decline}
    OBVIOUS
  <2> HIDE DEF e
  <2>2. /\ Answers(n, v) \o e \in Seq(CallSet)
        /\ calls' = (Answers(n, v) \o e) \o Tail(calls)
        /\ status' = [status EXCEPT ![n] = "COMPLETED"]
        /\ sent' = [sent EXCEPT ![n] = <<v>>]
    BY <1>6, <1>8, <2>1 DEF e
  <2>3. Settles(n, m, d, v, e, Answers(n, v) \o e)
    BY <1>5, <1>8, <2>2 DEF Settles, e, decline
  <2> QED
    BY <2>2, <2>3
<1>9. ASSUME status[n] = "IN_PROGRESS", answers'[n] # 2, ShortCircuit(n, d) = NONE,
             calls' = (IF m = Left(n) THEN ask ELSE << >>) \o Tail(calls),
             UNCHANGED <<status, sent>>
      PROVE  \E p \in Seq(CallSet) : calls' = p \o Tail(calls) /\ AsksOn(n, m, d, p)
  <2> DEFINE p == IF m = Left(n) THEN ask ELSE << >>
  <2>1. p \in Seq(CallSet) /\ calls' = p \o Tail(calls)
    BY <1>4, <1>9
  <2>2. AsksOn(n, m, d, p)
    BY <1>5, <1>9 DEF AsksOn, ask
  <2> QED
    BY <2>1, <2>2
<1>10. \E p \in Seq(CallSet) :
         /\ calls' = p \o Tail(calls)
         /\ \/ Ignores(n, p)
            \/ AsksOn(n, m, d, p)
            \/ \E v, e : Settles(n, m, d, v, e, p)
  <2>1. CASE status[n] # "IN_PROGRESS"
    BY <1>1, <1>7, <2>1
  <2>2. CASE status[n] = "IN_PROGRESS" /\ Continue(n, m, d)
    <3>1. CASE answers'[n] = 2
      <4> DEFINE v == FullDecision(n, left'[n], right'[n])
      <4>1. v \in Decision
        BY FullDecisionDecides
      <4>2. Send(n, v, << >> \o Tail(calls))
        BY <1>4, <2>2, <3>1 DEF Continue
      <4> HIDE DEF v
      <4>3. \/ answers'[n] = 2 /\ v = FullDecision(n, left'[n], right'[n])
            \/ answers'[n] # 2 /\ ShortCircuit(n, d) # NONE /\ v = ShortCircuit(n, d)
        BY <3>1 DEF v
      <4>4. Send(n, v, (IF answers'[n] # 2 /\ m = Left(n) THEN decline ELSE << >>)
                         \o Tail(calls))
        BY <3>1, <4>2
      <4> QED
        BY <1>8, <2>2, <4>1, <4>3, <4>4
    <3>2. CASE answers'[n] # 2 /\ ShortCircuit(n, d) # NONE
      <4> DEFINE v == ShortCircuit(n, d)
      <4>1. v \in Decision
        BY <1>1, <1>3, <3>2, Settling
      <4>2. Send(n, v, (IF answers'[n] # 2 /\ m = Left(n) THEN decline ELSE << >>)
                         \o Tail(calls))
        BY <1>4, <2>2, <3>2 DEF Continue, decline
      <4> HIDE DEF v
      <4>3. \/ answers'[n] = 2 /\ v = FullDecision(n, left'[n], right'[n])
            \/ answers'[n] # 2 /\ ShortCircuit(n, d) # NONE /\ v = ShortCircuit(n, d)
        BY <3>2 DEF v
      <4> QED
        BY <1>8, <2>2, <4>1, <4>2, <4>3
    <3>3. CASE answers'[n] # 2 /\ ShortCircuit(n, d) = NONE
      <4>1. /\ calls' = (IF m = Left(n) THEN ask ELSE << >>) \o Tail(calls)
            /\ UNCHANGED <<status, sent>>
        BY <1>4, <2>2, <3>3 DEF Continue, ask
      <4> QED
        BY <1>9, <2>2, <3>3, <4>1
    <3> QED
      BY <3>1, <3>2, <3>3
  <2> QED
    BY <1>1, <2>1, <2>2
<1> QED
  BY <1>1, <1>2, <1>3, <1>10
LEMMA DecisionFromNodeKeeps ==
  ASSUME GraphIInv, NEW d \in Decision, DecisionFromNode(d)
  PROVE  GraphIInv'
<1> USE DEF GraphIInv
<1>1. PICK n \in Node, m \in Node, p \in Seq(CallSet) :
        /\ calls # << >> /\ calls \in Seq(CallSet) /\ graph \in Graphs /\ started
        /\ Head(calls) = Call(m, n, d)
        /\ Binary(n) /\ ~IsLeaf(n) /\ m \in {Left(n), Right(n)} /\ m # n
        /\ sent[m] = <<d>> /\ Tells(m, n, d) /\ TopsReached
        /\ left' = IF m = Left(n) THEN [left EXCEPT ![n] = d] ELSE left
        /\ right' = IF m = Left(n) THEN right ELSE [right EXCEPT ![n] = d]
        /\ answers' = [answers EXCEPT ![n] = @ + 1]
        /\ UNCHANGED <<graph, verdict, notRun, pending, finished, started, round>>
        /\ calls' = p \o Tail(calls)
        /\ \/ Ignores(n, p)
           \/ AsksOn(n, m, d, p)
           \/ \E v, e : Settles(n, m, d, v, e, p)
  BY Told
<1>2. /\ calls' \in Seq(CallSet)
      /\ \A c : In(c, calls') => In(c, p) \/ In(c, calls)
      /\ \A c : In(c, calls') /\ ~In(c, p) /\ ~Twice(c, calls) => c # Head(calls)
      /\ \A c : Twice(c, calls') /\ ~Twice(c, calls) => In(c, p)
      /\ \A c : Twice(c, calls') /\ ~Twice(c, p) => In(c, calls)
  BY <1>1, NextLine
<1>3. PICK V :
        /\ V = {} \/ \E v \in Decision : V = {v}
        /\ \A c : In(c, p) =>
             \/ c = Call(n, Right(n), "REQUEST_DECISION")
             \/ c = Call(n, Right(n), "NO_REQUEST_COMING")
             \/ \E v \in V : \E r : RequestorOf(r, n) /\ c = Call(n, r, v)
        /\ \A r : Binary(r) /\ Left(r) # Right(r) =>
             \A v \in Decision : ~Twice(Call(n, r, v), p)
        /\ V = {} => UNCHANGED <<status, sent>>
        /\ \A v \in V : /\ status[n] = "IN_PROGRESS"
                        /\ status' = [status EXCEPT ![n] = "COMPLETED"]
                        /\ sent' = [sent EXCEPT ![n] = <<v>>]
                        /\ \/ answers[n] + 1 = 2 /\ v = FullDecision(n, left'[n], right'[n])
                           \/ v = d /\ d # Unanimous(n)
  <2>1. CASE Ignores(n, p)
    <3>1. p = << >> /\ UNCHANGED <<status, sent>>
      BY <2>1 DEF Ignores
    <3>2. PICK W : W = {}
      OBVIOUS
    <3> WITNESS W
    <3> QED
      BY <3>1, <3>2, ShortLines
  <2>2. CASE AsksOn(n, m, d, p)
    <3>1. (p = << >> \/ p = <<Call(n, Right(n), "REQUEST_DECISION")>>) /\ UNCHANGED <<status, sent>>
      BY <2>2 DEF AsksOn
    <3>2. PICK W : W = {}
      OBVIOUS
    <3> WITNESS W
    <3> QED
      BY <3>1, <3>2, ShortLines
  <2>3. CASE \E v, e : Settles(n, m, d, v, e, p)
    <3>1. PICK v, e : Settles(n, m, d, v, e, p)
      BY <2>3
    <3>2. v \in Decision /\ e \in {<< >>, <<Call(n, Right(n), "NO_REQUEST_COMING")>>}
          /\ p = Answers(n, v) \o e
      BY <3>1 DEF Settles
    <3>3. /\ \A c : In(c, p) =>
               \/ c = Call(n, Right(n), "NO_REQUEST_COMING")
               \/ \E r : RequestorOf(r, n) /\ c = Call(n, r, v)
          /\ \A r : Binary(r) /\ Left(r) # Right(r) =>
               \A x \in Decision : ~Twice(Call(n, r, x), p)
      <4> DEFINE q == Answers(n, v) \o e
      <4>1. /\ \A c : In(c, q) =>
                 \/ c = Call(n, Right(n), "NO_REQUEST_COMING")
                 \/ \E r : RequestorOf(r, n) /\ c = Call(n, r, v)
            /\ \A r : Binary(r) /\ Left(r) # Right(r) =>
                 \A x \in Decision : ~Twice(Call(n, r, x), q)
        BY <1>1, <3>2, AnswersThen
      <4>2. p = q
        BY <3>2
      <4> HIDE DEF q
      <4> QED
        BY <4>1, <4>2
    <3>4. /\ status[n] = "IN_PROGRESS"
          /\ status' = [status EXCEPT ![n] = "COMPLETED"]
          /\ sent' = [sent EXCEPT ![n] = <<v>>]
          /\ \/ answers[n] + 1 = 2 /\ v = FullDecision(n, left'[n], right'[n])
             \/ v = d /\ d # Unanimous(n)
      BY <1>1, <3>1, Settling DEF Settles
    <3>5. {v} # {}
      OBVIOUS
    <3> WITNESS {v}
    <3> QED
      BY <3>2, <3>3, <3>4, <3>5, Zenon
  <2> QED
    BY <1>1, <2>1, <2>2, <2>3
<1>4. /\ \A x \in Node : x # n => status'[x] = status[x] /\ sent'[x] = sent[x]
      /\ V = {} => status'[n] = status[n] /\ sent'[n] = sent[n]
      /\ V # {} => sent[n] = << >> /\ status[n] = "IN_PROGRESS" /\ status'[n] = "COMPLETED"
      /\ \A v \in V : v \in Decision /\ sent'[n] = <<v>> /\ V = {v}
  <2>1. status[n] = "IN_PROGRESS" => sent[n] = << >>
    BY DEF SentOnce
  <2> QED
    BY <1>1, <1>3, <2>1 DEF GraphTypeOK
<1>5. Right(n) \in Node /\ Left(n) \in Node /\ RequestorOf(n, Right(n)) /\ ChildOf(Right(n), n)
  BY <1>1, Numbered DEF RequestorOf, ChildOf, Binary
<1>6. \A i, j : /\ Asks(i, j)' => Asks(i, j) \/ (i = n /\ j = Right(n))
                /\ Declines(i, j)' => Declines(i, j) \/ (i = n /\ j = Right(n))
                /\ \A v \in Decision : Tells(i, j, v)' =>
                     \/ Tells(i, j, v)
                     \/ v \in V /\ i = n /\ RequestorOf(j, n)
  <2>1. \A i, j, w : In(Call(i, j, w), calls') =>
          \/ In(Call(i, j, w), calls)
          \/ i = n /\ j = Right(n) /\ w \in {"REQUEST_DECISION", "NO_REQUEST_COMING"}
          \/ w \in V /\ i = n /\ RequestorOf(j, n)
    <3> SUFFICES ASSUME NEW i, NEW j, NEW w, In(Call(i, j, w), calls'), ~In(Call(i, j, w), calls)
                 PROVE  \/ i = n /\ j = Right(n) /\ w \in {"REQUEST_DECISION", "NO_REQUEST_COMING"}
                        \/ w \in V /\ i = n /\ RequestorOf(j, n)
      OBVIOUS
    <3>1. In(Call(i, j, w), p)
      BY <1>2
    <3>2. \/ Call(i, j, w) = Call(n, Right(n), "REQUEST_DECISION")
          \/ Call(i, j, w) = Call(n, Right(n), "NO_REQUEST_COMING")
          \/ \E v \in V : \E r : RequestorOf(r, n) /\ Call(i, j, w) = Call(n, r, v)
      BY <1>3, <3>1
    <3> QED
      BY <3>2, CallFields
  <2>2. \A v \in V : v \in Decision
    BY <1>4
  <2>3. "REQUEST_DECISION" \notin Decision /\ "NO_REQUEST_COMING" \notin Decision
    BY DEF Decision
  <2> QED
    BY <2>1, <2>2, <2>3, LinesPrimed DEF Asks, Declines, Tells
<1>7. GraphTypeOK'
  <2>1. /\ status \in [Node -> {"NOT_STARTED", "IN_PROGRESS", "COMPLETED",
                               "WILL_NOT_RUN", "SHOULD_RUN"}]
        /\ sent \in [Node -> Seq(Decision)] /\ answers \in [Node -> Nat]
        /\ left \in [Node -> Decision \cup {NONE}] /\ right \in [Node -> Decision \cup {NONE}]
    BY DEF GraphTypeOK
  <2>2. /\ status' \in [Node -> {"NOT_STARTED", "IN_PROGRESS", "COMPLETED",
                                "WILL_NOT_RUN", "SHOULD_RUN"}]
        /\ sent' \in [Node -> Seq(Decision)]
    <3>1. CASE V = {}
      BY <1>3, <2>1, <3>1
    <3>2. CASE V # {}
      <4>1. PICK v \in V : v \in Decision
        BY <1>4, <3>2
      <4>2. <<v>> \in Seq(Decision)
        BY <4>1
      <4> QED
        BY <1>3, <2>1, <4>1, <4>2
    <3> QED
      BY <3>1, <3>2
  <2>3. /\ answers' \in [Node -> Nat]
        /\ left' \in [Node -> Decision \cup {NONE}]
        /\ right' \in [Node -> Decision \cup {NONE}]
    <3> HIDE DEF GraphIInv
    <3> QED
      BY <1>1, <2>1
  <2> QED
    BY <1>1, <1>2, <2>2, <2>3, SameGraph DEF GraphTypeOK, CallSet
<1>8. CallsOK'
  <2>1. \A i, j : Asks(i, j)' => j \in Node /\ RequestorOf(i, j)
    BY <1>5, <1>6 DEF CallsOK
  <2>2. \A i, j : Declines(i, j)' => ChildOf(j, i)
    BY <1>5, <1>6 DEF CallsOK
  <2>3. ASSUME NEW i, NEW j, NEW v \in Decision, Tells(i, j, v)'
        PROVE  i \in Node /\ sent'[i] = <<v>> /\ RequestorOf(j, i)
    <3>1. CASE Tells(i, j, v)
      <4>1. i \in Node /\ sent[i] = <<v>> /\ RequestorOf(j, i)
        BY <3>1 DEF CallsOK
      <4>2. sent[i] # << >>
        BY <4>1
      <4> QED
        BY <1>4, <4>1, <4>2
    <3>2. CASE ~Tells(i, j, v)
      <4>1. v \in V /\ i = n /\ RequestorOf(j, n)
        BY <1>6, <2>3, <3>2
      <4> QED
        BY <1>4, <4>1
    <3> QED
      BY <3>1, <3>2
  <2> QED
    BY <1>1, <2>1, <2>2, <2>3, SameGraph DEF CallsOK
<1>9. SentOnce' /\ LeavesOK' /\ Idle'
  <2>1. SentOnce'
    <3> SUFFICES ASSUME NEW x \in Node, sent'[x] # << >>
                 PROVE  status'[x] = "COMPLETED" /\ \E v \in Decision : sent'[x] = <<v>>
      BY <1>1, SameGraph DEF SentOnce
    <3>1. CASE x = n /\ V # {}
      BY <1>4, <3>1
    <3>2. CASE x # n \/ V = {}
      BY <1>4, <3>2 DEF SentOnce
    <3> QED
      BY <3>1, <3>2
  <2>2. LeavesOK'
    <3>1. n \notin pending
      BY <1>1 DEF GraphTypeOK
    <3>2. \A x \in pending : status'[x] = "SHOULD_RUN"
      BY <1>4, <3>1 DEF LeavesOK, GraphTypeOK
    <3>3. \A x \in Node : IsLeaf(x) /\ sent'[x] # << >> => sent'[x] = <<verdict[x]>>
      BY <1>1, <1>4 DEF LeavesOK
    <3> QED
      BY <1>1, <3>2, <3>3, SameGraph DEF LeavesOK
  <2> QED
    BY <1>1, <2>1, <2>2 DEF Idle
<1>10. TopsReached'
  <2>1. \A f \in Node : Reached(f) => Reached(f)'
    <3>1. \A f \in Node : sent[f] # << >> => sent'[f] = sent[f]
      BY <1>4
    <3> QED
      BY <1>1, <3>1 DEF Reached
  <2>2. graph.tops' = graph.tops /\ FirstLeaf' = FirstLeaf
    BY <1>1, SameGraph
  <2>3. \A i \in 1 .. Len(graph.tops) : FirstLeaf[graph.tops[i]] \in Node
    BY <1>1, Numbered, FirstLeafIsLeaf, ElementOfSeq
  <2> QED
    BY <1>1, <2>1, <2>2, <2>3 DEF TopsReached, Reached
<1>11. ASSUME NEW x \in Node, ~IsLeaf(x), Left(x) # Right(x), NEW i \in Node, NEW a,
              i \in {Left(x), Right(x)}, Heard(x, i, a)
       PROVE  /\ a # NONE => sent'[i] = <<a>>
              /\ \A e \in Decision : In(Call(i, x, e), calls') =>
                   a = NONE /\ ~Twice(Call(i, x, e), calls')
  <2>1. a # NONE => sent[i] # << >>
    <3>1. a # NONE => sent[i] = <<a>>
      BY <1>11 DEF Heard
    <3>2. <<a>> # << >>
      OBVIOUS
    <3> QED
      BY <3>1, <3>2, Zenon
  <2>2. a # NONE => sent'[i] = <<a>>
    BY <1>4, <1>11, <2>1 DEF Heard
  <2>3. Binary(x)
    BY <1>11 DEF Binary
  <2>4. ASSUME NEW e \in Decision, In(Call(i, x, e), calls')
        PROVE  a = NONE /\ ~Twice(Call(i, x, e), calls')
    <3>1. CASE Tells(i, x, e)
      <4>1. a = NONE /\ ~Twice(Call(i, x, e), calls) /\ sent[i] = <<e>> /\ sent[i] # << >>
        <5>1. a = NONE /\ ~Twice(Call(i, x, e), calls)
          BY <1>11, <3>1 DEF Heard
        <5>2. sent[i] = <<e>>
          BY <3>1 DEF CallsOK
        <5> QED
          BY <5>1, <5>2
      <4>2. ~In(Call(i, x, e), p)
        <5>1. i = n => V = {}
          BY <1>4, <4>1
        <5>2. e # "REQUEST_DECISION" /\ e # "NO_REQUEST_COMING"
          BY DEF Decision
        <5>3. ~\E v \in V : \E r : RequestorOf(r, n) /\ Call(i, x, e) = Call(n, r, v)
          BY <5>1, CallFields
        <5>4. /\ Call(i, x, e) # Call(n, Right(n), "REQUEST_DECISION")
              /\ Call(i, x, e) # Call(n, Right(n), "NO_REQUEST_COMING")
          BY <5>2, CallFields
        <5> QED
          BY <1>3, <5>3, <5>4
      <4> QED
        BY <1>2, <4>1, <4>2
    <3>2. CASE ~Tells(i, x, e)
      <4>1. ~In(Call(i, x, e), calls)
        BY <3>2 DEF Tells
      <4>2. e \in V /\ i = n
        BY <1>6, <2>4, <3>2, LinesPrimed
      <4>3. sent[i] = << >>
        BY <1>4, <4>2
      <4>4. ~Twice(Call(i, x, e), p)
        BY <1>3, <1>11, <2>3, <4>2
      <4> QED
        BY <1>2, <2>1, <4>1, <4>3, <4>4
    <3> QED
      BY <3>1, <3>2
  <2> QED
    BY <2>2, <2>4
<1>12. HeardOK'
  <2> SUFFICES ASSUME round = 1, NEW x \in Node, ~IsLeaf(x), Left(x) # Right(x)
               PROVE  /\ Heard(x, Left(x), left[x])'
                      /\ Heard(x, Right(x), right[x])'
                      /\ answers'[x] = (IF left'[x] = NONE THEN 0 ELSE 1)
                                         + (IF right'[x] = NONE THEN 0 ELSE 1)
                      /\ sent'[x] # << >> => Cause(x)'
    BY <1>1, SameGraph DEF HeardOK
  <2>1. /\ Heard(x, Left(x), left[x])
        /\ Heard(x, Right(x), right[x])
        /\ answers[x] = (IF left[x] = NONE THEN 0 ELSE 1) + (IF right[x] = NONE THEN 0 ELSE 1)
        /\ sent[x] # << >> => Cause(x)
    BY DEF HeardOK
  <2>2. Left(x) \in Node /\ Right(x) \in Node
    BY <1>1, Numbered DEF Binary
  <2>3. Left(x)' = Left(x) /\ Right(x)' = Right(x) /\ Unanimous(x)' = Unanimous(x)
    BY <1>1, SameGraph
  <2>4. /\ left[x] # NONE => sent'[Left(x)] = <<left[x]>>
        /\ \A e \in Decision : In(Call(Left(x), x, e), calls') =>
             left[x] = NONE /\ ~Twice(Call(Left(x), x, e), calls')
    BY <1>11, <2>1, <2>2
  <2>5. /\ right[x] # NONE => sent'[Right(x)] = <<right[x]>>
        /\ \A e \in Decision : In(Call(Right(x), x, e), calls') =>
             right[x] = NONE /\ ~Twice(Call(Right(x), x, e), calls')
    BY <1>11, <2>1, <2>2
  <2>6. d # NONE
    BY DEF Decision, NONE
  <2>7. ASSUME x = n
        PROVE  \A e \in Decision : ~In(Call(m, x, e), calls')
    <3> SUFFICES ASSUME NEW e \in Decision, In(Call(m, x, e), calls') PROVE FALSE
      OBVIOUS
    <3>1. Tells(m, n, e)
      BY <1>1, <1>6, <2>7, LinesPrimed
    <3>2. sent[m] = <<e>>
      BY <3>1 DEF CallsOK
    <3>3. e = d
      BY <1>1, <3>2
    <3>4. ~Twice(Call(m, n, d), calls)
      BY <1>1, <2>1, <2>7 DEF Heard
    <3>5. ~In(Call(m, n, d), p)
      <4>1. d # "REQUEST_DECISION" /\ d # "NO_REQUEST_COMING"
        BY DEF Decision
      <4> QED
        <5>1. /\ Call(m, n, d) # Call(n, Right(n), "REQUEST_DECISION")
              /\ Call(m, n, d) # Call(n, Right(n), "NO_REQUEST_COMING")
              /\ \A r, v : Call(m, n, d) # Call(n, r, v)
          BY <1>1, <4>1, CallFields
        <5> QED
          BY <1>3, <5>1
    <3> QED
      BY <1>1, <1>2, <2>7, <3>3, <3>4, <3>5
  <2>8. x # n => left'[x] = left[x] /\ right'[x] = right[x] /\ answers'[x] = answers[x]
    BY <1>1 DEF GraphTypeOK
  <2>9. x = n => /\ answers'[x] = answers[x] + 1
                 /\ m = Left(x) => left[x] = NONE /\ left'[x] = d /\ right'[x] = right[x]
                 /\ m # Left(x) => /\ m = Right(x) /\ right[x] = NONE
                                   /\ right'[x] = d /\ left'[x] = left[x]
    BY <1>1, <2>1 DEF GraphTypeOK, Heard
  <2>10. m \in Node /\ sent'[m] = <<d>>
    BY <1>1, <1>4
  <2>11. /\ left'[x] # NONE => sent'[Left(x)] = <<left'[x]>>
         /\ \A e \in Decision : In(Call(Left(x), x, e), calls') =>
              left'[x] = NONE /\ ~Twice(Call(Left(x), x, e), calls')
    BY <2>4, <2>7, <2>8, <2>9, <2>10
  <2>12. /\ right'[x] # NONE => sent'[Right(x)] = <<right'[x]>>
         /\ \A e \in Decision : In(Call(Right(x), x, e), calls') =>
              right'[x] = NONE /\ ~Twice(Call(Right(x), x, e), calls')
    BY <2>5, <2>7, <2>8, <2>9, <2>10
  <2>13. Heard(x, Left(x), left[x])'
    BY <2>3, <2>11, LinesPrimed DEF Heard, Tells
  <2>14. Heard(x, Right(x), right[x])'
    BY <2>3, <2>12, LinesPrimed DEF Heard, Tells
  <2>15. answers'[x] = (IF left'[x] = NONE THEN 0 ELSE 1) + (IF right'[x] = NONE THEN 0 ELSE 1)
    <3>1. CASE x # n
      BY <2>1, <2>8, <3>1
    <3>2. CASE x = n /\ m = Left(x)
      BY <2>1, <2>6, <2>9, <3>2
    <3>3. CASE x = n /\ m # Left(x)
      BY <2>1, <2>6, <2>9, <3>3
    <3> QED
      BY <3>1, <3>2, <3>3
  <2>16. sent'[x] # << >> => Cause(x)'
    <3> SUFFICES ASSUME sent'[x] # << >>
                 PROVE  \/ /\ left'[x] = Unanimous(x) /\ right'[x] = Unanimous(x)
                           /\ sent'[x] = <<Unanimous(x)>>
                        \/ left'[x] \notin {NONE, Unanimous(x)} /\ sent'[x] = <<left'[x]>>
                        \/ right'[x] \notin {NONE, Unanimous(x)} /\ sent'[x] = <<right'[x]>>
      BY <2>3 DEF Cause
    <3>1. CASE x # n
      BY <1>4, <2>1, <2>8, <3>1 DEF Cause
    <3>2. CASE x = n /\ V = {}
      <4>1. Unanimous(x) # NONE
        BY DEF Unanimous, NONE
      <4> QED
        BY <1>4, <2>1, <2>9, <3>2, <4>1 DEF Cause
    <3>3. CASE x = n /\ V # {}
      <4>1. PICK v \in V : v \in Decision
        BY <1>4, <3>3
      <4>2. sent'[x] = <<v>>
        BY <1>4, <3>3, <4>1
      <4>3. CASE v = d /\ d # Unanimous(n)
        BY <2>6, <2>9, <3>3, <4>2, <4>3
      <4>4. CASE answers[n] + 1 = 2 /\ v = FullDecision(n, left'[n], right'[n])
        <5>1. left'[x] # NONE /\ right'[x] # NONE
          <6>1. answers'[x] = 2
            BY <2>9, <3>3, <4>4
          <6> QED
            BY <2>15, <6>1
        <5>2. left'[x] \in Decision /\ right'[x] \in Decision
          BY <1>1, <1>7, <5>1, SameGraph DEF GraphTypeOK
        <5>3. /\ \/ left'[x] = Unanimous(n) /\ right'[x] = Unanimous(n) /\ v = Unanimous(n)
                 \/ left'[x] # Unanimous(n) /\ v = left'[x]
                 \/ right'[x] # Unanimous(n) /\ v = right'[x]
          BY <1>1, <3>3, <4>4, <5>2, Settling
        <5> QED
          BY <3>3, <4>2, <5>1, <5>3
      <4> QED
        BY <1>3, <4>1, <4>3, <4>4
    <3> QED
      BY <3>1, <3>2, <3>3
  <2> QED
    BY <2>13, <2>14, <2>15, <2>16
<1> QED
  BY <1>7, <1>8, <1>9, <1>10, <1>12 DEF OpeningOK
----------------------------------------------------------------------------
(* The theorems for all graphs                                             *)

LEMMA GraphInitially ==
  ASSUME Init
  PROVE  GraphIInv
<1>1. graph \in Graphs /\ calls = << >> /\ pending = {} /\ ~started /\ round = 1
  BY DEF Init
<1>2. GraphTypeOK
  <2>1. << >> \in Seq(CallSet) /\ << >> \in Seq(Decision)
    OBVIOUS
  <2>2. sent \in [Node -> Seq(Decision)]
    BY <2>1 DEF Init
  <2>3. status \in [Node -> {"NOT_STARTED", "IN_PROGRESS", "COMPLETED",
                            "WILL_NOT_RUN", "SHOULD_RUN"}]
    BY DEF Init
  <2>4. /\ notRun \in [Node -> Nat] /\ answers \in [Node -> Nat]
        /\ left \in [Node -> Decision \cup {NONE}] /\ right \in [Node -> Decision \cup {NONE}]
    BY DEF Init
  <2>5. verdict \in [{n \in Node : IsLeaf(n)} -> Decision]
    BY DEF Init
  <2>6. /\ calls \in Seq(CallSet) /\ pending \subseteq {n \in Node : IsLeaf(n)}
        /\ finished \in Nat /\ round \in Nat \ {0} /\ started \in BOOLEAN
    <3>1. calls = << >> /\ pending = {} /\ started = FALSE
      BY DEF Init
    <3>2. finished \in Nat /\ round \in Nat \ {0}
      BY DEF Init
    <3>3. calls \in Seq(CallSet) /\ pending \subseteq {n \in Node : IsLeaf(n)}
      BY <2>1, <3>1
    <3> QED
      BY <3>1, <3>2, <3>3
  <2> QED
    BY <1>1, <2>2, <2>3, <2>4, <2>5, <2>6 DEF GraphTypeOK
<1>3. \A m, n, w : ~In(Call(m, n, w), calls)
  BY <1>1, ShortLines
<1>4. CallsOK
  BY <1>3 DEF CallsOK, Asks, Declines, Tells
<1>5. SentOnce /\ LeavesOK /\ Idle /\ OpeningOK
  BY <1>1 DEF SentOnce, LeavesOK, Idle, OpeningOK, Init
<1>6. HeardOK
  <2> SUFFICES ASSUME NEW n \in Node, ~IsLeaf(n)
               PROVE  /\ Heard(n, Left(n), left[n])
                      /\ Heard(n, Right(n), right[n])
                      /\ answers[n] = (IF left[n] = NONE THEN 0 ELSE 1)
                                        + (IF right[n] = NONE THEN 0 ELSE 1)
                      /\ sent[n] # << >> => Cause(n)
    BY DEF HeardOK
  <2>1. left[n] = NONE /\ right[n] = NONE /\ answers[n] = 0 /\ sent[n] = << >>
    BY DEF Init
  <2>2. Heard(n, Left(n), left[n]) /\ Heard(n, Right(n), right[n])
    BY <1>3, <2>1 DEF Heard, Tells
  <2> QED
    BY <2>1, <2>2
<1> QED
  BY <1>2, <1>4, <1>5, <1>6 DEF GraphIInv

LEMMA GraphStep ==
  ASSUME GraphIInv, [Next]_vars
  PROVE  GraphIInv'
<1>1. CASE Next
  BY <1>1, StartAsyncKeeps, LeafFinishedKeeps, RequestDecisionKeeps, RefuseKeeps,
     RequestIgnoredKeeps, LeafRunsKeeps, DecisionFromNodeKeeps, ResetKeeps
     DEF Next, Handler
<1>2. CASE UNCHANGED vars
  <2>1. UNCHANGED <<graph, verdict, status, notRun, answers, left, right, pending, calls,
                    finished, started, round, sent>>
    BY <1>2 DEF vars
  <2>2. /\ GraphTypeOK' /\ SentOnce' /\ LeavesOK' /\ Idle'
        /\ TopsReached => TopsReached'
    BY <2>1, SameGraph DEF GraphIInv, GraphTypeOK, CallSet, SentOnce, LeavesOK, Idle,
                           TopsReached, Reached
  <2>3. \A m, n, d : /\ Asks(m, n)' <=> Asks(m, n)
                     /\ Declines(m, n)' <=> Declines(m, n)
                     /\ Tells(m, n, d)' <=> Tells(m, n, d)
    BY <2>1, LinesPrimed DEF Asks, Declines, Tells
  <2>4. CallsOK'
    BY <2>1, <2>3, SameGraph DEF GraphIInv, CallsOK
  <2>5. ASSUME Opening PROVE Opening'
    <3>1. \A x : Begun(x) => Begun(x)'
      BY <2>1, <2>3 DEF Begun
    <3>2. \A x : Begun(Left(x)) => Begun(Left(x))'
      BY <2>1, <3>1, SameGraph DEF Begun
    <3>3. \A i \in 1 .. Len(graph.tops) : Begun(graph.tops[i])'
      BY <2>1, <2>5, <3>1, SameGraph DEF Opening, Begun
    <3>4. /\ \A n \in Node' : sent'[n] = << >> /\ notRun'[n] = 0
          /\ \A m, n : ~Declines(m, n)' /\ \A d \in Decision : ~Tells(m, n, d)'
      BY <2>1, <2>3, <2>5, SameGraph DEF Opening
    <3>5. \A n \in Node : HasRequestor(n) /\ status'[n] # "NOT_STARTED" =>
            IF IsLeaf(n) THEN n \in pending' ELSE Begun(Left(n))'
      BY <2>1, <2>5, <3>2 DEF Opening
    <3> QED
      BY <2>1, <3>3, <3>4, <3>5, SameGraph DEF Opening
  <2>6. HeardOK'
    BY <2>1, HeardKept DEF GraphIInv
  <2> QED
    BY <2>1, <2>2, <2>4, <2>5, <2>6 DEF GraphIInv, OpeningOK
<1> QED
  BY <1>1, <1>2

(* For every graph, shared nodes and equal operands included, the          *)
(* invariant holds in every transition.                                    *)
THEOREM GraphInvariance == Spec => []GraphIInv
<1>1. Init => GraphIInv
  BY GraphInitially
<1>2. GraphIInv /\ [Next]_vars => GraphIInv'
  BY GraphStep
<1> QED
  BY <1>1, <1>2, PTL DEF Spec

(* Type correctness: the calls in progress go where the code can send      *)
(* them, and no leaf or start is asked what only a node answers.           *)
THEOREM GraphTypes == Spec => []TypeOK
<1>1. GraphIInv => TypeOK
  <2> SUFFICES ASSUME GraphIInv PROVE TypeOK
    OBVIOUS
  <2> USE DEF GraphIInv
  <2>1. graph \in Graphs /\ calls \in Seq(CallSet)
    BY DEF GraphTypeOK
  <2>2. ASSUME NEW i \in 1 .. Len(calls)
        PROVE  /\ calls[i].from \in Node \cup {Start}
               /\ calls[i].to \in Node \cup {Start}
               /\ calls[i].to = Start => calls[i].what \in Decision
               /\ calls[i].to \in Node /\ IsLeaf(calls[i].to)
                    => calls[i].what \in {"REQUEST_DECISION", "NO_REQUEST_COMING"}
    <3> DEFINE c == calls[i]
    <3>1. c \in CallSet /\ In(c, calls)
      BY <2>1, ElementOfSeq DEF In
    <3> HIDE DEF c
    <3>2. /\ c = Call(c.from, c.to, c.what)
          /\ c.from \in Node \cup {Start} /\ c.to \in Node \cup {Start}
          /\ c.what \in Decision \cup {"REQUEST_DECISION", "NO_REQUEST_COMING"}
      BY <3>1, CallFields DEF CallSet
    <3>3. c.what = "REQUEST_DECISION" => c.to \in Node
      BY <3>1, <3>2 DEF CallsOK, Asks
    <3>4. c.what = "NO_REQUEST_COMING" => c.to \in Node
      BY <2>1, <3>1, <3>2, Numbered DEF CallsOK, Declines, ChildOf
    <3>5. c.what \in Decision => RequestorOf(c.to, c.from)
      BY <3>1, <3>2 DEF CallsOK, Tells
    <3>6. ~IsLeaf(c.to) \/ c.to = Start \/ c.what \notin Decision
      BY <3>5 DEF RequestorOf, ChildOf, Binary
    <3>7. Start \notin Node
      BY <2>1, Numbered
    <3> QED
      BY <3>2, <3>3, <3>4, <3>6, <3>7 DEF c
  <2> QED
    BY <2>2 DEF TypeOK, GraphTypeOK
<1> QED
  BY <1>1, GraphInvariance, PTL

(* DecisionHasCause: with shared nodes too, in whatever order the answers  *)
(* come, a binary node decides Unanimous only when both of its operands    *)
(* did, and something else only if one of its operands decided the same.   *)
THEOREM DecisionsHaveCauses == Spec => []DecisionHasCause
<1>1. GraphIInv => DecisionHasCause
  <2> SUFFICES ASSUME GraphIInv, NEW n \in Node, ~IsLeaf(n), Left(n) # Right(n), round = 1,
                      sent[n] # << >>
               PROVE  IF sent[n] = <<Unanimous(n)>>
                      THEN sent[Left(n)] = sent[n] /\ sent[Right(n)] = sent[n]
                      ELSE SaidBy(n, sent[n][1])
    BY DEF DecisionHasCause
  <2>1. /\ left[n] # NONE => sent[Left(n)] = <<left[n]>>
        /\ right[n] # NONE => sent[Right(n)] = <<right[n]>>
        /\ Cause(n)
    BY DEF GraphIInv, HeardOK, Heard
  <2>2. Unanimous(n) # NONE
    BY DEF Unanimous, NONE
  <2>3. \A a, b : <<a>> = <<b>> => a = b
    OBVIOUS
  <2>4. CASE left[n] = Unanimous(n) /\ right[n] = Unanimous(n) /\ sent[n] = <<Unanimous(n)>>
    BY <2>1, <2>2, <2>4
  <2>5. CASE left[n] \notin {NONE, Unanimous(n)} /\ sent[n] = <<left[n]>>
    BY <2>1, <2>3, <2>5 DEF SaidBy
  <2>6. CASE right[n] \notin {NONE, Unanimous(n)} /\ sent[n] = <<right[n]>>
    BY <2>1, <2>3, <2>6 DEF SaidBy
  <2> QED
    BY <2>1, <2>4, <2>5, <2>6 DEF Cause
<1> QED
  BY <1>1, GraphInvariance, PTL

(* StartsAnew: in every transition a node answers at most once, and when   *)
(* all is done the first leaf of each tree has decided: the nodes are      *)
(* reset so that they can be asked again.                                  *)
THEOREM GraphsStartAnew == Spec => []StartsAnew
<1>1. GraphIInv => StartsAnew
  <2> SUFFICES ASSUME GraphIInv PROVE StartsAnew
    OBVIOUS
  <2> USE DEF GraphIInv
  <2>1. graph \in Graphs
    BY DEF GraphTypeOK
  <2>2. \A n \in Node : Len(sent[n]) <= 1
    <3> SUFFICES ASSUME NEW n \in Node PROVE Len(sent[n]) <= 1
      OBVIOUS
    <3>1. CASE sent[n] = << >>
      BY <3>1
    <3>2. CASE sent[n] # << >>
      <4>1. PICK d \in Decision : sent[n] = <<d>>
        BY <3>2 DEF SentOnce
      <4> QED
        BY <4>1
    <3> QED
      BY <3>1, <3>2
  <2>3. ASSUME Quiet, NEW i \in 1 .. Len(graph.tops), NEW n, n = FirstLeaf[graph.tops[i]]
        PROVE  sent[n] = <<verdict[n]>>
    <3>1. TopsReached
      BY <2>3, OpeningEnds DEF Quiet
    <3>2. n \in Node /\ IsLeaf(n)
      BY <2>1, <2>3, Numbered, FirstLeafIsLeaf, ElementOfSeq
    <3>3. sent[n] # << >>
      BY <2>3, <3>1 DEF TopsReached, Reached, Quiet
    <3> QED
      BY <3>2, <3>3 DEF LeavesOK
  <2> QED
    BY <2>2, <2>3 DEF StartsAnew
<1> QED
  BY <1>1, GraphInvariance, PTL
----------------------------------------------------------------------------
(* Who asks, who declines and who answers in the first transition          *)

Asked(n) == status[n] # "NOT_STARTED" /\ notRun[n] < Len(Requestors(n))
Refused(n) == status[n] # "NOT_STARTED" /\ notRun[n] = Len(Requestors(n))

(* When the requestor r asks n, and when it tells n that it will not ask. *)
AskDue(r, n) ==
  IF r = Start THEN started
  ELSE Asked(r) /\ (n = Left(r) \/ left[r] = Unanimous(r))
DeclineDue(r, n) ==
  r # Start /\ (Refused(r) \/ (n = Right(r) /\ left[r] \notin {NONE, Unanimous(r)}))

(* The requestors that have told n that they will not ask. *)
Decliners(n) ==
  {i \in 1 .. Len(Requestors(n)) : /\ DeclineDue(Requestors(n)[i], n)
                                   /\ ~Declines(Requestors(n)[i], n)}

(* The counter of refusals, and what the status of a node says. *)
StatusOK ==
  \A n \in Node :
    /\ notRun[n] <= Len(Requestors(n))
    /\ notRun[n] = Len(Requestors(n)) /\ HasRequestor(n) => status[n] # "NOT_STARTED"
    /\ sent[n] # << >> => Asked(n)
    /\ status[n] = "COMPLETED" => sent[n] # << >>
    /\ IsLeaf(n) => /\ status[n] \in {"NOT_STARTED", "SHOULD_RUN", "COMPLETED", "WILL_NOT_RUN"}
                    /\ status[n] = "SHOULD_RUN" => n \in pending
                    /\ status[n] = "WILL_NOT_RUN" <=> Refused(n)
    /\ ~IsLeaf(n) => status[n] \in {"NOT_STARTED", "IN_PROGRESS", "COMPLETED"}

(* What is due is on its way or has arrived. *)
AsksOK ==
  /\ \A n \in Node : \A r : RequestorOf(r, n) /\ AskDue(r, n) => Asks(r, n) \/ Asked(n)
  /\ \A r, n : Asks(r, n) => AskDue(r, n)
  /\ \A n \in Node : Asked(n) => \E r : RequestorOf(r, n) /\ AskDue(r, n)
DeclinesOK ==
  /\ \A r, n : Declines(r, n) =>
       DeclineDue(r, n) /\ ~Twice(Call(r, n, "NO_REQUEST_COMING"), calls)
  /\ \A n \in Node : ~Asked(n) => notRun[n] = Cardinality(Decliners(n))

(* All tops were asked before anybody decides. *)
TopsFirst == \A n, t \in Node : sent[n] # << >> /\ IsTop(t) => Asked(t)

(* What a node has heard, and that it decides when that settles it. *)
Recorded(m, n) == IF m = Left(n) THEN left[n] ELSE right[n]
AnswersOK ==
  /\ \A n \in Node : ~IsLeaf(n) /\ (left[n] # NONE \/ right[n] # NONE) => Asked(n)
  /\ \A n \in Node : ~IsLeaf(n) /\ sent[n] = << >> =>
       /\ left[n] \in {NONE, Unanimous(n)} /\ right[n] \in {NONE, Unanimous(n)}
       /\ left[n] = NONE \/ right[n] = NONE
  /\ \A m \in Node : \A n : \A d \in Decision :
       ChildOf(m, n) /\ sent[m] = <<d>> => Tells(m, n, d) \/ Recorded(m, n) = d

(* In a tree the start counts the answers of its nodes. *)
Tree == \A n \in Node : Len(Requestors(n)) = 1
FinishedOK ==
  Tree =>
    /\ finished = Cardinality({i \in 1 .. Len(graph.tops) :
                                 /\ sent[graph.tops[i]] # << >>
                                 /\ \A d \in Decision : ~Tells(graph.tops[i], Start, d)})
    /\ \A n, d : Tells(n, Start, d) => ~Twice(Call(n, Start, d), calls)

AskingInv == StatusOK /\ AsksOK /\ DeclinesOK /\ TopsFirst /\ AnswersOK /\ FinishedOK
AskingIInv == round = 1 /\ SharesBelowTops => AskingInv

(* A step that keeps the graph keeps the requestors of its nodes. *)
LEMMA SameRequestors ==
  ASSUME graph' = graph
  PROVE  /\ \A n : Requestors(n)' = Requestors(n)
         /\ SharesBelowTops' <=> SharesBelowTops
         /\ Tree' <=> Tree
<1>1. \A n : Requestors(n)' = Requestors(n)
  BY DEF Requestors, OperandsThatAre, Operand, IsLeaf, Left, Right
<1>2. SharesBelowTops' <=> SharesBelowTops
  BY <1>1, SameGraph DEF SharesBelowTops
<1>3. Tree' <=> Tree
  BY <1>1, SameGraph DEF Tree
<1> QED
  BY <1>1, <1>2, <1>3

LEMMA RequestorIndex ==
  ASSUME graph \in Graphs, NEW n \in Node
  PROVE  /\ Len(Requestors(n)) \in Nat
         /\ \A i \in 1 .. Len(Requestors(n)) : RequestorOf(Requestors(n)[i], n)
         /\ \A r : RequestorOf(r, n) => \E i \in 1 .. Len(Requestors(n)) : Requestors(n)[i] = r
         /\ \A r : RequestorOf(r, n) => r \in Node \cup {Start}
         /\ HasRequestor(n) <=> Len(Requestors(n)) # 0
<1>1. Len(Requestors(n)) \in Nat
  BY Requesting, LenProperties
<1>2. \A i \in 1 .. Len(Requestors(n)) : RequestorOf(Requestors(n)[i], n)
  BY Requesting DEF RequestorOf
<1>3. \A r : RequestorOf(r, n) => \E i \in 1 .. Len(Requestors(n)) : Requestors(n)[i] = r
  BY Requesting DEF RequestorOf
<1>4. \A r : RequestorOf(r, n) => r \in Node \cup {Start}
  BY DEF RequestorOf, ChildOf, Binary
<1>5. HasRequestor(n) <=> Len(Requestors(n)) # 0
  <2>1. HasRequestor(n) => Len(Requestors(n)) # 0
    BY <1>3 DEF HasRequestor
  <2>2. Len(Requestors(n)) # 0 => 1 \in 1 .. Len(Requestors(n))
    BY <1>1
  <2>3. Len(Requestors(n)) # 0 => HasRequestor(n)
    BY <1>2, <1>4, <2>2 DEF HasRequestor
  <2> QED
    BY <2>1, <2>3
<1> QED
  BY <1>1, <1>2, <1>3, <1>4, <1>5

(* A shared node has requestors on top; another node has one requestor.    *)
LEMMA Sharing ==
  ASSUME graph \in Graphs, SharesBelowTops, NEW n, NEW p, ChildOf(n, p)
  PROVE  /\ Left(p) # Right(p) /\ p # Start /\ p \in Node /\ n \in Node /\ n # p
         /\ RequestorOf(p, n)
         /\ IsTop(p) \/ \A r : RequestorOf(r, n) => r = p
<1>1. p \in Node /\ ~IsLeaf(p) /\ n \in {Left(p), Right(p)} /\ n \in Node /\ n < p
  BY Numbered DEF ChildOf, Binary
<1>2. p \in Nat /\ n \in Nat /\ p # Start
  BY <1>1, Numbered
<1>3. Left(p) # Right(p) /\ (Len(Requestors(n)) = 1 \/ IsTop(p))
  BY <1>1 DEF SharesBelowTops
<1>4. RequestorOf(p, n)
  BY DEF RequestorOf
<1>5. ASSUME Len(Requestors(n)) = 1 PROVE \A r : RequestorOf(r, n) => r = p
  <2>1. ~IsTop(n) /\ \A q : ChildOf(n, q) => q = p
    BY <1>1, <1>5, Requesting
  <2> QED
    BY <2>1 DEF RequestorOf
<1> QED
  BY <1>1, <1>2, <1>3, <1>4, <1>5

LEMMA DeclinersCount ==
  ASSUME graph \in Graphs, NEW n \in Node
  PROVE  /\ IsFiniteSet(Decliners(n)) /\ Cardinality(Decliners(n)) \in Nat
         /\ Cardinality(Decliners(n)) <= Len(Requestors(n))
         /\ Cardinality(Decliners(n)) = Len(Requestors(n)) =>
              \A r : RequestorOf(r, n) => DeclineDue(r, n) /\ ~Declines(r, n)
<1> DEFINE I == 1 .. Len(Requestors(n))
<1>1. Len(Requestors(n)) \in Nat
  BY RequestorIndex
<1>2. IsFiniteSet(I) /\ Cardinality(I) = Len(Requestors(n))
  <2>1. 1 \in Int /\ Len(Requestors(n)) \in Int
    BY <1>1
  <2>2. /\ IsFiniteSet(I)
        /\ Cardinality(I) = IF 1 > Len(Requestors(n)) THEN 0 ELSE Len(Requestors(n)) - 1 + 1
    BY ONLY <2>1, FS_Interval
  <2> QED
    BY ONLY <1>1, <2>2
<1>3. Decliners(n) \subseteq I
  BY DEF Decliners
<1>4. /\ IsFiniteSet(Decliners(n)) /\ Cardinality(Decliners(n)) <= Cardinality(I)
      /\ Cardinality(Decliners(n)) = Cardinality(I) => Decliners(n) = I
  BY <1>2, <1>3, FS_Subset
<1>5. Cardinality(Decliners(n)) \in Nat
  BY <1>4, FS_CardinalityType
<1>6. ASSUME Decliners(n) = I, NEW r, RequestorOf(r, n)
      PROVE  DeclineDue(r, n) /\ ~Declines(r, n)
  <2>1. PICK i \in I : Requestors(n)[i] = r
    BY <1>6, RequestorIndex
  <2>2. i \in Decliners(n)
    BY <1>6, <2>1
  <2> QED
    BY <2>1, <2>2 DEF Decliners
<1> QED
  BY <1>2, <1>4, <1>5, <1>6

(* No requestor asks and declines. *)
LEMMA Exclusive ==
  ASSUME graph \in Graphs, SharesBelowTops, NEW n \in Node, NEW r, RequestorOf(r, n),
         AskDue(r, n), DeclineDue(r, n)
  PROVE  FALSE
<1>1. r # Start /\ ChildOf(n, r)
  BY DEF DeclineDue, RequestorOf
<1>2. Left(r) # Right(r) /\ r \in Node
  BY <1>1, Sharing
<1>3. Asked(r) /\ (n = Left(r) \/ left[r] = Unanimous(r))
  BY <1>1 DEF AskDue
<1>4. Len(Requestors(r)) \in Nat
  BY <1>2, RequestorIndex
<1>5. ~Refused(r)
  BY <1>3, <1>4 DEF Asked, Refused
<1> QED
  BY <1>2, <1>3, <1>5 DEF DeclineDue

(* Who is asked by anybody has not been refused by everybody. *)
LEMMA NotAllDeclined ==
  ASSUME graph \in Graphs, GraphTypeOK, SharesBelowTops, StatusOK, DeclinesOK,
         NEW n \in Node, NEW r, RequestorOf(r, n), AskDue(r, n) \/ Declines(r, n)
  PROVE  notRun[n] < Len(Requestors(n))
<1>1. /\ Len(Requestors(n)) \in Nat /\ notRun[n] \in Nat /\ notRun[n] <= Len(Requestors(n))
  BY RequestorIndex DEF GraphTypeOK, StatusOK
<1>2. CASE Asked(n)
  BY <1>2 DEF Asked
<1>3. CASE ~Asked(n)
  <2> SUFFICES ASSUME notRun[n] = Len(Requestors(n)) PROVE FALSE
    BY <1>1
  <2>1. Cardinality(Decliners(n)) = Len(Requestors(n))
    BY <1>3 DEF DeclinesOK
  <2>2. DeclineDue(r, n) /\ ~Declines(r, n)
    BY <2>1, DeclinersCount
  <2> QED
    BY <2>2, Exclusive
<1> QED
  BY <1>2, <1>3

(* What the asking, the declining and the counting depend on. *)
LEMMA DuesPrimed ==
  ASSUME graph \in Graphs, graph' = graph
  PROVE  /\ \A n : Asked(n)' <=> status'[n] # "NOT_STARTED" /\ notRun'[n] < Len(Requestors(n))
         /\ \A n : Refused(n)' <=> status'[n] # "NOT_STARTED" /\ notRun'[n] = Len(Requestors(n))
         /\ \A r, n : AskDue(r, n)' <=>
              IF r = Start THEN started'
              ELSE Asked(r)' /\ (n = Left(r) \/ left'[r] = Unanimous(r))
         /\ \A r, n : DeclineDue(r, n)' <=>
              r # Start /\ (Refused(r)' \/ (n = Right(r) /\ left'[r] \notin {NONE, Unanimous(r)}))
         /\ \A n \in Node : \A i : i \in Decliners(n)' <=>
              /\ i \in 1 .. Len(Requestors(n))
              /\ \E r : r = Requestors(n)[i] /\ DeclineDue(r, n)' /\ ~Declines(r, n)'
<1>1. /\ \A n : Asked(n)' <=> status'[n] # "NOT_STARTED" /\ notRun'[n] < Len(Requestors(n))
      /\ \A n : Refused(n)' <=> status'[n] # "NOT_STARTED" /\ notRun'[n] = Len(Requestors(n))
  BY SameRequestors DEF Asked, Refused
<1>2. \A r, n : AskDue(r, n)' <=>
              IF r = Start THEN started'
              ELSE Asked(r)' /\ (n = Left(r) \/ left'[r] = Unanimous(r))
  BY SameGraph DEF AskDue, Start
<1>3. \A r, n : DeclineDue(r, n)' <=>
              r # Start /\ (Refused(r)' \/ (n = Right(r) /\ left'[r] \notin {NONE, Unanimous(r)}))
  BY SameGraph DEF DeclineDue, Start, NONE
<1>4. \A n \in Node : \A i : i \in Decliners(n)' <=>
              /\ i \in 1 .. Len(Requestors(n))
              /\ \E r : r = Requestors(n)[i] /\ DeclineDue(r, n)' /\ ~Declines(r, n)'
  BY SameRequestors DEF Decliners
<1> QED
  BY <1>1, <1>2, <1>3, <1>4

LEMMA SameDecliners ==
  ASSUME graph \in Graphs, graph' = graph, NEW n \in Node,
         \A r : RequestorOf(r, n) =>
           (DeclineDue(r, n)' /\ ~Declines(r, n)' <=> DeclineDue(r, n) /\ ~Declines(r, n))
  PROVE  Decliners(n)' = Decliners(n)
<1>1. ASSUME NEW i
      PROVE  i \in Decliners(n)' <=> i \in Decliners(n)
  <2> DEFINE r == Requestors(n)[i]
  <2>1. CASE i \in 1 .. Len(Requestors(n))
    <3>1. RequestorOf(r, n)
      BY <2>1, RequestorIndex
    <3> HIDE DEF r
    <3>2. i \in Decliners(n)' <=> \E x : x = r /\ DeclineDue(x, n)' /\ ~Declines(x, n)'
      BY <2>1, DuesPrimed DEF r
    <3>3. i \in Decliners(n) <=> DeclineDue(r, n) /\ ~Declines(r, n)
      BY <2>1 DEF Decliners, r
    <3>4. \E x : x = r
      OBVIOUS
    <3> QED
      BY <3>1, <3>2, <3>3, <3>4
  <2>2. CASE i \notin 1 .. Len(Requestors(n))
    BY <2>2, DuesPrimed DEF Decliners
  <2> QED
    BY <2>1, <2>2
<1> QED
  BY <1>1
(* What a step may change without touching the parts of the invariant. *)
LEMMA DeclinesKept ==
  ASSUME graph \in Graphs, CallsOK, graph' = graph, DeclinesOK, notRun' = notRun, left' = left,
         \A x \in Node : (Asked(x) => Asked(x)') /\ (Refused(x)' <=> Refused(x)),
         \A r, n : Declines(r, n)' =>
           /\ Declines(r, n)
           /\ Twice(Call(r, n, "NO_REQUEST_COMING"), calls') =>
                Twice(Call(r, n, "NO_REQUEST_COMING"), calls),
         \A r : \A n \in Node : Declines(r, n) /\ ~Asked(n) => Declines(r, n)'
  PROVE  DeclinesOK'
<1>1. \A n \in Node : \A r \in Node \cup {Start} : DeclineDue(r, n)' <=> DeclineDue(r, n)
  BY DuesPrimed DEF DeclineDue
<1>2. ASSUME NEW n \in Node, ~Asked(n)'
      PROVE  notRun'[n] = Cardinality(Decliners(n))'
  <2>1. ~Asked(n)
    BY <1>2
  <2>2. \A r : RequestorOf(r, n) => r \in Node \cup {Start}
    BY RequestorIndex
  <2>3. Decliners(n)' = Decliners(n)
    BY <1>1, <2>1, <2>2, SameDecliners
  <2> QED
    BY <2>1, <2>3 DEF DeclinesOK
<1>3. ASSUME NEW r, NEW n, Declines(r, n)'
      PROVE  DeclineDue(r, n)' /\ ~Twice(Call(r, n, "NO_REQUEST_COMING"), calls)'
  <2>1. Declines(r, n) /\ DeclineDue(r, n) /\ ~Twice(Call(r, n, "NO_REQUEST_COMING"), calls)
    BY <1>3 DEF DeclinesOK
  <2>2. ~Twice(Call(r, n, "NO_REQUEST_COMING"), calls')
    BY <1>3, <2>1
  <2>3. Refused(r) => Refused(r)'
    BY <2>1 DEF CallsOK, ChildOf, Binary
  <2>4. DeclineDue(r, n)'
    BY <2>1, <2>3, DuesPrimed DEF DeclineDue
  <2> QED
    BY <2>2, <2>4, LinesPrimed
<1> QED
  BY <1>2, <1>3, SameGraph DEF DeclinesOK

LEMMA AnswersKept ==
  ASSUME graph' = graph, AnswersOK, sent' = sent, left' = left, right' = right,
         \A x \in Node : Asked(x) => Asked(x)',
         \A m, n \in Node : \A d \in Decision : Tells(m, n, d) => Tells(m, n, d)'
  PROVE  AnswersOK'
<1>1. \A n \in Node : ~IsLeaf(n) /\ (left'[n] # NONE \/ right'[n] # NONE) => Asked(n)'
  BY DEF AnswersOK
<1>2. \A n \in Node : ~IsLeaf(n) /\ sent'[n] = << >> =>
        /\ left'[n] \in {NONE, Unanimous(n)} /\ right'[n] \in {NONE, Unanimous(n)}
        /\ left'[n] = NONE \/ right'[n] = NONE
  BY DEF AnswersOK
<1>3. \A m, n : Recorded(m, n)' = Recorded(m, n)
  BY SameGraph DEF Recorded
<1>4. \A m \in Node : \A n : \A d \in Decision :
        ChildOf(m, n) /\ sent'[m] = <<d>> => Tells(m, n, d)' \/ Recorded(m, n)' = d
  <2>1. \A m, n : ChildOf(m, n) => n \in Node
    BY DEF ChildOf, Binary
  <2> QED
    BY <1>3, <2>1 DEF AnswersOK
<1> QED
  BY <1>1, <1>2, <1>4, SameGraph DEF AnswersOK, NONE

LEMMA FinishedKept ==
  ASSUME graph \in Graphs, graph' = graph, FinishedOK, finished' = finished,
         \A x \in Node : IsTop(x) =>
           ((sent'[x] # << >> /\ \A d \in Decision : ~Tells(x, Start, d)') <=>
             (sent[x] # << >> /\ \A d \in Decision : ~Tells(x, Start, d))),
         Tree => \A n, d : Tells(n, Start, d)' => ~Twice(Call(n, Start, d), calls')
  PROVE  FinishedOK'
<1>1. \A i \in 1 .. Len(graph.tops) : graph.tops[i] \in Node /\ IsTop(graph.tops[i])
  BY Numbered, ElementOfSeq DEF IsTop
<1>2. \A i \in 1 .. Len(graph.tops) : \A d : Tells(graph.tops[i], Start, d)' <=>
        \E x : x = graph.tops[i] /\ Tells(x, Start, d)'
  BY DEF Tells, Start
<1>3. {i \in 1 .. Len(graph.tops) : /\ sent'[graph.tops[i]] # << >>
                                    /\ \A d \in Decision : ~Tells(graph.tops[i], Start, d)'}
        = {i \in 1 .. Len(graph.tops) : /\ sent[graph.tops[i]] # << >>
                                        /\ \A d \in Decision : ~Tells(graph.tops[i], Start, d)}
  BY <1>1, <1>2
<1>4. {i \in 1 .. Len(graph.tops) : /\ sent[graph.tops[i]] # << >>
                                    /\ \A d \in Decision : ~Tells(graph.tops[i], Start, d)}'
        = {i \in 1 .. Len(graph.tops) : /\ sent'[graph.tops[i]] # << >>
                                        /\ \A d \in Decision : ~Tells(graph.tops[i], Start, d)'}
  BY DEF Decision, Tells, Start
<1>5. Tree => \A n, d : Tells(n, Start, d)' => ~Twice(Call(n, Start, d), calls)'
  BY LinesPrimed DEF Start
<1> QED
  BY <1>3, <1>4, <1>5, SameRequestors, Zenon DEF FinishedOK
LEMMA StartAsyncAsks ==
  ASSUME GraphIInv, GraphIInv', AskingInv, SharesBelowTops, StartAsync
  PROVE  AskingInv'
<1> DEFINE k == Len(graph.tops)
           t == [i \in 1 .. k |-> Call(Start, graph.tops[i], "REQUEST_DECISION")]
<1> USE DEF GraphIInv, AskingInv
<1>1. /\ ~started /\ started' = TRUE /\ calls' = t /\ calls = << >> /\ graph \in Graphs
      /\ UNCHANGED <<graph, verdict, status, notRun, answers, left, right, pending,
                     finished, round, sent>>
      /\ \A n \in Node : sent[n] = << >> /\ notRun[n] = 0
      /\ \A n \in Node : HasRequestor(n) => status[n] = "NOT_STARTED"
  BY DEF StartAsync, Idle, GraphTypeOK
<1>2. /\ k \in Nat /\ t \in Seq(CallSet) /\ Len(t) = k
      /\ \A n, m, w : In(Call(m, n, w), calls') <=>
           w = "REQUEST_DECISION" /\ m = Start /\ IsTop(n)
  <2>1. k \in Nat /\ \A i \in 1 .. k : graph.tops[i] \in Node
    BY <1>1, Numbered, LenProperties, ElementOfSeq
  <2>2. \A i \in 1 .. k : Call(Start, graph.tops[i], "REQUEST_DECISION") \in CallSet
    BY <2>1, CallFields
  <2>3. t \in Seq(CallSet) /\ Len(t) = k /\ \A i \in 1 .. k :
          t[i] = Call(Start, graph.tops[i], "REQUEST_DECISION")
    BY <2>1, <2>2
  <2> HIDE DEF t
  <2>4. \A n, m, w : In(Call(m, n, w), t) <=>
          \E i \in 1 .. k : Call(m, n, w) = Call(Start, graph.tops[i], "REQUEST_DECISION")
    BY <2>3 DEF In
  <2>5. \A n, m, w : In(Call(m, n, w), t) <=>
          w = "REQUEST_DECISION" /\ m = Start /\ IsTop(n)
    BY <2>4, CallFields DEF IsTop
  <2> QED
    BY <1>1, <2>1, <2>3, <2>5
<1> HIDE DEF t
<1>3. "REQUEST_DECISION" \notin Decision /\ "REQUEST_DECISION" # "NO_REQUEST_COMING"
  BY DEF Decision
<1>4. \A m, n : /\ Asks(m, n)' <=> m = Start /\ IsTop(n)
                /\ ~Declines(m, n)' /\ \A d \in Decision : ~Tells(m, n, d)'
                /\ ~Asks(m, n) /\ ~Declines(m, n) /\ \A d \in Decision : ~Tells(m, n, d)
  BY <1>1, <1>2, <1>3, LinesPrimed, ShortLines DEF Asks, Declines, Tells
<1>5. \A x \in Node : ~Asked(x) /\ ~Asked(x)' /\ (Refused(x)' <=> Refused(x))
  <2>1. \A x \in Node : ~Asked(x)
    BY <1>1, RequestorIndex DEF Asked
  <2> QED
    BY <1>1, <2>1, DuesPrimed DEF Asked, Refused
<1>6. \A x \in Node : ~IsLeaf(x) => left[x] = NONE
  BY <1>5 DEF AnswersOK
<1>7. StatusOK'
  BY <1>1, <1>5, SameGraph, SameRequestors DEF StatusOK, NONE
<1>8. AsksOK'
  <2>1. \A n \in Node : \A r : RequestorOf(r, n) /\ AskDue(r, n)' => Asks(r, n)'
    <3>1. \A n \in Node : \A r : RequestorOf(r, n) => (r = Start /\ IsTop(n)) \/ r \in Node
      BY <1>1, RequestorIndex DEF RequestorOf, ChildOf, Binary
    <3>2. \A r \in Node : r # Start
      BY <1>1, Numbered
    <3> QED
      BY <1>1, <1>4, <1>5, <3>1, <3>2, DuesPrimed
  <2>2. \A r, n : Asks(r, n)' => AskDue(r, n)'
    BY <1>1, <1>4, DuesPrimed
  <2> QED
    BY <1>1, <1>5, <2>1, <2>2, SameGraph DEF AsksOK
<1>9. DeclinesOK'
  BY <1>1, <1>4, <1>5, DeclinesKept
<1>10. TopsFirst'
  BY <1>1, SameGraph DEF TopsFirst
<1>11. AnswersOK'
  BY <1>1, <1>4, <1>5, AnswersKept
<1>12. FinishedOK'
  <2>1. Tree => \A n, d : Tells(n, Start, d)' => ~Twice(Call(n, Start, d), calls')
    <3> SUFFICES ASSUME Tree, NEW n, NEW d, Twice(Call(n, Start, d), calls') PROVE FALSE
      OBVIOUS
    <3>1. In(Call(n, Start, d), calls')
      BY DEF Twice, In
    <3>2. d = "REQUEST_DECISION" /\ Start = Start /\ IsTop(Start)
      BY <1>2, <3>1
    <3>3. Start \in Node
      BY <1>1, <3>2, Numbered, ElementOfSeq DEF IsTop
    <3> QED
      BY <1>1, <3>3, Numbered
  <2> QED
    BY <1>1, <1>4, <2>1, FinishedKept
<1> QED
  BY <1>7, <1>8, <1>9, <1>10, <1>11, <1>12

LEMMA LeafFinishedAsks ==
  ASSUME GraphIInv, GraphIInv', AskingInv, SharesBelowTops, LeafFinished
  PROVE  AskingInv'
<1> DEFINE S == {i \in 1 .. Len(graph.tops) :
                   /\ sent[graph.tops[i]] # << >>
                   /\ \A d \in Decision : ~Tells(graph.tops[i], Start, d)}
           T == {i \in 1 .. Len(graph.tops) :
                   /\ sent'[graph.tops[i]] # << >>
                   /\ \A d \in Decision : ~Tells(graph.tops[i], Start, d)'}
<1> USE DEF GraphIInv, AskingInv
<1>1. PICK d \in Decision, m \in Node :
        /\ calls # << >> /\ calls \in Seq(CallSet) /\ graph \in Graphs
        /\ Head(calls) = Call(m, Start, d) /\ Tells(m, Start, d) /\ IsTop(m) /\ sent[m] = <<d>>
        /\ << >> \in Seq(CallSet) /\ calls' = << >> \o Tail(calls) /\ finished' = finished + 1
        /\ UNCHANGED <<graph, verdict, status, notRun, answers, left, right, pending,
                       started, round, sent>>
  <2> DEFINE m == Head(calls).from
  <2>1. PICK d \in Decision : Current(d) /\ calls # << >>
    BY DEF LeafFinished, Current
  <2>2. /\ Head(calls).to = Start /\ calls \in Seq(CallSet) /\ graph \in Graphs
        /\ calls' = Tail(calls) /\ finished' = finished + 1
        /\ UNCHANGED <<graph, verdict, status, notRun, answers, left, right, pending,
                       started, round, sent>>
    BY DEF LeafFinished, GraphTypeOK
  <2>3. /\ Head(calls) = Call(m, Start, d) /\ m \in Node /\ RequestorOf(Start, m)
        /\ Tells(m, Start, d) /\ sent[m] = <<d>>
    BY <2>1, <2>2, HeadCall
  <2>4. IsTop(m)
    BY <2>2, <2>3, Numbered DEF RequestorOf, ChildOf, Binary
  <2>5. << >> \in Seq(CallSet) /\ Tail(calls) = << >> \o Tail(calls)
    BY <2>1, <2>2
  <2> HIDE DEF m
  <2> QED
    BY <2>1, <2>2, <2>3, <2>4, <2>5
<1>2. /\ \A c : In(c, calls) => c = Head(calls) \/ In(c, calls')
      /\ \A c : In(c, calls') => In(c, calls) /\ (Twice(c, calls') => Twice(c, calls))
      /\ \A c : In(c, calls') /\ ~Twice(c, calls) => c # Head(calls)
  <2>1. /\ \A c : In(c, calls) => c = Head(calls) \/ In(c, calls')
        /\ \A c : In(c, calls') => In(c, << >>) \/ In(c, calls)
        /\ \A c : Twice(c, calls') /\ ~Twice(c, calls) => In(c, << >>)
        /\ \A c : In(c, calls') /\ ~In(c, << >>) /\ ~Twice(c, calls) => c # Head(calls)
    BY <1>1, NextLine
  <2> QED
    BY <2>1, ShortLines
<1>3. d # "REQUEST_DECISION" /\ d # "NO_REQUEST_COMING"
  BY DEF Decision
<1>4. \A i, j : /\ Asks(i, j)' <=> Asks(i, j)
                /\ Declines(i, j)' <=> Declines(i, j)
                /\ \A e : Tells(i, j, e)' => Tells(i, j, e)
                /\ \A e : Tells(i, j, e) => Tells(i, j, e)' \/ (i = m /\ j = Start /\ e = d)
  BY <1>1, <1>2, <1>3, LinesPrimed, CallFields DEF Asks, Declines, Tells
<1>5. \A x : (Asked(x)' <=> Asked(x)) /\ (Refused(x)' <=> Refused(x))
  BY <1>1, DuesPrimed DEF Asked, Refused
<1>6. \A r, n : AskDue(r, n)' <=> AskDue(r, n)
  BY <1>1, <1>5, DuesPrimed DEF AskDue
<1>7. StatusOK' /\ TopsFirst'
  BY <1>1, <1>5, SameGraph, SameRequestors DEF StatusOK, TopsFirst
<1>8. AsksOK'
  BY <1>1, <1>4, <1>5, <1>6, SameGraph DEF AsksOK
<1>9. DeclinesOK'
  <2>1. \A r, n : Declines(r, n)' =>
          (Twice(Call(r, n, "NO_REQUEST_COMING"), calls') =>
             Twice(Call(r, n, "NO_REQUEST_COMING"), calls))
    BY <1>2, LinesPrimed
  <2> QED
    BY <1>1, <1>4, <1>5, <2>1, DeclinesKept
<1>10. AnswersOK'
  <2>1. \A n \in Node : n # Start
    BY <1>1, Numbered
  <2> QED
    <3>1. \A x, y \in Node : \A e \in Decision : Tells(x, y, e) => Tells(x, y, e)'
      BY <1>4, <2>1
    <3> QED
      BY <1>1, <1>5, <3>1, AnswersKept
<1>11. ASSUME Tree
       PROVE  finished' = Cardinality(T) /\ \A n, e : Tells(n, Start, e)' => ~Twice(Call(n, Start, e), calls')
  <2>1. PICK i \in 1 .. Len(graph.tops) : graph.tops[i] = m
    BY <1>1 DEF IsTop
  <2>2. \A j \in 1 .. Len(graph.tops) : graph.tops[j] = m => j = i
    BY <1>1, <1>11, <2>1, Requesting DEF Tree
  <2>3. \A e \in Decision : ~Tells(m, Start, e)'
    <3> SUFFICES ASSUME NEW e \in Decision, Tells(m, Start, e)' PROVE FALSE
      OBVIOUS
    <3>1. sent[m] = <<e>>
      BY <1>4 DEF CallsOK
    <3>2. e = d
      BY <1>1, <3>1
    <3>3. ~Twice(Call(m, Start, d), calls)
      BY <1>1, <1>11 DEF FinishedOK
    <3>4. In(Call(m, Start, d), calls')
      BY <3>2, LinesPrimed
    <3> QED
      BY <1>1, <1>2, <3>3, <3>4
  <2>4. T = S \cup {i}
    <3>1. ASSUME NEW j \in 1 .. Len(graph.tops)
          PROVE  j \in T <=> j \in S \/ j = i
      <4>1. CASE j = i
        <5>1. sent'[m] # << >>
          <6>1. sent' = sent /\ sent[m] = <<d>>
            BY <1>1
          <6> QED
            BY <6>1
        <5> QED
          BY <1>1, <2>1, <2>3, <4>1, <5>1 DEF Tells, Start
      <4>2. CASE j # i
        <5>1. PICK x : x = graph.tops[j] /\ x # m
          BY <2>2, <4>2
        <5>2. \A e : Tells(x, Start, e)' <=> Tells(x, Start, e)
          BY <1>4, <5>1
        <5>3. \A e : Tells(graph.tops[j], Start, e)' <=> Tells(x, Start, e)'
          BY <1>1, <5>1 DEF Tells, Start
        <5> QED
          BY <1>1, <4>2, <5>1, <5>2, <5>3
      <4> QED
        BY <4>1, <4>2
    <3> QED
      BY <3>1
  <2>5. i \notin S
    BY <1>1, <2>1
  <2>6. IsFiniteSet(S)
    <3>1. Len(graph.tops) \in Nat
      BY <1>1, Numbered, LenProperties
    <3>2. IsFiniteSet(1 .. Len(graph.tops))
      BY <3>1, FS_Interval
    <3> QED
      BY <3>2, FS_Subset
  <2>7. Cardinality(S \cup {i}) = Cardinality(S) + 1
    BY <2>5, <2>6, FS_AddElement
  <2>8. finished = Cardinality(S)
    BY <1>11 DEF FinishedOK
  <2>9. \A n, e : Tells(n, Start, e)' => ~Twice(Call(n, Start, e), calls')
    BY <1>2, <1>4, <1>11, LinesPrimed DEF FinishedOK
  <2> HIDE DEF S, T
  <2> QED
    BY <1>1, <2>4, <2>7, <2>8, <2>9
<1>12. FinishedOK'
  <2>1. {i \in 1 .. Len(graph.tops) : /\ sent[graph.tops[i]] # << >>
                                      /\ \A e \in Decision : ~Tells(graph.tops[i], Start, e)}' = T
    BY <1>1 DEF Decision, Tells, Start
  <2>2. Tree => \A n, e : Tells(n, Start, e)' => ~Twice(Call(n, Start, e), calls)'
    BY <1>11, LinesPrimed DEF Start
  <2> HIDE DEF T
  <2> QED
    BY <1>1, <1>11, <2>1, <2>2, SameRequestors, Zenon DEF FinishedOK
<1> QED
  BY <1>7, <1>8, <1>9, <1>10, <1>12
LEMMA RequestDecisionAsks ==
  ASSUME GraphIInv, GraphIInv', AskingInv, SharesBelowTops, RequestDecision
  PROVE  AskingInv'
<1> USE DEF GraphIInv, AskingInv
<1>1. PICK n \in Node, m \in Node \cup {Start}, p \in Seq(CallSet) :
        /\ calls # << >> /\ calls \in Seq(CallSet) /\ graph \in Graphs
        /\ started /\ Head(calls) = Call(m, n, "REQUEST_DECISION") /\ Asks(m, n)
        /\ RequestorOf(m, n) /\ status[n] = "NOT_STARTED"
        /\ calls' = p \o Tail(calls)
        /\ p = IF IsLeaf(n) THEN << >> ELSE <<Call(n, Left(n), "REQUEST_DECISION")>>
        /\ IsLeaf(n) => status' = [status EXCEPT ![n] = "SHOULD_RUN"] /\ pending' = pending \cup {n}
        /\ ~IsLeaf(n) => status' = [status EXCEPT ![n] = "IN_PROGRESS"] /\ pending' = pending
        /\ UNCHANGED <<graph, verdict, notRun, answers, left, right, finished, started, round, sent>>
  <2> DEFINE n == Head(calls).to
             m == Head(calls).from
             p == IF IsLeaf(n) THEN << >> ELSE <<Call(n, Left(n), "REQUEST_DECISION")>>
  <2>1. /\ calls # << >> /\ calls \in Seq(CallSet) /\ graph \in Graphs
        /\ Current("REQUEST_DECISION") /\ status[n] = "NOT_STARTED"
        /\ UNCHANGED <<graph, verdict, notRun, answers, left, right, finished, started, round, sent>>
    BY DEF RequestDecision, Current, GraphTypeOK
  <2>2. /\ started /\ Head(calls) = Call(m, n, "REQUEST_DECISION") /\ In(Head(calls), calls)
        /\ n \in Node /\ RequestorOf(m, n) /\ m \in Node \cup {Start}
    BY <2>1, HeadCall, RequestorIndex
  <2>3. Asks(m, n)
    BY <2>2 DEF Asks
  <2>4. /\ p \in Seq(CallSet) /\ calls' = p \o Tail(calls)
        /\ IsLeaf(n) => status' = [status EXCEPT ![n] = "SHOULD_RUN"] /\ pending' = pending \cup {n}
        /\ ~IsLeaf(n) => status' = [status EXCEPT ![n] = "IN_PROGRESS"] /\ pending' = pending
    <3>1. CASE IsLeaf(n)
      <4>1. Tail(calls) = << >> \o Tail(calls) /\ << >> \in Seq(CallSet)
        BY <2>1
      <4> QED
        BY <2>1, <3>1, <4>1 DEF RequestDecision, SetStatus
    <3>2. CASE ~IsLeaf(n)
      <4>1. Call(n, Left(n), "REQUEST_DECISION") \in CallSet
        BY <2>1, <2>2, <3>2, Numbered, CallFields DEF Binary
      <4> QED
        BY <3>2, <4>1 DEF RequestDecision, SetStatus
    <3> QED
      BY <3>1, <3>2
  <2>5. p = IF IsLeaf(n) THEN << >> ELSE <<Call(n, Left(n), "REQUEST_DECISION")>>
    OBVIOUS
  <2> HIDE DEF n, m, p
  <2> QED
    BY <2>1, <2>2, <2>3, <2>4, <2>5
<1>2. /\ \A c : In(c, calls') => In(c, p) \/ In(c, calls)
      /\ \A c : In(c, calls) => c = Head(calls) \/ In(c, calls')
      /\ \A c : In(c, p) => In(c, calls')
      /\ \A c : Twice(c, calls') /\ ~Twice(c, calls) => In(c, p)
  BY <1>1, NextLine
<1>3. \A c : In(c, p) <=> ~IsLeaf(n) /\ c = Call(n, Left(n), "REQUEST_DECISION")
  BY <1>1, ShortLines
<1>4. "REQUEST_DECISION" \notin Decision /\ "REQUEST_DECISION" # "NO_REQUEST_COMING"
  BY DEF Decision
<1>5. \A i, j : /\ Asks(i, j)' => Asks(i, j) \/ (~IsLeaf(n) /\ i = n /\ j = Left(n))
                /\ Asks(i, j) => Asks(i, j)' \/ (i = m /\ j = n)
                /\ ~IsLeaf(n) /\ i = n /\ j = Left(n) => Asks(i, j)'
                /\ Declines(i, j)' <=> Declines(i, j)
                /\ \A d \in Decision : Tells(i, j, d)' <=> Tells(i, j, d)
  <2>1. \A i, j, w :
          /\ In(Call(i, j, w), calls') =>
               In(Call(i, j, w), calls) \/ (~IsLeaf(n) /\ i = n /\ j = Left(n) /\ w = "REQUEST_DECISION")
          /\ In(Call(i, j, w), calls) =>
               In(Call(i, j, w), calls') \/ (i = m /\ j = n /\ w = "REQUEST_DECISION")
    <3>1. \A i, j, w : Call(i, j, w) = Head(calls) <=> i = m /\ j = n /\ w = "REQUEST_DECISION"
      BY <1>1, CallFields
    <3>2. \A i, j, w : In(Call(i, j, w), p) <=>
            ~IsLeaf(n) /\ i = n /\ j = Left(n) /\ w = "REQUEST_DECISION"
      BY ONLY <1>3, CallFields
    <3> QED
      BY ONLY <1>2, <3>1, <3>2
  <2>2. ~IsLeaf(n) => In(Call(n, Left(n), "REQUEST_DECISION"), calls')
    BY <1>2, <1>3
  <2> QED
    BY <1>4, <2>1, <2>2, LinesPrimed DEF Asks, Declines, Tells
<1>6. \A x \in Node : x # n => status'[x] = status[x]
  BY <1>1 DEF GraphTypeOK
<1>7. /\ status'[n] # "NOT_STARTED" /\ sent[n] = << >>
      /\ IsLeaf(n) => status'[n] = "SHOULD_RUN" /\ n \in pending'
      /\ ~IsLeaf(n) => status'[n] = "IN_PROGRESS"
      /\ pending \subseteq pending'
  BY <1>1 DEF GraphTypeOK, SentOnce
<1>8. AskDue(m, n)
  BY <1>1 DEF AsksOK
<1>9. notRun[n] < Len(Requestors(n)) /\ ~Asked(n) /\ Asked(n)' /\ ~Refused(n) /\ ~Refused(n)'
  <2>1. notRun[n] < Len(Requestors(n))
    BY <1>1, <1>8, NotAllDeclined
  <2>2. notRun[n] # Len(Requestors(n))
    BY <1>1, <2>1, RequestorIndex
  <2> QED
    BY <1>1, <1>7, <2>1, <2>2, DuesPrimed DEF Asked, Refused
<1>10. \A x \in Node : /\ Asked(x) => Asked(x)'
                       /\ Asked(x)' => Asked(x) \/ x = n
                       /\ Refused(x)' <=> Refused(x)
  BY <1>1, <1>6, <1>9, DuesPrimed DEF Asked, Refused
<1>11. left[n] = NONE \/ IsLeaf(n)
  BY <1>9 DEF AnswersOK
<1>12. \A x : \A r \in Node \cup {Start} :
         /\ AskDue(r, x) => AskDue(r, x)'
         /\ AskDue(r, x)' => AskDue(r, x) \/ (r = n /\ (x = Left(n) \/ IsLeaf(n)))
  <2>1. NONE # Unanimous(n)
    BY DEF Unanimous, NONE
  <2> SUFFICES ASSUME NEW x, NEW r \in Node \cup {Start}
               PROVE  /\ AskDue(r, x) => AskDue(r, x)'
                      /\ AskDue(r, x)' => AskDue(r, x) \/ (r = n /\ (x = Left(n) \/ IsLeaf(n)))
    OBVIOUS
  <2>2. AskDue(r, x)' <=> IF r = Start THEN started'
                          ELSE Asked(r)' /\ (x = Left(r) \/ left'[r] = Unanimous(r))
    BY <1>1, DuesPrimed
  <2>3. AskDue(r, x) <=> IF r = Start THEN started
                         ELSE Asked(r) /\ (x = Left(r) \/ left[r] = Unanimous(r))
    BY DEF AskDue
  <2>4. left' = left /\ started' = started
    BY <1>1
  <2>5. CASE r = Start
    BY <2>2, <2>3, <2>4, <2>5
  <2>6. CASE r # Start
    BY <1>10, <1>11, <2>1, <2>2, <2>3, <2>4, <2>6
  <2> QED
    BY <2>5, <2>6
<1>13. StatusOK'
  <2> SUFFICES ASSUME NEW x \in Node
               PROVE  /\ notRun'[x] <= Len(Requestors(x))
                      /\ notRun'[x] = Len(Requestors(x)) /\ HasRequestor(x) => status'[x] # "NOT_STARTED"
                      /\ sent'[x] # << >> => Asked(x)'
                      /\ status'[x] = "COMPLETED" => sent'[x] # << >>
                      /\ IsLeaf(x) => /\ status'[x] \in {"NOT_STARTED", "SHOULD_RUN", "COMPLETED", "WILL_NOT_RUN"}
                                      /\ status'[x] = "SHOULD_RUN" => x \in pending'
                                      /\ status'[x] = "WILL_NOT_RUN" <=> Refused(x)'
                      /\ ~IsLeaf(x) => status'[x] \in {"NOT_STARTED", "IN_PROGRESS", "COMPLETED"}
    BY <1>1, SameGraph, SameRequestors DEF StatusOK
  <2>1. CASE x = n
    BY <1>1, <1>7, <1>9, <2>1 DEF StatusOK
  <2>2. CASE x # n
    BY <1>1, <1>6, <1>7, <1>10, <2>2 DEF StatusOK
  <2> QED
    BY <2>1, <2>2
<1>14. AsksOK'
  <2>1. \A x \in Node : \A r : RequestorOf(r, x) => r \in Node \cup {Start}
    BY <1>1, RequestorIndex
  <2>2. ASSUME NEW x \in Node, NEW r, RequestorOf(r, x), AskDue(r, x)'
        PROVE  Asks(r, x)' \/ Asked(x)'
    <3>1. CASE AskDue(r, x)
      BY <1>5, <1>9, <1>10, <2>2, <3>1 DEF AsksOK
    <3>2. CASE ~AskDue(r, x)
      <4>1. r = n /\ (x = Left(n) \/ IsLeaf(n))
        BY <1>12, <2>1, <2>2, <3>2
      <4>2. ~IsLeaf(n)
        BY <1>1, <2>2, <4>1, Numbered DEF RequestorOf, ChildOf, Binary
      <4> QED
        BY <1>5, <4>1, <4>2
    <3> QED
      BY <3>1, <3>2
  <2>3. ASSUME NEW r, NEW x, Asks(r, x)' PROVE AskDue(r, x)'
    <3>1. CASE Asks(r, x)
      <4>1. AskDue(r, x) /\ x \in Node /\ RequestorOf(r, x)
        BY <3>1 DEF AsksOK, CallsOK
      <4> QED
        BY <1>12, <2>1, <4>1
    <3>2. CASE ~Asks(r, x)
      <4>1. r = n /\ x = Left(n)
        BY <1>5, <2>3, <3>2
      <4>2. n # Start
        BY <1>1, Numbered
      <4> QED
        BY <1>1, <1>9, <4>1, <4>2, DuesPrimed
    <3> QED
      BY <3>1, <3>2
  <2>4. ASSUME NEW x \in Node, Asked(x)' PROVE \E r : RequestorOf(r, x) /\ AskDue(r, x)'
    <3>1. CASE Asked(x)
      BY <1>12, <2>1, <3>1 DEF AsksOK
    <3>2. CASE x = n
      BY <1>1, <1>8, <1>12, <2>1, <3>2
    <3> QED
      BY <1>10, <2>4, <3>1, <3>2
  <2> QED
    BY <1>1, <2>2, <2>3, <2>4, SameGraph DEF AsksOK
<1>15. DeclinesOK'
  <2>1. \A r, x : Twice(Call(r, x, "NO_REQUEST_COMING"), calls') =>
          Twice(Call(r, x, "NO_REQUEST_COMING"), calls)
    BY <1>2, <1>3, <1>4, CallFields
  <2> QED
    BY <1>1, <1>5, <1>10, <2>1, DeclinesKept
<1>16. TopsFirst'
  BY <1>1, <1>10, SameGraph DEF TopsFirst
<1>17. AnswersOK'
  BY <1>1, <1>5, <1>10, AnswersKept
<1>18. FinishedOK'
  <2>1. Tree => \A x, d : Tells(x, Start, d)' => ~Twice(Call(x, Start, d), calls')
    <3> SUFFICES ASSUME Tree, NEW x, NEW d, Tells(x, Start, d)', Twice(Call(x, Start, d), calls')
                 PROVE  FALSE
      OBVIOUS
    <3>1. ~In(Call(x, Start, d), p)
      <4>1. ~IsLeaf(n) => Left(n) # Start
        BY <1>1, Numbered DEF Binary
      <4> QED
        BY <1>3, <4>1, CallFields
    <3>2. Twice(Call(x, Start, d), calls)
      BY <1>2, <3>1
    <3>3. Tells(x, Start, d)
      BY <1>2, <3>1, LinesPrimed DEF Tells
    <3> QED
      BY <3>2, <3>3 DEF FinishedOK
  <2> QED
    BY <1>1, <1>5, <2>1, FinishedKept
<1> QED
  BY <1>13, <1>14, <1>15, <1>16, <1>17, <1>18
LEMMA RequestIgnoredAsks ==
  ASSUME GraphIInv, GraphIInv', AskingInv, SharesBelowTops, RequestIgnored
  PROVE  AskingInv'
<1> USE DEF GraphIInv, AskingInv
<1>1. PICK n \in Node, m \in Node \cup {Start}, w \in {"REQUEST_DECISION", "NO_REQUEST_COMING"} :
        /\ calls # << >> /\ calls \in Seq(CallSet) /\ graph \in Graphs
        /\ Head(calls) = Call(m, n, w) /\ In(Head(calls), calls)
        /\ RequestorOf(m, n) /\ status[n] # "NOT_STARTED"
        /\ << >> \in Seq(CallSet) /\ calls' = << >> \o Tail(calls)
        /\ UNCHANGED <<graph, verdict, status, notRun, answers, left, right, pending,
                       finished, started, round, sent>>
  <2> DEFINE n == Head(calls).to
             m == Head(calls).from
  <2>1. PICK w \in {"REQUEST_DECISION", "NO_REQUEST_COMING"} : Current(w)
    BY DEF RequestIgnored
  <2>2. /\ calls # << >> /\ calls \in Seq(CallSet) /\ graph \in Graphs
        /\ status[n] # "NOT_STARTED"
        /\ << >> \in Seq(CallSet) /\ calls' = << >> \o Tail(calls)
        /\ UNCHANGED <<graph, verdict, status, notRun, answers, left, right, pending,
                       finished, started, round, sent>>
    BY <2>1 DEF RequestIgnored, Current, GraphTypeOK
  <2>3. /\ Head(calls) = Call(m, n, w) /\ In(Head(calls), calls)
        /\ n \in Node /\ RequestorOf(m, n)
    <3>1. /\ Head(calls) = Call(m, n, w) /\ In(Head(calls), calls)
          /\ Current("REQUEST_DECISION") => n \in Node /\ RequestorOf(m, n)
          /\ Current("NO_REQUEST_COMING") => ChildOf(n, m)
      BY <2>1, <2>2, HeadCall
    <3>2. ChildOf(n, m) => n \in Node /\ RequestorOf(m, n)
      BY <2>2, Sharing
    <3> HIDE DEF n, m
    <3> QED
      BY <2>1, <3>1, <3>2
  <2>4. m \in Node \cup {Start}
    BY <2>2, <2>3, RequestorIndex
  <2> HIDE DEF n, m
  <2> QED
    BY <2>2, <2>3, <2>4
<1>2. /\ \A c : In(c, calls') => In(c, calls)
      /\ \A c : In(c, calls) => c = Head(calls) \/ In(c, calls')
      /\ \A c : Twice(c, calls') => Twice(c, calls)
  <2>1. /\ \A c : In(c, calls') => In(c, << >>) \/ In(c, calls)
        /\ \A c : In(c, calls) => c = Head(calls) \/ In(c, calls')
        /\ \A c : Twice(c, calls') /\ ~Twice(c, calls) => In(c, << >>)
    BY <1>1, NextLine
  <2> QED
    BY <2>1, ShortLines
<1>3. "REQUEST_DECISION" \notin Decision /\ "NO_REQUEST_COMING" \notin Decision
  BY DEF Decision
<1>4. \A i, j : /\ Asks(i, j)' => Asks(i, j)
                /\ Asks(i, j) => Asks(i, j)' \/ j = n
                /\ Declines(i, j)' => Declines(i, j)
                /\ Declines(i, j) => Declines(i, j)' \/ j = n
                /\ \A d \in Decision : Tells(i, j, d)' <=> Tells(i, j, d)
  <2>1. \A i, j, v : In(Call(i, j, v), calls) => In(Call(i, j, v), calls') \/ (j = n /\ v = w)
    BY <1>1, <1>2, CallFields
  <2> QED
    BY <1>2, <1>3, <2>1, LinesPrimed DEF Asks, Declines, Tells
<1>5. \A x : (Asked(x)' <=> Asked(x)) /\ (Refused(x)' <=> Refused(x))
  BY <1>1, DuesPrimed DEF Asked, Refused
<1>6. \A r, x : AskDue(r, x)' <=> AskDue(r, x)
  BY <1>1, <1>5, DuesPrimed DEF AskDue
<1>7. Asked(n)
  <2>1. AskDue(m, n) \/ Declines(m, n)
    <3>1. Asks(m, n) \/ Declines(m, n)
      BY <1>1 DEF Asks, Declines
    <3> QED
      BY <3>1 DEF AsksOK
  <2>2. notRun[n] < Len(Requestors(n))
    BY <1>1, <2>1, NotAllDeclined
  <2> QED
    BY <1>1, <2>2 DEF Asked
<1>8. StatusOK' /\ TopsFirst'
  BY <1>1, <1>5, SameGraph, SameRequestors DEF StatusOK, TopsFirst
<1>9. AsksOK'
  <2>1. \A x \in Node : \A r : RequestorOf(r, x) /\ AskDue(r, x)' => Asks(r, x)' \/ Asked(x)'
    BY <1>4, <1>5, <1>6, <1>7 DEF AsksOK
  <2> QED
    BY <1>1, <1>4, <1>5, <1>6, <2>1, SameGraph DEF AsksOK
<1>10. DeclinesOK'
  BY <1>1, <1>2, <1>4, <1>5, <1>7, DeclinesKept
<1>11. AnswersOK'
  BY <1>1, <1>4, <1>5, AnswersKept
<1>12. FinishedOK'
  <2>1. Tree => \A x, d : Tells(x, Start, d)' => ~Twice(Call(x, Start, d), calls')
    BY <1>2, LinesPrimed DEF FinishedOK, Tells
  <2> QED
    BY <1>1, <1>4, <2>1, FinishedKept
<1> QED
  BY <1>8, <1>9, <1>10, <1>11, <1>12
LEMMA RefuseAsks ==
  ASSUME GraphIInv, GraphIInv', AskingInv, SharesBelowTops, Refuse
  PROVE  AskingInv'
<1> USE DEF GraphIInv, AskingInv
<1>1. PICK n \in Node, m \in Node, last \in BOOLEAN, p \in Seq(CallSet) :
        /\ calls # << >> /\ calls \in Seq(CallSet) /\ graph \in Graphs /\ started
        /\ Head(calls) = Call(m, n, "NO_REQUEST_COMING") /\ Declines(m, n)
        /\ ChildOf(n, m) /\ status[n] = "NOT_STARTED"
        /\ last <=> notRun[n] + 1 = Len(Requestors(n))
        /\ calls' = p \o Tail(calls)
        /\ p = IF last /\ ~IsLeaf(n)
               THEN <<Call(n, Left(n), "NO_REQUEST_COMING"), Call(n, Right(n), "NO_REQUEST_COMING")>>
               ELSE << >>
        /\ notRun' = [notRun EXCEPT ![n] = @ + 1]
        /\ ~last => status' = status
        /\ last => status' = [status EXCEPT ![n] = IF IsLeaf(n) THEN "WILL_NOT_RUN" ELSE "IN_PROGRESS"]
        /\ UNCHANGED <<graph, verdict, answers, left, right, pending, finished, started,
                       round, sent>>
  <2> DEFINE n == Head(calls).to
             m == Head(calls).from
             last == notRun[n] + 1 = Len(Requestors(n))
             two == <<Call(n, Left(n), "NO_REQUEST_COMING"), Call(n, Right(n), "NO_REQUEST_COMING")>>
             p == IF last /\ ~IsLeaf(n) THEN two ELSE << >>
  <2>1. /\ calls # << >> /\ Current("NO_REQUEST_COMING") /\ status[n] = "NOT_STARTED"
        /\ calls \in Seq(CallSet) /\ graph \in Graphs
        /\ notRun' = [notRun EXCEPT ![n] = @ + 1]
        /\ UNCHANGED <<graph, verdict, answers, left, right, pending, finished, started,
                       round, sent>>
    BY DEF Refuse, Current, GraphTypeOK
  <2>2. /\ started /\ Head(calls) = Call(m, n, "NO_REQUEST_COMING")
        /\ ChildOf(n, m) /\ In(Head(calls), calls)
    BY <2>1, HeadCall
  <2>3. n \in Node /\ m \in Node /\ Declines(m, n)
    BY <2>1, <2>2, Sharing DEF Declines
  <2>4. notRun'[n] = notRun[n] + 1
    BY <2>1, <2>3 DEF GraphTypeOK
  <2>5. << >> \in Seq(CallSet) /\ Tail(calls) = << >> \o Tail(calls)
    BY <2>1
  <2>6. ~IsLeaf(n) => two \in Seq(CallSet)
    <3> SUFFICES ASSUME ~IsLeaf(n) PROVE two \in Seq(CallSet)
      OBVIOUS
    <3>1. Left(n) \in Node /\ Right(n) \in Node
      BY <2>1, <2>3, Numbered DEF Binary
    <3>2. /\ Call(n, Left(n), "NO_REQUEST_COMING") \in CallSet
          /\ Call(n, Right(n), "NO_REQUEST_COMING") \in CallSet
      BY <2>3, <3>1, CallFields
    <3> QED
      BY <3>2
  <2>7. /\ calls' = p \o Tail(calls)
        /\ ~last => status' = status
        /\ last => status' = [status EXCEPT ![n] = IF IsLeaf(n) THEN "WILL_NOT_RUN" ELSE "IN_PROGRESS"]
    <3>1. /\ ~last => calls' = Tail(calls) /\ status' = status
          /\ last /\ IsLeaf(n) => SetStatus(n, "WILL_NOT_RUN") /\ calls' = Tail(calls)
          /\ last /\ ~IsLeaf(n) => SetStatus(n, "IN_PROGRESS") /\ calls' = two \o Tail(calls)
      BY <2>4 DEF Refuse
    <3> HIDE DEF n, m, last, two
    <3> QED
      BY <2>5, <3>1 DEF SetStatus
  <2>8. p \in Seq(CallSet) /\ last \in BOOLEAN
    BY <2>5, <2>6
  <2>9. /\ p = IF last /\ ~IsLeaf(n)
               THEN <<Call(n, Left(n), "NO_REQUEST_COMING"), Call(n, Right(n), "NO_REQUEST_COMING")>>
               ELSE << >>
        /\ last <=> notRun[n] + 1 = Len(Requestors(n))
    OBVIOUS
  <2> HIDE DEF n, m, p, last, two
  <2> QED
    BY <2>1, <2>2, <2>3, <2>7, <2>8, <2>9
<1>2. /\ \A c : In(c, calls) => c = Head(calls) \/ In(c, calls')
      /\ \A c : In(c, calls') => In(c, p) \/ In(c, calls)
      /\ \A c : In(c, p) => In(c, calls')
      /\ \A c : In(c, calls') /\ ~In(c, p) /\ ~Twice(c, calls) => c # Head(calls)
      /\ \A c : Twice(c, calls') /\ ~Twice(c, calls) => In(c, p)
      /\ \A c : Twice(c, calls') /\ ~Twice(c, p) => In(c, calls)
  BY <1>1, NextLine
<1>3. /\ Left(m) # Right(m) /\ m # Start /\ n # m /\ RequestorOf(m, n) /\ Binary(m)
      /\ n # Start
  BY <1>1, Sharing, Numbered DEF ChildOf
<1>4. \A c : In(c, p) <=>
        /\ last /\ ~IsLeaf(n)
        /\ \E x \in {Left(n), Right(n)} : c = Call(n, x, "NO_REQUEST_COMING")
  BY <1>1, ShortLines
<1>5. \A c : ~Twice(c, p)
  <2>1. ~IsLeaf(n) => Call(n, Left(n), "NO_REQUEST_COMING") # Call(n, Right(n), "NO_REQUEST_COMING")
    BY CallFields DEF SharesBelowTops
  <2> QED
    BY <1>1, <2>1, ShortLines
<1>6. "NO_REQUEST_COMING" \notin Decision /\ "NO_REQUEST_COMING" # "REQUEST_DECISION"
  BY DEF Decision
<1>7. \A i, j, w : ~(i = m /\ j = n /\ w = "NO_REQUEST_COMING") =>
        (In(Call(i, j, w), calls') <=>
           In(Call(i, j, w), calls)
             \/ (last /\ ~IsLeaf(n) /\ i = n /\ j \in {Left(n), Right(n)} /\ w = "NO_REQUEST_COMING"))
  <2>1. \A i, j, w : ~(i = m /\ j = n /\ w = "NO_REQUEST_COMING") => Call(i, j, w) # Head(calls)
    BY <1>1, CallFields
  <2>2. \A i, j, w : In(Call(i, j, w), p) <=>
          last /\ ~IsLeaf(n) /\ i = n /\ j \in {Left(n), Right(n)} /\ w = "NO_REQUEST_COMING"
    BY <1>4, CallFields
  <2> QED
    BY <1>2, <2>1, <2>2
<1>8. /\ \A i, j : Asks(i, j)' <=> Asks(i, j)
      /\ \A i, j : \A d \in Decision : Tells(i, j, d)' <=> Tells(i, j, d)
      /\ \A i, j : ~(i = m /\ j = n) =>
           (Declines(i, j)' <=> Declines(i, j)
                \/ (last /\ ~IsLeaf(n) /\ i = n /\ j \in {Left(n), Right(n)}))
  BY <1>6, <1>7, LinesPrimed DEF Asks, Declines, Tells
<1>9. ~Declines(m, n)'
  <2>1. ~Twice(Call(m, n, "NO_REQUEST_COMING"), calls)
    BY <1>1 DEF DeclinesOK
  <2>2. ~In(Call(m, n, "NO_REQUEST_COMING"), p)
    BY <1>3, <1>4, CallFields
  <2> QED
    BY <1>1, <1>2, <2>1, <2>2, LinesPrimed
<1>10. /\ notRun[n] \in Nat /\ Len(Requestors(n)) \in Nat /\ notRun[n] < Len(Requestors(n))
       /\ notRun'[n] = notRun[n] + 1
       /\ \A x \in Node : x # n => status'[x] = status[x] /\ notRun'[x] = notRun[x]
       /\ status'[n] = IF ~last THEN "NOT_STARTED"
                       ELSE IF IsLeaf(n) THEN "WILL_NOT_RUN" ELSE "IN_PROGRESS"
  <2>1. notRun[n] < Len(Requestors(n))
    BY <1>1, <1>3, NotAllDeclined
  <2> QED
    BY <1>1, <2>1, RequestorIndex DEF GraphTypeOK
<1>11. /\ ~Asked(n) /\ ~Refused(n) /\ ~Asked(n)' /\ (Refused(n)' <=> last)
       /\ sent[n] = << >>
  <2>1. ~Asked(n) /\ ~Refused(n)
    BY <1>1 DEF Asked, Refused
  <2>2. ~Asked(n)' /\ (Refused(n)' <=> last)
    BY <1>1, <1>10, DuesPrimed
  <2> QED
    BY <2>1, <2>2 DEF StatusOK
<1>12. \A x \in Node : /\ Asked(x)' <=> Asked(x)
                       /\ Refused(x)' <=> Refused(x) \/ (x = n /\ last)
  BY <1>1, <1>10, <1>11, DuesPrimed DEF Asked, Refused
<1>13. ~IsLeaf(n) => left[n] = NONE
  BY <1>11 DEF AnswersOK
<1>14. \A x : \A r \in Node \cup {Start} :
         /\ AskDue(r, x)' <=> AskDue(r, x)
         /\ DeclineDue(r, x)' <=> DeclineDue(r, x) \/ (r = n /\ last)
  <2> SUFFICES ASSUME NEW x, NEW r \in Node \cup {Start}
               PROVE  /\ AskDue(r, x)' <=> AskDue(r, x)
                      /\ DeclineDue(r, x)' <=> DeclineDue(r, x) \/ (r = n /\ last)
    OBVIOUS
  <2>1. AskDue(r, x)' <=> IF r = Start THEN started'
                          ELSE Asked(r)' /\ (x = Left(r) \/ left'[r] = Unanimous(r))
    BY <1>1, DuesPrimed
  <2>2. DeclineDue(r, x)' <=>
          r # Start /\ (Refused(r)' \/ (x = Right(r) /\ left'[r] \notin {NONE, Unanimous(r)}))
    BY <1>1, DuesPrimed
  <2>3. left' = left /\ started' = started
    BY <1>1
  <2> QED
    BY <1>3, <1>12, <2>1, <2>2, <2>3 DEF AskDue, DeclineDue
<1>15. \A x : ChildOf(x, n) => ~DeclineDue(n, x) /\ ~Declines(n, x)
  <2> SUFFICES ASSUME NEW x, ChildOf(x, n) PROVE ~DeclineDue(n, x)
    BY DEF DeclinesOK
  <2>1. ~IsLeaf(n)
    BY DEF ChildOf, Binary
  <2> QED
    BY <1>11, <1>13, <2>1 DEF DeclineDue
<1>16. StatusOK'
  <2> SUFFICES ASSUME NEW x \in Node
               PROVE  /\ notRun'[x] <= Len(Requestors(x))
                      /\ notRun'[x] = Len(Requestors(x)) /\ HasRequestor(x) => status'[x] # "NOT_STARTED"
                      /\ sent'[x] # << >> => Asked(x)'
                      /\ status'[x] = "COMPLETED" => sent'[x] # << >>
                      /\ IsLeaf(x) => /\ status'[x] \in {"NOT_STARTED", "SHOULD_RUN", "COMPLETED", "WILL_NOT_RUN"}
                                      /\ status'[x] = "SHOULD_RUN" => x \in pending'
                                      /\ status'[x] = "WILL_NOT_RUN" <=> Refused(x)'
                      /\ ~IsLeaf(x) => status'[x] \in {"NOT_STARTED", "IN_PROGRESS", "COMPLETED"}
    BY <1>1, SameGraph, SameRequestors DEF StatusOK
  <2>1. CASE x = n
    BY <1>1, <1>10, <1>11, <2>1
  <2>2. CASE x # n
    BY <1>1, <1>10, <1>12, <2>2 DEF StatusOK
  <2> QED
    BY <2>1, <2>2
<1>17. AsksOK'
  <2>1. \A x \in Node : \A r : RequestorOf(r, x) => r \in Node \cup {Start}
    BY <1>1, RequestorIndex
  <2>2. \A r, x : Asks(r, x) => x \in Node /\ RequestorOf(r, x)
    BY DEF CallsOK
  <2> QED
    BY <1>1, <1>8, <1>12, <1>14, <2>1, <2>2, SameGraph DEF AsksOK
<1>18. ASSUME NEW r, NEW x, Declines(r, x)'
       PROVE  DeclineDue(r, x)' /\ ~Twice(Call(r, x, "NO_REQUEST_COMING"), calls')
  <2>1. CASE Declines(r, x)
    <3>1. DeclineDue(r, x) /\ ~Twice(Call(r, x, "NO_REQUEST_COMING"), calls) /\ ChildOf(x, r)
      BY <2>1 DEF DeclinesOK, CallsOK
    <3>2. r \in Node /\ r # n
      BY <1>15, <2>1, <3>1 DEF ChildOf, Binary
    <3>3. ~In(Call(r, x, "NO_REQUEST_COMING"), p)
      BY <1>4, <3>2, CallFields
    <3> QED
      BY <1>2, <1>14, <3>1, <3>2, <3>3
  <2>2. CASE ~Declines(r, x)
    <3>1. last /\ ~IsLeaf(n) /\ r = n /\ x \in {Left(n), Right(n)}
      BY <1>8, <1>9, <1>18, <2>2
    <3>2. ~Twice(Call(r, x, "NO_REQUEST_COMING"), calls')
      BY <1>2, <1>5, <2>2 DEF Declines
    <3> QED
      BY <1>14, <3>1, <3>2
  <2> QED
    BY <2>1, <2>2
<1>19. ASSUME NEW x \in Node, x # n PROVE Decliners(x)' = Decliners(x)
  <2>1. ASSUME NEW r, RequestorOf(r, x)
        PROVE  DeclineDue(r, x)' /\ ~Declines(r, x)' <=> DeclineDue(r, x) /\ ~Declines(r, x)
    <3>1. r \in Node \cup {Start}
      BY <1>1, <2>1, RequestorIndex
    <3>2. CASE r = n
      <4>1. ChildOf(x, n) /\ Binary(n)
        BY <1>1, <1>3, <2>1, <3>2 DEF RequestorOf, ChildOf
      <4>2. ~IsLeaf(n) /\ x \in {Left(n), Right(n)}
        BY <4>1 DEF ChildOf, Binary
      <4> QED
        BY <1>8, <1>14, <1>15, <1>19, <3>1, <3>2, <4>1, <4>2
    <3>3. CASE r # n
      BY <1>8, <1>14, <1>19, <3>1, <3>3
    <3> QED
      BY <3>2, <3>3
  <2> QED
    BY <1>1, <2>1, SameDecliners
<1>20. Cardinality(Decliners(n)') = Cardinality(Decliners(n)) + 1
  <2>1. PICK k \in 1 .. Len(Requestors(n)) : Requestors(n)[k] = m
    BY <1>1, <1>3, RequestorIndex
  <2>2. \A i \in 1 .. Len(Requestors(n)) : Requestors(n)[i] = m => i = k
    BY <1>1, <1>3, <2>1, Requesting
  <2>3. k \notin Decliners(n)
    BY <1>1, <2>1 DEF Decliners
  <2>4. ASSUME NEW i PROVE i \in Decliners(n)' <=> i \in Decliners(n) \/ i = k
    <3>1. CASE i \in 1 .. Len(Requestors(n))
      <4>1. PICK r : r = Requestors(n)[i]
        OBVIOUS
      <4>2. RequestorOf(r, n) /\ r \in Node \cup {Start}
        BY <1>1, <3>1, <4>1, RequestorIndex
      <4>3. r # n
        BY <1>1, <1>3, <4>2, Numbered DEF RequestorOf, ChildOf, Binary
      <4>4. i \in Decliners(n)' <=> DeclineDue(r, n)' /\ ~Declines(r, n)'
        <5>1. i \in Decliners(n)' <=> \E x : x = r /\ DeclineDue(x, n)' /\ ~Declines(x, n)'
          BY <1>1, <3>1, <4>1, DuesPrimed
        <5>2. \E x : x = r
          OBVIOUS
        <5> QED
          BY <5>1, <5>2
      <4>5. i \in Decliners(n) <=> DeclineDue(r, n) /\ ~Declines(r, n)
        BY <3>1, <4>1 DEF Decliners
      <4>6. CASE r = m
        <5>1. i = k /\ DeclineDue(m, n)
          BY <1>1, <2>2, <3>1, <4>1, <4>6 DEF DeclinesOK
        <5> QED
          BY <1>9, <1>14, <4>4, <4>6, <5>1
      <4>7. CASE r # m
        <5>1. i # k
          BY <2>1, <4>1, <4>7
        <5> QED
          BY <1>8, <1>14, <4>2, <4>3, <4>4, <4>5, <4>7, <5>1
      <4> QED
        BY <4>6, <4>7
    <3>2. CASE i \notin 1 .. Len(Requestors(n))
      BY <1>1, <2>1, <3>2, DuesPrimed DEF Decliners
    <3> QED
      BY <3>1, <3>2
  <2>5. Decliners(n)' = Decliners(n) \cup {k}
    BY <2>4
  <2>6. IsFiniteSet(Decliners(n))
    BY <1>1, DeclinersCount
  <2> QED
    BY <2>3, <2>5, <2>6, FS_AddElement
<1>21. DeclinesOK'
  <2>1. ASSUME NEW x \in Node, ~Asked(x)' PROVE notRun'[x] = Cardinality(Decliners(x))'
    <3>1. notRun[x] = Cardinality(Decliners(x))
      BY <1>12, <2>1 DEF DeclinesOK
    <3>2. Cardinality(Decliners(x))' = Cardinality(Decliners(x)')
      OBVIOUS
    <3>3. CASE x = n
      BY <1>10, <1>20, <3>1, <3>2, <3>3
    <3>4. CASE x # n
      BY <1>10, <1>19, <3>1, <3>2, <3>4
    <3> QED
      BY <3>3, <3>4
  <2>2. \A r, x : Declines(r, x)' =>
          DeclineDue(r, x)' /\ ~Twice(Call(r, x, "NO_REQUEST_COMING"), calls)'
    BY <1>18, LinesPrimed
  <2> QED
    BY <1>1, <2>1, <2>2, SameGraph DEF DeclinesOK
<1>22. TopsFirst'
  BY <1>1, <1>12, SameGraph DEF TopsFirst
<1>23. AnswersOK'
  BY <1>1, <1>8, <1>12, AnswersKept
<1>24. FinishedOK'
  <2>1. Tree => \A x, d : Tells(x, Start, d)' => ~Twice(Call(x, Start, d), calls')
    <3> SUFFICES ASSUME Tree, NEW x, NEW d, Tells(x, Start, d)', Twice(Call(x, Start, d), calls')
                 PROVE  FALSE
      OBVIOUS
    <3>1. ~In(Call(x, Start, d), p)
      <4>1. ~IsLeaf(n) => Left(n) # Start /\ Right(n) # Start
        BY <1>1, Numbered DEF Binary
      <4> QED
        BY <1>4, <4>1, CallFields
    <3>2. Twice(Call(x, Start, d), calls)
      BY <1>2, <3>1
    <3>3. Tells(x, Start, d)
      BY <1>2, <3>1, LinesPrimed DEF Tells
    <3> QED
      BY <3>2, <3>3 DEF FinishedOK
  <2> QED
    BY <1>1, <1>8, <2>1, FinishedKept
<1> QED
  BY <1>16, <1>17, <1>21, <1>22, <1>23, <1>24
(* In a tree a node has one requestor and answers it once. *)
LEMMA AnswersOnce ==
  ASSUME Tree, NEW n \in Node, NEW d, NEW c
  PROVE  ~Twice(c, Answers(n, d))
<1>1. Len(Requestors(n)) = 1
  BY DEF Tree
<1>2. Answers(n, d) = [i \in 1 .. 1 |-> Call(n, Requestors(n)[i], d)]
  BY <1>1 DEF Answers
<1>3. Len(Answers(n, d)) = 1
  BY <1>2
<1>4. \A i, j \in 1 .. 1 : i = j
  OBVIOUS
<1> QED
  BY <1>3, <1>4 DEF Twice

LEMMA LeafRunsAsks ==
  ASSUME GraphIInv, GraphIInv', AskingInv, SharesBelowTops, NEW n \in Node, LeafRuns(n)
  PROVE  AskingInv'
<1> DEFINE d == verdict[n]
           p == Answers(n, verdict[n])
<1> USE DEF GraphIInv, AskingInv
<1>1. /\ calls = << >> /\ n \in pending /\ graph \in Graphs
      /\ IsLeaf(n) /\ d \in Decision /\ status[n] = "SHOULD_RUN" /\ sent[n] = << >>
      /\ UNCHANGED <<graph, verdict, notRun, answers, left, right, finished, started, round>>
      /\ pending' = pending \ {n}
      /\ started
  <2>1. calls = << >> /\ n \in pending /\ graph \in Graphs
    BY DEF LeafRuns, GraphTypeOK
  <2>2. IsLeaf(n) /\ status[n] = "SHOULD_RUN"
    BY <2>1 DEF GraphTypeOK, LeavesOK
  <2>3. d \in Decision
    BY <2>2 DEF GraphTypeOK
  <2>4. sent[n] = << >>
    BY <2>2 DEF SentOnce
  <2>5. started
    BY <2>1 DEF Idle
  <2> QED
    BY <2>1, <2>2, <2>3, <2>4, <2>5 DEF LeafRuns
<1>2. /\ p \in Seq(CallSet)
      /\ \A c : In(c, p) <=> \E r : RequestorOf(r, n) /\ c = Call(n, r, d)
      /\ Tree => \A c : ~Twice(c, p)
  BY <1>1, InAnswers, AnswersOnce
<1>3. /\ calls' = p
      /\ status' = [status EXCEPT ![n] = "COMPLETED"]
      /\ sent' = [sent EXCEPT ![n] = <<d>>]
  <2>1. p \o << >> = p
    BY <1>2
  <2>2. Append(sent[n], d) = <<d>>
    BY <1>1
  <2>3. calls' = p \o << >> /\ SetStatus(n, "COMPLETED")
        /\ sent' = [sent EXCEPT ![n] = Append(@, d)]
    BY <1>1 DEF LeafRuns, Send
  <2>4. sent' = [sent EXCEPT ![n] = <<d>>]
    BY <2>2, <2>3
  <2> QED
    BY <2>1, <2>3, <2>4 DEF SetStatus
<1>4. /\ \A x \in Node : x # n => status'[x] = status[x] /\ sent'[x] = sent[x]
      /\ status'[n] = "COMPLETED" /\ sent'[n] = <<d>> /\ sent'[n] # << >>
  BY <1>3 DEF GraphTypeOK
<1> HIDE DEF d, p
<1>5. \A i, j : /\ ~Asks(i, j)' /\ ~Declines(i, j)' /\ ~Asks(i, j) /\ ~Declines(i, j)
                /\ \A e : /\ Tells(i, j, e)' <=> i = n /\ e = d /\ RequestorOf(j, n)
                          /\ ~Tells(i, j, e)
  <2>1. \A i, j, w : In(Call(i, j, w), calls') <=> i = n /\ w = d /\ RequestorOf(j, n)
    BY <1>2, <1>3, CallFields
  <2>2. d # "REQUEST_DECISION" /\ d # "NO_REQUEST_COMING"
    BY <1>1 DEF Decision
  <2>3. \A c : ~In(c, calls)
    BY <1>1, ShortLines
  <2> QED
    BY <2>1, <2>2, <2>3, LinesPrimed DEF Asks, Declines, Tells
<1>6. Asked(n)
  <2>1. notRun[n] <= Len(Requestors(n)) /\ ~Refused(n)
    BY <1>1 DEF StatusOK
  <2>2. notRun[n] \in Nat /\ Len(Requestors(n)) \in Nat
    BY <1>1, RequestorIndex DEF GraphTypeOK
  <2> QED
    BY <1>1, <2>1, <2>2 DEF Asked, Refused
<1>7. \A x \in Node : (Asked(x)' <=> Asked(x)) /\ (Refused(x)' <=> Refused(x))
  BY <1>1, <1>4, DuesPrimed DEF Asked, Refused
<1>8. \A x : \A r \in Node \cup {Start} : AskDue(r, x)' <=> AskDue(r, x)
  BY <1>1, <1>7, DuesPrimed DEF AskDue
<1>9. StatusOK'
  <2> SUFFICES ASSUME NEW x \in Node
               PROVE  /\ notRun'[x] <= Len(Requestors(x))
                      /\ notRun'[x] = Len(Requestors(x)) /\ HasRequestor(x) => status'[x] # "NOT_STARTED"
                      /\ sent'[x] # << >> => Asked(x)'
                      /\ status'[x] = "COMPLETED" => sent'[x] # << >>
                      /\ IsLeaf(x) => /\ status'[x] \in {"NOT_STARTED", "SHOULD_RUN", "COMPLETED", "WILL_NOT_RUN"}
                                      /\ status'[x] = "SHOULD_RUN" => x \in pending'
                                      /\ status'[x] = "WILL_NOT_RUN" <=> Refused(x)'
                      /\ ~IsLeaf(x) => status'[x] \in {"NOT_STARTED", "IN_PROGRESS", "COMPLETED"}
    BY <1>1, SameGraph, SameRequestors DEF StatusOK
  <2>1. CASE x = n
    BY <1>1, <1>4, <1>6, <1>7, <2>1 DEF StatusOK
  <2>2. CASE x # n
    BY <1>1, <1>4, <1>7, <2>2 DEF StatusOK
  <2> QED
    BY <2>1, <2>2
<1>10. AsksOK'
  <2>1. \A x \in Node : \A r : RequestorOf(r, x) => r \in Node \cup {Start}
    BY <1>1, RequestorIndex
  <2> QED
    BY <1>1, <1>5, <1>7, <1>8, <2>1, SameGraph DEF AsksOK
<1>11. DeclinesOK'
  BY <1>1, <1>5, <1>7, DeclinesKept
<1>12. TopsFirst'
  <2>1. \A t \in Node : IsTop(t) => Asked(t)
    BY <1>1, <1>5 DEF AsksOK, RequestorOf, AskDue
  <2> QED
    BY <1>1, <1>7, <2>1, SameGraph DEF TopsFirst
<1>13. AnswersOK'
  <2>1. \A x \in Node : ~IsLeaf(x) /\ (left'[x] # NONE \/ right'[x] # NONE) => Asked(x)'
    BY <1>1, <1>7 DEF AnswersOK
  <2>2. \A x \in Node : ~IsLeaf(x) /\ sent'[x] = << >> =>
          /\ left'[x] \in {NONE, Unanimous(x)} /\ right'[x] \in {NONE, Unanimous(x)}
          /\ left'[x] = NONE \/ right'[x] = NONE
    BY <1>1, <1>4 DEF AnswersOK
  <2>3. \A i, j : Recorded(i, j)' = Recorded(i, j)
    BY <1>1, SameGraph DEF Recorded
  <2>4. ASSUME NEW i \in Node, NEW j, NEW e \in Decision, ChildOf(i, j), sent'[i] = <<e>>
        PROVE  Tells(i, j, e)' \/ Recorded(i, j)' = e
    <3>1. CASE i = n
      <4>1. e = d
        BY <1>4, <2>4, <3>1
      <4>2. RequestorOf(j, n)
        BY <2>4, <3>1 DEF RequestorOf
      <4> QED
        BY <1>5, <3>1, <4>1, <4>2
    <3>2. CASE i # n
      BY <1>4, <1>5, <2>3, <2>4, <3>2 DEF AnswersOK
    <3> QED
      BY <3>1, <3>2
  <2> QED
    BY <1>1, <2>1, <2>2, <2>4, SameGraph DEF AnswersOK, NONE
<1>14. FinishedOK'
  <2>1. ASSUME NEW x \in Node, IsTop(x)
        PROVE  (sent'[x] # << >> /\ \A e \in Decision : ~Tells(x, Start, e)')
                 <=> (sent[x] # << >> /\ \A e \in Decision : ~Tells(x, Start, e))
    <3>1. CASE x = n
      BY <1>1, <1>5, <2>1, <3>1 DEF RequestorOf
    <3>2. CASE x # n
      BY <1>4, <1>5, <3>2
    <3> QED
      BY <3>1, <3>2
  <2>2. Tree => \A x, e : Tells(x, Start, e)' => ~Twice(Call(x, Start, e), calls')
    BY <1>2, <1>3
  <2> QED
    BY <1>1, <2>1, <2>2, FinishedKept
<1> QED
  BY <1>9, <1>10, <1>11, <1>12, <1>13, <1>14
(* The answers of a node and the call that declines, each of them once.    *)
LEMMA AnswersThenOnce ==
  ASSUME graph \in Graphs, NEW n \in Node, ~IsLeaf(n), NEW d \in Decision,
         NEW e \in {<< >>, <<Call(n, Right(n), "NO_REQUEST_COMING")>>}
  PROVE  /\ \A c : In(c, Answers(n, d) \o e) <=>
              \/ e # << >> /\ c = Call(n, Right(n), "NO_REQUEST_COMING")
              \/ \E r : RequestorOf(r, n) /\ c = Call(n, r, d)
         /\ ~Twice(Call(n, Right(n), "NO_REQUEST_COMING"), Answers(n, d) \o e)
         /\ Tree => \A c : ~Twice(c, Answers(n, d) \o e)
<1> DEFINE A == Answers(n, d)
           x == Call(n, Right(n), "NO_REQUEST_COMING")
           t == A \o e
<1>1. /\ A \in Seq(CallSet)
      /\ \A c : In(c, A) <=> \E r : RequestorOf(r, n) /\ c = Call(n, r, d)
      /\ Tree => \A c : ~Twice(c, A)
  BY InAnswers, AnswersOnce
<1>2. /\ \A c : In(c, t) =>
           c = x \/ \E r : RequestorOf(r, n) /\ c = Call(n, r, d)
      /\ \A r : RequestorOf(r, n) => In(Call(n, r, d), t)
      /\ e # << >> => In(x, t)
  BY AnswersThen
<1>3. ~In(x, A)
  <2>1. d # "NO_REQUEST_COMING"
    BY DEF Decision
  <2> QED
    BY <1>1, <2>1, CallFields
<1>4. x \in CallSet
  BY Numbered, CallFields DEF Binary
<1> HIDE DEF A, x
<1>5. CASE e = << >>
  <2>1. t = A
    BY <1>1, <1>5
  <2>2. \A c : Twice(c, A) => In(c, A)
    BY DEF Twice, In
  <2> HIDE DEF t
  <2>3. \A c : In(c, t) <=> \E r : RequestorOf(r, n) /\ c = Call(n, r, d)
    BY <1>1, <2>1
  <2> QED
    BY <1>1, <1>3, <1>5, <2>1, <2>2, <2>3 DEF t, A, x
<1>6. CASE e # << >>
  <2>1. e = <<x>> /\ Len(e) = 1 /\ Len(A) \in Nat
    BY <1>1, <1>6, LenProperties DEF x
  <2>2. /\ Len(t) = Len(A) + 1 /\ t[Len(A) + 1] = x
        /\ \A i \in 1 .. Len(A) : t[i] = A[i]
    BY <1>1, <1>4, <2>1
  <2> HIDE DEF t
  <2>3. \A i \in 1 .. Len(t) : i \in 1 .. Len(A) \/ i = Len(A) + 1
    BY <2>1, <2>2
  <2>4. \A c : Twice(c, t) => Twice(c, A)
    <3> SUFFICES ASSUME NEW c, NEW i \in 1 .. Len(t), NEW j \in 1 .. Len(t),
                        i # j, t[i] = c, t[j] = c
                 PROVE  Twice(c, A)
      BY Zenon DEF Twice
    <3>1. CASE i \in 1 .. Len(A) /\ j \in 1 .. Len(A)
      BY <2>2, <3>1 DEF Twice
    <3>2. CASE i = Len(A) + 1 /\ j \in 1 .. Len(A)
      BY <1>3, <2>2, <3>2 DEF In
    <3>3. CASE i \in 1 .. Len(A) /\ j = Len(A) + 1
      BY <1>3, <2>2, <3>3 DEF In
    <3> QED
      BY <2>3, <3>1, <3>2, <3>3
  <2>5. ~Twice(x, t)
    BY <1>3, <2>4 DEF Twice, In
  <2> QED
    BY <1>1, <1>2, <1>6, <2>4, <2>5 DEF t, A, x
<1> QED
  BY <1>5, <1>6

(* What the decision d of its operand m makes of a node n in the first     *)
(* transition: it sends the decisions V, if any; it asks the right operand *)
(* or declines to, unless that one was asked by others.                    *)
LEMMA Deciding ==
  ASSUME GraphIInv, AskingInv, SharesBelowTops, round = 1,
         NEW d \in Decision, DecisionFromNode(d)
  PROVE  \E n, m \in Node : \E p \in Seq(CallSet), V \in SUBSET Decision, ask, decline \in BOOLEAN :
           /\ calls # << >> /\ calls \in Seq(CallSet) /\ graph \in Graphs /\ started
           /\ Head(calls) = Call(m, n, d) /\ calls' = p \o Tail(calls)
           /\ ~IsLeaf(n) /\ ChildOf(m, n) /\ m # n
           /\ sent[m] = <<d>> /\ Asked(n)
           /\ ~Twice(Call(m, n, d), calls) /\ Recorded(m, n) = NONE
           /\ left' = IF m = Left(n) THEN [left EXCEPT ![n] = d] ELSE left
           /\ right' = IF m = Left(n) THEN right ELSE [right EXCEPT ![n] = d]
           /\ UNCHANGED <<graph, verdict, notRun, pending, finished, started, round>>
           /\ V = {} => UNCHANGED <<status, sent>>
           /\ \A v \in V : /\ sent[n] = << >> /\ status[n] = "IN_PROGRESS"
                           /\ status' = [status EXCEPT ![n] = "COMPLETED"]
                           /\ sent' = [sent EXCEPT ![n] = <<v>>]
           /\ V = {} /\ sent[n] = << >> => left[n] = NONE /\ right[n] = NONE /\ d = Unanimous(n)
           /\ ask => m = Left(n) /\ d = Unanimous(n)
           /\ decline => m = Left(n) /\ d # Unanimous(n)
           /\ m = Left(n) /\ ~Asked(Right(n)) =>
                IF d = Unanimous(n) THEN ask ELSE decline
           /\ \A c : In(c, p) <=>
                \/ ask /\ c = Call(n, Right(n), "REQUEST_DECISION")
                \/ decline /\ c = Call(n, Right(n), "NO_REQUEST_COMING")
                \/ \E v \in V : \E r : RequestorOf(r, n) /\ c = Call(n, r, v)
           /\ ~Twice(Call(n, Right(n), "NO_REQUEST_COMING"), p)
           /\ Tree => \A c : ~Twice(c, p)
<1> USE DEF GraphIInv, AskingInv
<1>1. PICK n \in Node, m \in Node, p \in Seq(CallSet) :
        /\ calls # << >> /\ calls \in Seq(CallSet) /\ graph \in Graphs /\ started
        /\ Head(calls) = Call(m, n, d)
        /\ Binary(n) /\ ~IsLeaf(n) /\ m \in {Left(n), Right(n)} /\ m # n
        /\ sent[m] = <<d>> /\ Tells(m, n, d) /\ TopsReached
        /\ left' = IF m = Left(n) THEN [left EXCEPT ![n] = d] ELSE left
        /\ right' = IF m = Left(n) THEN right ELSE [right EXCEPT ![n] = d]
        /\ answers' = [answers EXCEPT ![n] = @ + 1]
        /\ UNCHANGED <<graph, verdict, notRun, pending, finished, started, round>>
        /\ calls' = p \o Tail(calls)
        /\ \/ Ignores(n, p)
           \/ AsksOn(n, m, d, p)
           \/ \E v, e : Settles(n, m, d, v, e, p)
  BY Told
<1>2. /\ ChildOf(m, n) /\ Left(n) # Right(n) /\ Right(n) \in Node /\ Left(n) \in Node
      /\ ChildOf(Right(n), n)
  BY <1>1, Sharing, Numbered DEF ChildOf
<1>3. Asked(n)
  <2>1. sent[m] # << >>
    BY <1>1
  <2>2. Asked(m)
    BY <1>1, <2>1 DEF StatusOK
  <2>3. PICK r : RequestorOf(r, m) /\ AskDue(r, m)
    BY <2>2 DEF AsksOK
  <2>4. IsTop(n) => Asked(n)
    BY <1>1, <2>1 DEF TopsFirst
  <2>5. n # Start /\ (IsTop(n) \/ r = n)
    BY <1>1, <1>2, <2>3, Sharing
  <2> QED
    BY <2>3, <2>4, <2>5 DEF AskDue
<1>4. status[n] = "IN_PROGRESS" <=> sent[n] = << >>
  <2>1. status[n] \in {"IN_PROGRESS", "COMPLETED"}
    BY <1>1, <1>3 DEF StatusOK, Asked
  <2>2. status[n] = "COMPLETED" => sent[n] # << >>
    BY DEF StatusOK
  <2>3. sent[n] # << >> => status[n] = "COMPLETED"
    BY DEF SentOnce
  <2> QED
    BY <2>1, <2>2, <2>3
<1>5. /\ Heard(n, Left(n), left[n])
      /\ Heard(n, Right(n), right[n])
      /\ answers[n] = (IF left[n] = NONE THEN 0 ELSE 1) + (IF right[n] = NONE THEN 0 ELSE 1)
      /\ sent[n] # << >> => Cause(n)
  BY <1>1, <1>2 DEF HeardOK
<1>6. ~Twice(Call(m, n, d), calls) /\ Recorded(m, n) = NONE
  BY <1>1, <1>5 DEF Heard, Recorded
<1>7. right[n] # NONE => Asked(Right(n))
  <2> SUFFICES ASSUME right[n] # NONE PROVE Asked(Right(n))
    OBVIOUS
  <2>1. sent[Right(n)] = <<right[n]>>
    BY <1>5 DEF Heard
  <2>2. sent[Right(n)] # << >>
    BY <2>1
  <2> QED
    BY <1>2, <2>2 DEF StatusOK
<1>8. Unanimous(n) # NONE /\ d # NONE
  BY DEF Unanimous, NONE, Decision
<1> DEFINE rest(q, V, ask, decline) ==
      /\ V = {} => UNCHANGED <<status, sent>>
      /\ \A v \in V : /\ sent[n] = << >> /\ status[n] = "IN_PROGRESS"
                      /\ status' = [status EXCEPT ![n] = "COMPLETED"]
                      /\ sent' = [sent EXCEPT ![n] = <<v>>]
      /\ V = {} /\ sent[n] = << >> => left[n] = NONE /\ right[n] = NONE /\ d = Unanimous(n)
      /\ ask => m = Left(n) /\ d = Unanimous(n)
      /\ decline => m = Left(n) /\ d # Unanimous(n)
      /\ m = Left(n) /\ ~Asked(Right(n)) =>
           IF d = Unanimous(n) THEN ask ELSE decline
      /\ \A c : In(c, q) <=>
           \/ ask /\ c = Call(n, Right(n), "REQUEST_DECISION")
           \/ decline /\ c = Call(n, Right(n), "NO_REQUEST_COMING")
           \/ \E v \in V : \E r : RequestorOf(r, n) /\ c = Call(n, r, v)
      /\ ~Twice(Call(n, Right(n), "NO_REQUEST_COMING"), q)
      /\ Tree => \A c : ~Twice(c, q)
<1>9. CASE Ignores(n, p)
  <2>1. sent[n] # << >> /\ p = << >> /\ UNCHANGED <<status, sent>>
    BY <1>4, <1>9 DEF Ignores
  <2>2. m = Left(n) => Asked(Right(n))
    BY <1>5, <1>6, <1>7, <1>8, <2>1 DEF Cause, Recorded
  <2>3. /\ \A c : ~In(c, p) /\ ~Twice(c, p)
    BY <2>1, ShortLines
  <2>4. rest(p, {}, FALSE, FALSE)
    BY <2>1, <2>2, <2>3
  <2> HIDE DEF rest
  <2>5. \E V \in SUBSET Decision, ask, decline \in BOOLEAN : rest(p, V, ask, decline)
    BY <2>4
  <2> QED
    BY <1>1, <1>2, <1>3, <1>6, <2>5 DEF rest
<1>10. CASE AsksOn(n, m, d, p)
  <2>1. /\ status[n] = "IN_PROGRESS" /\ answers[n] + 1 # 2 /\ ShortCircuit(n, d) = NONE
        /\ p = IF m = Left(n) THEN <<Call(n, Right(n), "REQUEST_DECISION")>> ELSE << >>
        /\ UNCHANGED <<status, sent>>
    BY <1>10 DEF AsksOn
  <2>2. d = Unanimous(n) /\ sent[n] = << >>
    BY <1>1, <1>4, <2>1, Settling
  <2>3. left[n] = NONE /\ right[n] = NONE
    BY <1>1, <1>5, <1>6, <2>1 DEF Recorded
  <2> DEFINE ask == m = Left(n)
  <2>4. /\ \A c : In(c, p) <=> ask /\ c = Call(n, Right(n), "REQUEST_DECISION")
        /\ \A c : ~Twice(c, p)
    BY <2>1, ShortLines
  <2>5. rest(p, {}, ask, FALSE) /\ ask \in BOOLEAN
    BY <2>1, <2>2, <2>3, <2>4
  <2> HIDE DEF rest, ask
  <2>6. \E V \in SUBSET Decision, a, decline \in BOOLEAN : rest(p, V, a, decline)
    BY <2>5
  <2> QED
    BY <1>1, <1>2, <1>3, <1>6, <2>6 DEF rest
<1>11. CASE \E v, e : Settles(n, m, d, v, e, p)
  <2> DEFINE x == Call(n, Right(n), "NO_REQUEST_COMING")
             decline == answers[n] + 1 # 2 /\ m = Left(n)
  <2>1. PICK v \in Decision, e \in {<< >>, <<x>>} :
          /\ status[n] = "IN_PROGRESS"
          /\ answers[n] + 1 # 2 => ShortCircuit(n, d) # NONE
          /\ e = IF decline THEN <<x>> ELSE << >>
          /\ p = Answers(n, v) \o e
          /\ status' = [status EXCEPT ![n] = "COMPLETED"]
          /\ sent' = [sent EXCEPT ![n] = <<v>>]
    BY <1>11 DEF Settles
  <2>2. /\ \A c : In(c, p) <=>
             \/ e # << >> /\ c = x
             \/ \E r : RequestorOf(r, n) /\ c = Call(n, r, v)
        /\ ~Twice(x, p)
        /\ Tree => \A c : ~Twice(c, p)
    <3>1. e \in {<< >>, <<Call(n, Right(n), "NO_REQUEST_COMING")>>}
      BY <2>1
    <3> DEFINE q == Answers(n, v) \o e
    <3>2. /\ \A c : In(c, q) <=>
               \/ e # << >> /\ c = Call(n, Right(n), "NO_REQUEST_COMING")
               \/ \E r : RequestorOf(r, n) /\ c = Call(n, r, v)
          /\ ~Twice(Call(n, Right(n), "NO_REQUEST_COMING"), q)
          /\ Tree => \A c : ~Twice(c, q)
      BY <1>1, <3>1, AnswersThenOnce
    <3>3. p = q
      BY <2>1
    <3> HIDE DEF q
    <3> QED
      BY <3>2, <3>3
  <2>3. e # << >> <=> decline
    BY <2>1
  <2>4. answers[n] + 1 # 2 => d # Unanimous(n)
    BY <1>1, <2>1, Settling
  <2>5. answers[n] + 1 = 2 /\ m = Left(n) => Asked(Right(n))
    BY <1>1, <1>5, <1>6, <1>7 DEF Recorded
  <2>6. decline \in BOOLEAN /\ (decline => m = Left(n) /\ d # Unanimous(n))
        /\ (m = Left(n) /\ ~Asked(Right(n)) => d # Unanimous(n) /\ decline)
    BY <2>4, <2>5
  <2>7. sent[n] = << >>
    BY <1>4, <2>1
  <2> HIDE DEF decline, x
  <2>8. rest(p, {v}, FALSE, decline)
    <3>1. {v} # {} /\ \A w : w \in {v} <=> w = v
      OBVIOUS
    <3>2. \A c : In(c, p) <=>
            \/ FALSE /\ c = Call(n, Right(n), "REQUEST_DECISION")
            \/ decline /\ c = Call(n, Right(n), "NO_REQUEST_COMING")
            \/ \E w \in {v} : \E r : RequestorOf(r, n) /\ c = Call(n, r, w)
      BY <2>2, <2>3, Zenon DEF x
    <3>3. /\ {v} = {} => UNCHANGED <<status, sent>>
          /\ \A w \in {v} : /\ sent[n] = << >> /\ status[n] = "IN_PROGRESS"
                            /\ status' = [status EXCEPT ![n] = "COMPLETED"]
                            /\ sent' = [sent EXCEPT ![n] = <<w>>]
      BY <2>1, <2>7
    <3>4. /\ decline => m = Left(n) /\ d # Unanimous(n)
          /\ m = Left(n) /\ ~Asked(Right(n)) =>
               IF d = Unanimous(n) THEN FALSE ELSE decline
      BY <2>6
    <3>5. ~Twice(Call(n, Right(n), "NO_REQUEST_COMING"), p) /\ (Tree => \A c : ~Twice(c, p))
      BY <2>2 DEF x
    <3> QED
      BY <3>1, <3>2, <3>3, <3>4, <3>5, Zenon
  <2>9. {v} \in SUBSET Decision
    BY <2>1
  <2> HIDE DEF rest
  <2>10. \E V \in SUBSET Decision, a, b \in BOOLEAN : rest(p, V, a, b)
    BY <2>6, <2>8, <2>9
  <2> QED
    BY <1>1, <1>2, <1>3, <1>6, <2>10 DEF rest
<1> QED
  BY <1>1, <1>9, <1>10, <1>11
LEMMA DecisionFromNodeAsks ==
  ASSUME GraphIInv, GraphIInv', AskingInv, SharesBelowTops, round = 1,
         NEW d \in Decision, DecisionFromNode(d)
  PROVE  AskingInv'
<1> USE DEF GraphIInv, AskingInv
<1>1. PICK n \in Node, m \in Node :
        \E p \in Seq(CallSet), V \in SUBSET Decision, ask, decline \in BOOLEAN :
           /\ calls # << >> /\ calls \in Seq(CallSet) /\ graph \in Graphs /\ started
           /\ Head(calls) = Call(m, n, d) /\ calls' = p \o Tail(calls)
           /\ ~IsLeaf(n) /\ ChildOf(m, n) /\ m # n
           /\ sent[m] = <<d>> /\ Asked(n)
           /\ ~Twice(Call(m, n, d), calls) /\ Recorded(m, n) = NONE
           /\ left' = IF m = Left(n) THEN [left EXCEPT ![n] = d] ELSE left
           /\ right' = IF m = Left(n) THEN right ELSE [right EXCEPT ![n] = d]
           /\ UNCHANGED <<graph, verdict, notRun, pending, finished, started, round>>
           /\ V = {} => UNCHANGED <<status, sent>>
           /\ \A v \in V : /\ sent[n] = << >> /\ status[n] = "IN_PROGRESS"
                           /\ status' = [status EXCEPT ![n] = "COMPLETED"]
                           /\ sent' = [sent EXCEPT ![n] = <<v>>]
           /\ V = {} /\ sent[n] = << >> => left[n] = NONE /\ right[n] = NONE /\ d = Unanimous(n)
           /\ ask => m = Left(n) /\ d = Unanimous(n)
           /\ decline => m = Left(n) /\ d # Unanimous(n)
           /\ m = Left(n) /\ ~Asked(Right(n)) =>
                IF d = Unanimous(n) THEN ask ELSE decline
           /\ \A c : In(c, p) <=>
                \/ ask /\ c = Call(n, Right(n), "REQUEST_DECISION")
                \/ decline /\ c = Call(n, Right(n), "NO_REQUEST_COMING")
                \/ \E v \in V : \E r : RequestorOf(r, n) /\ c = Call(n, r, v)
           /\ ~Twice(Call(n, Right(n), "NO_REQUEST_COMING"), p)
           /\ Tree => \A c : ~Twice(c, p)
  BY Deciding
<1>2. PICK p \in Seq(CallSet), V \in SUBSET Decision, ask \in BOOLEAN, decline \in BOOLEAN :
           /\ calls # << >> /\ calls \in Seq(CallSet) /\ graph \in Graphs /\ started
           /\ Head(calls) = Call(m, n, d) /\ calls' = p \o Tail(calls)
           /\ ~IsLeaf(n) /\ ChildOf(m, n) /\ m # n
           /\ sent[m] = <<d>> /\ Asked(n)
           /\ ~Twice(Call(m, n, d), calls) /\ Recorded(m, n) = NONE
           /\ left' = IF m = Left(n) THEN [left EXCEPT ![n] = d] ELSE left
           /\ right' = IF m = Left(n) THEN right ELSE [right EXCEPT ![n] = d]
           /\ UNCHANGED <<graph, verdict, notRun, pending, finished, started, round>>
           /\ V = {} => UNCHANGED <<status, sent>>
           /\ \A v \in V : /\ sent[n] = << >> /\ status[n] = "IN_PROGRESS"
                           /\ status' = [status EXCEPT ![n] = "COMPLETED"]
                           /\ sent' = [sent EXCEPT ![n] = <<v>>]
           /\ V = {} /\ sent[n] = << >> => left[n] = NONE /\ right[n] = NONE /\ d = Unanimous(n)
           /\ ask => m = Left(n) /\ d = Unanimous(n)
           /\ decline => m = Left(n) /\ d # Unanimous(n)
           /\ m = Left(n) /\ ~Asked(Right(n)) =>
                IF d = Unanimous(n) THEN ask ELSE decline
           /\ \A c : In(c, p) <=>
                \/ ask /\ c = Call(n, Right(n), "REQUEST_DECISION")
                \/ decline /\ c = Call(n, Right(n), "NO_REQUEST_COMING")
                \/ \E v \in V : \E r : RequestorOf(r, n) /\ c = Call(n, r, v)
           /\ ~Twice(Call(n, Right(n), "NO_REQUEST_COMING"), p)
           /\ Tree => \A c : ~Twice(c, p)
  BY <1>1, Zenon
<1>3. /\ \A c : In(c, calls) => c = Head(calls) \/ In(c, calls')
      /\ \A c : In(c, calls') => In(c, p) \/ In(c, calls)
      /\ \A c : In(c, p) => In(c, calls')
      /\ \A c : Twice(c, calls') /\ ~Twice(c, calls) => In(c, p)
      /\ \A c : Twice(c, calls') /\ ~Twice(c, p) => In(c, calls)
  BY <1>2, NextLine
<1>4. /\ Left(n) # Right(n) /\ Right(n) \in Node /\ Left(n) \in Node /\ n # Start
      /\ ChildOf(Right(n), n) /\ RequestorOf(n, Right(n)) /\ m \in {Left(n), Right(n)}
      /\ \A x : ChildOf(x, n) <=> x \in {Left(n), Right(n)}
  <2>1. Binary(n)
    BY <1>2 DEF ChildOf
  <2> QED
    BY <1>2, <2>1, Sharing, Numbered DEF ChildOf, RequestorOf
<1>5. "REQUEST_DECISION" \notin Decision /\ "NO_REQUEST_COMING" \notin Decision
      /\ Unanimous(n) # NONE /\ d # NONE
  BY DEF Decision, Unanimous, NONE
<1>6. \A i, j, w :
        /\ In(Call(i, j, w), calls') =>
             \/ In(Call(i, j, w), calls)
             \/ ask /\ i = n /\ j = Right(n) /\ w = "REQUEST_DECISION"
             \/ decline /\ i = n /\ j = Right(n) /\ w = "NO_REQUEST_COMING"
             \/ i = n /\ w \in V /\ RequestorOf(j, n)
        /\ In(Call(i, j, w), calls) =>
             In(Call(i, j, w), calls') \/ (i = m /\ j = n /\ w = d)
  <2>1. \A i, j, w : In(Call(i, j, w), p) =>
             \/ ask /\ i = n /\ j = Right(n) /\ w = "REQUEST_DECISION"
             \/ decline /\ i = n /\ j = Right(n) /\ w = "NO_REQUEST_COMING"
             \/ i = n /\ w \in V /\ RequestorOf(j, n)
    <3> SUFFICES ASSUME NEW i, NEW j, NEW w, In(Call(i, j, w), p)
                 PROVE  \/ ask /\ i = n /\ j = Right(n) /\ w = "REQUEST_DECISION"
                        \/ decline /\ i = n /\ j = Right(n) /\ w = "NO_REQUEST_COMING"
                        \/ i = n /\ w \in V /\ RequestorOf(j, n)
      OBVIOUS
    <3>1. \/ ask /\ Call(i, j, w) = Call(n, Right(n), "REQUEST_DECISION")
          \/ decline /\ Call(i, j, w) = Call(n, Right(n), "NO_REQUEST_COMING")
          \/ \E v \in V : \E r : RequestorOf(r, n) /\ Call(i, j, w) = Call(n, r, v)
      BY <1>2
    <3> QED
      BY <3>1, CallFields
  <2>2. \A i, j, w : Call(i, j, w) = Head(calls) => i = m /\ j = n /\ w = d
    BY <1>2, CallFields
  <2> QED
    BY <1>3, <2>1, <2>2
<1>7. /\ ask => In(Call(n, Right(n), "REQUEST_DECISION"), calls')
      /\ decline => In(Call(n, Right(n), "NO_REQUEST_COMING"), calls')
      /\ \A v \in V : \A r : RequestorOf(r, n) => In(Call(n, r, v), calls')
  <2>1. /\ ask => In(Call(n, Right(n), "REQUEST_DECISION"), p)
        /\ decline => In(Call(n, Right(n), "NO_REQUEST_COMING"), p)
        /\ \A v \in V : \A r : RequestorOf(r, n) => In(Call(n, r, v), p)
    BY <1>2
  <2> QED
    BY <1>3, <2>1
<1>8. \A i, j : /\ Asks(i, j)' <=> Asks(i, j) \/ (ask /\ i = n /\ j = Right(n))
                /\ Declines(i, j)' <=> Declines(i, j) \/ (decline /\ i = n /\ j = Right(n))
  BY <1>5, <1>6, <1>7, LinesPrimed DEF Asks, Declines
<1>9. \A i, j : \A e \in Decision :
        /\ Tells(i, j, e)' => Tells(i, j, e) \/ (i = n /\ e \in V /\ RequestorOf(j, n))
        /\ Tells(i, j, e) => Tells(i, j, e)' \/ (i = m /\ j = n /\ e = d)
        /\ i = n /\ e \in V /\ RequestorOf(j, n) => Tells(i, j, e)'
  BY <1>5, <1>6, <1>7, LinesPrimed DEF Tells
<1>10. /\ \A x \in Node : x # n => status'[x] = status[x] /\ sent'[x] = sent[x]
       /\ V = {} => status' = status /\ sent' = sent
       /\ V # {} => sent[n] = << >> /\ status[n] = "IN_PROGRESS" /\ status'[n] = "COMPLETED"
       /\ \A v \in V : sent'[n] = <<v>> /\ sent'[n] # << >>
  <2>1. DOMAIN status = Node /\ DOMAIN sent = Node
    BY DEF GraphTypeOK
  <2>2. CASE V = {}
    BY <1>2, <2>2
  <2>3. ASSUME NEW v \in V
        PROVE  /\ \A x \in Node : x # n => status'[x] = status[x] /\ sent'[x] = sent[x]
               /\ sent[n] = << >> /\ status[n] = "IN_PROGRESS" /\ status'[n] = "COMPLETED"
               /\ sent'[n] = <<v>> /\ sent'[n] # << >>
    <3>1. /\ sent[n] = << >> /\ status[n] = "IN_PROGRESS"
          /\ status' = [status EXCEPT ![n] = "COMPLETED"]
          /\ sent' = [sent EXCEPT ![n] = <<v>>]
      BY <1>2
    <3> QED
      BY <2>1, <3>1
  <2> QED
    BY <2>2, <2>3
<1>11. \A x \in Node : (Asked(x)' <=> Asked(x)) /\ (Refused(x)' <=> Refused(x))
  <2>1. \A x \in Node : status'[x] # "NOT_STARTED" <=> status[x] # "NOT_STARTED"
    BY <1>10
  <2> QED
    BY <1>2, <2>1, DuesPrimed DEF Asked, Refused
<1>12. /\ \A x \in Node : x # n => left'[x] = left[x] /\ right'[x] = right[x]
       /\ m = Left(n) => left[n] = NONE /\ left'[n] = d /\ right'[n] = right[n]
       /\ m # Left(n) => right[n] = NONE /\ right'[n] = d /\ left' = left
  <2>1. /\ left \in [Node -> Decision \cup {NONE}]
        /\ right \in [Node -> Decision \cup {NONE}]
    BY DEF GraphTypeOK
  <2>2. CASE m = Left(n)
    <3>1. left' = [left EXCEPT ![n] = d] /\ right' = right /\ left[n] = NONE
      BY <1>2, <2>2 DEF Recorded
    <3> QED
      BY <2>1, <2>2, <3>1
  <2>3. CASE m # Left(n)
    <3>1. right' = [right EXCEPT ![n] = d] /\ left' = left /\ right[n] = NONE
      BY <1>2, <2>3 DEF Recorded
    <3> QED
      BY <2>1, <2>3, <3>1
  <2> QED
    BY <2>2, <2>3
<1>13. ~Refused(n)
  BY <1>2, RequestorIndex DEF Asked, Refused
<1>14. \A x : \A r \in Node \cup {Start} :
         /\ AskDue(r, x) => AskDue(r, x)'
         /\ AskDue(r, x)' => AskDue(r, x) \/ (r = n /\ m = Left(n) /\ d = Unanimous(n) /\ x # Left(n))
         /\ r = n /\ m = Left(n) /\ d = Unanimous(n) => AskDue(r, x)'
  <2> SUFFICES ASSUME NEW x, NEW r \in Node \cup {Start}
               PROVE  /\ AskDue(r, x) => AskDue(r, x)'
                      /\ AskDue(r, x)' => AskDue(r, x) \/ (r = n /\ m = Left(n) /\ d = Unanimous(n) /\ x # Left(n))
                      /\ r = n /\ m = Left(n) /\ d = Unanimous(n) => AskDue(r, x)'
    OBVIOUS
  <2>1. AskDue(r, x)' <=> IF r = Start THEN started'
                          ELSE Asked(r)' /\ (x = Left(r) \/ left'[r] = Unanimous(r))
    BY <1>2, DuesPrimed
  <2>2. AskDue(r, x) <=> IF r = Start THEN started
                         ELSE Asked(r) /\ (x = Left(r) \/ left[r] = Unanimous(r))
    BY DEF AskDue
  <2>3. started' = started
    BY <1>2
  <2>4. CASE r = n
    BY <1>2, <1>4, <1>5, <1>11, <1>12, <2>1, <2>2, <2>3, <2>4
  <2>5. CASE r # n
    BY <1>11, <1>12, <2>1, <2>2, <2>3, <2>5
  <2> QED
    BY <2>4, <2>5
<1>15. \A x : \A r \in Node \cup {Start} :
         DeclineDue(r, x)' <=>
           DeclineDue(r, x) \/ (r = n /\ m = Left(n) /\ d # Unanimous(n) /\ x = Right(n))
  <2> SUFFICES ASSUME NEW x, NEW r \in Node \cup {Start}
               PROVE  DeclineDue(r, x)' <=>
                        DeclineDue(r, x) \/ (r = n /\ m = Left(n) /\ d # Unanimous(n) /\ x = Right(n))
    OBVIOUS
  <2>1. DeclineDue(r, x)' <=>
          r # Start /\ (Refused(r)' \/ (x = Right(r) /\ left'[r] \notin {NONE, Unanimous(r)}))
    BY <1>2, DuesPrimed
  <2>2. DeclineDue(r, x) <=>
          r # Start /\ (Refused(r) \/ (x = Right(r) /\ left[r] \notin {NONE, Unanimous(r)}))
    BY DEF DeclineDue
  <2>3. CASE r = n
    BY <1>2, <1>4, <1>5, <1>11, <1>12, <2>1, <2>2, <2>3
  <2>4. CASE r # n
    BY <1>11, <1>12, <2>1, <2>2, <2>4
  <2> QED
    BY <2>3, <2>4
<1>16. decline => ~Declines(n, Right(n))
  <2> SUFFICES ASSUME decline, DeclineDue(n, Right(n)) PROVE FALSE
    BY DEF DeclinesOK
  <2>1. left[n] = NONE
    BY <1>2, <1>12
  <2> QED
    BY <1>13, <2>1 DEF DeclineDue
<1>17. StatusOK'
  <2> SUFFICES ASSUME NEW x \in Node
               PROVE  /\ notRun'[x] <= Len(Requestors(x))
                      /\ notRun'[x] = Len(Requestors(x)) /\ HasRequestor(x) => status'[x] # "NOT_STARTED"
                      /\ sent'[x] # << >> => Asked(x)'
                      /\ status'[x] = "COMPLETED" => sent'[x] # << >>
                      /\ IsLeaf(x) => /\ status'[x] \in {"NOT_STARTED", "SHOULD_RUN", "COMPLETED", "WILL_NOT_RUN"}
                                      /\ status'[x] = "SHOULD_RUN" => x \in pending'
                                      /\ status'[x] = "WILL_NOT_RUN" <=> Refused(x)'
                      /\ ~IsLeaf(x) => status'[x] \in {"NOT_STARTED", "IN_PROGRESS", "COMPLETED"}
    BY <1>2, SameGraph, SameRequestors DEF StatusOK
  <2>1. CASE V = {} \/ x # n
    BY <1>2, <1>10, <1>11, <2>1 DEF StatusOK
  <2>2. CASE V # {} /\ x = n
    BY <1>2, <1>10, <1>11, <2>2 DEF StatusOK
  <2> QED
    BY <2>1, <2>2
<1>18. AsksOK'
  <2>1. \A x \in Node : \A r : RequestorOf(r, x) => r \in Node \cup {Start}
    BY <1>2, RequestorIndex
  <2>2. ASSUME NEW x \in Node, NEW r, RequestorOf(r, x), AskDue(r, x)'
        PROVE  Asks(r, x)' \/ Asked(x)'
    <3>1. CASE AskDue(r, x)
      BY <1>8, <1>11, <2>2, <3>1 DEF AsksOK
    <3>2. CASE ~AskDue(r, x)
      <4>1. r = n /\ m = Left(n) /\ d = Unanimous(n) /\ x # Left(n)
        BY <1>14, <2>1, <2>2, <3>2
      <4>2. x = Right(n)
        BY <1>4, <2>2, <4>1 DEF RequestorOf
      <4> QED
        BY <1>2, <1>4, <1>8, <1>11, <4>1, <4>2
    <3> QED
      BY <3>1, <3>2
  <2>3. ASSUME NEW r, NEW x, Asks(r, x)' PROVE AskDue(r, x)'
    <3>1. CASE Asks(r, x)
      <4>1. AskDue(r, x) /\ x \in Node /\ RequestorOf(r, x)
        BY <3>1 DEF AsksOK, CallsOK
      <4> QED
        BY <1>14, <2>1, <4>1
    <3>2. CASE ~Asks(r, x)
      BY <1>2, <1>8, <1>14, <2>3, <3>2
    <3> QED
      BY <3>1, <3>2
  <2>4. ASSUME NEW x \in Node, Asked(x)' PROVE \E r : RequestorOf(r, x) /\ AskDue(r, x)'
    <3>1. Asked(x)
      BY <1>11, <2>4
    <3> QED
      BY <1>14, <2>1, <3>1 DEF AsksOK
  <2> QED
    BY <1>2, <2>2, <2>3, <2>4, SameGraph DEF AsksOK
<1>19. ASSUME NEW r, NEW x, Declines(r, x)'
       PROVE  DeclineDue(r, x)' /\ ~Twice(Call(r, x, "NO_REQUEST_COMING"), calls')
  <2> DEFINE c == Call(r, x, "NO_REQUEST_COMING")
  <2>1. In(c, p) => decline /\ r = n /\ x = Right(n)
    <3>1. In(c, p) =>
            \/ ask /\ c = Call(n, Right(n), "REQUEST_DECISION")
            \/ decline /\ c = Call(n, Right(n), "NO_REQUEST_COMING")
            \/ \E v \in V : \E q : RequestorOf(q, n) /\ c = Call(n, q, v)
      BY <1>2
    <3> QED
      BY <1>5, <3>1, CallFields
  <2>2. CASE Declines(r, x)
    <3>1. DeclineDue(r, x) /\ ~Twice(c, calls) /\ ChildOf(x, r)
      BY <2>2 DEF DeclinesOK, CallsOK
    <3>2. r \in Node
      BY <3>1 DEF ChildOf, Binary
    <3>3. ~In(c, p)
      BY <1>16, <2>1, <2>2
    <3> QED
      BY <1>3, <1>15, <3>1, <3>2, <3>3
  <2>3. CASE ~Declines(r, x)
    <3>1. decline /\ r = n /\ x = Right(n)
      BY <1>8, <1>19, <2>3
    <3>2. ~Twice(c, calls')
      <4>1. ~Twice(c, p)
        BY <1>2, <3>1
      <4>2. ~In(c, calls)
        BY <2>3 DEF Declines
      <4> QED
        BY <1>3, <4>1, <4>2
    <3> QED
      BY <1>2, <1>15, <3>1, <3>2
  <2> QED
    BY <2>2, <2>3
<1>20. ASSUME NEW x \in Node, ~Asked(x) PROVE Decliners(x)' = Decliners(x)
  <2>1. ASSUME NEW r, RequestorOf(r, x)
        PROVE  DeclineDue(r, x)' /\ ~Declines(r, x)' <=> DeclineDue(r, x) /\ ~Declines(r, x)
    <3>1. r \in Node \cup {Start}
      BY <1>2, <2>1, RequestorIndex
    <3>2. CASE r = n /\ x = Right(n)
      <4>1. CASE m = Left(n) /\ d # Unanimous(n)
        <5>1. decline /\ Declines(r, x)'
          BY <1>2, <1>8, <1>20, <3>2, <4>1
        <5>2. ~DeclineDue(r, x)
          BY <1>12, <1>13, <3>2, <4>1 DEF DeclineDue
        <5> QED
          BY <5>1, <5>2
      <4>2. CASE ~(m = Left(n) /\ d # Unanimous(n))
        BY <1>2, <1>8, <1>15, <3>1, <4>2
      <4> QED
        BY <4>1, <4>2
    <3>3. CASE ~(r = n /\ x = Right(n))
      BY <1>8, <1>15, <3>1, <3>3
    <3> QED
      BY <3>2, <3>3
  <2> QED
    BY <1>2, <2>1, SameDecliners
<1>21. DeclinesOK'
  <2>1. ASSUME NEW x \in Node, ~Asked(x)' PROVE notRun'[x] = Cardinality(Decliners(x))'
    <3>1. notRun[x] = Cardinality(Decliners(x)) /\ ~Asked(x)
      BY <1>11, <2>1 DEF DeclinesOK
    <3>2. Cardinality(Decliners(x))' = Cardinality(Decliners(x)')
      OBVIOUS
    <3> QED
      BY <1>2, <1>20, <3>1, <3>2
  <2>2. \A r, x : Declines(r, x)' =>
          DeclineDue(r, x)' /\ ~Twice(Call(r, x, "NO_REQUEST_COMING"), calls)'
    BY <1>19, LinesPrimed
  <2> QED
    BY <1>2, <2>1, <2>2, SameGraph DEF DeclinesOK
<1>22. TopsFirst'
  <2>1. sent[m] # << >>
    BY <1>2
  <2> QED
    BY <1>2, <1>11, <2>1, SameGraph DEF TopsFirst
<1>23. AnswersOK'
  <2>1. \A x \in Node : ~IsLeaf(x) /\ (left'[x] # NONE \/ right'[x] # NONE) => Asked(x)'
    BY <1>2, <1>11, <1>12 DEF AnswersOK
  <2>2. ASSUME NEW x \in Node, ~IsLeaf(x), sent'[x] = << >>
        PROVE  /\ left'[x] \in {NONE, Unanimous(x)} /\ right'[x] \in {NONE, Unanimous(x)}
               /\ left'[x] = NONE \/ right'[x] = NONE
    <3>1. CASE x = n
      BY <1>2, <1>10, <1>12, <2>2, <3>1
    <3>2. CASE x # n
      BY <1>10, <1>12, <2>2, <3>2 DEF AnswersOK
    <3> QED
      BY <3>1, <3>2
  <2>3. \A i, j : Recorded(i, j)' = IF i = Left(j) THEN left'[j] ELSE right'[j]
    BY <1>2, SameGraph DEF Recorded
  <2>4. ASSUME NEW i \in Node, NEW j, NEW e \in Decision, ChildOf(i, j), sent'[i] = <<e>>
        PROVE  Tells(i, j, e)' \/ Recorded(i, j)' = e
    <3>1. CASE i = n /\ V # {}
      <4>1. e \in V
        <5>1. PICK v \in V : sent'[n] = <<v>>
          BY <1>10, <3>1
        <5>2. v = e
          BY <2>4, <3>1, <5>1
        <5> QED
          BY <5>1, <5>2
      <4>2. RequestorOf(j, n)
        BY <2>4, <3>1 DEF RequestorOf
      <4> QED
        BY <1>9, <3>1, <4>1, <4>2
    <3>2. CASE ~(i = n /\ V # {})
      <4>1. sent[i] = <<e>> /\ j \in Node
        BY <1>10, <2>4, <3>2 DEF ChildOf, Binary
      <4>2. Tells(i, j, e) \/ Recorded(i, j) = e
        BY <2>4, <4>1 DEF AnswersOK
      <4>3. CASE i = m /\ j = n
        <5>1. e = d
          BY <1>2, <4>1, <4>3
        <5>2. Recorded(i, j)' = d
          BY <1>12, <2>3, <4>3
        <5> QED
          BY <5>1, <5>2
      <4>4. CASE ~(i = m /\ j = n) /\ Tells(i, j, e)
        BY <1>9, <4>4
      <4>5. CASE ~(i = m /\ j = n) /\ Recorded(i, j) = e
        <5>1. j # n => Recorded(i, j)' = Recorded(i, j)
          BY <1>12, <2>3, <4>1 DEF Recorded
        <5>2. j = n => Recorded(i, j)' = Recorded(i, j)
          BY <1>4, <1>12, <2>3, <2>4, <4>5 DEF Recorded
        <5> QED
          BY <4>5, <5>1, <5>2
      <4> QED
        BY <4>2, <4>3, <4>4, <4>5
    <3> QED
      BY <3>1, <3>2
  <2> QED
    BY <1>2, <2>1, <2>2, <2>4, SameGraph DEF AnswersOK, NONE
<1>24. FinishedOK'
  <2>1. ASSUME NEW x \in Node, IsTop(x)
        PROVE  (sent'[x] # << >> /\ \A e \in Decision : ~Tells(x, Start, e)')
                 <=> (sent[x] # << >> /\ \A e \in Decision : ~Tells(x, Start, e))
    <3>1. CASE x = n /\ V # {}
      <4>1. PICK v \in V : v \in Decision
        BY <3>1
      <4>2. RequestorOf(Start, n)
        BY <2>1, <3>1 DEF RequestorOf
      <4> QED
        BY <1>9, <1>10, <3>1, <4>1, <4>2
    <3>2. CASE ~(x = n /\ V # {})
      <4>1. sent'[x] = sent[x]
        BY <1>10, <3>2
      <4>2. \A e \in Decision : Tells(x, Start, e)' <=> Tells(x, Start, e)
        BY <1>4, <1>9, <3>2
      <4> QED
        BY <4>1, <4>2
    <3> QED
      BY <3>1, <3>2
  <2>2. ASSUME Tree, NEW x, NEW e, Tells(x, Start, e)', Twice(Call(x, Start, e), calls')
        PROVE  FALSE
    <3> DEFINE c == Call(x, Start, e)
    <3>1. ~Twice(c, p)
      BY <1>2, <2>2
    <3>2. In(c, calls) /\ (In(c, p) \/ Twice(c, calls))
      BY <1>3, <2>2, <3>1
    <3>3. ~Twice(c, calls)
      BY <2>2, <3>2 DEF FinishedOK, Tells
    <3>4. In(c, p)
      BY <3>2, <3>3
    <3>5. x = n /\ e \in V
      <4>1. \/ ask /\ c = Call(n, Right(n), "REQUEST_DECISION")
            \/ decline /\ c = Call(n, Right(n), "NO_REQUEST_COMING")
            \/ \E v \in V : \E q : RequestorOf(q, n) /\ c = Call(n, q, v)
        BY <1>2, <3>4
      <4>2. Right(n) # Start
        BY <1>2, <1>4, Numbered
      <4> QED
        BY <4>1, <4>2, CallFields
    <3>6. sent[n] = <<e>>
      BY <3>2, <3>5 DEF CallsOK, Tells
    <3> QED
      BY <1>10, <3>5, <3>6
  <2>3. Tree => \A x, e : Tells(x, Start, e)' => ~Twice(Call(x, Start, e), calls')
    BY <2>2
  <2> QED
    BY <1>2, <2>1, <2>3, FinishedKept
<1> QED
  BY <1>17, <1>18, <1>21, <1>22, <1>23, <1>24
LEMMA AskingInitially ==
  ASSUME Init
  PROVE  AskingIInv
<1> SUFFICES ASSUME SharesBelowTops PROVE AskingInv
  BY DEF AskingIInv
<1>1. /\ graph \in Graphs /\ calls = << >> /\ finished = 0 /\ ~started
      /\ \A n \in Node : /\ status[n] = "NOT_STARTED" /\ notRun[n] = 0
                         /\ left[n] = NONE /\ right[n] = NONE /\ sent[n] = << >>
  BY DEF Init
<1>2. \A m, n : ~Asks(m, n) /\ ~Declines(m, n) /\ \A d : ~Tells(m, n, d)
  BY <1>1, ShortLines DEF Asks, Declines, Tells
<1>3. \A n \in Node : ~Asked(n) /\ ~Refused(n)
  BY <1>1 DEF Asked, Refused
<1>4. \A n \in Node : \A r : RequestorOf(r, n) => ~AskDue(r, n) /\ ~DeclineDue(r, n)
  <2>1. \A n \in Node : \A r : RequestorOf(r, n) => r \in Node \cup {Start}
    BY <1>1, RequestorIndex
  <2> QED
    BY <1>1, <1>3, <2>1 DEF AskDue, DeclineDue
<1>5. StatusOK
  BY <1>1, <1>3, RequestorIndex DEF StatusOK
<1>6. AsksOK
  BY <1>2, <1>3, <1>4 DEF AsksOK
<1>7. DeclinesOK
  <2>1. \A n \in Node : Decliners(n) = {}
    BY <1>1, <1>4, RequestorIndex DEF Decliners
  <2> QED
    BY <1>1, <1>2, <2>1, FS_EmptySet DEF DeclinesOK
<1>8. TopsFirst
  BY <1>1 DEF TopsFirst
<1>9. AnswersOK
  BY <1>1 DEF AnswersOK
<1>10. FinishedOK
  <2>1. \A i \in 1 .. Len(graph.tops) : sent[graph.tops[i]] = << >>
    BY <1>1, Numbered, ElementOfSeq
  <2>2. {i \in 1 .. Len(graph.tops) : /\ sent[graph.tops[i]] # << >>
                                      /\ \A d \in Decision : ~Tells(graph.tops[i], Start, d)} = {}
    BY <2>1
  <2> QED
    BY <1>1, <1>2, <2>2, FS_EmptySet DEF FinishedOK
<1> QED
  BY <1>5, <1>6, <1>7, <1>8, <1>9, <1>10 DEF AskingInv

LEMMA AskingStep ==
  ASSUME GraphIInv, GraphIInv', AskingIInv, [Next]_vars
  PROVE  AskingIInv'
<1> SUFFICES ASSUME round' = 1, SharesBelowTops' PROVE AskingInv'
  BY DEF AskingIInv
<1>1. round \in Nat \ {0} /\ graph \in Graphs
  BY DEF GraphIInv, GraphTypeOK
<1>2. CASE ResetForNewTransition
  BY <1>1, <1>2 DEF ResetForNewTransition
<1>3. ASSUME graph' = graph, round' = round
      PROVE  round = 1 /\ SharesBelowTops /\ AskingInv
  BY <1>3, SameRequestors DEF AskingIInv
<1>4. CASE StartAsync
  <2>1. graph' = graph /\ round' = round
    BY <1>4 DEF StartAsync
  <2> QED
    BY <1>3, <1>4, <2>1, StartAsyncAsks
<1>5. CASE LeafFinished
  <2>1. graph' = graph /\ round' = round
    BY <1>5 DEF LeafFinished
  <2> QED
    BY <1>3, <1>5, <2>1, LeafFinishedAsks
<1>6. CASE RequestDecision
  <2>1. graph' = graph /\ round' = round
    BY <1>6 DEF RequestDecision
  <2> QED
    BY <1>3, <1>6, <2>1, RequestDecisionAsks
<1>7. CASE Refuse
  <2>1. graph' = graph /\ round' = round
    BY <1>7 DEF Refuse
  <2> QED
    BY <1>3, <1>7, <2>1, RefuseAsks
<1>8. CASE RequestIgnored
  <2>1. graph' = graph /\ round' = round
    BY <1>8 DEF RequestIgnored
  <2> QED
    BY <1>3, <1>8, <2>1, RequestIgnoredAsks
<1>9. ASSUME NEW n \in Node, LeafRuns(n) PROVE AskingInv'
  <2>1. graph' = graph /\ round' = round
    BY <1>9 DEF LeafRuns
  <2> QED
    BY <1>3, <1>9, <2>1, LeafRunsAsks
<1>10. ASSUME NEW d \in Decision, DecisionFromNode(d) PROVE AskingInv'
  <2>1. graph' = graph /\ round' = round
    BY <1>10 DEF DecisionFromNode
  <2> QED
    BY <1>3, <1>10, <2>1, DecisionFromNodeAsks
<1>11. CASE UNCHANGED vars
  <2>1. UNCHANGED <<graph, verdict, status, notRun, answers, left, right, pending, calls,
                    finished, started, round, sent>>
    BY <1>11 DEF vars
  <2>2. SharesBelowTops /\ AskingInv
    BY <1>3, <2>1
  <2> USE DEF GraphIInv, AskingInv
  <2>3. \A m, n, d : /\ Asks(m, n)' <=> Asks(m, n)
                     /\ Declines(m, n)' <=> Declines(m, n)
                     /\ Tells(m, n, d)' <=> Tells(m, n, d)
    BY <2>1, LinesPrimed DEF Asks, Declines, Tells
  <2>4. \A c : Twice(c, calls') <=> Twice(c, calls)
    BY <2>1
  <2>5. \A x : (Asked(x)' <=> Asked(x)) /\ (Refused(x)' <=> Refused(x))
    BY <1>1, <2>1, DuesPrimed DEF Asked, Refused
  <2>6. \A r, x : AskDue(r, x)' <=> AskDue(r, x)
    BY <1>1, <2>1, <2>5, DuesPrimed DEF AskDue
  <2>7. StatusOK' /\ TopsFirst'
    BY <2>1, <2>2, <2>5, SameGraph, SameRequestors DEF StatusOK, TopsFirst
  <2>8. AsksOK'
    BY <2>1, <2>2, <2>3, <2>5, <2>6, SameGraph DEF AsksOK
  <2>9. DeclinesOK'
    BY <1>1, <2>1, <2>2, <2>3, <2>4, <2>5, DeclinesKept
  <2>10. AnswersOK'
    BY <2>1, <2>2, <2>3, <2>5, AnswersKept
  <2>11. FinishedOK'
    <3>1. Tree => \A n, d : Tells(n, Start, d)' => ~Twice(Call(n, Start, d), calls')
      BY <2>2, <2>3, <2>4 DEF FinishedOK
    <3> QED
      BY <1>1, <2>1, <2>2, <2>3, <3>1, FinishedKept
  <2> QED
    BY <2>7, <2>8, <2>9, <2>10, <2>11
<1> QED
  BY <1>2, <1>4, <1>5, <1>6, <1>7, <1>8, <1>9, <1>10, <1>11 DEF Next, Handler

(* In the first transition over a graph whose shared nodes are asked from  *)
(* the top: each call that is due is on its way or has arrived.            *)
THEOREM AskingInvariance == Spec => [](GraphIInv /\ AskingIInv)
<1>1. Init => GraphIInv /\ AskingIInv
  BY GraphInitially, AskingInitially
<1>2. GraphIInv /\ AskingIInv /\ [Next]_vars => (GraphIInv /\ AskingIInv)'
  <2>1. GraphIInv /\ [Next]_vars => GraphIInv'
    BY GraphStep
  <2> QED
    BY <2>1, AskingStep
<1> QED
  BY <1>1, <1>2, PTL DEF Spec
----------------------------------------------------------------------------
(* What the transition comes to                                            *)

(* When nothing is left to run whoever was asked has answered.             *)
LEMMA AllAnswered ==
  ASSUME GraphIInv, AskingInv, SharesBelowTops, Quiet
  PROVE  \A n \in Node : Asked(n) => sent[n] # << >>
<1> DEFINE N == Len(graph.kind)
           T == {n \in Node : Asked(n) => sent[n] # << >>}
<1> USE DEF GraphIInv, AskingInv
<1>1. graph \in Graphs /\ N \in Nat /\ Node = 1 .. N /\ pending = {}
  BY Numbered DEF GraphTypeOK, Quiet
<1>2. \A m, n : ~Asks(m, n) /\ \A d : ~Tells(m, n, d)
  BY ShortLines DEF Quiet, Asks, Tells
<1>3. ASSUME NEW n \in Node, IsLeaf(n), Asked(n) PROVE sent[n] # << >>
  BY <1>1, <1>3, RequestorIndex DEF StatusOK, Asked, Refused
<1>4. ASSUME NEW n \in Node, ~IsLeaf(n), Asked(n), sent[n] = << >>,
             \A m \in Node : m < n => (Asked(m) => sent[m] # << >>)
      PROVE  FALSE
  <2>1. /\ Binary(n) /\ ChildOf(Left(n), n) /\ ChildOf(Right(n), n) /\ n # Start
        /\ Left(n) \in Node /\ Left(n) < n /\ Right(n) \in Node /\ Right(n) < n
    BY <1>1, <1>4, Numbered DEF Binary, ChildOf
  <2>2. Left(n) # Right(n)
    BY <1>1, <2>1, Sharing
  <2>3. ASSUME NEW m \in {Left(n), Right(n)}, AskDue(n, m)
        PROVE  Recorded(m, n) \in Decision
    <3>1. m \in Node /\ m < n /\ ChildOf(m, n) /\ RequestorOf(n, m)
      BY <2>1 DEF RequestorOf
    <3>2. Asked(m)
      BY <1>2, <2>3, <3>1 DEF AsksOK
    <3>3. sent[m] # << >>
      BY <1>4, <3>1, <3>2
    <3>4. PICK d \in Decision : sent[m] = <<d>>
      BY <3>1, <3>3 DEF SentOnce
    <3>5. Recorded(m, n) = d
      BY <1>2, <3>1, <3>4 DEF AnswersOK
    <3> QED
      BY <3>5
  <2>4. NONE \notin Decision
    BY DEF NONE, Decision
  <2>5. /\ left[n] \in {NONE, Unanimous(n)} /\ right[n] \in {NONE, Unanimous(n)}
        /\ left[n] = NONE \/ right[n] = NONE
    BY <1>4 DEF AnswersOK
  <2>6. left[n] \in Decision
    <3>1. AskDue(n, Left(n))
      BY <1>4, <2>1 DEF AskDue
    <3> QED
      BY <2>3, <3>1 DEF Recorded
  <2>7. right[n] \in Decision
    <3>1. AskDue(n, Right(n))
      BY <1>4, <2>1, <2>4, <2>5, <2>6 DEF AskDue
    <3> QED
      BY <2>2, <2>3, <3>1 DEF Recorded
  <2> QED
    BY <2>4, <2>5, <2>6, <2>7
<1>5. ASSUME NEW n \in 1 .. N, \A m \in 1 .. N : m < n => m \in T
      PROVE  n \in T
  <2>1. n \in Node /\ \A m \in Node : m < n => (Asked(m) => sent[m] # << >>)
    BY <1>1, <1>5
  <2> QED
    BY <1>3, <1>4, <2>1
<1> HIDE DEF T
<1>6. 1 .. N \subseteq T
  BY <1>1, <1>5, Upwards
<1> QED
  BY <1>1, <1>6 DEF T

(* AskedMeansAnswered: nobody waits for an answer that does not come.      *)
THEOREM AskedAreAnswered == Spec => []AskedMeansAnswered
<1>1. GraphIInv /\ AskingIInv => AskedMeansAnswered
  BY AllAnswered DEF AskedMeansAnswered, AskingIInv, Asked
<1> QED
  BY <1>1, AskingInvariance, PTL

(* In a tree the parent is the only one to ask a node.                     *)
LEMMA OnlyParent ==
  ASSUME graph \in Graphs, Tree, NEW n, NEW p, ChildOf(n, p)
  PROVE  /\ p \in Node /\ n \in Node /\ ~IsLeaf(p) /\ Binary(p) /\ p # Start /\ n < p
         /\ Left(p) # Right(p) /\ n \in {Left(p), Right(p)} /\ ~IsTop(n)
         /\ RequestorOf(p, n)
         /\ \A r : RequestorOf(r, n) => r = p
<1>1. p \in Node /\ ~IsLeaf(p) /\ Binary(p) /\ n \in {Left(p), Right(p)} /\ n \in Node /\ n < p /\ p # Start
  BY Numbered DEF ChildOf, Binary
<1>2. Len(Requestors(n)) = 1
  BY <1>1 DEF Tree
<1>3. Left(p) # Right(p) /\ ~IsTop(n) /\ \A q : ChildOf(n, q) => q = p
  BY <1>1, <1>2, Requesting
<1> QED
  BY <1>1, <1>3 DEF RequestorOf

LEMMA TreeShares ==
  ASSUME graph \in Graphs, Tree
  PROVE  SharesBelowTops
<1> SUFFICES ASSUME NEW p \in Node, ~IsLeaf(p)
             PROVE  /\ Left(p) # Right(p)
                    /\ \A n \in {Left(p), Right(p)} : Len(Requestors(n)) = 1 \/ IsTop(p)
  BY DEF SharesBelowTops
<1>1. ChildOf(Left(p), p) /\ Left(p) \in Node /\ Right(p) \in Node
  BY Numbered DEF ChildOf, Binary
<1> QED
  BY <1>1, OnlyParent DEF Tree

(* In a tree what a node decides is the value of its formula.              *)
LEMMA FormulaDecided ==
  ASSUME GraphIInv, AskingInv, Tree, round = 1
  PROVE  \A n \in Node : sent[n] # << >> => sent[n] = <<Value[n]>>
<1> DEFINE N == Len(graph.kind)
           T == {n \in Node : sent[n] # << >> => sent[n] = <<Value[n]>>}
<1> USE DEF GraphIInv, AskingInv
<1>1. graph \in Graphs /\ N \in Nat /\ Node = 1 .. N
  BY Numbered DEF GraphTypeOK
<1>2. \A a, b : <<a>> = <<b>> => a = b
  OBVIOUS
<1>3. ASSUME NEW n \in Node, IsLeaf(n), sent[n] # << >> PROVE sent[n] = <<Value[n]>>
  BY <1>1, <1>3, ValueDefined DEF LeavesOK
<1>4. ASSUME NEW n \in Node, ~IsLeaf(n), sent[n] # << >>,
             \A m \in Node : m < n => (sent[m] # << >> => sent[m] = <<Value[m]>>)
      PROVE  sent[n] = <<Value[n]>>
  <2> DEFINE l == Left(n)
             r == Right(n)
             u == Unanimous(n)
  <2>1. /\ ChildOf(l, n) /\ ChildOf(r, n) /\ n # Start
        /\ l \in Node /\ l < n /\ r \in Node /\ r < n /\ l # r
        /\ \A q : RequestorOf(q, r) => q = n
    <3>1. ChildOf(l, n) /\ ChildOf(r, n)
      BY <1>1, <1>4, Numbered DEF Binary, ChildOf
    <3> QED
      BY <1>1, <3>1, OnlyParent
  <2>2. Value[n] = IF Value[l] = u THEN Value[r] ELSE Value[l]
    BY <1>1, <1>4, ValueDefined
  <2>3. /\ left[n] # NONE => sent[l] = <<left[n]>>
        /\ right[n] # NONE => sent[r] = <<right[n]>>
        /\ Cause(n)
    BY <1>4, <2>1 DEF HeardOK, Heard
  <2> HIDE DEF l, r, u
  <2>4. \A d : <<d>> # << >>
    OBVIOUS
  <2>5. left[n] # NONE => Value[l] = left[n]
    BY <1>2, <1>4, <2>1, <2>3, <2>4
  <2>6. right[n] # NONE => Value[r] = right[n]
    BY <1>2, <1>4, <2>1, <2>3, <2>4
  <2>7. u # NONE
    BY DEF u, Unanimous, NONE
  <2>8. right[n] # NONE => left[n] = u
    <3> SUFFICES ASSUME right[n] # NONE PROVE left[n] = u
      OBVIOUS
    <3>1. sent[r] # << >>
      BY <2>3, <2>4
    <3>2. Asked(r)
      BY <2>1, <3>1 DEF StatusOK
    <3>3. AskDue(n, r)
      BY <2>1, <3>2 DEF AsksOK
    <3> QED
      BY <2>1, <3>3 DEF AskDue, u, l
  <2>9. CASE left[n] = u /\ right[n] = u /\ sent[n] = <<u>>
    BY <2>2, <2>5, <2>6, <2>7, <2>9
  <2>10. CASE left[n] \notin {NONE, u} /\ sent[n] = <<left[n]>>
    BY <2>2, <2>5, <2>10
  <2>11. CASE right[n] \notin {NONE, u} /\ sent[n] = <<right[n]>>
    BY <2>2, <2>5, <2>6, <2>7, <2>8, <2>11
  <2> QED
    BY <2>3, <2>9, <2>10, <2>11 DEF Cause, u
<1>5. ASSUME NEW n \in 1 .. N, \A m \in 1 .. N : m < n => m \in T
      PROVE  n \in T
  <2>1. n \in Node /\ \A m \in Node : m < n => (sent[m] # << >> => sent[m] = <<Value[m]>>)
    BY <1>1, <1>5
  <2> QED
    BY <1>3, <1>4, <2>1
<1> HIDE DEF T
<1>6. 1 .. N \subseteq T
  BY <1>1, <1>5, Upwards
<1> QED
  BY <1>1, <1>6 DEF T

(* DecidesItsFormula: in a tree each node that decides sends, once, the    *)
(* value of its and/or formula over the verdicts of the leaves below it.   *)
THEOREM NodesDecideTheirFormulas == Spec => []DecidesItsFormula
<1>1. GraphIInv /\ AskingIInv => DecidesItsFormula
  <2> SUFFICES ASSUME GraphIInv, AskingIInv, FreshTree
               PROVE  \A n \in Node : sent[n] # << >> => sent[n] = <<Value[n]>>
    BY DEF DecidesItsFormula
  <2>1. Tree /\ round = 1 /\ graph \in Graphs
    BY DEF FreshTree, Tree, GraphIInv, GraphTypeOK
  <2>2. AskingInv
    BY <2>1, TreeShares DEF AskingIInv
  <2> QED
    BY <2>1, <2>2, FormulaDecided
<1> QED
  BY <1>1, AskingInvariance, PTL
(* In a tree, when nothing is left to run, the nodes an evaluation comes   *)
(* to were asked and the others were refused.                              *)
LEMMA NeededAreAsked ==
  ASSUME GraphIInv, AskingInv, Tree, round = 1, Quiet
  PROVE  \A n \in Node : (Needed[n] => Asked(n)) /\ (~Needed[n] => Refused(n))
<1> DEFINE N == Len(graph.kind)
           T == {n \in Node : (Needed[n] => Asked(n)) /\ (~Needed[n] => Refused(n))}
<1> USE DEF GraphIInv, AskingInv
<1>1. graph \in Graphs /\ N \in Nat /\ Node = 1 .. N /\ started
  BY Numbered DEF GraphTypeOK, Quiet
<1>2. \A m, n : ~Asks(m, n) /\ ~Declines(m, n) /\ \A d : ~Tells(m, n, d)
  BY ShortLines DEF Quiet, Asks, Declines, Tells
<1>3. SharesBelowTops
  BY <1>1, TreeShares
<1>4. ASSUME NEW n \in Node, IsTop(n) PROVE Needed[n] /\ Asked(n)
  <2>1. Needed[n]
    BY <1>1, <1>4, NeededDefined
  <2>2. RequestorOf(Start, n) /\ AskDue(Start, n)
    BY <1>1, <1>4 DEF RequestorOf, AskDue
  <2> QED
    BY <1>2, <2>1, <2>2 DEF AsksOK
<1>5. ASSUME NEW n \in Node, NEW p \in Node, ChildOf(n, p), p \in T
      PROVE  n \in T
  <2> SUFFICES ASSUME Needed[p] => Asked(p), ~Needed[p] => Refused(p)
               PROVE  (Needed[n] => Asked(n)) /\ (~Needed[n] => Refused(n))
    BY <1>5
  <2> DEFINE l == Left(p)
             u == Unanimous(p)
  <2>1. /\ ~IsLeaf(p) /\ Binary(p) /\ p # Start /\ l # Right(p) /\ n \in {l, Right(p)}
        /\ ~IsTop(n) /\ RequestorOf(p, n) /\ \A r : RequestorOf(r, n) => r = p
    BY <1>1, <1>5, OnlyParent
  <2>2. ChildOf(l, p) /\ l \in Node /\ RequestorOf(p, l)
    BY <1>1, <2>1, Numbered DEF ChildOf, RequestorOf
  <2>3. Needed[n] <=> Needed[p] /\ (n = l \/ Value[l] = u)
    <3>1. \A q \in Node : ~IsLeaf(q) /\ n \in {Left(q), Right(q)} => q = p
      <4> SUFFICES ASSUME NEW q \in Node, ~IsLeaf(q), n \in {Left(q), Right(q)} PROVE q = p
        OBVIOUS
      <4>1. RequestorOf(q, n)
        BY DEF RequestorOf, ChildOf, Binary
      <4> QED
        BY <2>1, <4>1
    <3>2. Needed[n] <=> \/ IsTop(n)
                        \/ \E q \in Node :
                             /\ ~IsLeaf(q)
                             /\ n \in {Left(q), Right(q)}
                             /\ Needed[q]
                             /\ n = Left(q) \/ Value[Left(q)] = Unanimous(q)
      BY <1>1, NeededDefined
    <3> QED
      BY <2>1, <3>1, <3>2
  <2>4. Asked(p) => left[p] = Value[l] /\ left[p] \in Decision
    <3> SUFFICES ASSUME Asked(p) PROVE left[p] = Value[l] /\ left[p] \in Decision
      OBVIOUS
    <3>1. AskDue(p, l)
      BY <2>1 DEF AskDue
    <3>2. Asked(l)
      BY <1>2, <2>2, <3>1 DEF AsksOK
    <3>3. sent[l] # << >>
      BY <1>3, <2>2, <3>2, AllAnswered
    <3>4. PICK d \in Decision : sent[l] = <<d>>
      BY <2>2, <3>3 DEF SentOnce
    <3>5. sent[l] = <<Value[l]>>
      BY <2>2, <3>3, FormulaDecided
    <3>6. Value[l] = d
      BY <3>4, <3>5
    <3>7. Recorded(l, p) = d
      BY <1>2, <2>2, <3>4 DEF AnswersOK
    <3> QED
      BY <3>6, <3>7 DEF Recorded
  <2> HIDE DEF l, u
  <2>5. NONE \notin Decision
    BY DEF NONE, Decision
  <2>6. ASSUME Needed[n] PROVE Asked(n)
    <3>1. Asked(p) /\ (n = l \/ left[p] = u)
      BY <2>3, <2>4, <2>6
    <3>2. AskDue(p, n)
      BY <2>1, <3>1 DEF AskDue, l, u
    <3> QED
      BY <1>2, <2>1, <3>2 DEF AsksOK
  <2>7. ASSUME ~Needed[n] PROVE Refused(n)
    <3>1. DeclineDue(p, n)
      <4>1. CASE ~Needed[p]
        BY <2>1, <4>1 DEF DeclineDue
      <4>2. CASE Needed[p]
        <5>1. n # l /\ Value[l] # u /\ Asked(p)
          BY <2>3, <2>7, <4>2
        <5>2. left[p] \notin {NONE, u} /\ n = Right(p)
          BY <2>1, <2>4, <2>5, <5>1
        <5> QED
          BY <2>1, <5>2 DEF DeclineDue, u
      <4> QED
        BY <4>1, <4>2
    <3>2. ~Asked(n)
      <4> SUFFICES ASSUME Asked(n) PROVE FALSE
        OBVIOUS
      <4>1. AskDue(p, n)
        BY <2>1 DEF AsksOK
      <4> QED
        BY <1>1, <1>3, <2>1, <3>1, <4>1, Exclusive
    <3>3. Len(Requestors(n)) = 1
      BY DEF Tree
    <3>4. Requestors(n)[1] = p
      <4>1. 1 \in 1 .. Len(Requestors(n))
        BY <3>3
      <4>2. RequestorOf(Requestors(n)[1], n)
        BY <1>1, <4>1, RequestorIndex
      <4> QED
        BY <2>1, <4>2
    <3>5. Decliners(n) = {1}
      BY <1>2, <3>1, <3>3, <3>4 DEF Decliners
    <3>6. notRun[n] = 1
      BY <3>2, <3>5, FS_Singleton DEF DeclinesOK
    <3>7. HasRequestor(n)
      BY <2>1 DEF HasRequestor
    <3> QED
      BY <3>3, <3>6, <3>7 DEF StatusOK, Refused
  <2> QED
    BY <2>6, <2>7
<1>6. ASSUME NEW n \in 1 .. N, \A m \in 1 .. N : n < m => m \in T
      PROVE  n \in T
  <2>1. n \in Node /\ Len(Requestors(n)) = 1
    BY <1>1 DEF Tree
  <2>2. PICK r : RequestorOf(r, n)
    <3>1. HasRequestor(n) <=> Len(Requestors(n)) # 0
      BY <1>1, <2>1, RequestorIndex
    <3>2. Len(Requestors(n)) # 0
      BY <2>1
    <3> QED
      BY <3>1, <3>2 DEF HasRequestor
  <2>3. CASE IsTop(n)
    BY <1>4, <2>1, <2>3
  <2>4. CASE ~IsTop(n)
    <3>1. ChildOf(n, r)
      BY <2>2, <2>4 DEF RequestorOf
    <3>2. r \in Node /\ n < r
      BY <1>1, <3>1, OnlyParent
    <3>3. r \in T
      BY <1>1, <1>6, <3>2
    <3> HIDE DEF T
    <3> QED
      BY <1>5, <2>1, <3>1, <3>2, <3>3
  <2> QED
    BY <2>3, <2>4
<1> HIDE DEF T
<1>7. 1 .. N \subseteq T
  BY <1>1, <1>6, Downwards
<1> QED
  BY <1>1, <1>7 DEF T

(* RunsWhatIsNeeded: in a tree the start has heard from all of its nodes   *)
(* when the transition is released, exactly the nodes that an evaluation   *)
(* from the left comes to have decided, and the other leaves know that     *)
(* they will not run.                                                      *)
THEOREM NeededNodesRun == Spec => []RunsWhatIsNeeded
<1>1. GraphIInv /\ AskingIInv => RunsWhatIsNeeded
  <2> SUFFICES ASSUME GraphIInv, AskingIInv, FreshTree, Quiet
               PROVE  /\ finished = Len(graph.tops)
                      /\ \A n \in Node : /\ Needed[n] <=> sent[n] # << >>
                                         /\ IsLeaf(n) /\ ~Needed[n] => status[n] = "WILL_NOT_RUN"
    BY DEF RunsWhatIsNeeded
  <2>1. Tree /\ round = 1 /\ graph \in Graphs
    BY DEF FreshTree, Tree, GraphIInv, GraphTypeOK
  <2>2. SharesBelowTops /\ AskingInv
    BY <2>1, TreeShares DEF AskingIInv
  <2> USE DEF AskingInv
  <2>3. \A n \in Node : (Needed[n] => Asked(n)) /\ (~Needed[n] => Refused(n))
    BY <2>1, <2>2, NeededAreAsked
  <2>4. \A n \in Node : Asked(n) => sent[n] # << >>
    BY <2>2, AllAnswered
  <2>5. ASSUME NEW n \in Node
        PROVE  /\ Needed[n] <=> sent[n] # << >>
               /\ IsLeaf(n) /\ ~Needed[n] => status[n] = "WILL_NOT_RUN"
    <3>1. sent[n] # << >> => Asked(n)
      BY <2>2 DEF StatusOK
    <3>2. ~(Asked(n) /\ Refused(n))
      BY <2>1, RequestorIndex DEF Asked, Refused
    <3>3. IsLeaf(n) /\ Refused(n) => status[n] = "WILL_NOT_RUN"
      BY <2>2 DEF StatusOK
    <3> QED
      BY <2>3, <2>4, <3>1, <3>2, <3>3
  <2>6. finished = Len(graph.tops)
    <3> DEFINE I == 1 .. Len(graph.tops)
               S == {i \in I : /\ sent[graph.tops[i]] # << >>
                               /\ \A d \in Decision : ~Tells(graph.tops[i], Start, d)}
    <3>1. ASSUME NEW i \in I
          PROVE  /\ sent[graph.tops[i]] # << >>
                 /\ \A d \in Decision : ~Tells(graph.tops[i], Start, d)
      <4>1. PICK t : t = graph.tops[i]
        OBVIOUS
      <4>2. t \in Node /\ IsTop(t)
        BY <2>1, <4>1, Numbered, ElementOfSeq DEF IsTop
      <4>3. Needed[t]
        BY <2>1, <4>2, NeededDefined
      <4>4. \A d : ~Tells(t, Start, d)
        BY ShortLines DEF Quiet, Tells
      <4> QED
        BY <2>5, <4>1, <4>2, <4>3, <4>4
    <3>2. S = I
      BY <3>1
    <3>3. finished = Cardinality(S)
      BY <2>1, <2>2 DEF FinishedOK
    <3>4. Len(graph.tops) \in Nat
      BY <2>1, Numbered, LenProperties
    <3>5. Cardinality(I) = Len(graph.tops)
      BY <3>4, FS_Interval
    <3> HIDE DEF S, I
    <3> QED
      BY <3>2, <3>3, <3>5
  <2> QED
    BY <2>5, <2>6
<1> QED
  BY <1>1, AskingInvariance, PTL
=============================================================================
