------------------------- MODULE FieldReviewProofs -------------------------
(***************************************************************************)
(* What holds of the review for all documents, however wide and deep, for  *)
(* every candidate and every selection of fields with edited values.       *)
(***************************************************************************)
EXTENDS FieldReview, NumberLemmas, TLAPS

(***************************************************************************)
(* Nodes.                                                                  *)
(***************************************************************************)
\* What kind of node a value is can be seen from it.
LEMMA Kinds ==
    /\ \A x : IsDict(Dict(x)) /\ ~IsList(Dict(x)) /\ Dict(x).fields = x
    /\ \A x : IsList(List(x)) /\ ~IsDict(List(x)) /\ List(x).items = x
    /\ \A x : ~IsDict(Leaf(x)) /\ ~IsList(Leaf(x)) /\ Leaf(x).value = x
    /\ \A n \in {Null, Missing, Failed} : ~IsDict(n) /\ ~IsList(n)
    /\ \A x : /\ Leaf(x) \notin {Null, Missing, Failed}
              /\ Dict(x) \notin {Null, Missing, Failed}
              /\ List(x) \notin {Null, Missing, Failed}
    /\ Null # Missing /\ Null # Failed /\ Missing # Failed
  BY DEF IsDict, IsList, Dict, List, Leaf, Null, Missing, Failed

NodeOf(f, d) ==
    IF d = 0 THEN [value : Values] \cup {Null}
    ELSE f[d - 1] \cup [fields : [Keys -> f[d - 1] \cup {Missing}]] \cup [items : Seq(f[d - 1])]

LEMMA NodesExist == \E f : f = [d \in 0 .. Depth |-> NodeOf(f, d)]
<1>. DEFINE Made == {n \in Nat : \E f : f = [d \in 0 .. n |-> NodeOf(f, d)]}
<1>1. 0 \in Made
  <2>. DEFINE f == [d \in 0 .. 0 |-> [value : Values] \cup {Null}]
  <2>1. f = [d \in 0 .. 0 |-> NodeOf(f, d)]
    BY DEF NodeOf
  <2>. QED
    BY <2>1
<1>2. ASSUME NEW n \in Nat, n \in Made
      PROVE  n + 1 \in Made
  <2>1. PICK f : f = [d \in 0 .. n |-> NodeOf(f, d)]
    BY <1>2
  <2>. DEFINE g == [d \in 0 .. n + 1 |-> NodeOf(f, d)]
  <2>2. \A d \in 0 .. n : g[d] = f[d]
    BY <2>1
  <2>3. \A d \in 0 .. n + 1 : d = 0 \/ d - 1 \in 0 .. n
    OBVIOUS
  <2>4. \A d \in 0 .. n + 1 : NodeOf(f, d) = NodeOf(g, d)
    BY <2>2, <2>3 DEF NodeOf
  <2>5. g = [d \in 0 .. n + 1 |-> NodeOf(g, d)]
    BY <2>4
  <2>. HIDE DEF g
  <2>6. \E h : h = [d \in 0 .. n + 1 |-> NodeOf(h, d)]
    BY <2>5
  <2>. QED
    BY <2>6
<1>3. Depth \in Made
  BY <1>1, <1>2, NumberInduction, TreesAssumption
<1>. QED
  BY <1>3

LEMMA NodeLevels == \A d \in 0 .. Depth : Node[d] = NodeOf(Node, d)
<1>1. Node = CHOOSE f : f = [d \in 0 .. Depth |-> NodeOf(f, d)]
  BY Zenon DEF Node, NodeOf
<1>2. Node = [d \in 0 .. Depth |-> NodeOf(Node, d)]
  BY <1>1, NodesExist, Zenon
<1>. QED
  BY <1>2, Zenon

LEMMA NodesGrow == \A d \in 1 .. Depth : Node[d - 1] \subseteq Node[d]
<1>. TAKE d \in 1 .. Depth
<1>1. d \in 0 .. Depth /\ d # 0
  BY TreesAssumption
<1>2. Node[d] = NodeOf(Node, d)
  BY <1>1, NodeLevels
<1>. QED
  BY <1>1, <1>2 DEF NodeOf

\* A dictionary and a list with their parts, whatever those are.
DictNode(n) == IsDict(n) /\ n = Dict(n.fields) /\ n.fields = [k \in Keys |-> n.fields[k]]
ListNode(n) == IsList(n) /\ n = List(n.items) /\ \E S : n.items \in Seq(S)

NodeParts(d) ==
    \A n \in Node[d] :
        /\ IsDict(n) => /\ d > 0 /\ ~IsList(n) /\ n = Dict(n.fields)
                        /\ n.fields \in [Keys -> Node[d - 1] \cup {Missing}]
        /\ IsList(n) => d > 0 /\ n = List(n.items) /\ n.items \in Seq(Node[d - 1])
        /\ n # Missing /\ n # Failed
        /\ ~IsDict(n) /\ ~IsList(n) => n \in [value : Values] \cup {Null}

LEMMA PartsOfNodes == \A d \in 0 .. Depth : NodeParts(d)
<1>. DEFINE T == {d \in Nat : d <= Depth => NodeParts(d)}
<1>1. \A S : \A n \in [fields : S] : n = Dict(n.fields) /\ n.fields \in S
  BY DEF Dict
<1>2. \A S : \A n \in [items : S] : n = List(n.items) /\ n.items \in S
  BY DEF List
<1>3. \A n \in [value : Values] : ~IsDict(n) /\ ~IsList(n) /\ n # Missing /\ n # Failed
  <2>1. \A n \in [value : Values] : n = Leaf(n.value)
    BY DEF Leaf
  <2>. QED
    BY <2>1, Kinds
<1>4. 0 \in T
  <2>0. 0 \in 0 .. Depth
    BY TreesAssumption
  <2>1. Node[0] = [value : Values] \cup {Null}
    BY <2>0, NodeLevels DEF NodeOf
  <2>. QED
    BY <1>3, <2>1, Kinds DEF NodeParts
<1>5. ASSUME NEW d \in Nat, d \in T
      PROVE  d + 1 \in T
  <2>. SUFFICES ASSUME d + 1 <= Depth, NEW n \in Node[d + 1]
                PROVE  /\ IsDict(n) => /\ ~IsList(n) /\ n = Dict(n.fields)
                                       /\ n.fields \in [Keys -> Node[d] \cup {Missing}]
                       /\ IsList(n) => n = List(n.items) /\ n.items \in Seq(Node[d])
                       /\ n # Missing /\ n # Failed
                       /\ ~IsDict(n) /\ ~IsList(n) => n \in [value : Values] \cup {Null}
    BY DEF NodeParts
  <2>1. d + 1 \in 0 .. Depth /\ d + 1 # 0 /\ (d + 1) - 1 = d /\ d \in 0 .. Depth
    BY TreesAssumption
  <2>2. \/ n \in Node[d] \/ n \in [fields : [Keys -> Node[d] \cup {Missing}]]
        \/ n \in [items : Seq(Node[d])]
    <3>1. Node[d + 1] = NodeOf(Node, d + 1)
      BY <2>1, NodeLevels
    <3>2. NodeOf(Node, d + 1) = Node[d] \cup [fields : [Keys -> Node[d] \cup {Missing}]]
                                       \cup [items : Seq(Node[d])]
      BY <2>1, Zenon DEF NodeOf
    <3>. QED
      BY <3>1, <3>2
  <2>3. CASE n \in Node[d]
    <3>1. NodeParts(d)
      BY <1>5, <2>1
    <3>2. CASE IsDict(n) \/ IsList(n)
      <4>1. d > 0
        BY <2>3, <3>1, <3>2 DEF NodeParts
      <4>4. d \in 1 .. Depth
        BY <2>1, <4>1
      <4>5. Node[d - 1] \subseteq Node[d]
        BY <4>4, NodesGrow
      <4>2. Seq(Node[d - 1]) \subseteq Seq(Node[d])
        BY <4>5
      <4>3. [Keys -> Node[d - 1] \cup {Missing}] \subseteq [Keys -> Node[d] \cup {Missing}]
        BY <4>5
      <4>. QED
        BY <2>3, <3>1, <3>2, <4>2, <4>3 DEF NodeParts
    <3>3. CASE ~IsDict(n) /\ ~IsList(n)
      BY <2>3, <3>1, <3>3 DEF NodeParts
    <3>. QED
      BY <3>2, <3>3
  <2>4. CASE n \in [fields : [Keys -> Node[d] \cup {Missing}]]
    <3>1. n = Dict(n.fields) /\ n.fields \in [Keys -> Node[d] \cup {Missing}]
      BY <1>1, <2>4
    <3>2. IsDict(n) /\ ~IsList(n) /\ n # Missing /\ n # Failed
      BY <3>1, Kinds
    <3>. QED
      BY <3>1, <3>2
  <2>5. CASE n \in [items : Seq(Node[d])]
    <3>1. n = List(n.items) /\ n.items \in Seq(Node[d])
      BY <1>2, <2>5
    <3>2. ~IsDict(n) /\ IsList(n) /\ n # Missing /\ n # Failed
      BY <3>1, Kinds
    <3>. QED
      BY <3>1, <3>2
  <2>. QED
    BY <2>2, <2>3, <2>4, <2>5
<1>6. Nat \subseteq T
  BY <1>4, <1>5, NumberInduction
<1>. QED
  BY <1>6, TreesAssumption

LEMMA NodeShapes ==
    ASSUME NEW d \in 0 .. Depth, NEW n \in Node[d]
    PROVE  (IsDict(n) => DictNode(n)) /\ (IsList(n) => ListNode(n))
<1>1. NodeParts(d)
  BY PartsOfNodes
<1>2. \A S : \A f \in [Keys -> S] : f = [k \in Keys |-> f[k]]
  OBVIOUS
<1>3. IsDict(n) => DictNode(n)
  <2>1. IsDict(n) => n = Dict(n.fields) /\ n.fields \in [Keys -> Node[d - 1] \cup {Missing}]
    BY <1>1 DEF NodeParts
  <2>. QED
    BY <1>2, <2>1 DEF DictNode
<1>4. IsList(n) => ListNode(n)
  <2>1. IsList(n) => n = List(n.items) /\ n.items \in Seq(Node[d - 1])
    BY <1>1 DEF NodeParts
  <2>. QED
    BY <2>1 DEF ListNode
<1>. QED
  BY <1>3, <1>4

LEMMA DocumentIsNode == \A n \in Document : IsDict(n) /\ DictNode(n) /\ n \in Node[Depth]
<1>. SUFFICES ASSUME NEW n \in Document
              PROVE  IsDict(n) /\ DictNode(n) /\ n \in Node[Depth]
  OBVIOUS
<1>0. Depth \in 0 .. Depth /\ Depth # 0
  BY TreesAssumption
<1>1. n \in Node[Depth]
  <2>1. Node[Depth] = NodeOf(Node, Depth)
    BY <1>0, NodeLevels
  <2>. QED
    BY <1>0, <2>1 DEF NodeOf, Document
<1>2. n = Dict(n.fields)
  BY DEF Document, Dict
<1>3. IsDict(n)
  BY <1>2, Kinds
<1>. QED
  BY <1>0, <1>1, <1>3, NodeShapes

(***************************************************************************)
(* Items of lists, and children.                                           *)
(***************************************************************************)
Selects(n, segment) == Identified(n) /\ segment = ItemSegment(IdOf(n))

LEMMA FindFirst ==
    ASSUME NEW S, NEW items \in Seq(S), NEW segment
    PROVE  LET j == Find(List(items), segment) IN
           \/ j = 0 /\ \A i \in 1 .. Len(items) : ~Selects(items[i], segment)
           \/ /\ j \in 1 .. Len(items) /\ Selects(items[j], segment)
              /\ \A i \in 1 .. Len(items) : i < j => ~Selects(items[i], segment)
<1>. DEFINE I == {i \in 1 .. Len(items) : Selects(items[i], segment)}
<1>1. Find(List(items), segment) = IF I # {} THEN Min(I) ELSE 0
  BY Kinds DEF Find, SelectInSeq, Selects
<1>2. I \subseteq Nat /\ I \subseteq 1 .. Len(items) /\ Len(items) \in Nat
  OBVIOUS
<1>3. \A i \in 1 .. Len(items) : Selects(items[i], segment) <=> i \in I
  OBVIOUS
<1>. HIDE DEF I
<1>4. CASE I = {}
  BY <1>1, <1>3, <1>4
<1>5. CASE I # {}
  <2>1. PICK x \in I : \A y \in I : x <= y
    BY <1>2, <1>5, LeastNumber
  <2>2. PICK m \in I : m = Min(I) /\ \A y \in I : m <= y
    BY <2>1 DEF Min
  <2>3. \A i \in 1 .. Len(items) : i < m => i \notin I
    BY <1>2, <2>2
  <2>. QED
    BY <1>1, <1>2, <1>3, <1>5, <2>2, <2>3
<1>. QED
  BY <1>4, <1>5

\* The first item that the segment selects is at j; the segment selects none.
First(items, segment, j) ==
    /\ j \in 1 .. Len(items) /\ Selects(items[j], segment)
    /\ \A i \in 1 .. Len(items) : i < j => ~Selects(items[i], segment)
NoneSelected(items, segment) == \A i \in 1 .. Len(items) : ~Selects(items[i], segment)

LEMMA FirstItem ==
    ASSUME NEW S, NEW items \in Seq(S), NEW segment
    PROVE  /\ \A j : First(items, segment, j) =>
                  /\ Find(List(items), segment) = j
                  /\ Child(List(items), segment) = items[j]
           /\ NoneSelected(items, segment) =>
                  /\ Find(List(items), segment) = 0
                  /\ Child(List(items), segment) = Missing
           /\ NoneSelected(items, segment) \/ \E j : First(items, segment, j)
<1>. DEFINE k == Find(List(items), segment)
<1>1. \/ k = 0 /\ NoneSelected(items, segment)
      \/ First(items, segment, k)
  BY FindFirst DEF First, NoneSelected
<1>2. k # 0 => Child(List(items), segment) = items[k]
  BY Kinds DEF Child
<1>3. k = 0 => Child(List(items), segment) = Missing
  BY Kinds DEF Child
<1>4. Len(items) \in Nat
  OBVIOUS
<1>5. \A i, j : First(items, segment, i) /\ First(items, segment, j) => i = j
  BY <1>4 DEF First
<1>6. \A j : First(items, segment, j) => ~NoneSelected(items, segment) /\ j # 0
  BY <1>4 DEF First, NoneSelected
<1>. HIDE DEF k
<1>7. \A j : First(items, segment, j) => k = j
  BY <1>1, <1>5, <1>6
<1>8. NoneSelected(items, segment) => k = 0
  BY <1>1, <1>6
<1>9. \A j : First(items, segment, j) => Child(List(items), segment) = items[j]
  BY <1>2, <1>6, <1>7
<1>. QED
  BY <1>1, <1>3, <1>7, <1>8, <1>9 DEF k

LEMMA ChildOfDict == \A n, s : DictNode(n) => ~IsList(n) /\ Child(n, s) = Get(n, s)
<1>1. ASSUME NEW n, DictNode(n)
      PROVE  IsDict(n) /\ ~IsList(n)
  <2>1. IsDict(n) /\ n = Dict(n.fields)
    BY <1>1, Zenon DEF DictNode
  <2>2. ~IsList(Dict(n.fields))
    BY Kinds
  <2>. QED
    BY <2>1, <2>2, Zenon
<1>2. \A n, s : IsDict(n) /\ ~IsList(n) => Child(n, s) = Get(n, s)
  BY DEF Child
<1>. QED
  BY <1>1, <1>2

LEMMA ChildOfOther == \A n, s : ~IsDict(n) /\ ~IsList(n) => Child(n, s) = Missing
  BY DEF Child

LEMMA ChildOfMissing == \A s : Child(Missing, s) = Missing
  BY ChildOfOther, Kinds

\* What is below a node of that level.
Below(d) == IF d = 0 THEN {} ELSE Node[d - 1]

LEMMA ChildNode ==
    ASSUME NEW d \in 0 .. Depth, NEW n \in Node[d], NEW s
    PROVE  Child(n, s) \in Below(d) \cup {Missing}
<1>1. NodeParts(d)
  BY PartsOfNodes
<1>2. CASE IsDict(n)
  <2>1. d # 0 /\ n.fields \in [Keys -> Node[d - 1] \cup {Missing}]
    BY <1>1, <1>2 DEF NodeParts
  <2>2. Get(n, s) \in Node[d - 1] \cup {Missing}
    BY <2>1 DEF Get
  <2>. QED
    BY <1>2, <2>1, <2>2, ChildOfDict, NodeShapes DEF Below
<1>3. CASE IsList(n)
  <2>1. d # 0 /\ n = List(n.items) /\ n.items \in Seq(Node[d - 1])
    BY <1>1, <1>3 DEF NodeParts
  <2>2. \A j : First(n.items, s, j) => n.items[j] \in Node[d - 1]
    BY <2>1 DEF First
  <2>3. Child(List(n.items), s) \in Node[d - 1] \cup {Missing}
    BY <2>1, <2>2, FirstItem
  <2>. QED
    BY <2>1, <2>3 DEF Below
<1>4. CASE ~IsDict(n) /\ ~IsList(n)
  BY <1>4, ChildOfOther
<1>. QED
  BY <1>2, <1>3, <1>4

(***************************************************************************)
(* Paths.                                                                  *)
(***************************************************************************)
Steps == Keys \cup ItemSegments
Paths == Seq(Steps)

\* The first i segments of a path.
Upto(path, i) == [j \in 1 .. i |-> path[j]]

LEMMA UptoPath ==
    ASSUME NEW S, NEW q \in Seq(S), NEW i \in 0 .. Len(q)
    PROVE  /\ Upto(q, i) \in Seq(S) /\ Len(Upto(q, i)) = i
           /\ \A j \in 1 .. i : Upto(q, i)[j] = q[j]
           /\ \A j \in 0 .. i : Upto(Upto(q, i), j) = Upto(q, j)
           /\ i = Len(q) => Upto(q, i) = q
           /\ i = 0 => Upto(q, i) = <<>>
<1>1. i \in Nat /\ Len(q) \in Nat /\ q \in [1 .. Len(q) -> S]
  OBVIOUS
<1>2. \A j \in 1 .. i : j \in 1 .. Len(q)
  BY <1>1
<1>3. Upto(q, i) \in [1 .. i -> S]
  BY <1>1, <1>2 DEF Upto
<1>4. Upto(q, i) \in Seq(S) /\ Len(Upto(q, i)) = i
  BY <1>1, <1>3
<1>5. \A j \in 0 .. i : Upto(Upto(q, i), j) = Upto(q, j)
  <2>1. \A j \in 0 .. i : \A k \in 1 .. j : k \in 1 .. i
    BY <1>1
  <2>. QED
    BY <2>1 DEF Upto
<1>6. i = Len(q) => Upto(q, i) = q
  BY <1>1 DEF Upto
<1>7. i = 0 => Upto(q, i) = <<>>
  BY <1>4
<1>. QED
  BY <1>4, <1>5, <1>6, <1>7 DEF Upto

LEMMA UptoNext ==
    ASSUME NEW S, NEW q \in Seq(S), NEW i \in 1 .. Len(q)
    PROVE  /\ i - 1 \in 0 .. Len(q) /\ q[i] \in S
           /\ Upto(q, i) = Append(Upto(q, i - 1), q[i])
<1>1. i \in Nat /\ Len(q) \in Nat /\ i - 1 \in 0 .. Len(q) /\ i \in 0 .. Len(q)
  OBVIOUS
<1>2. /\ Upto(q, i) \in Seq(S) /\ Len(Upto(q, i)) = i
      /\ Upto(q, i - 1) \in Seq(S) /\ Len(Upto(q, i - 1)) = i - 1
      /\ \A j \in 1 .. i : Upto(q, i)[j] = q[j]
      /\ \A j \in 1 .. i - 1 : Upto(q, i - 1)[j] = q[j]
  BY <1>1, UptoPath
<1>3. q[i] \in S
  OBVIOUS
<1>4. Upto(q, i) = Append(Upto(q, i - 1), q[i])
  <2>. DEFINE u == Upto(q, i)
              v == Upto(q, i - 1)
  <2>. HIDE DEF u, v
  <2>1. /\ Append(v, q[i]) \in Seq(S) /\ Len(Append(v, q[i])) = i
        /\ \A j \in 1 .. i : Append(v, q[i])[j] = u[j]
    <3>1. v \in Seq(S) /\ Len(v) = i - 1 /\ \A j \in 1 .. i - 1 : v[j] = q[j]
      BY <1>2 DEF v
    <3>2. \A j \in 1 .. i : u[j] = q[j]
      BY <1>2 DEF u
    <3>3. Append(v, q[i]) \in Seq(S) /\ Len(Append(v, q[i])) = i /\ Append(v, q[i])[i] = q[i]
      BY <1>1, <1>3, <3>1
    <3>4. \A j \in 1 .. i - 1 : Append(v, q[i])[j] = v[j]
      BY <1>3, <3>1
    <3>5. \A j \in 1 .. i : j = i \/ j \in 1 .. i - 1
      BY <1>1
    <3>. QED
      BY <3>1, <3>2, <3>3, <3>4, <3>5
  <2>2. u \in Seq(S) /\ Len(u) = i
    BY <1>2 DEF u
  <2>. QED
    BY <2>1, <2>2 DEF u, v
<1>. QED
  BY <1>1, <1>3, <1>4

WalkOf(node, path, n, f) ==
    f = [i \in 0 .. n |-> IF i = 0 THEN node ELSE Child(f[i - 1], path[i])]

LEMMA WalkExists ==
    ASSUME NEW node, NEW path, NEW n \in Nat
    PROVE  \E f : WalkOf(node, path, n, f)
<1>. DEFINE Made == {m \in Nat : \E f : WalkOf(node, path, m, f)}
<1>1. 0 \in Made
  <2>. DEFINE f == [i \in 0 .. 0 |-> node]
  <2>1. WalkOf(node, path, 0, f)
    BY DEF WalkOf
  <2>. QED
    BY <2>1
<1>2. ASSUME NEW m \in Nat, m \in Made
      PROVE  m + 1 \in Made
  <2>1. PICK f : WalkOf(node, path, m, f)
    BY <1>2
  <2>. DEFINE step(h, i) == IF i = 0 THEN node ELSE Child(h[i - 1], path[i])
              g == [i \in 0 .. m + 1 |-> step(f, i)]
  <2>2. \A i \in 0 .. m : g[i] = f[i]
    BY <2>1 DEF WalkOf
  <2>3. \A i \in 0 .. m + 1 : i = 0 \/ i - 1 \in 0 .. m
    OBVIOUS
  <2>4. \A i \in 0 .. m + 1 : step(f, i) = step(g, i)
    BY <2>2, <2>3
  <2>5. g = [i \in 0 .. m + 1 |-> step(g, i)]
    BY <2>4
  <2>. HIDE DEF g
  <2>6. WalkOf(node, path, m + 1, g)
    BY <2>5 DEF WalkOf
  <2>. QED
    BY <2>6
<1>. HIDE DEF Made
<1>3. n \in Made
  BY <1>1, <1>2, NumberInduction
<1>. QED
  BY <1>3 DEF Made

LEMMA WalkSteps ==
    ASSUME NEW node, NEW path, NEW n \in Nat, NEW f, WalkOf(node, path, n, f)
    PROVE  f[0] = node /\ \A i \in 1 .. n : f[i] = Child(f[i - 1], path[i])
<1>1. \A i \in 0 .. n : f[i] = IF i = 0 THEN node ELSE Child(f[i - 1], path[i])
  BY DEF WalkOf
<1>2. 0 \in 0 .. n /\ \A i \in 1 .. n : i \in 0 .. n /\ i # 0
  OBVIOUS
<1>. QED
  BY <1>1, <1>2

\* Where two paths have the same segments, they lead to the same.
LEMMA SameWalk ==
    ASSUME NEW node, NEW p, NEW q, NEW m \in Nat, NEW n \in Nat, m <= n,
           \A i \in 1 .. m : p[i] = q[i],
           NEW f, WalkOf(node, p, m, f), NEW g, WalkOf(node, q, n, g)
    PROVE  f[m] = g[m]
<1>. DEFINE T == {i \in Nat : i <= m => f[i] = g[i]}
<1>1. /\ f[0] = node /\ g[0] = node
      /\ \A i \in 1 .. m : f[i] = Child(f[i - 1], p[i])
      /\ \A i \in 1 .. n : g[i] = Child(g[i - 1], q[i])
  BY WalkSteps
<1>2. 0 \in T
  BY <1>1
<1>3. ASSUME NEW i \in Nat, i \in T
      PROVE  i + 1 \in T
  <2>. SUFFICES ASSUME i + 1 <= m
                PROVE  f[i + 1] = g[i + 1]
    OBVIOUS
  <2>1. i + 1 \in 1 .. m /\ i + 1 \in 1 .. n /\ (i + 1) - 1 = i /\ i <= m
    OBVIOUS
  <2>2. f[i] = g[i]
    BY <1>3, <2>1
  <2>. QED
    BY <1>1, <2>1, <2>2
<1>. HIDE DEF T
<1>4. m \in T
  BY <1>2, <1>3, NumberInduction
<1>. QED
  BY <1>4 DEF T

LEMMA WalkOfAt ==
    ASSUME NEW node, NEW S, NEW path \in Seq(S)
    PROVE  \E f : WalkOf(node, path, Len(path), f) /\ At(node, path) = f[Len(path)]
<1>. DEFINE W == CHOOSE f : WalkOf(node, path, Len(path), f)
<1>1. WalkOf(node, path, Len(path), W)
  BY WalkExists
<1>2. At(node, path) = W[Len(path)]
  BY Zenon DEF At, WalkOf
<1>. QED
  BY <1>1, <1>2

LEMMA AtEmpty == \A node : At(node, <<>>) = node
<1>. TAKE node
<1>1. <<>> \in Seq({}) /\ Len(<<>>) = 0
  OBVIOUS
<1>2. PICK f : WalkOf(node, <<>>, 0, f) /\ At(node, <<>>) = f[0]
  BY <1>1, WalkOfAt
<1>. QED
  BY <1>2, WalkSteps

LEMMA AtAppend ==
    ASSUME NEW node, NEW S, NEW p \in Seq(S), NEW s \in S
    PROVE  At(node, Append(p, s)) = Child(At(node, p), s)
<1>. DEFINE q == Append(p, s)
<1>1. /\ q \in Seq(S) /\ Len(q) = Len(p) + 1 /\ Len(p) \in Nat /\ q[Len(q)] = s
      /\ \A i \in 1 .. Len(p) : p[i] = q[i]
  OBVIOUS
<1>. HIDE DEF q
<1>2. PICK f : WalkOf(node, p, Len(p), f) /\ At(node, p) = f[Len(p)]
  BY WalkOfAt
<1>3. PICK g : WalkOf(node, q, Len(q), g) /\ At(node, q) = g[Len(q)]
  BY <1>1, WalkOfAt
<1>4. Len(q) \in Nat /\ Len(p) <= Len(q) /\ Len(q) \in 1 .. Len(q) /\ Len(q) - 1 = Len(p)
  BY <1>1
<1>5. f[Len(p)] = g[Len(p)]
  BY <1>1, <1>2, <1>3, <1>4, SameWalk
<1>6. g[Len(q)] = Child(g[Len(q) - 1], q[Len(q)])
  BY <1>3, <1>4, WalkSteps
<1>. QED
  BY <1>1, <1>2, <1>3, <1>4, <1>5, <1>6 DEF q

LEMMA AtNext ==
    ASSUME NEW node, NEW S, NEW q \in Seq(S), NEW i \in 1 .. Len(q)
    PROVE  At(node, Upto(q, i)) = Child(At(node, Upto(q, i - 1)), q[i])
<1>1. /\ i - 1 \in 0 .. Len(q) /\ q[i] \in S
      /\ Upto(q, i) = Append(Upto(q, i - 1), q[i])
  BY UptoNext
<1>2. Upto(q, i - 1) \in Seq(S)
  BY <1>1, UptoPath
<1>. QED
  BY <1>1, <1>2, AtAppend

\* Below where two nodes are the same, they are the same.
LEMMA SameBelow ==
    ASSUME NEW m, NEW n, NEW S, NEW q \in Seq(S), NEW i \in 0 .. Len(q),
           At(m, Upto(q, i)) = At(n, Upto(q, i))
    PROVE  At(m, q) = At(n, q)
<1>. DEFINE T == {j \in Nat : i <= j /\ j <= Len(q) => At(m, Upto(q, j)) = At(n, Upto(q, j))}
<1>0. i \in Nat /\ Len(q) \in Nat
  OBVIOUS
<1>1. 0 \in T
  BY <1>0
<1>2. ASSUME NEW j \in Nat, j \in T
      PROVE  j + 1 \in T
  <2>. SUFFICES ASSUME i <= j + 1, j + 1 <= Len(q)
                PROVE  At(m, Upto(q, j + 1)) = At(n, Upto(q, j + 1))
    OBVIOUS
  <2>1. CASE i = j + 1
    BY <2>1
  <2>2. CASE i # j + 1
    <3>1. i <= j /\ j <= Len(q) /\ j + 1 \in 1 .. Len(q) /\ (j + 1) - 1 = j
      BY <1>0, <2>2
    <3>2. At(m, Upto(q, j)) = At(n, Upto(q, j))
      BY <1>2, <3>1
    <3>3. \A x : At(x, Upto(q, j + 1)) = Child(At(x, Upto(q, j)), q[j + 1])
      BY <3>1, AtNext
    <3>. QED
      BY <3>2, <3>3
  <2>. QED
    BY <2>1, <2>2
<1>. HIDE DEF T
<1>3. Len(q) \in T
  BY <1>0, <1>1, <1>2, NumberInduction
<1>4. At(m, Upto(q, Len(q))) = At(n, Upto(q, Len(q)))
  BY <1>0, <1>3 DEF T
<1>5. Upto(q, Len(q)) = q
  BY <1>0, UptoPath
<1>. QED
  BY <1>4, <1>5

LEMMA LastStep ==
    ASSUME NEW node, NEW S, NEW q \in Seq(S), q # <<>>
    PROVE  /\ Len(q) \in 1 .. Len(q)
           /\ Upto(q, Len(q) - 1) \in Seq(S) /\ Len(Upto(q, Len(q) - 1)) = Len(q) - 1
           /\ q[Len(q)] \in S /\ q = Append(Upto(q, Len(q) - 1), q[Len(q)])
           /\ At(node, q) = Child(At(node, Upto(q, Len(q) - 1)), q[Len(q)])
<1>1. Len(q) \in Nat /\ Len(q) # 0 /\ Len(q) \in 1 .. Len(q) /\ Len(q) \in 0 .. Len(q)
  OBVIOUS
<1>2. Upto(q, Len(q)) = q
  BY <1>1, UptoPath
<1>3. Len(q) - 1 \in 0 .. Len(q) /\ q[Len(q)] \in S
      /\ Upto(q, Len(q)) = Append(Upto(q, Len(q) - 1), q[Len(q)])
  BY <1>1, UptoNext
<1>4. At(node, Upto(q, Len(q))) = Child(At(node, Upto(q, Len(q) - 1)), q[Len(q)])
  BY <1>1, AtNext
<1>5. Upto(q, Len(q) - 1) \in Seq(S) /\ Len(Upto(q, Len(q) - 1)) = Len(q) - 1
  BY <1>3, UptoPath
<1>. QED
  BY <1>1, <1>2, <1>3, <1>4, <1>5

\* A path leads one level down with every segment.
LEMMA AtLevel ==
    ASSUME NEW d \in 0 .. Depth, NEW n \in Node[d], NEW S, NEW q \in Seq(S)
    PROVE  \/ At(n, q) = Missing
           \/ Len(q) <= d /\ d - Len(q) \in 0 .. Depth /\ At(n, q) \in Node[d - Len(q)]
<1>. DEFINE Level(p) == \/ At(n, p) = Missing
                        \/ Len(p) <= d /\ At(n, p) \in Node[d - Len(p)]
            T == {l \in Nat : \A p \in Seq(S) : Len(p) = l => Level(p)}
<1>0. Depth \in Nat /\ d \in Nat /\ d <= Depth
  BY TreesAssumption
<1>1. 0 \in T
  <2>1. \A p \in Seq(S) : Len(p) = 0 => p = <<>>
    OBVIOUS
  <2>. QED
    BY <1>0, <2>1, AtEmpty
<1>2. ASSUME NEW l \in Nat, l \in T
      PROVE  l + 1 \in T
  <2>. SUFFICES ASSUME NEW p \in Seq(S), Len(p) = l + 1
                PROVE  Level(p)
    OBVIOUS
  <2>1. p # <<>>
    OBVIOUS
  <2>. DEFINE u == Upto(p, l)
  <2>2. u \in Seq(S) /\ Len(u) = l /\ At(n, p) = Child(At(n, u), p[l + 1])
    <3>1. Len(p) - 1 = l
      OBVIOUS
    <3>2. /\ Upto(p, Len(p) - 1) \in Seq(S) /\ Len(Upto(p, Len(p) - 1)) = Len(p) - 1
          /\ At(n, p) = Child(At(n, Upto(p, Len(p) - 1)), p[Len(p)])
      BY <2>1, LastStep
    <3>. QED
      BY <3>1, <3>2
  <2>. HIDE DEF u
  <2>3. Level(u)
    BY <1>2, <2>2
  <2>4. CASE At(n, u) = Missing
    BY <2>2, <2>4, ChildOfMissing
  <2>5. CASE At(n, u) # Missing
    <3>1. l <= d /\ At(n, u) \in Node[d - l] /\ d - l \in 0 .. Depth
      BY <1>0, <2>2, <2>3, <2>5
    <3>2. At(n, p) \in Below(d - l) \cup {Missing}
      BY <2>2, <3>1, ChildNode
    <3>3. CASE l = d
      BY <1>0, <3>2, <3>3 DEF Below
    <3>4. CASE l # d
      <4>1. d - l # 0 /\ (d - l) - 1 = d - (l + 1) /\ l + 1 <= d
        BY <1>0, <3>1, <3>4
      <4>. QED
        BY <3>2, <4>1 DEF Below
    <3>. QED
      BY <3>3, <3>4
  <2>. QED
    BY <2>4, <2>5
<1>. HIDE DEF T
<1>3. Len(q) \in Nat /\ Len(q) \in T
  BY <1>1, <1>2, NumberInduction
<1>4. Level(q)
  BY <1>3 DEF T
<1>. QED
  BY <1>0, <1>3, <1>4

\* A node of the shape that documents are made of, or none.
Shaped(n) == (IsDict(n) => DictNode(n)) /\ (IsList(n) => ListNode(n) /\ ~IsDict(n))

LEMMA ShapedNode == \A d \in 0 .. Depth : \A n \in Node[d] \cup {Missing} : Shaped(n)
<1>. SUFFICES ASSUME NEW d \in 0 .. Depth, NEW n \in Node[d] \cup {Missing}
              PROVE  Shaped(n)
  OBVIOUS
<1>1. CASE n = Missing
  BY <1>1, Kinds DEF Shaped
<1>2. CASE n \in Node[d]
  <2>1. IsDict(n) => ~IsList(n)
    BY <1>2, PartsOfNodes DEF NodeParts
  <2>. QED
    BY <1>2, <2>1, NodeShapes DEF Shaped
<1>. QED
  BY <1>1, <1>2

LEMMA AtShaped ==
    ASSUME NEW D \in Document, NEW S, NEW q \in Seq(S)
    PROVE  /\ Shaped(At(D, q))
           /\ IsDict(At(D, q)) \/ IsList(At(D, q)) => Len(q) < Depth
<1>1. D \in Node[Depth] /\ Depth \in 0 .. Depth /\ Depth \in Nat /\ Len(q) \in Nat
  BY DocumentIsNode, TreesAssumption
<1>2. CASE At(D, q) = Missing
  <2>1. 0 \in 0 .. Depth /\ At(D, q) \in Node[0] \cup {Missing}
    BY <1>1, <1>2
  <2>2. Shaped(At(D, q))
    BY <2>1, ShapedNode
  <2>. QED
    BY <1>2, <2>2, Kinds
<1>3. CASE At(D, q) # Missing
  <2>. DEFINE d == Depth - Len(q)
  <2>1. Len(q) <= Depth /\ d \in 0 .. Depth /\ At(D, q) \in Node[d]
    BY <1>1, <1>3, AtLevel
  <2>2. NodeParts(d)
    BY <2>1, PartsOfNodes
  <2>3. IsDict(At(D, q)) \/ IsList(At(D, q)) => d > 0
    BY <2>1, <2>2 DEF NodeParts
  <2>4. Shaped(At(D, q))
    BY <2>1, ShapedNode
  <2>. QED
    BY <1>1, <2>1, <2>3, <2>4
<1>. QED
  BY <1>2, <1>3

(***************************************************************************)
(* The calls of _collect_changes, and the fields of a review.              *)
(***************************************************************************)
Reaches(m, n, path) == Call(At(m, path), At(n, path), path)

Goes(m, n, path, segment) ==
    /\ At(m, path) # At(n, path) /\ Opened(At(m, path), At(n, path))
    /\ segment \in Segments(Reaches(m, n, path))

\* _collect_changes gets to the path.
Reached(m, n, path) == \A i \in 1 .. Len(path) : Goes(m, n, Upto(path, i - 1), path[i])

\* Every part of the path before the last segment is compared part by part.
OpenBefore(m, n, path) ==
    \A i \in 1 .. Len(path) : Opened(At(m, Upto(path, i - 1)), At(n, Upto(path, i - 1)))

\* The path ends where the comparison part by part ends.
Edge(m, n, path) ==
    path # <<>> /\ OpenBefore(m, n, path) /\ ~Opened(At(m, path), At(n, path))

\* The path of a field of the review.
FieldPath(m, n, path) ==
    /\ path \in Paths /\ Edge(m, n, path) /\ At(m, path) # At(n, path)
    /\ Head(path) \notin SystemRootFields

LEMMA CallHas ==
    \A x, y, p : /\ Call(x, y, p).current = x /\ Call(x, y, p).candidate = y
                 /\ Call(x, y, p).path = p
  BY DEF Call

LEMMA StableItems ==
    ASSUME NEW n, Stable(n), ListNode(n)
    PROVE  /\ n = List(n.items) /\ ~IsDict(n)
           /\ \E S : n.items \in Seq(S)
           /\ \A i \in 1 .. Len(n.items) :
                 /\ Identified(n.items[i]) /\ IdOf(n.items[i]) \in Ids
                 /\ IdOf(n.items[i]) \in IdsIn(n)
           /\ \A i, j \in 1 .. Len(n.items) : IdOf(n.items[i]) = IdOf(n.items[j]) => i = j
           /\ IdsIn(n) = {IdOf(n.items[i]) : i \in 1 .. Len(n.items)}
           /\ IdsIn(n) \subseteq Ids
<1>1. n = List(n.items)
  BY DEF ListNode
<1>2. ~IsDict(List(n.items))
  BY Kinds
<1>3. PICK S : n.items \in Seq(S)
  BY DEF ListNode
<1>4. DOMAIN n.items = 1 .. Len(n.items)
  BY <1>3
<1>5. \A i \in 1 .. Len(n.items) : Identified(n.items[i])
  BY <1>4 DEF Stable
<1>6. \A x : Identified(x) => IdOf(x) \in Ids
  <2>. SUFFICES ASSUME NEW x, Identified(x)
                PROVE  IdOf(x) \in Ids
    OBVIOUS
  <2>1. PICK id \in Ids : Get(x, "id") = Leaf(id)
    BY DEF Identified
  <2>. QED
    BY <2>1, Kinds DEF IdOf
<1>7. \A i, j \in 1 .. Len(n.items) : IdOf(n.items[i]) = IdOf(n.items[j]) => i = j
  BY <1>4 DEF Stable
<1>8. IdsIn(n) = {IdOf(n.items[i]) : i \in 1 .. Len(n.items)}
  BY <1>4 DEF IdsIn
<1>. QED
  BY <1>1, <1>2, <1>3, <1>5, <1>6, <1>7, <1>8

\* The segments that select an item of a stable list are those of its ids.
LEMMA StableChild ==
    ASSUME NEW n, Stable(n), ListNode(n), NEW s
    PROVE  Child(n, s) # Missing => \E id \in IdsIn(n) : s = ItemSegment(id)
<1>1. PICK S : n.items \in Seq(S)
  BY StableItems
<1>2. n = List(n.items)
  BY StableItems
<1>3. CASE NoneSelected(n.items, s)
  BY <1>1, <1>2, <1>3, FirstItem
<1>4. CASE \E j : First(n.items, s, j)
  <2>1. PICK j \in 1 .. Len(n.items) : Selects(n.items[j], s)
    BY <1>4 DEF First
  <2>2. IdOf(n.items[j]) \in IdsIn(n)
    BY StableItems
  <2>. QED
    BY <2>1, <2>2 DEF Selects
<1>. QED
  BY <1>1, <1>3, <1>4, FirstItem

LEMMA OpenedKinds ==
    ASSUME NEW m, NEW n, Shaped(m), Shaped(n), Opened(m, n)
    PROVE  \/ DictNode(m) /\ DictNode(n)
           \/ Stable(m) /\ Stable(n) /\ ListNode(m) /\ ListNode(n) /\ ~IsDict(m) /\ ~IsDict(n)
  BY DEF Opened, Shaped, Stable

\* Where two opened nodes differ below a segment, _collect_changes goes on with it.
LEMMA GoesOn ==
    ASSUME NEW m, NEW n, NEW path, NEW s, Shaped(m), Shaped(n), Opened(m, n),
           Child(m, s) # Child(n, s), path = <<>> => s \notin SystemRootFields
    PROVE  s \in Segments(Call(m, n, path))
<1>1. CASE DictNode(m) /\ DictNode(n)
  <2>1. Get(m, s) # Get(n, s)
    BY <1>1, ChildOfDict
  <2>2. s \in Keys
    BY <2>1 DEF Get
  <2>3. IsDict(m)
    BY <1>1, Zenon DEF DictNode
  <2>. QED
    BY <2>1, <2>2, <2>3, CallHas DEF Segments
<1>2. CASE Stable(m) /\ Stable(n) /\ ListNode(m) /\ ListNode(n) /\ ~IsDict(m)
  <2>1. Child(m, s) # Missing \/ Child(n, s) # Missing
    OBVIOUS
  <2>2. \E id \in IdsIn(n) \cup IdsIn(m) : s = ItemSegment(id)
    BY <1>2, <2>1, StableChild
  <2>. QED
    BY <1>2, <2>2, CallHas DEF Segments, ComparedIds
<1>. QED
  BY <1>1, <1>2, OpenedKinds

LEMMA SegmentsAreSteps ==
    ASSUME NEW m, NEW n, NEW path, NEW s, Shaped(m), Shaped(n), Opened(m, n),
           s \in Segments(Call(m, n, path))
    PROVE  /\ s \in Steps
           /\ IsDict(m) => s \in Keys /\ (path = <<>> => s \notin SystemRootFields)
           /\ ~IsDict(m) => s \in ItemSegments
<1>1. CASE DictNode(m) /\ DictNode(n)
  <2>3. IsDict(m)
    BY <1>1, Zenon DEF DictNode
  <2>. QED
    BY <2>3, CallHas DEF Segments, Steps
<1>2. CASE Stable(m) /\ Stable(n) /\ ListNode(m) /\ ListNode(n) /\ ~IsDict(m)
  <2>1. s \in {ItemSegment(id) : id \in IdsIn(n) \cup IdsIn(m)}
    BY <1>2, CallHas DEF Segments, ComparedIds
  <2>2. IdsIn(n) \cup IdsIn(m) \subseteq Ids
    BY <1>2, StableItems
  <2>3. s \in ItemSegments
    BY <2>1, <2>2 DEF ItemSegments
  <2>. QED
    BY <1>2, <2>3 DEF Steps
<1>. QED
  BY <1>1, <1>2, OpenedKinds

CallsOf(m, n, d, f) ==
    f = [e \in 0 .. d |->
            {Call(m, n, <<>>)} \cup IF e = 0 THEN {} ELSE UNION {InnerCalls(call) : call \in f[e - 1]}]

LEMMA CallsExist ==
    ASSUME NEW m, NEW n, NEW d \in Nat
    PROVE  \E f : CallsOf(m, n, d, f)
<1>. DEFINE Made == {e \in Nat : \E f : CallsOf(m, n, e, f)}
            step(h, e) == {Call(m, n, <<>>)} \cup
                          IF e = 0 THEN {} ELSE UNION {InnerCalls(call) : call \in h[e - 1]}
<1>1. 0 \in Made
  <2>. DEFINE f == [e \in 0 .. 0 |-> {Call(m, n, <<>>)}]
  <2>1. CallsOf(m, n, 0, f)
    BY DEF CallsOf
  <2>. QED
    BY <2>1
<1>2. ASSUME NEW e \in Nat, e \in Made
      PROVE  e + 1 \in Made
  <2>1. PICK f : CallsOf(m, n, e, f)
    BY <1>2
  <2>. DEFINE g == [i \in 0 .. e + 1 |-> step(f, i)]
  <2>2. \A i \in 0 .. e : g[i] = f[i]
    BY <2>1 DEF CallsOf
  <2>3. \A i \in 0 .. e + 1 : i = 0 \/ i - 1 \in 0 .. e
    OBVIOUS
  <2>4. \A i \in 0 .. e + 1 : step(f, i) = step(g, i)
    BY <2>2, <2>3
  <2>5. g = [i \in 0 .. e + 1 |-> step(g, i)]
    BY <2>4
  <2>. HIDE DEF g
  <2>6. CallsOf(m, n, e + 1, g)
    BY <2>5 DEF CallsOf
  <2>. QED
    BY <2>6
<1>. HIDE DEF Made
<1>3. d \in Made
  BY <1>1, <1>2, NumberInduction
<1>. QED
  BY <1>3 DEF Made

LEMMA CallsOfReview ==
    ASSUME NEW m, NEW n
    PROVE  \E f : CallsOf(m, n, Depth, f) /\ CollectChanges(m, n) = f[Depth]
<1>. DEFINE F == CHOOSE f : CallsOf(m, n, Depth, f)
<1>1. CallsOf(m, n, Depth, F)
  BY CallsExist, TreesAssumption
<1>2. CollectChanges(m, n) = F[Depth]
  BY Zenon DEF CollectChanges, CallsOf
<1>. HIDE DEF F
<1>. QED
  BY <1>1, <1>2

LEMMA ReachedPrefix ==
    ASSUME NEW m, NEW n, NEW S, NEW q \in Seq(S), q # <<>>
    PROVE  Reached(m, n, q) <=> /\ Reached(m, n, Upto(q, Len(q) - 1))
                                /\ Goes(m, n, Upto(q, Len(q) - 1), q[Len(q)])
<1>. DEFINE l == Len(q) - 1
            u == Upto(q, l)
<1>1. Len(q) \in Nat /\ l \in 0 .. Len(q) /\ l + 1 = Len(q) /\ l \in Nat
  OBVIOUS
<1>2. Len(u) = l /\ (\A i \in 1 .. l : u[i] = q[i]) /\ \A i \in 0 .. l : Upto(u, i) = Upto(q, i)
  <2>. HIDE DEF l
  <2>. QED
    BY <1>1, UptoPath
<1>. HIDE DEF l, u
<1>3. \A i \in 1 .. l : i - 1 \in 0 .. l
  BY <1>1
<1>4. Reached(m, n, u) <=> \A i \in 1 .. l : Goes(m, n, Upto(q, i - 1), q[i])
  BY <1>2, <1>3 DEF Reached
<1>5. 1 .. Len(q) = (1 .. l) \cup {Len(q)}
  BY <1>1
<1>6. Reached(m, n, q) <=> /\ \A i \in 1 .. l : Goes(m, n, Upto(q, i - 1), q[i])
                           /\ Goes(m, n, u, q[Len(q)])
  BY <1>5 DEF Reached, u, l
<1>. QED
  BY <1>4, <1>6 DEF u, l

LEMMA InnerCallsOf ==
    ASSUME NEW D \in Document, NEW C \in Document, NEW p \in Paths
    PROVE  InnerCalls(Reaches(D, C, p))
             = {Reaches(D, C, Append(p, s)) : s \in {t \in Steps : Goes(D, C, p, t)}}
<1>. DEFINE m == At(D, p)
            n == At(C, p)
<1>1. Shaped(m) /\ Shaped(n)
  BY AtShaped DEF Paths
<1>2. \A s : Goes(D, C, p, s) => s \in Steps
  BY <1>1, SegmentsAreSteps DEF Goes, Reaches
<1>3. \A s \in Steps : /\ At(D, Append(p, s)) = Child(m, s)
                       /\ At(C, Append(p, s)) = Child(n, s)
  BY AtAppend DEF Paths
<1>4. \A s \in Steps : Reaches(D, C, Append(p, s)) = Call(Child(m, s), Child(n, s), Append(p, s))
  BY <1>3 DEF Reaches
<1>5. InnerCalls(Call(m, n, p)) =
          IF m # n /\ Opened(m, n)
          THEN {Call(Child(m, s), Child(n, s), Append(p, s)) : s \in Segments(Call(m, n, p))}
          ELSE {}
  <2>. DEFINE c == Call(m, n, p)
  <2>1. c.current = m /\ c.candidate = n /\ c.path = p
    BY CallHas
  <2>. HIDE DEF c, m, n
  <2>2. InnerCalls(c) = IF m # n /\ Opened(m, n)
                        THEN {Call(Child(m, s), Child(n, s), Append(p, s)) : s \in Segments(c)}
                        ELSE {}
    BY <2>1 DEF InnerCalls
  <2>. QED
    BY <2>2 DEF c, m, n
<1>. HIDE DEF m, n
<1>6. \A s : Goes(D, C, p, s) <=> m # n /\ Opened(m, n) /\ s \in Segments(Call(m, n, p))
  BY DEF Goes, Reaches, m, n
<1>7. CASE m # n /\ Opened(m, n)
  <2>1. Segments(Call(m, n, p)) = {t \in Steps : Goes(D, C, p, t)}
    BY <1>2, <1>6, <1>7
  <2>. QED
    BY <1>4, <1>5, <1>7, <2>1 DEF Reaches, m, n
<1>8. CASE ~(m # n /\ Opened(m, n))
  BY <1>5, <1>6, <1>8 DEF Reaches, m, n
<1>. QED
  BY <1>7, <1>8

CallsUpto(m, n, d) == {Reaches(m, n, q) : q \in {p \in Paths : Len(p) <= d /\ Reached(m, n, p)}}

LEMMA ReachedCalls ==
    ASSUME NEW D \in Document, NEW C \in Document, NEW f, CallsOf(D, C, Depth, f)
    PROVE  f[Depth] = CallsUpto(D, C, Depth)
<1>. DEFINE T == {d \in Nat : d <= Depth => f[d] = CallsUpto(D, C, d)}
            first == Call(D, C, <<>>)
<1>0. Depth \in Nat
  BY TreesAssumption
<1>1. \A d \in 0 .. Depth :
         f[d] = {first} \cup IF d = 0 THEN {} ELSE UNION {InnerCalls(call) : call \in f[d - 1]}
  BY Zenon DEF CallsOf
<1>2. <<>> \in Paths /\ Len(<<>>) = 0 /\ first = Reaches(D, C, <<>>) /\ Reached(D, C, <<>>)
  <2>1. first = Reaches(D, C, <<>>)
    BY AtEmpty DEF Reaches
  <2>. QED
    BY <2>1 DEF Paths, Reached
<1>. HIDE DEF first
<1>3. 0 \in T
  <2>1. \A q \in Paths : Len(q) <= 0 => q = <<>>
    BY DEF Paths
  <2>2. CallsUpto(D, C, 0) = {first}
    BY <1>2, <2>1 DEF CallsUpto
  <2>3. f[0] = {first}
    BY <1>0, <1>1
  <2>. QED
    BY <2>2, <2>3
<1>4. ASSUME NEW d \in Nat, d \in T
      PROVE  d + 1 \in T
  <2>. SUFFICES ASSUME d + 1 <= Depth
                PROVE  f[d + 1] = CallsUpto(D, C, d + 1)
    OBVIOUS
  <2>1. d + 1 \in 0 .. Depth /\ d + 1 # 0 /\ (d + 1) - 1 = d /\ d <= Depth
    BY <1>0
  <2>2. f[d] = CallsUpto(D, C, d)
    BY <1>4, <2>1
  <2>3. f[d + 1] = {first} \cup UNION {InnerCalls(call) : call \in CallsUpto(D, C, d)}
    BY <1>1, <2>1, <2>2
  <2>4. ASSUME NEW q \in Paths, Len(q) <= d, Reached(D, C, q), NEW s \in Steps, Goes(D, C, q, s)
        PROVE  Reaches(D, C, Append(q, s)) \in CallsUpto(D, C, d + 1)
    <3>. DEFINE p == Append(q, s)
    <3>1. p \in Paths /\ Len(p) = Len(q) + 1 /\ Len(q) \in Nat /\ p # <<>> /\ p[Len(p)] = s
      BY DEF Paths
    <3>2. Upto(p, Len(p) - 1) = q
      <4>1. \A i \in 1 .. Len(q) : p[i] = q[i]
        BY DEF Paths
      <4>2. Upto(q, Len(q)) = q
        BY <3>1, UptoPath DEF Paths
      <4>. HIDE DEF p
      <4>. QED
        BY <3>1, <4>1, <4>2 DEF Upto
    <3>. HIDE DEF p
    <3>3. Reached(D, C, p)
      BY <2>4, <3>1, <3>2, ReachedPrefix DEF Paths
    <3>4. Len(p) <= d + 1
      BY <2>4, <3>1
    <3>5. Reaches(D, C, p) \in CallsUpto(D, C, d + 1)
      BY <3>1, <3>3, <3>4 DEF CallsUpto
    <3>. QED
      BY <3>5 DEF p
  <2>5. ASSUME NEW q \in Paths, Len(q) <= d + 1, Reached(D, C, q), q # <<>>
        PROVE  \E call \in CallsUpto(D, C, d) : Reaches(D, C, q) \in InnerCalls(call)
    <3>. DEFINE u == Upto(q, Len(q) - 1)
                s == q[Len(q)]
    <3>1. u \in Paths /\ Len(u) = Len(q) - 1 /\ s \in Steps /\ q = Append(u, s) /\ Len(q) \in Nat
      <4>1. q \in Seq(Steps) /\ Len(q) \in Nat
        BY DEF Paths
      <4>2. /\ Upto(q, Len(q) - 1) \in Seq(Steps) /\ Len(Upto(q, Len(q) - 1)) = Len(q) - 1
            /\ q[Len(q)] \in Steps /\ q = Append(Upto(q, Len(q) - 1), q[Len(q)])
        BY <2>5, <4>1, LastStep
      <4>. QED
        BY <4>1, <4>2 DEF Paths
    <3>2. Reached(D, C, u) /\ Goes(D, C, u, s)
      BY <2>5, ReachedPrefix DEF Paths
    <3>. HIDE DEF u, s
    <3>3. Reaches(D, C, u) \in CallsUpto(D, C, d)
      BY <2>5, <3>1, <3>2 DEF CallsUpto
    <3>4. Reaches(D, C, q) \in InnerCalls(Reaches(D, C, u))
      BY <3>1, <3>2, InnerCallsOf
    <3>. QED
      BY <3>3, <3>4
  <2>6. first \in CallsUpto(D, C, d + 1)
    BY <1>2 DEF CallsUpto
  <2>7. ASSUME NEW call \in CallsUpto(D, C, d), NEW c \in InnerCalls(call)
        PROVE  c \in CallsUpto(D, C, d + 1)
    <3>1. PICK q \in Paths : Len(q) <= d /\ Reached(D, C, q) /\ call = Reaches(D, C, q)
      BY <2>7 DEF CallsUpto
    <3>2. PICK s \in Steps : Goes(D, C, q, s) /\ c = Reaches(D, C, Append(q, s))
      BY <2>7, <3>1, InnerCallsOf
    <3>. QED
      BY <2>4, <3>1, <3>2
  <2>8. ASSUME NEW c \in CallsUpto(D, C, d + 1)
        PROVE  c = first \/ \E call \in CallsUpto(D, C, d) : c \in InnerCalls(call)
    <3>1. PICK q \in Paths : Len(q) <= d + 1 /\ Reached(D, C, q) /\ c = Reaches(D, C, q)
      BY <2>8 DEF CallsUpto
    <3>. QED
      BY <1>2, <2>5, <3>1
  <2>. QED
    BY <2>3, <2>6, <2>7, <2>8
<1>. HIDE DEF T
<1>5. Depth \in T
  BY <1>0, <1>3, <1>4, NumberInduction
<1>. QED
  BY <1>0, <1>5 DEF T

LEMMA HeadOfPath == \A q \in Paths : q # <<>> => Head(q) = q[1] /\ 1 \in 1 .. Len(q) /\ q[1] \in Steps
  BY DEF Paths

LEMMA FieldGoes ==
    ASSUME NEW D \in Document, NEW C \in Document, NEW q, FieldPath(D, C, q),
           NEW i \in 1 .. Len(q)
    PROVE  Goes(D, C, Upto(q, i - 1), q[i])
<1>. DEFINE u == Upto(q, i - 1)
<1>1. q \in Paths /\ OpenBefore(D, C, q) /\ At(D, q) # At(C, q) /\ q[1] \notin SystemRootFields
  BY HeadOfPath DEF FieldPath, Edge
<1>2. i - 1 \in 0 .. Len(q) /\ i \in 0 .. Len(q) /\ Len(q) \in Nat
  BY <1>1 DEF Paths
<1>3. \A j \in 0 .. Len(q) : At(D, Upto(q, j)) # At(C, Upto(q, j))
  BY <1>1, SameBelow DEF Paths
<1>4. u \in Paths /\ Len(u) = i - 1
  BY <1>1, <1>2, UptoPath DEF Paths
<1>5. At(D, u) # At(C, u) /\ Opened(At(D, u), At(C, u))
  BY <1>1, <1>2, <1>3 DEF OpenBefore
<1>6. Child(At(D, u), q[i]) # Child(At(C, u), q[i])
  BY <1>1, <1>2, <1>3, AtNext DEF Paths
<1>7. u = <<>> => q[i] \notin SystemRootFields
  BY <1>1, <1>4
<1>8. Shaped(At(D, u)) /\ Shaped(At(C, u))
  BY <1>4, AtShaped DEF Paths
<1>. HIDE DEF u
<1>9. Goes(D, C, u, q[i])
  BY <1>5, <1>6, <1>7, <1>8, GoesOn DEF Goes, Reaches
<1>. QED
  BY <1>9 DEF u

\* The fields of the review are found at the ends of the comparison part by part.
LEMMA ReviewPaths ==
    ASSUME NEW D \in Document, NEW C \in Document
    PROVE  Review(D, C) = {Change(Reaches(D, C, q)) : q \in {p \in Paths : FieldPath(D, C, p)}}
<1>1. CollectChanges(D, C) = CallsUpto(D, C, Depth)
  <2>1. PICK f : CallsOf(D, C, Depth, f) /\ CollectChanges(D, C) = f[Depth]
    BY CallsOfReview
  <2>. QED
    BY <2>1, ReachedCalls
<1>. DEFINE Ends(q) == Reached(D, C, q) /\ At(D, q) # At(C, q) /\ ~Opened(At(D, q), At(C, q))
<1>2. ASSUME NEW q \in Paths, Ends(q)
      PROVE  FieldPath(D, C, q)
  <2>1. q # <<>>
    <3>1. Opened(D, C)
      BY DocumentIsNode DEF Opened
    <3>. QED
      BY <1>2, <3>1, AtEmpty
  <2>2. OpenBefore(D, C, q)
    BY <1>2 DEF Reached, Goes, OpenBefore
  <2>3. q[1] \notin SystemRootFields
    <3>1. Goes(D, C, Upto(q, 0), q[1])
      BY <1>2, <2>1, HeadOfPath DEF Reached
    <3>2. Upto(q, 0) = <<>>
      BY UptoPath DEF Paths
    <3>3. q[1] \in Segments(Call(D, C, <<>>)) /\ Opened(D, C)
      BY <3>1, <3>2, AtEmpty DEF Goes, Reaches
    <3>4. IsDict(D) /\ Shaped(D) /\ Shaped(C)
      BY DocumentIsNode, ShapedNode, TreesAssumption
    <3>. QED
      BY <3>3, <3>4, SegmentsAreSteps
  <2>. QED
    BY <1>2, <2>1, <2>2, <2>3, HeadOfPath DEF FieldPath, Edge
<1>3. ASSUME NEW q \in Paths, FieldPath(D, C, q)
      PROVE  Ends(q) /\ Len(q) <= Depth
  <2>0. q # <<>> /\ OpenBefore(D, C, q) /\ At(D, q) # At(C, q) /\ ~Opened(At(D, q), At(C, q))
    BY <1>3 DEF FieldPath, Edge
  <2>2. ASSUME NEW i \in 1 .. Len(q)
        PROVE  Goes(D, C, Upto(q, i - 1), q[i])
    BY <1>3, FieldGoes
  <2>3. Len(q) <= Depth
    <3>. DEFINE u == Upto(q, Len(q) - 1)
    <3>1. Len(q) \in 1 .. Len(q) /\ u \in Paths /\ Len(u) = Len(q) - 1 /\ Len(q) \in Nat
      BY <2>0, LastStep DEF Paths
    <3>2. Opened(At(D, u), At(C, u))
      BY <2>0, <3>1 DEF OpenBefore
    <3>3. IsDict(At(D, u)) \/ IsList(At(D, u))
      BY <3>2 DEF Opened, Stable
    <3>. HIDE DEF u
    <3>4. Len(u) < Depth
      BY <3>1, <3>3, AtShaped DEF Paths
    <3>. QED
      BY <3>1, <3>4, TreesAssumption
  <2>. QED
    BY <2>0, <2>2, <2>3 DEF Reached
<1>4. {c \in CollectChanges(D, C) : c.current # c.candidate /\ ~Opened(c.current, c.candidate)}
        = {Reaches(D, C, q) : q \in {p \in Paths : FieldPath(D, C, p)}}
  <2>1. \A q : /\ Reaches(D, C, q).current = At(D, q)
               /\ Reaches(D, C, q).candidate = At(C, q)
    BY CallHas DEF Reaches
  <2>. HIDE DEF Ends
  <2>2. \A q \in Paths : Ends(q) /\ Len(q) <= Depth <=> FieldPath(D, C, q)
    BY <1>2, <1>3
  <2>. QED
    BY <1>1, <2>1, <2>2 DEF CallsUpto, Ends
<1>. QED
  BY <1>4 DEF Review

(***************************************************************************)
(* Equal content: no path has a difference.                                *)
(***************************************************************************)
Same(m, n) == \A p \in Paths : At(m, p) = At(n, p) \/ Opened(At(m, p), At(n, p))

LEMMA AtBelow ==
    ASSUME NEW node, NEW S, NEW s \in S, NEW q \in Seq(S)
    PROVE  At(node, <<s>> \o q) = At(Child(node, s), q)
<1>. DEFINE T == {l \in Nat : \A p \in Seq(S) :
                                 Len(p) = l => At(node, <<s>> \o p) = At(Child(node, s), p)}
<1>1. 0 \in T
  <2>. SUFFICES ASSUME NEW p \in Seq(S), Len(p) = 0
                PROVE  At(node, <<s>> \o p) = At(Child(node, s), p)
    OBVIOUS
  <2>1. p = <<>> /\ <<s>> \o p = Append(<<>>, s) /\ <<>> \in Seq(S)
    OBVIOUS
  <2>2. At(node, Append(<<>>, s)) = Child(At(node, <<>>), s)
    BY <2>1, AtAppend
  <2>. QED
    BY <2>1, <2>2, AtEmpty
<1>2. ASSUME NEW l \in Nat, l \in T
      PROVE  l + 1 \in T
  <2>. SUFFICES ASSUME NEW p \in Seq(S), Len(p) = l + 1
                PROVE  At(node, <<s>> \o p) = At(Child(node, s), p)
    OBVIOUS
  <2>. DEFINE u == Upto(p, Len(p) - 1)
              t == p[Len(p)]
  <2>1. u \in Seq(S) /\ Len(u) = l /\ t \in S /\ p = Append(u, t)
    <3>1. p # <<>>
      OBVIOUS
    <3>2. /\ Upto(p, Len(p) - 1) \in Seq(S) /\ Len(Upto(p, Len(p) - 1)) = Len(p) - 1
          /\ p[Len(p)] \in S /\ p = Append(Upto(p, Len(p) - 1), p[Len(p)])
      BY <3>1, LastStep
    <3>. QED
      BY <3>2
  <2>. HIDE DEF u, t
  <2>2. <<s>> \o u \in Seq(S) /\ <<s>> \o Append(u, t) = Append(<<s>> \o u, t)
    BY <2>1
  <2>3. At(node, <<s>> \o u) = At(Child(node, s), u)
    BY <1>2, <2>1
  <2>4. At(node, Append(<<s>> \o u, t)) = Child(At(node, <<s>> \o u), t)
    <3>. DEFINE v == <<s>> \o u
    <3>1. v \in Seq(S)
      BY <2>2
    <3>. HIDE DEF v
    <3>2. At(node, Append(v, t)) = Child(At(node, v), t)
      BY <2>1, <3>1, AtAppend
    <3>. QED
      BY <3>2 DEF v
  <2>5. At(Child(node, s), Append(u, t)) = Child(At(Child(node, s), u), t)
    BY <2>1, AtAppend
  <2>. QED
    BY <2>1, <2>2, <2>3, <2>4, <2>5
<1>. HIDE DEF T
<1>3. Len(q) \in Nat /\ Len(q) \in T
  BY <1>1, <1>2, NumberInduction
<1>. QED
  BY <1>3 DEF T

LEMMA SameSelf == \A m : Same(m, m)
  BY DEF Same

LEMMA SameStep ==
    ASSUME NEW m, NEW n
    PROVE  Same(m, n) <=> /\ m = n \/ Opened(m, n)
                          /\ \A s \in Steps : Same(Child(m, s), Child(n, s))
<1>1. ASSUME NEW s \in Steps, NEW p \in Paths
      PROVE  /\ <<s>> \o p \in Paths
             /\ At(m, <<s>> \o p) = At(Child(m, s), p)
             /\ At(n, <<s>> \o p) = At(Child(n, s), p)
  <2>1. <<s>> \o p \in Paths
    BY DEF Paths
  <2>. QED
    BY <2>1, AtBelow DEF Paths
<1>2. \A p \in Paths : p = <<>> \/ \E s \in Steps : \E q \in Paths : p = <<s>> \o q
  <2>. SUFFICES ASSUME NEW p \in Paths, p # <<>>
                PROVE  \E s \in Steps : \E q \in Paths : p = <<s>> \o q
    OBVIOUS
  <2>1. Head(p) \in Steps /\ Tail(p) \in Paths
    BY DEF Paths
  <2>2. p = <<Head(p)>> \o Tail(p)
    BY DEF Paths
  <2>. QED
    BY <2>1, <2>2, Zenon
<1>3. <<>> \in Paths /\ At(m, <<>>) = m /\ At(n, <<>>) = n
  BY AtEmpty DEF Paths
<1>4. ASSUME Same(m, n)
      PROVE  /\ m = n \/ Opened(m, n)
             /\ \A s \in Steps : Same(Child(m, s), Child(n, s))
  <2>1. m = n \/ Opened(m, n)
    BY <1>3, <1>4 DEF Same
  <2>2. ASSUME NEW s \in Steps, NEW p \in Paths
        PROVE  \/ At(Child(m, s), p) = At(Child(n, s), p)
               \/ Opened(At(Child(m, s), p), At(Child(n, s), p))
    <3>1. At(m, <<s>> \o p) = At(n, <<s>> \o p) \/ Opened(At(m, <<s>> \o p), At(n, <<s>> \o p))
      BY <1>1, <1>4 DEF Same
    <3>. QED
      BY <1>1, <3>1
  <2>. QED
    BY <2>1, <2>2 DEF Same
<1>5. ASSUME m = n \/ Opened(m, n), \A s \in Steps : Same(Child(m, s), Child(n, s)),
             NEW p \in Paths
      PROVE  At(m, p) = At(n, p) \/ Opened(At(m, p), At(n, p))
  <2>1. CASE p = <<>>
    BY <1>3, <1>5, <2>1
  <2>2. ASSUME NEW s \in Steps, NEW q \in Paths, p = <<s>> \o q
        PROVE  At(m, p) = At(n, p) \/ Opened(At(m, p), At(n, p))
    <3>1. \/ At(Child(m, s), q) = At(Child(n, s), q)
          \/ Opened(At(Child(m, s), q), At(Child(n, s), q))
      BY <1>5 DEF Same
    <3>. QED
      BY <1>1, <2>2, <3>1
  <2>. QED
    BY <1>2, <2>1, <2>2
<1>. QED
  BY <1>4, <1>5 DEF Same

ContentAt(below, d) ==
    [n \in Node[d] \cup {Missing} |->
        CASE IsDict(n) -> [dict |-> [k \in Keys |-> below[Get(n, k)]]]
          [] Stable(n) -> [byId |-> [id \in IdsIn(n) |-> below[Child(n, ItemSegment(id))]]]
          [] OTHER -> n]
ContentOf(f, d) == ContentAt(f[d - 1], d)

LEMMA NoContentBelow ==
    ASSUME NEW f, NEW g
    PROVE  ContentOf(f, 0) = ContentOf(g, 0) /\ ContentOf(f, 0) = [n \in Node[0] \cup {Missing} |-> n]
<1>1. \A n \in Node[0] \cup {Missing} : ~IsDict(n) /\ ~Stable(n)
  <2>1. NodeParts(0)
    BY PartsOfNodes, TreesAssumption
  <2>. QED
    BY <2>1, Kinds DEF NodeParts, Stable
<1>2. \A h : ContentOf(h, 0) = [n \in Node[0] \cup {Missing} |-> n]
  BY <1>1 DEF ContentOf, ContentAt
<1>. QED
  BY <1>2

LEMMA ContentExists == \E f : f = [d \in 0 .. Depth |-> ContentOf(f, d)]
<1>. DEFINE Made == {n \in Nat : \E f : f = [d \in 0 .. n |-> ContentOf(f, d)]}
<1>1. 0 \in Made
  <2>. DEFINE f == [d \in 0 .. 0 |-> [n \in Node[0] \cup {Missing} |-> n]]
  <2>1. f = [d \in 0 .. 0 |-> ContentOf(f, d)]
    BY NoContentBelow
  <2>. QED
    BY <2>1
<1>2. ASSUME NEW n \in Nat, n \in Made
      PROVE  n + 1 \in Made
  <2>1. PICK f : f = [d \in 0 .. n |-> ContentOf(f, d)]
    BY <1>2
  <2>. DEFINE g == [d \in 0 .. n + 1 |-> ContentOf(f, d)]
  <2>2. \A d \in 0 .. n : g[d] = f[d]
    BY <2>1
  <2>3. \A d \in 0 .. n + 1 : d = 0 \/ d - 1 \in 0 .. n
    OBVIOUS
  <2>. HIDE DEF g
  <2>4. ASSUME NEW d \in 0 .. n + 1
        PROVE  ContentOf(f, d) = ContentOf(g, d)
    <3>1. CASE d = 0
      BY <3>1, NoContentBelow
    <3>2. CASE d # 0
      <4>1. g[d - 1] = f[d - 1]
        BY <2>2, <2>3, <3>2
      <4>. QED
        BY <4>1 DEF ContentOf
    <3>. QED
      BY <3>1, <3>2
  <2>5. g = [d \in 0 .. n + 1 |-> ContentOf(g, d)]
    BY <2>4 DEF g
  <2>6. \E h : h = [d \in 0 .. n + 1 |-> ContentOf(h, d)]
    BY <2>5
  <2>. QED
    BY <2>6
<1>. HIDE DEF Made
<1>3. Depth \in Made
  BY <1>1, <1>2, NumberInduction, TreesAssumption
<1>. QED
  BY <1>3 DEF Made

LEMMA ContentLevels == \A d \in 0 .. Depth : Content[d] = ContentOf(Content, d)
<1>1. Content = CHOOSE f : f = [d \in 0 .. Depth |-> ContentOf(f, d)]
  BY Zenon DEF Content, ContentOf, ContentAt
<1>2. Content = [d \in 0 .. Depth |-> ContentOf(Content, d)]
  BY <1>1, ContentExists, Zenon
<1>. QED
  BY <1>2, Zenon

LEMMA StableHas ==
    ASSUME NEW n, Stable(n), ListNode(n), NEW id \in IdsIn(n)
    PROVE  /\ id \in Ids /\ Child(n, ItemSegment(id)) # Missing
           /\ Identified(Child(n, ItemSegment(id))) /\ IdOf(Child(n, ItemSegment(id))) = id
<1>. DEFINE s == ItemSegment(id)
<1>1. PICK S : n.items \in Seq(S)
  BY StableItems
<1>2. n = List(n.items) /\ IdsIn(n) \subseteq Ids
  BY StableItems
<1>3. PICK i \in 1 .. Len(n.items) : id = IdOf(n.items[i])
  BY StableItems
<1>4. Selects(n.items[i], s)
  BY <1>3, StableItems DEF Selects
<1>5. ~NoneSelected(n.items, s)
  BY <1>3, <1>4 DEF NoneSelected
<1>6. PICK j : First(n.items, s, j)
  BY <1>1, <1>5, FirstItem
<1>7. Child(n, s) = n.items[j] /\ j \in 1 .. Len(n.items) /\ Selects(n.items[j], s)
  BY <1>1, <1>2, <1>6, FirstItem DEF First
<1>8. IdOf(n.items[j]) \in Ids /\ id \in Ids
  BY <1>2, <1>7, StableItems
<1>9. IdOf(n.items[j]) = id
  BY <1>7, <1>8, TreesAssumption DEF Selects
<1>10. Child(n, s) # Missing
  <2>1. IsDict(n.items[j])
    BY <1>7 DEF Selects, Identified
  <2>. QED
    BY <1>7, <2>1, Kinds
<1>. QED
  BY <1>7, <1>8, <1>9, <1>10 DEF Selects

LEMMA ContentCases ==
    ASSUME NEW d \in 0 .. Depth, NEW n \in Node[d] \cup {Missing}
    PROVE  /\ IsDict(n) => Content[d][n] = [dict |-> [k \in Keys |-> Content[d - 1][Get(n, k)]]]
           /\ Stable(n) => Content[d][n] =
                  [byId |-> [id \in IdsIn(n) |-> Content[d - 1][Child(n, ItemSegment(id))]]]
           /\ ~IsDict(n) /\ ~Stable(n) => Content[d][n] = n
<1>1. Content[d] = ContentAt(Content[d - 1], d)
  BY ContentLevels DEF ContentOf
<1>2. IsDict(n) => ~Stable(n)
  BY ShapedNode DEF Shaped, Stable
<1>. DEFINE below == Content[d - 1]
<1>. HIDE DEF below
<1>3. ContentAt(below, d)[n] =
        CASE IsDict(n) -> [dict |-> [k \in Keys |-> below[Get(n, k)]]]
          [] Stable(n) -> [byId |-> [id \in IdsIn(n) |-> below[Child(n, ItemSegment(id))]]]
          [] OTHER -> n
  BY DEF ContentAt
<1>4. IsDict(n) => ContentAt(below, d)[n] = [dict |-> [k \in Keys |-> below[Get(n, k)]]]
  BY <1>2, <1>3
<1>5. Stable(n) => ContentAt(below, d)[n] =
         [byId |-> [id \in IdsIn(n) |-> below[Child(n, ItemSegment(id))]]]
  BY <1>2, <1>3
<1>6. ~IsDict(n) /\ ~Stable(n) => ContentAt(below, d)[n] = n
  BY <1>3
<1>. QED
  BY <1>1, <1>4, <1>5, <1>6 DEF below

LEMMA PlainNode ==
    ASSUME NEW d \in 0 .. Depth, NEW n \in Node[d] \cup {Missing}
    PROVE  \A x : n # [dict |-> x] /\ n # [byId |-> x]
<1>1. n = Missing \/ (NodeParts(d) /\ n \in Node[d])
  BY PartsOfNodes
<1>2. \/ n = Missing \/ n = Null \/ n = Dict(n.fields) \/ n = List(n.items)
      \/ n = Leaf(n.value)
  BY <1>1 DEF NodeParts, Leaf
<1>. QED
  BY <1>2 DEF Missing, Null, Dict, List, Leaf

ContentIsSame(d) ==
    \A m, n \in Node[d] \cup {Missing} : Content[d][m] = Content[d][n] <=> Same(m, n)

LEMMA ContentStep ==
    ASSUME NEW d \in 0 .. Depth, d > 0 => ContentIsSame(d - 1)
    PROVE  ContentIsSame(d)
<1>. SUFFICES ASSUME NEW m \in Node[d] \cup {Missing}, NEW n \in Node[d] \cup {Missing}
              PROVE  Content[d][m] = Content[d][n] <=> Same(m, n)
  BY DEF ContentIsSame
<1>1. Shaped(m) /\ Shaped(n)
  BY ShapedNode
<1>2. \A x \in Node[d] \cup {Missing} :
         IsDict(x) \/ IsList(x) =>
             /\ d > 0 /\ d - 1 \in 0 .. Depth
             /\ \A s : Child(x, s) \in Node[d - 1] \cup {Missing}
  <2>. SUFFICES ASSUME NEW x \in Node[d] \cup {Missing}, IsDict(x) \/ IsList(x)
                PROVE  /\ d > 0 /\ d - 1 \in 0 .. Depth
                       /\ \A s : Child(x, s) \in Node[d - 1] \cup {Missing}
    OBVIOUS
  <2>1. x \in Node[d]
    BY Kinds
  <2>2. d > 0
    BY <2>1, PartsOfNodes DEF NodeParts
  <2>3. d - 1 \in 0 .. Depth
    BY <2>2, TreesAssumption
  <2>. QED
    BY <2>1, <2>2, <2>3, ChildNode DEF Below
<1>3. \A x, y \in Node[d - 1] \cup {Missing} :
         d > 0 => (Content[d - 1][x] = Content[d - 1][y] <=> Same(x, y))
  BY DEF ContentIsSame
<1>4. CASE DictNode(m) /\ DictNode(n)
  <2>1. IsDict(m) /\ IsDict(n) /\ Opened(m, n)
    BY <1>4, Zenon DEF DictNode, Opened
  <2>2. \A s : Child(m, s) = Get(m, s) /\ Child(n, s) = Get(n, s)
    BY <1>4, ChildOfDict
  <2>3. \A s : (Content[d - 1][Get(m, s)] = Content[d - 1][Get(n, s)]
                  <=> Same(Child(m, s), Child(n, s)))
    BY <1>2, <1>3, <2>1, <2>2
  <2>4. \A s : s \notin Keys => Same(Child(m, s), Child(n, s))
    <3>1. \A s : s \notin Keys => Child(m, s) = Child(n, s)
      BY <2>2 DEF Get
    <3>. QED
      BY <3>1, SameSelf
  <2>5. Content[d][m] = [dict |-> [k \in Keys |-> Content[d - 1][Get(m, k)]]]
    BY <2>1, ContentCases
  <2>6. Content[d][n] = [dict |-> [k \in Keys |-> Content[d - 1][Get(n, k)]]]
    BY <2>1, ContentCases
  <2>. DEFINE f == [k \in Keys |-> Content[d - 1][Get(m, k)]]
              g == [k \in Keys |-> Content[d - 1][Get(n, k)]]
  <2>7. f = g <=> \A k \in Keys : Content[d - 1][Get(m, k)] = Content[d - 1][Get(n, k)]
    <3>1. f = g => \A k \in Keys : f[k] = g[k]
      OBVIOUS
    <3>. QED
      BY <3>1
  <2>. HIDE DEF f, g
  <2>8. Content[d][m] = Content[d][n] <=> f = g
    <3>1. \A x, y : [dict |-> x] = [dict |-> y] => x = y
      <4>1. \A x : [dict |-> x].dict = x
        OBVIOUS
      <4>. QED
        BY <4>1
    <3>. QED
      BY <2>5, <2>6, <3>1 DEF f, g
  <2>9. Same(m, n) <=> \A s \in Steps : Same(Child(m, s), Child(n, s))
    BY <2>1, SameStep
  <2>10. Same(m, n) <=> \A k \in Keys : Same(Child(m, k), Child(n, k))
    BY <2>4, <2>9 DEF Steps
  <2>. QED
    BY <2>3, <2>7, <2>8, <2>10
<1>5. CASE Stable(m) /\ Stable(n)
  <2>1. ListNode(m) /\ ListNode(n) /\ IsList(m) /\ IsList(n) /\ Opened(m, n)
    BY <1>1, <1>5 DEF Shaped, Stable, Opened
  <2>2. \A s : (Content[d - 1][Child(m, s)] = Content[d - 1][Child(n, s)]
                  <=> Same(Child(m, s), Child(n, s)))
    BY <1>2, <1>3, <2>1
  <2>. DEFINE f == [id \in IdsIn(m) |-> Content[d - 1][Child(m, ItemSegment(id))]]
              g == [id \in IdsIn(n) |-> Content[d - 1][Child(n, ItemSegment(id))]]
  <2>3. Content[d][m] = [byId |-> f] /\ Content[d][n] = [byId |-> g]
    BY <1>5, ContentCases
  <2>4. f = g <=> /\ IdsIn(m) = IdsIn(n)
                  /\ \A id \in IdsIn(m) : Content[d - 1][Child(m, ItemSegment(id))]
                                            = Content[d - 1][Child(n, ItemSegment(id))]
    <3>1. f = g => DOMAIN f = DOMAIN g /\ \A id \in DOMAIN f : f[id] = g[id]
      OBVIOUS
    <3>2. DOMAIN f = IdsIn(m) /\ DOMAIN g = IdsIn(n)
      OBVIOUS
    <3>. QED
      BY <3>1, <3>2
  <2>. HIDE DEF f, g
  <2>5. Content[d][m] = Content[d][n] <=> f = g
    <3>1. \A x, y : [byId |-> x] = [byId |-> y] => x = y
      <4>1. \A x : [byId |-> x].byId = x
        OBVIOUS
      <4>. QED
        BY <4>1
    <3>. QED
      BY <2>3, <3>1
  <2>6. Same(m, n) <=> \A s \in Steps : Same(Child(m, s), Child(n, s))
    BY <2>1, SameStep
  <2>7. ASSUME Same(m, n)
        PROVE  IdsIn(m) = IdsIn(n)
    <3>1. \A id \in Ids : Same(Child(m, ItemSegment(id)), Child(n, ItemSegment(id)))
      BY <2>6, <2>7 DEF Steps, ItemSegments
    <3>2. \A x, y : Same(x, y) => (x = Missing <=> y = Missing)
      <4>1. \A x : ~Opened(x, Missing) /\ ~Opened(Missing, x)
        BY Kinds DEF Opened, Stable
      <4>. QED
        BY <4>1, SameStep
    <3>3. \A x \in {m, n} : \A id \in Ids : Child(x, ItemSegment(id)) # Missing => id \in IdsIn(x)
      <4>. SUFFICES ASSUME NEW x \in {m, n}, NEW id \in Ids, Child(x, ItemSegment(id)) # Missing
                    PROVE  id \in IdsIn(x)
        OBVIOUS
      <4>1. Stable(x) /\ ListNode(x)
        BY <1>5, <2>1
      <4>2. PICK other \in IdsIn(x) : ItemSegment(id) = ItemSegment(other)
        BY <4>1, StableChild
      <4>3. other \in Ids
        BY <4>1, StableHas
      <4>. QED
        BY <4>2, <4>3, TreesAssumption
    <3>4. \A x \in {m, n} : \A id \in IdsIn(x) : id \in Ids /\ Child(x, ItemSegment(id)) # Missing
      BY <1>5, <2>1, StableHas
    <3>. QED
      BY <3>1, <3>2, <3>3, <3>4
  <2>8. ASSUME Same(m, n)
        PROVE  f = g
    <3>1. IdsIn(m) = IdsIn(n) /\ IdsIn(m) \subseteq Ids
      BY <1>5, <2>1, <2>7, <2>8, StableItems
    <3>2. \A id \in IdsIn(m) : Same(Child(m, ItemSegment(id)), Child(n, ItemSegment(id)))
      BY <2>6, <2>8, <3>1 DEF Steps, ItemSegments
    <3>. QED
      BY <2>2, <2>4, <3>1, <3>2
  <2>9. ASSUME f = g
        PROVE  Same(m, n)
    <3>1. IdsIn(m) = IdsIn(n)
      BY <2>4, <2>9
    <3>2. ASSUME NEW s \in Steps
          PROVE  Same(Child(m, s), Child(n, s))
      <4>1. CASE \E id \in IdsIn(m) : s = ItemSegment(id)
        BY <2>2, <2>4, <2>9, <4>1
      <4>2. CASE ~\E id \in IdsIn(m) : s = ItemSegment(id)
        <5>1. Child(m, s) = Missing /\ Child(n, s) = Missing
          BY <1>5, <2>1, <3>1, <4>2, StableChild
        <5>. QED
          BY <5>1, SameSelf
      <4>. QED
        BY <4>1, <4>2
    <3>. QED
      BY <2>6, <3>2
  <2>. QED
    BY <2>5, <2>8, <2>9
<1>6. CASE ~Opened(m, n)
  <2>1. Same(m, n) <=> m = n
    BY <1>6, SameStep, SameSelf
  <2>2. ASSUME Content[d][m] = Content[d][n]
        PROVE  m = n
    <3>1. \A x, y : [dict |-> x] # [byId |-> y]
      OBVIOUS
    <3>2. \A x \in {m, n} :
             /\ IsDict(x) => \E y : Content[d][x] = [dict |-> y]
             /\ Stable(x) => \E y : Content[d][x] = [byId |-> y]
             /\ ~IsDict(x) /\ ~Stable(x) => Content[d][x] = x
      <4>. SUFFICES ASSUME NEW x \in Node[d] \cup {Missing}
                    PROVE  /\ IsDict(x) => \E y : Content[d][x] = [dict |-> y]
                           /\ Stable(x) => \E y : Content[d][x] = [byId |-> y]
                           /\ ~IsDict(x) /\ ~Stable(x) => Content[d][x] = x
        OBVIOUS
      <4>1. IsDict(x) => \E y : Content[d][x] = [dict |-> y]
        <5>. DEFINE w == [k \in Keys |-> Content[d - 1][Get(x, k)]]
        <5>1. IsDict(x) => Content[d][x] = [dict |-> w]
          BY ContentCases
        <5>. HIDE DEF w
        <5>. QED
          BY <5>1
      <4>2. Stable(x) => \E y : Content[d][x] = [byId |-> y]
        <5>. DEFINE w == [id \in IdsIn(x) |-> Content[d - 1][Child(x, ItemSegment(id))]]
        <5>1. Stable(x) => Content[d][x] = [byId |-> w]
          BY ContentCases
        <5>. HIDE DEF w
        <5>. QED
          BY <5>1
      <4>3. ~IsDict(x) /\ ~Stable(x) => Content[d][x] = x
        BY ContentCases
      <4>. QED
        BY <4>1, <4>2, <4>3
    <3>3. \A x \in {m, n} : \A y : x # [dict |-> y] /\ x # [byId |-> y]
      BY PlainNode
    <3>4. ~(IsDict(m) /\ IsDict(n)) /\ ~(Stable(m) /\ Stable(n))
      BY <1>6 DEF Opened
    <3>. QED
      BY <2>2, <3>1, <3>2, <3>3, <3>4, Zenon
  <2>. QED
    BY <2>1, <2>2
<1>. QED
  BY <1>1, <1>4, <1>5, <1>6, OpenedKinds

LEMMA ContentSame == \A d \in 0 .. Depth : ContentIsSame(d)
<1>. DEFINE T == {d \in Nat : d <= Depth => ContentIsSame(d)}
<1>0. Depth \in Nat
  BY TreesAssumption
<1>1. 0 \in T
  BY <1>0, ContentStep
<1>2. ASSUME NEW d \in Nat, d \in T
      PROVE  d + 1 \in T
  <2>. SUFFICES ASSUME d + 1 <= Depth
                PROVE  ContentIsSame(d + 1)
    OBVIOUS
  <2>1. d + 1 \in 0 .. Depth /\ (d + 1) - 1 = d /\ d <= Depth
    BY <1>0
  <2>2. ContentIsSame(d)
    BY <1>2, <2>1
  <2>. QED
    BY <2>1, <2>2, ContentStep
<1>. HIDE DEF T
<1>3. Nat \subseteq T
  BY <1>1, <1>2, NumberInduction
<1>. QED
  BY <1>0, <1>3 DEF T

(***************************************************************************)
(* The review is the difference.                                           *)
(***************************************************************************)
LEMMA FirstEdge ==
    ASSUME NEW D \in Document, NEW C \in Document, NEW q \in Paths,
           ~Opened(At(D, q), At(C, q))
    PROVE  \E i \in 1 .. Len(q) : Edge(D, C, Upto(q, i))
<1>. DEFINE Ends(i) == ~Opened(At(D, Upto(q, i)), At(C, Upto(q, i)))
            I == {i \in 0 .. Len(q) : Ends(i)}
<1>1. Len(q) \in Nat /\ Upto(q, Len(q)) = q /\ Upto(q, 0) = <<>>
  <2>1. Len(q) \in Nat /\ 0 \in 0 .. Len(q) /\ Len(q) \in 0 .. Len(q)
    BY DEF Paths
  <2>. QED
    BY <2>1, UptoPath DEF Paths
<1>2. Len(q) \in I /\ I \subseteq Nat
  BY <1>1
<1>3. PICK i \in I : \A j \in I : i <= j
  BY <1>2, LeastNumber
<1>4. i # 0
  <2>1. Opened(D, C)
    BY DocumentIsNode DEF Opened
  <2>. QED
    BY <1>1, <1>3, <2>1, AtEmpty
<1>5. i \in 1 .. Len(q) /\ i \in 0 .. Len(q) /\ Ends(i)
  BY <1>3, <1>4
<1>6. \A j \in 0 .. i - 1 : ~Ends(j)
  BY <1>1, <1>3, <1>5
<1>. DEFINE u == Upto(q, i)
<1>7. u \in Paths /\ Len(u) = i /\ \A j \in 0 .. i : Upto(u, j) = Upto(q, j)
  BY <1>5, UptoPath DEF Paths
<1>. HIDE DEF u
<1>8. u # <<>>
  BY <1>5, <1>7
<1>9. OpenBefore(D, C, u)
  <2>1. \A j \in 1 .. i : j - 1 \in 0 .. i - 1 /\ j - 1 \in 0 .. i
    BY <1>5
  <2>. QED
    BY <1>6, <1>7, <2>1 DEF OpenBefore
<1>10. Edge(D, C, u)
  BY <1>5, <1>8, <1>9 DEF Edge, u
<1>. QED
  BY <1>5, <1>10 DEF u

LEMMA HeadSame ==
    ASSUME NEW D \in Document, NEW C \in Document, NEW k \in Keys, k \notin SystemRootFields
    PROVE  Same(Get(D, k), Get(C, k)) <=> \A q : FieldPath(D, C, q) => Head(q) # k
<1>0. \A s : Child(D, s) = Get(D, s) /\ Child(C, s) = Get(C, s)
  BY DocumentIsNode, ChildOfDict
<1>1. ASSUME Same(Get(D, k), Get(C, k)), NEW q, FieldPath(D, C, q), Head(q) = k
      PROVE  FALSE
  <2>1. /\ q \in Paths /\ q # <<>> /\ At(D, q) # At(C, q) /\ ~Opened(At(D, q), At(C, q))
    BY <1>1 DEF FieldPath, Edge
  <2>2. k \in Steps /\ Tail(q) \in Paths
    BY <2>1 DEF Paths, Steps
  <2>3. q = <<Head(q)>> \o Tail(q)
    BY <2>1 DEF Paths
  <2>4. \A n : At(n, <<k>> \o Tail(q)) = At(Child(n, k), Tail(q))
    <3>. DEFINE t == Tail(q)
    <3>1. k \in Steps /\ t \in Seq(Steps)
      BY <2>2 DEF Paths
    <3>. HIDE DEF t
    <3>2. \A n : At(n, <<k>> \o t) = At(Child(n, k), t)
      BY <3>1, AtBelow
    <3>. QED
      BY <3>2 DEF t
  <2>5. At(D, q) = At(Get(D, k), Tail(q)) /\ At(C, q) = At(Get(C, k), Tail(q))
    BY <1>0, <1>1, <2>3, <2>4
  <2>. QED
    BY <1>1, <2>1, <2>2, <2>5 DEF Same
<1>2. ASSUME \A q : FieldPath(D, C, q) => Head(q) # k, NEW p \in Paths,
             At(Get(D, k), p) # At(Get(C, k), p), ~Opened(At(Get(D, k), p), At(Get(C, k), p))
      PROVE  FALSE
  <2>. DEFINE q == <<k>> \o p
  <2>1. k \in Steps /\ q \in Paths /\ q[1] = k
    BY DEF Paths, Steps
  <2>2. At(D, q) = At(Get(D, k), p) /\ At(C, q) = At(Get(C, k), p)
    BY <1>0, <2>1, AtBelow DEF Paths
  <2>. HIDE DEF q
  <2>3. PICK i \in 1 .. Len(q) : Edge(D, C, Upto(q, i))
    BY <1>2, <2>1, <2>2, FirstEdge
  <2>4. i \in 0 .. Len(q) /\ 1 \in 1 .. i
    BY <2>1 DEF Paths
  <2>5. Upto(q, i) \in Paths /\ Upto(q, i)[1] = q[1]
    BY <2>1, <2>4, UptoPath DEF Paths
  <2>6. At(D, Upto(q, i)) # At(C, Upto(q, i))
    BY <1>2, <2>1, <2>2, <2>4, SameBelow DEF Paths
  <2>7. Head(Upto(q, i)) = k
    BY <2>1, <2>3, <2>5, HeadOfPath DEF Edge
  <2>8. FieldPath(D, C, Upto(q, i))
    BY <2>3, <2>5, <2>6, <2>7 DEF FieldPath
  <2>. QED
    BY <1>2, <2>7, <2>8
<1>. QED
  BY <1>1, <1>2 DEF Same

LEMMA FirstStep ==
    ASSUME NEW q \in Paths, q # <<>>, NEW x
    PROVE  At(x, Upto(q, 1)) = Child(x, Head(q))
<1>1. q \in Seq(Steps) /\ 1 \in 1 .. Len(q) /\ Head(q) = q[1] /\ 1 - 1 = 0 /\ 0 \in 0 .. Len(q)
  BY HeadOfPath DEF Paths
<1>2. Upto(q, 0) = <<>>
  BY <1>1, UptoPath
<1>3. At(x, Upto(q, 1)) = Child(At(x, Upto(q, 1 - 1)), q[1])
  BY <1>1, AtNext
<1>. QED
  BY <1>1, <1>2, <1>3, AtEmpty

LEMMA FieldHead ==
    ASSUME NEW D \in Document, NEW C \in Document, NEW q, FieldPath(D, C, q)
    PROVE  Head(q) \in Keys \ SystemRootFields /\ Get(D, Head(q)) # Get(C, Head(q))
<1>1. q \in Paths /\ q # <<>> /\ At(D, q) # At(C, q) /\ Head(q) \notin SystemRootFields
  BY DEF FieldPath, Edge
<1>2. 1 \in 0 .. Len(q)
  BY <1>1, HeadOfPath DEF Paths
<1>3. At(D, Upto(q, 1)) # At(C, Upto(q, 1))
  BY <1>1, <1>2, SameBelow DEF Paths
<1>4. Child(D, Head(q)) # Child(C, Head(q))
  BY <1>1, <1>3, FirstStep
<1>5. Get(D, Head(q)) # Get(C, Head(q))
  BY <1>4, DocumentIsNode, ChildOfDict
<1>. QED
  BY <1>1, <1>5 DEF Get

Visible(document) == [k \in Keys |-> IF k \in SystemRootFields THEN Missing ELSE Get(document, k)]

LEMMA VisibleIsDocument ==
    ASSUME NEW D \in Document
    PROVE  /\ Dict(Visible(D)) \in Document
           /\ \A k : k \in Keys \ SystemRootFields => Child(Dict(Visible(D)), k) = Get(D, k)
           /\ \A k : k \notin Keys \ SystemRootFields => Child(Dict(Visible(D)), k) = Missing
<1>1. \A k \in Keys : Get(D, k) \in Node[Depth - 1] \cup {Missing}
  BY DEF Get, Document
<1>2. Visible(D) \in [Keys -> Node[Depth - 1] \cup {Missing}]
  BY <1>1 DEF Visible
<1>3. Dict(Visible(D)) \in Document
  BY <1>2 DEF Dict, Document
<1>4. \A k : Child(Dict(Visible(D)), k) = Get(Dict(Visible(D)), k)
  BY <1>3, DocumentIsNode, ChildOfDict
<1>5. \A k : Get(Dict(Visible(D)), k) = IF k \in Keys THEN Visible(D)[k] ELSE Missing
  BY Kinds DEF Get
<1>. QED
  BY <1>3, <1>4, <1>5 DEF Visible

LEMMA ReviewEmpty ==
    ASSUME NEW D \in Document, NEW C \in Document
    PROVE  Review(D, C) = {} <=> Body(D) = Body(C)
<1>. DEFINE m == Dict(Visible(D))
            n == Dict(Visible(C))
<1>1. m \in Document /\ n \in Document /\ m \in Node[Depth] /\ n \in Node[Depth]
      /\ IsDict(m) /\ IsDict(n) /\ Depth \in 0 .. Depth
  BY VisibleIsDocument, DocumentIsNode, TreesAssumption
<1>2. Body(D) = Content[Depth][m] /\ Body(C) = Content[Depth][n]
  BY DEF Body, Visible
<1>3. /\ \A k : k \in Keys \ SystemRootFields => Child(m, k) = Get(D, k) /\ Child(n, k) = Get(C, k)
      /\ \A k : k \notin Keys \ SystemRootFields => Child(m, k) = Missing /\ Child(n, k) = Missing
  BY VisibleIsDocument
<1>. HIDE DEF m, n
<1>4. Body(D) = Body(C) <=> Same(m, n)
  BY <1>1, <1>2, ContentSame DEF ContentIsSame
<1>5. Same(m, n) <=> \A s \in Steps : Same(Child(m, s), Child(n, s))
  BY <1>1, SameStep DEF Opened
<1>6. Same(m, n) <=> \A k \in Keys \ SystemRootFields : Same(Get(D, k), Get(C, k))
  BY <1>3, <1>5, SameSelf DEF Steps
<1>7. \A k \in Keys \ SystemRootFields :
         Same(Get(D, k), Get(C, k)) <=> \A q : FieldPath(D, C, q) => Head(q) # k
  BY HeadSame
<1>8. \A q : FieldPath(D, C, q) => Head(q) \in Keys \ SystemRootFields
  BY FieldHead
<1>9. Review(D, C) = {} <=> \A q : ~FieldPath(D, C, q)
  <2>1. Review(D, C) = {} <=> \A q \in Paths : ~FieldPath(D, C, q)
    BY ReviewPaths
  <2>. QED
    BY <2>1 DEF FieldPath
<1>. QED
  BY <1>4, <1>6, <1>7, <1>8, <1>9

(***************************************************************************)
(* One item replaced, appended or removed.                                 *)
(***************************************************************************)
\* An item that the segment selects is in the list, and up to it no item has an
\* id that is not among the given ones.
Ahead(items, ids, segment) ==
    \E j \in 1 .. Len(items) :
        /\ Selects(items[j], segment)
        /\ \A i \in 1 .. j : Identified(items[i]) /\ IdOf(items[i]) \in ids

LEMMA SelectsOne == \A n, s, t : Selects(n, s) /\ Selects(n, t) => s = t
  BY DEF Selects

LEMMA IdentifiedId == \A n : Identified(n) => IdOf(n) \in Ids /\ Selects(n, ItemSegment(IdOf(n)))
<1>. SUFFICES ASSUME NEW n, Identified(n)
              PROVE  IdOf(n) \in Ids
  BY DEF Selects
<1>1. PICK id \in Ids : Get(n, "id") = Leaf(id)
  BY DEF Identified
<1>. QED
  BY <1>1, Kinds DEF IdOf

LEMMA SameSelected == \A m, n, s : Selects(m, s) /\ Selects(n, s) => IdOf(m) = IdOf(n)
<1>. SUFFICES ASSUME NEW m, NEW n, NEW s, Selects(m, s), Selects(n, s)
              PROVE  IdOf(m) = IdOf(n)
  OBVIOUS
<1>1. IdOf(m) \in Ids /\ IdOf(n) \in Ids /\ ItemSegment(IdOf(m)) = ItemSegment(IdOf(n))
  BY IdentifiedId DEF Selects
<1>. QED
  BY <1>1, TreesAssumption

StableItemsOf(items) ==
    /\ \A i \in 1 .. Len(items) : Identified(items[i])
    /\ \A i, j \in 1 .. Len(items) : IdOf(items[i]) = IdOf(items[j]) => i = j

LEMMA StableList ==
    ASSUME NEW S, NEW items \in Seq(S)
    PROVE  Stable(List(items)) <=> StableItemsOf(items)
<1>1. IsList(List(items)) /\ List(items).items = items /\ DOMAIN items = 1 .. Len(items)
  BY Kinds
<1>. QED
  BY <1>1 DEF Stable, StableItemsOf

\* What follows when an item is put in the place of the first one that the
\* segment selects, is appended as there is none, or (Missing) is taken out.
ItemsChanged(items, s, new, after) ==
    /\ \E T : after \in Seq(T)
    /\ Selects(new, s) => Child(List(after), s) = new
    /\ Selects(new, s) \/ new = Missing =>
          /\ \A t : t # s => Child(List(after), t) = Child(List(items), t)
          /\ \A ids, t : t # s /\ Ahead(items, ids, t) => Ahead(after, ids, t)
          /\ StableItemsOf(items) => StableItemsOf(after) /\ Child(List(after), s) = new
    /\ Selects(new, s) /\ Child(List(items), s) # Missing =>
          \A ids : Ahead(items, ids, s) => Ahead(after, ids, s)
    /\ new # Missing =>
          \A ids, t : Ahead(items, ids, t) /\ (\A id \in ids : s # ItemSegment(id)) =>
             Ahead(after, ids, t) /\ Child(List(after), t) = Child(List(items), t)

LEMMA SelectsNode == \A n, s : Selects(n, s) => n # Missing
  BY Kinds DEF Selects, Identified

LEMMA ItemReplaced ==
    ASSUME NEW S, NEW items \in Seq(S), NEW s, NEW j, First(items, s, j), NEW new,
           new # Missing, NEW after, after = [items EXCEPT ![j] = new]
    PROVE  ItemsChanged(items, s, new, after)
<1>0. /\ j \in 1 .. Len(items) /\ Len(items) \in Nat /\ Selects(items[j], s)
      /\ \A i \in 1 .. Len(items) : i < j => ~Selects(items[i], s)
  BY DEF First
<1>1. /\ after \in Seq(S \cup {new}) /\ Len(after) = Len(items) /\ after[j] = new
      /\ \A i \in 1 .. Len(items) : i # j => after[i] = items[i]
  BY <1>0
<1>2. ASSUME NEW t, NEW f \in 1 .. Len(items), First(items, t, f), f < j
      PROVE  Child(List(after), t) = Child(List(items), t)
  <2>1. First(after, t, f)
    BY <1>0, <1>1, <1>2 DEF First
  <2>2. after[f] = items[f]
    BY <1>0, <1>1, <1>2
  <2>3. Child(List(items), t) = items[f]
    BY <1>2, FirstItem
  <2>4. Child(List(after), t) = after[f]
    BY <1>1, <2>1, FirstItem
  <2>. QED
    BY <2>2, <2>3, <2>4
<1>3. ASSUME Selects(new, s)
      PROVE  /\ Child(List(after), s) = new
             /\ \A t : t # s => Child(List(after), t) = Child(List(items), t)
             /\ StableItemsOf(items) => StableItemsOf(after)
             /\ \A ids, t : Ahead(items, ids, t) => Ahead(after, ids, t)
  <2>1. IdOf(new) = IdOf(items[j]) /\ Identified(new) /\ Identified(items[j])
    BY <1>0, <1>3, SameSelected DEF Selects
  <2>2. \A i \in 1 .. Len(items) : /\ IdOf(after[i]) = IdOf(items[i])
                                   /\ Identified(after[i]) <=> Identified(items[i])
    BY <1>1, <2>1
  <2>3. \A i \in 1 .. Len(items) : \A t : Selects(after[i], t) <=> Selects(items[i], t)
    BY <2>2 DEF Selects
  <2>4. \A t, f : First(items, t, f) <=> First(after, t, f)
    BY <1>1, <2>3 DEF First
  <2>5. \A t : NoneSelected(items, t) <=> NoneSelected(after, t)
    BY <1>1, <2>3 DEF NoneSelected
  <2>6. Child(List(after), s) = new
    BY <1>1, <2>4, FirstItem
  <2>7. ASSUME NEW t, t # s
        PROVE  Child(List(after), t) = Child(List(items), t)
    <3>1. CASE NoneSelected(items, t)
      BY <1>1, <2>5, <3>1, FirstItem
    <3>2. ASSUME NEW f, First(items, t, f)
          PROVE  Child(List(after), t) = Child(List(items), t)
      <4>1. f \in 1 .. Len(items) /\ f # j
        BY <1>0, <2>7, <3>2, SelectsOne DEF First
      <4>2. First(after, t, f) /\ after[f] = items[f]
        BY <1>1, <2>4, <3>2, <4>1
      <4>3. Child(List(items), t) = items[f]
        BY <3>2, FirstItem
      <4>4. Child(List(after), t) = after[f]
        BY <1>1, <4>2, FirstItem
      <4>. QED
        BY <4>2, <4>3, <4>4
    <3>. QED
      BY <3>1, <3>2, FirstItem
  <2>8. StableItemsOf(items) => StableItemsOf(after)
    BY <1>1, <2>2 DEF StableItemsOf
  <2>9. ASSUME NEW ids, NEW t, Ahead(items, ids, t)
        PROVE  Ahead(after, ids, t)
    <3>1. PICK f \in 1 .. Len(items) :
             /\ Selects(items[f], t)
             /\ \A i \in 1 .. f : Identified(items[i]) /\ IdOf(items[i]) \in ids
      BY <2>9 DEF Ahead
    <3>2. \A i \in 1 .. f : i \in 1 .. Len(items)
      BY <1>0
    <3>. QED
      BY <1>1, <2>2, <2>3, <3>1, <3>2 DEF Ahead
  <2>. QED
    BY <2>6, <2>7, <2>8, <2>9
<1>4. ASSUME NEW ids, NEW t, Ahead(items, ids, t), IdOf(items[j]) \notin ids
      PROVE  Ahead(after, ids, t) /\ Child(List(after), t) = Child(List(items), t)
  <2>1. PICK g \in 1 .. Len(items) :
           /\ Selects(items[g], t)
           /\ \A i \in 1 .. g : Identified(items[i]) /\ IdOf(items[i]) \in ids
    BY <1>4 DEF Ahead
  <2>2. g < j
    <3>1. ~(j \in 1 .. g)
      BY <1>4, <2>1
    <3>. QED
      BY <1>0, <3>1
  <2>3. \A i \in 1 .. g : i \in 1 .. Len(items) /\ i # j /\ after[i] = items[i]
    BY <1>0, <1>1, <2>2
  <2>4. Ahead(after, ids, t)
    BY <1>1, <2>1, <2>3 DEF Ahead
  <2>5. ~NoneSelected(items, t)
    BY <2>1 DEF NoneSelected
  <2>6. PICK f : First(items, t, f)
    BY <2>5, FirstItem
  <2>7. f \in 1 .. Len(items) /\ f < j
    BY <1>0, <2>1, <2>2, <2>6 DEF First
  <2>. QED
    BY <1>2, <2>4, <2>6, <2>7
<1>5. \A ids : (\A id \in ids : s # ItemSegment(id)) => IdOf(items[j]) \notin ids
  BY <1>0 DEF Selects
<1>. QED
  BY <1>1, <1>3, <1>4, <1>5 DEF ItemsChanged

LEMMA ItemAppended ==
    ASSUME NEW S, NEW items \in Seq(S), NEW s, NoneSelected(items, s), NEW new,
           new # Missing, NEW after, after = Append(items, new)
    PROVE  ItemsChanged(items, s, new, after)
<1>. DEFINE l == Len(items) + 1
<1>1. /\ after \in Seq(S \cup {new}) /\ Len(after) = l /\ after[l] = new
      /\ \A i \in 1 .. Len(items) : after[i] = items[i] /\ i \in 1 .. l /\ i < l
      /\ Len(items) \in Nat /\ l \in 1 .. l /\ l \in Nat
      /\ \A i \in 1 .. l : i = l \/ i \in 1 .. Len(items)
  OBVIOUS
<1>. HIDE DEF l
<1>2. ASSUME NEW t, NEW f, First(items, t, f)
      PROVE  Child(List(after), t) = Child(List(items), t)
  <2>1. f \in 1 .. Len(items) /\ after[f] = items[f] /\ f < l
    BY <1>1, <1>2 DEF First
  <2>2. ASSUME NEW i \in 1 .. l, i < f
        PROVE  ~Selects(after[i], t)
    <3>1. i \in 1 .. Len(items)
      BY <1>1, <2>1, <2>2
    <3>. QED
      BY <1>1, <1>2, <2>2, <3>1 DEF First
  <2>3. First(after, t, f)
    BY <1>1, <1>2, <2>1, <2>2 DEF First
  <2>4. Child(List(items), t) = items[f]
    BY <1>2, FirstItem
  <2>5. Child(List(after), t) = after[f]
    BY <1>1, <2>3, FirstItem
  <2>. QED
    BY <2>1, <2>4, <2>5
<1>3. ASSUME Selects(new, s)
      PROVE  /\ Child(List(after), s) = new
             /\ \A t : t # s => Child(List(after), t) = Child(List(items), t)
             /\ StableItemsOf(items) => StableItemsOf(after)
  <2>1. Child(List(after), s) = new
    <3>1. \A i \in 1 .. l : i < l => ~Selects(after[i], s)
      BY <1>1 DEF NoneSelected
    <3>2. First(after, s, l)
      BY <1>1, <1>3, <3>1 DEF First
    <3>. QED
      BY <1>1, <3>2, FirstItem
  <2>2. ASSUME NEW t, t # s
        PROVE  Child(List(after), t) = Child(List(items), t)
    <3>1. CASE NoneSelected(items, t)
      <4>1. ~Selects(new, t)
        BY <1>3, <2>2, SelectsOne
      <4>2. NoneSelected(after, t)
        BY <1>1, <3>1, <4>1 DEF NoneSelected
      <4>3. Child(List(items), t) = Missing
        BY <3>1, FirstItem
      <4>4. Child(List(after), t) = Missing
        BY <1>1, <4>2, FirstItem
      <4>. QED
        BY <4>3, <4>4
    <3>. QED
      BY <1>2, <3>1, FirstItem
  <2>3. ASSUME StableItemsOf(items)
        PROVE  StableItemsOf(after)
    <3>1. \A i \in 1 .. l : Identified(after[i])
      BY <1>1, <1>3, <2>3 DEF StableItemsOf, Selects
    <3>2. \A i \in 1 .. Len(items) : IdOf(items[i]) # IdOf(new)
      <4>. SUFFICES ASSUME NEW i \in 1 .. Len(items), IdOf(items[i]) = IdOf(new)
                    PROVE  FALSE
        OBVIOUS
      <4>1. Selects(items[i], s)
        BY <1>3, <2>3 DEF StableItemsOf, Selects
      <4>. QED
        BY <4>1 DEF NoneSelected
    <3>3. \A i, j \in 1 .. l : IdOf(after[i]) = IdOf(after[j]) => i = j
      BY <1>1, <2>3, <3>2 DEF StableItemsOf
    <3>. QED
      BY <1>1, <3>1, <3>3 DEF StableItemsOf
  <2>. QED
    BY <2>1, <2>2, <2>3
<1>4. ASSUME NEW ids, NEW t, Ahead(items, ids, t)
      PROVE  Ahead(after, ids, t) /\ Child(List(after), t) = Child(List(items), t)
  <2>1. PICK g \in 1 .. Len(items) :
           /\ Selects(items[g], t)
           /\ \A i \in 1 .. g : Identified(items[i]) /\ IdOf(items[i]) \in ids
    BY <1>4 DEF Ahead
  <2>2. \A i \in 1 .. g : i \in 1 .. Len(items)
    BY <1>1
  <2>3. Ahead(after, ids, t)
    BY <1>1, <2>1, <2>2 DEF Ahead
  <2>4. \E f : First(items, t, f)
    BY <2>1, FirstItem DEF NoneSelected
  <2>. QED
    BY <1>2, <2>3, <2>4
<1>5. Child(List(items), s) = Missing
  BY FirstItem
<1>. QED
  BY <1>1, <1>3, <1>4, <1>5 DEF ItemsChanged

LEMMA Removing ==
    ASSUME NEW S, NEW items \in Seq(S), NEW j \in 1 .. Len(items)
    PROVE  /\ RemoveAt(items, j) \in Seq(S) /\ Len(RemoveAt(items, j)) = Len(items) - 1
           /\ \A i \in 1 .. Len(items) - 1 :
                 RemoveAt(items, j)[i] = IF i < j THEN items[i] ELSE items[i + 1]
<1>. DEFINE p == SubSeq(items, 1, j - 1)
            q == SubSeq(items, j + 1, Len(items))
<1>1. /\ p \in Seq(S) /\ Len(p) = j - 1 /\ \A i \in 1 .. j - 1 : p[i] = items[i]
  OBVIOUS
<1>2. /\ q \in Seq(S) /\ Len(q) = Len(items) - j
      /\ \A i \in 1 .. Len(items) - j : q[i] = items[i + j]
  OBVIOUS
<1>3. RemoveAt(items, j) = p \o q
  BY DEF RemoveAt
<1>. HIDE DEF p, q
<1>4. p \o q \in Seq(S) /\ Len(p \o q) = Len(items) - 1
  BY <1>1, <1>2
<1>5. ASSUME NEW i \in 1 .. Len(items) - 1
      PROVE  (p \o q)[i] = IF i < j THEN items[i] ELSE items[i + 1]
  <2>1. CASE i < j
    BY <1>1, <1>2, <2>1
  <2>2. CASE ~(i < j)
    <3>1. i - Len(p) \in 1 .. Len(items) - j /\ (i - Len(p)) + j = i + 1
      BY <1>1, <2>2
    <3>2. (p \o q)[i] = q[i - Len(p)]
      BY <1>1, <1>2, <2>2
    <3>. QED
      BY <1>2, <2>2, <3>1, <3>2
  <2>. QED
    BY <2>1, <2>2
<1>. QED
  BY <1>3, <1>4, <1>5

LEMMA ItemRemoved ==
    ASSUME NEW S, NEW items \in Seq(S), NEW s, NEW j, First(items, s, j),
           NEW after, after = RemoveAt(items, j)
    PROVE  ItemsChanged(items, s, Missing, after)
<1>. DEFINE l == Len(items) - 1
            new(i) == IF i < j THEN i ELSE i - 1
            old(i) == IF i < j THEN i ELSE i + 1
<1>0. /\ j \in 1 .. Len(items) /\ Len(items) \in Nat /\ Selects(items[j], s) /\ l \in Nat
  BY DEF First
<1>1. after \in Seq(S) /\ Len(after) = l /\ \A i \in 1 .. l : after[i] = items[old(i)]
  BY <1>0, Removing
<1>2. /\ \A i \in 1 .. l : old(i) \in 1 .. Len(items) /\ old(i) # j /\ new(old(i)) = i
      /\ \A i \in 1 .. Len(items) : i # j => new(i) \in 1 .. l /\ old(new(i)) = i
      /\ \A i, k \in 1 .. l : i < k => old(i) < old(k)
      /\ \A i, k \in 1 .. l : old(i) = old(k) => i = k
      /\ \A i \in 1 .. l : \A k \in 1 .. Len(items) : i < new(k) => old(i) < k
  BY <1>0
<1>. HIDE DEF l, new, old
<1>3. ASSUME NEW t, t # s
      PROVE  Child(List(after), t) = Child(List(items), t)
  <2>1. CASE NoneSelected(items, t)
    <3>1. NoneSelected(after, t)
      BY <1>1, <1>2, <2>1 DEF NoneSelected
    <3>2. Child(List(items), t) = Missing
      BY <2>1, FirstItem
    <3>3. Child(List(after), t) = Missing
      BY <1>1, <3>1, FirstItem
    <3>. QED
      BY <3>2, <3>3
  <2>2. ASSUME NEW f, First(items, t, f)
        PROVE  Child(List(after), t) = Child(List(items), t)
    <3>1. f \in 1 .. Len(items) /\ f # j
      BY <1>0, <1>3, <2>2, SelectsOne DEF First
    <3>2. new(f) \in 1 .. l /\ after[new(f)] = items[f]
      BY <1>1, <1>2, <3>1
    <3>3. First(after, t, new(f))
      <4>1. \A i \in 1 .. l : i < new(f) => ~Selects(after[i], t)
        BY <1>1, <1>2, <2>2, <3>1 DEF First
      <4>. QED
        BY <1>1, <2>2, <3>2, <4>1 DEF First
    <3>4. Child(List(items), t) = items[f]
      BY <2>2, FirstItem
    <3>5. Child(List(after), t) = after[new(f)]
      BY <1>1, <3>3, FirstItem
    <3>. QED
      BY <3>2, <3>4, <3>5
  <2>. QED
    BY <2>1, <2>2, FirstItem
<1>4. ASSUME StableItemsOf(items)
      PROVE  StableItemsOf(after) /\ Child(List(after), s) = Missing
  <2>1. StableItemsOf(after)
    <3>1. \A i \in 1 .. l : Identified(after[i])
      BY <1>1, <1>2, <1>4 DEF StableItemsOf
    <3>2. ASSUME NEW i \in 1 .. l, NEW k \in 1 .. l, IdOf(after[i]) = IdOf(after[k])
          PROVE  i = k
      <4>1. IdOf(items[old(i)]) = IdOf(items[old(k)])
        BY <1>1, <3>2
      <4>2. old(i) \in 1 .. Len(items) /\ old(k) \in 1 .. Len(items)
        BY <1>2
      <4>3. old(i) = old(k)
        BY <1>4, <4>1, <4>2 DEF StableItemsOf
      <4>. QED
        BY <1>2, <4>3
    <3>. QED
      BY <1>1, <3>1, <3>2 DEF StableItemsOf
  <2>2. ASSUME NEW i \in 1 .. l, Selects(after[i], s)
        PROVE  FALSE
    <3>1. Selects(items[old(i)], s) /\ old(i) \in 1 .. Len(items) /\ old(i) # j
      BY <1>1, <1>2, <2>2
    <3>2. IdOf(items[old(i)]) = IdOf(items[j])
      BY <1>0, <3>1, SameSelected
    <3>. QED
      BY <1>0, <1>4, <3>1, <3>2 DEF StableItemsOf
  <2>3. NoneSelected(after, s)
    BY <1>1, <2>2 DEF NoneSelected
  <2>. QED
    BY <1>1, <2>1, <2>3, FirstItem
<1>5. ASSUME NEW ids, NEW t, t # s, Ahead(items, ids, t)
      PROVE  Ahead(after, ids, t)
  <2>1. PICK g \in 1 .. Len(items) :
           /\ Selects(items[g], t)
           /\ \A i \in 1 .. g : Identified(items[i]) /\ IdOf(items[i]) \in ids
    BY <1>5 DEF Ahead
  <2>2. g # j
    BY <1>0, <1>5, <2>1, SelectsOne
  <2>3. new(g) \in 1 .. l /\ old(new(g)) = g /\ Selects(after[new(g)], t)
    BY <1>1, <1>2, <2>1, <2>2
  <2>4. \A i \in 1 .. new(g) : i \in 1 .. l /\ old(i) \in 1 .. g
    <3>1. g \in Nat /\ j \in Nat /\ new(g) \in Nat
      BY <1>0, <2>3
    <3>2. \A i \in 1 .. new(g) : i \in 1 .. l
      BY <1>0, <2>3, <3>1
    <3>3. \A i \in 1 .. new(g) : old(i) <= g /\ old(i) >= 1
      BY <1>0, <2>2, <3>1 DEF old, new
    <3>4. \A i \in 1 .. new(g) : old(i) \in 1 .. Len(items)
      BY <1>2, <3>2
    <3>. QED
      BY <3>1, <3>2, <3>3, <3>4
  <2>. QED
    BY <1>1, <2>1, <2>3, <2>4 DEF Ahead
<1>. QED
  BY <1>1, <1>3, <1>4, <1>5, SelectsNode DEF ItemsChanged

(***************************************************************************)
(* One part of a node replaced (Replaced).                                 *)
(***************************************************************************)
LEMMA DictReplaced ==
    ASSUME NEW n, DictNode(n), NEW s \in Keys, NEW new, new # Failed
    PROVE  /\ DictNode(Replaced(n, s, new)) /\ Child(Replaced(n, s, new), s) = new
           /\ \A t : t # s => Child(Replaced(n, s, new), t) = Child(n, t)
<1>. DEFINE f == [n.fields EXCEPT ![s] = new]
<1>1. IsDict(n) /\ ~IsList(n)
  BY ChildOfDict, Zenon DEF DictNode
<1>2. Replaced(n, s, new) = Dict(f)
  BY <1>1 DEF Replaced, Put
<1>3. n.fields = [k \in Keys |-> n.fields[k]]
  BY Zenon DEF DictNode
<1>4. f = [k \in Keys |-> IF k = s THEN new ELSE n.fields[k]]
  BY <1>3
<1>. HIDE DEF f
<1>5. f = [k \in Keys |-> f[k]] /\ f[s] = new /\ \A k \in Keys : k # s => f[k] = n.fields[k]
  BY <1>4
<1>6. Dict(f).fields = f /\ IsDict(Dict(f))
  BY Kinds
<1>7. DictNode(Dict(f))
  BY <1>5, <1>6, Zenon DEF DictNode
<1>8. \A t : Child(Dict(f), t) = IF t \in Keys THEN f[t] ELSE Missing
  BY <1>6, <1>7, ChildOfDict DEF Get
<1>9. \A t : Child(n, t) = IF t \in Keys THEN n.fields[t] ELSE Missing
  BY ChildOfDict DEF Get
<1>. QED
  BY <1>2, <1>5, <1>7, <1>8, <1>9

\* The same of a list.
NodeChanged(n, s, new, after) ==
    /\ ListNode(after)
    /\ Selects(new, s) => Child(after, s) = new
    /\ Selects(new, s) \/ new = Missing =>
          /\ \A t : t # s => Child(after, t) = Child(n, t)
          /\ \A ids, t : t # s /\ Ahead(n.items, ids, t) => Ahead(after.items, ids, t)
          /\ Stable(n) => Stable(after) /\ Child(after, s) = new
    /\ Selects(new, s) /\ Child(n, s) # Missing =>
          \A ids : Ahead(n.items, ids, s) => Ahead(after.items, ids, s)
    /\ new # Missing =>
          \A ids, t : Ahead(n.items, ids, t) /\ (\A id \in ids : s # ItemSegment(id)) =>
             Ahead(after.items, ids, t) /\ Child(after, t) = Child(n, t)

LEMMA ListReplaced ==
    ASSUME NEW n, ListNode(n), NEW s \in ItemSegments, NEW new, new # Failed
    PROVE  NodeChanged(n, s, new, Replaced(n, s, new))
<1>. DEFINE items == n.items
            after == Replaced(n, s, new)
<1>1. n = List(items) /\ IsList(n)
  BY DEF ListNode
<1>2. ~IsDict(n)
  <2>1. ~IsDict(List(items))
    BY Kinds
  <2>. QED
    BY <1>1, <2>1
<1>3. PICK S : items \in Seq(S)
  BY DEF ListNode
<1>. HIDE DEF items
<1>4. ASSUME NEW other, after = List(other), ItemsChanged(items, s, new, other)
      PROVE  NodeChanged(n, s, new, after)
  <2>1. PICK T : other \in Seq(T)
    BY <1>4 DEF ItemsChanged
  <2>2. IsList(List(other)) /\ List(other).items = other
    BY Kinds
  <2>3. ListNode(after) /\ after.items = other
    BY <1>4, <2>1, <2>2 DEF ListNode
  <2>4. (Stable(n) <=> StableItemsOf(items)) /\ (Stable(after) <=> StableItemsOf(other))
    BY <1>1, <1>3, <1>4, <2>1, StableList
  <2>. QED
    BY <1>1, <1>4, <2>3, <2>4 DEF ItemsChanged, NodeChanged, items
<1>5. CASE NoneSelected(items, s)
  <2>1. Find(n, s) = 0 /\ Child(n, s) = Missing
    BY <1>1, <1>3, <1>5, FirstItem
  <2>2. CASE new = Missing
    <3>1. after = n
      BY <1>1, <1>2, <2>1, <2>2, Kinds DEF Replaced, WithoutItem
    <3>2. NodeChanged(n, s, Missing, n)
      BY <2>1, SelectsNode DEF NodeChanged
    <3>. QED
      BY <2>2, <3>1, <3>2
  <2>3. CASE new # Missing
    <3>1. PICK more : more = Append(items, new)
      OBVIOUS
    <3>2. after = List(more)
      BY <1>1, <1>2, <2>1, <2>3, <3>1 DEF Replaced, ReplaceItem, items
    <3>3. ItemsChanged(items, s, new, more)
      BY <1>3, <1>5, <2>3, <3>1, ItemAppended
    <3>. QED
      BY <1>4, <3>2, <3>3
  <2>. QED
    BY <2>2, <2>3
<1>6. ASSUME NEW j, First(items, s, j)
      PROVE  \E other : after = List(other) /\ ItemsChanged(items, s, new, other)
  <2>1. Find(n, s) = j /\ j # 0
    BY <1>1, <1>3, <1>6, FirstItem DEF First
  <2>2. CASE new = Missing
    <3>1. PICK less : less = RemoveAt(items, j)
      OBVIOUS
    <3>2. after = List(less)
      BY <1>1, <1>2, <2>1, <2>2, <3>1, Kinds DEF Replaced, WithoutItem, items
    <3>3. ItemsChanged(items, s, Missing, less)
      BY <1>3, <1>6, <3>1, ItemRemoved
    <3>. QED
      BY <2>2, <3>2, <3>3
  <2>3. CASE new # Missing
    <3>1. PICK other : other = [items EXCEPT ![j] = new]
      OBVIOUS
    <3>2. after = List(other)
      BY <1>1, <1>2, <2>1, <2>3, <3>1 DEF Replaced, ReplaceItem, items
    <3>3. ItemsChanged(items, s, new, other)
      BY <1>3, <1>6, <2>3, <3>1, ItemReplaced
    <3>. QED
      BY <3>2, <3>3
  <2>. QED
    BY <2>2, <2>3
<1>. QED
  BY <1>3, <1>4, <1>5, <1>6, FirstItem

(***************************************************************************)
(* The containers on the way of a patch, and what becomes of them.         *)
(***************************************************************************)
WithinOf(document, path, create, n, f) ==
    f = [i \in 1 .. n |-> IF i = 1 THEN document
                         ELSE Into(f[i - 1], path[i - 1], path[i], create)]

LEMMA WithinExists ==
    ASSUME NEW document, NEW path, NEW create, NEW n \in Nat
    PROVE  \E f : WithinOf(document, path, create, n, f)
<1>. DEFINE Made == {m \in Nat : \E f : WithinOf(document, path, create, m, f)}
            step(h, i) == IF i = 1 THEN document
                          ELSE Into(h[i - 1], path[i - 1], path[i], create)
<1>1. 0 \in Made
  <2>. DEFINE f == [i \in 1 .. 0 |-> document]
  <2>1. WithinOf(document, path, create, 0, f)
    BY DEF WithinOf
  <2>. QED
    BY <2>1
<1>2. ASSUME NEW m \in Nat, m \in Made
      PROVE  m + 1 \in Made
  <2>1. PICK f : WithinOf(document, path, create, m, f)
    BY <1>2
  <2>. DEFINE g == [i \in 1 .. m + 1 |-> step(f, i)]
  <2>2. \A i \in 1 .. m : g[i] = f[i]
    BY <2>1 DEF WithinOf
  <2>3. \A i \in 1 .. m + 1 : i = 1 \/ i - 1 \in 1 .. m
    OBVIOUS
  <2>4. \A i \in 1 .. m + 1 : step(f, i) = step(g, i)
    BY <2>2, <2>3
  <2>5. g = [i \in 1 .. m + 1 |-> step(g, i)]
    BY <2>4
  <2>. HIDE DEF g
  <2>6. WithinOf(document, path, create, m + 1, g)
    BY <2>5 DEF WithinOf
  <2>. QED
    BY <2>6
<1>. HIDE DEF Made
<1>3. n \in Made
  BY <1>1, <1>2, NumberInduction
<1>. QED
  BY <1>3 DEF Made

LEMMA ContainersOf ==
    ASSUME NEW document, NEW S, NEW path \in Seq(S), NEW create
    PROVE  WithinOf(document, path, create, Len(path), Containers(document, path, create))
<1>. DEFINE W == CHOOSE f : WithinOf(document, path, create, Len(path), f)
<1>1. WithinOf(document, path, create, Len(path), W)
  <2>1. Len(path) \in Nat
    OBVIOUS
  <2>. QED
    BY <2>1, WithinExists
<1>2. Containers(document, path, create) = W
  BY Zenon DEF Containers, WithinOf
<1>. QED
  BY <1>1, <1>2, Zenon

StagesOf(within, path, value, n, k, f) ==
    f = [i \in n + 1 - k .. n + 1 |->
            IF i = n + 1 THEN value ELSE Replaced(within[i], path[i], f[i + 1])]

LEMMA StagesExist ==
    ASSUME NEW within, NEW path, NEW value, NEW n \in Nat, NEW k \in Nat
    PROVE  \E f : StagesOf(within, path, value, n, k, f)
<1>. DEFINE Made == {m \in Nat : \E f : StagesOf(within, path, value, n, m, f)}
            step(h, i) == IF i = n + 1 THEN value ELSE Replaced(within[i], path[i], h[i + 1])
<1>1. 0 \in Made
  <2>. DEFINE f == [i \in n + 1 - 0 .. n + 1 |-> value]
  <2>1. StagesOf(within, path, value, n, 0, f)
    BY DEF StagesOf
  <2>. QED
    BY <2>1
<1>2. ASSUME NEW m \in Nat, m \in Made
      PROVE  m + 1 \in Made
  <2>1. PICK f : StagesOf(within, path, value, n, m, f)
    BY <1>2
  <2>. DEFINE g == [i \in n + 1 - (m + 1) .. n + 1 |-> step(f, i)]
  <2>2. \A i \in n + 1 - m .. n + 1 : g[i] = f[i]
    BY <2>1 DEF StagesOf
  <2>3. \A i \in n + 1 - (m + 1) .. n + 1 : i = n + 1 \/ i + 1 \in n + 1 - m .. n + 1
    OBVIOUS
  <2>4. \A i \in n + 1 - (m + 1) .. n + 1 : step(f, i) = step(g, i)
    BY <2>2, <2>3
  <2>5. g = [i \in n + 1 - (m + 1) .. n + 1 |-> step(g, i)]
    BY <2>4
  <2>. HIDE DEF g
  <2>6. StagesOf(within, path, value, n, m + 1, g)
    BY <2>5 DEF StagesOf
  <2>. QED
    BY <2>6
<1>. HIDE DEF Made
<1>3. k \in Made
  BY <1>1, <1>2, NumberInduction
<1>. QED
  BY <1>3 DEF Made

LEMMA ApplyPatchStages ==
    ASSUME NEW document, NEW patch, NEW S, patch.path \in Seq(S)
    PROVE  LET n == Len(patch.path)
               within == Containers(document, patch.path, patch.operation = "set")
           IN \E f : StagesOf(within, patch.path, patch.value, n, n, f)
                     /\ ApplyPatch(document, patch) = f[1]
<1>. DEFINE n == Len(patch.path)
            within == Containers(document, patch.path, patch.operation = "set")
<1>1. n \in Nat /\ n + 1 - n = 1
  OBVIOUS
<1>. DEFINE R == CHOOSE f : f = [i \in 1 .. n + 1 |->
                    IF i = n + 1 THEN patch.value ELSE Replaced(within[i], patch.path[i], f[i + 1])]
<1>2. ApplyPatch(document, patch) = R[1]
  BY Zenon DEF ApplyPatch
<1>3. \A f : StagesOf(within, patch.path, patch.value, n, n, f) <=>
         f = [i \in 1 .. n + 1 |->
                IF i = n + 1 THEN patch.value ELSE Replaced(within[i], patch.path[i], f[i + 1])]
  BY <1>1, Zenon DEF StagesOf
<1>4. \E f : StagesOf(within, patch.path, patch.value, n, n, f)
  BY <1>1, StagesExist
<1>5. StagesOf(within, patch.path, patch.value, n, n, R)
  BY <1>3, <1>4, Zenon
<1>. QED
  BY <1>2, <1>5, Zenon

(***************************************************************************)
(* A patch changes the document at the end of its path and nowhere else.   *)
(***************************************************************************)
\* The path leads to what the comparison of the draft D and the candidate C
\* looks into.
Inner(D, C, path) == OpenBefore(D, C, path) /\ Opened(At(D, path), At(C, path))

\* A document A that began as the draft D still has the dictionaries and lists,
\* and in the lists the items, that lead to fields of the review, whatever was
\* entered at their ends.
Kept(D, C, A) ==
    \A q \in Paths : Inner(D, C, q) =>
       /\ IsDict(At(D, q)) => DictNode(At(A, q))
       /\ ~IsDict(At(D, q)) =>
             /\ ListNode(At(A, q))
             /\ \A s \in Steps : Inner(D, C, Append(q, s)) =>
                   Ahead(At(A, q).items, IdsIn(At(D, q)), s)

\* It also has no two items with the same id in them.
Steady(D, C, A) ==
    \A q \in Paths : Inner(D, C, q) /\ ~IsDict(At(D, q)) => Stable(At(A, q))

Sendable(D, C, patch) ==
    /\ FieldPath(D, C, patch.path) /\ patch.value # Failed
    /\ patch.value # Missing => At(C, patch.path) # Missing

\* An item of a list that is sent has the id that its path selects.
OwnId(D, patch) ==
    patch.value # Missing /\ ~IsDict(At(D, Upto(patch.path, Len(patch.path) - 1)))
        => Selects(patch.value, Last(patch.path))

LEMMA InnerKinds ==
    ASSUME NEW D \in Document, NEW C \in Document, NEW q \in Paths, Inner(D, C, q)
    PROVE  \/ DictNode(At(D, q)) /\ DictNode(At(C, q)) /\ IsDict(At(D, q)) /\ IsDict(At(C, q))
           \/ /\ Stable(At(D, q)) /\ Stable(At(C, q)) /\ ~IsDict(At(D, q)) /\ ~IsDict(At(C, q))
              /\ ListNode(At(D, q)) /\ ListNode(At(C, q))
<1>1. Shaped(At(D, q)) /\ Shaped(At(C, q)) /\ Opened(At(D, q), At(C, q))
  BY AtShaped DEF Inner, Paths
<1>2. \A n : DictNode(n) => IsDict(n)
  BY Zenon DEF DictNode
<1>. QED
  BY <1>1, <1>2, OpenedKinds

LEMMA InnerPrefix ==
    ASSUME NEW D, NEW C, NEW q \in Paths, OpenBefore(D, C, q), NEW i \in 0 .. Len(q),
           i < Len(q) \/ Inner(D, C, q)
    PROVE  Upto(q, i) \in Paths /\ Inner(D, C, Upto(q, i))
<1>. DEFINE u == Upto(q, i)
<1>1. Len(q) \in Nat /\ i \in Nat
  BY DEF Paths
<1>2. u \in Paths /\ Len(u) = i /\ \A j \in 0 .. i : Upto(u, j) = Upto(q, j)
  BY UptoPath DEF Paths
<1>3. i = Len(q) => u = q
  BY UptoPath DEF Paths
<1>. HIDE DEF u
<1>4. \A j \in 1 .. i : j - 1 \in 0 .. i /\ j \in 1 .. Len(q)
  BY <1>1
<1>5. OpenBefore(D, C, u)
  BY <1>2, <1>4 DEF OpenBefore
<1>6. CASE i < Len(q)
  <2>1. i + 1 \in 1 .. Len(q) /\ (i + 1) - 1 = i
    BY <1>1, <1>6
  <2>2. Opened(At(D, u), At(C, u))
    BY <2>1 DEF OpenBefore, u
  <2>. QED
    BY <1>2, <1>5, <2>2 DEF Inner, u
<1>7. CASE Inner(D, C, q) /\ i = Len(q)
  BY <1>2, <1>3, <1>7 DEF u
<1>. QED
  BY <1>1, <1>6, <1>7

\* The segments of the path of a field, one by one.
LEMMA FieldSteps ==
    ASSUME NEW D \in Document, NEW C \in Document, NEW p, FieldPath(D, C, p),
           NEW i \in 1 .. Len(p)
    PROVE  /\ p \in Paths /\ p # <<>> /\ Len(p) \in Nat /\ i - 1 \in 0 .. Len(p) /\ i \in 0 .. Len(p)
           /\ Upto(p, i - 1) \in Paths /\ Inner(D, C, Upto(p, i - 1)) /\ p[i] \in Steps
           /\ IsDict(At(D, Upto(p, i - 1))) => p[i] \in Keys
           /\ ~IsDict(At(D, Upto(p, i - 1))) => p[i] \in ItemSegments
<1>. DEFINE u == Upto(p, i - 1)
<1>1. p \in Paths /\ p # <<>> /\ OpenBefore(D, C, p)
  BY DEF FieldPath, Edge
<1>2. Len(p) \in Nat /\ i - 1 \in 0 .. Len(p) /\ i \in 0 .. Len(p) /\ i - 1 < Len(p)
  BY <1>1 DEF Paths
<1>3. u \in Paths /\ Inner(D, C, u)
  BY <1>1, <1>2, InnerPrefix
<1>4. Goes(D, C, u, p[i])
  BY FieldGoes
<1>5. Shaped(At(D, u)) /\ Shaped(At(C, u))
  BY <1>3, AtShaped DEF Paths
<1>. HIDE DEF u
<1>6. /\ p[i] \in Steps
      /\ IsDict(At(D, u)) => p[i] \in Keys
      /\ ~IsDict(At(D, u)) => p[i] \in ItemSegments
  BY <1>4, <1>5, SegmentsAreSteps DEF Goes, Reaches
<1>. QED
  BY <1>1, <1>2, <1>3, <1>6 DEF u

\* The item that a segment selects in both of two stable lists has the same id
\* in both.
LEMMA StableChildId ==
    ASSUME NEW n, Stable(n), ListNode(n), NEW s, Child(n, s) # Missing
    PROVE  /\ IsDict(Child(n, s)) /\ Selects(Child(n, s), s)
           /\ \E id \in IdsIn(n) : s = ItemSegment(id) /\ Get(Child(n, s), "id") = Leaf(id)
<1>1. PICK id \in IdsIn(n) : s = ItemSegment(id)
  BY StableChild
<1>2. Identified(Child(n, s)) /\ IdOf(Child(n, s)) = id
  BY <1>1, StableHas
<1>3. PICK other \in Ids : Get(Child(n, s), "id") = Leaf(other)
  BY <1>2 DEF Identified
<1>4. other = id
  BY <1>2, <1>3, Kinds DEF IdOf
<1>5. IsDict(Child(n, s))
  BY <1>2 DEF Identified
<1>6. Selects(Child(n, s), s)
  BY <1>1, <1>2 DEF Selects
<1>. QED
  BY <1>1, <1>3, <1>4, <1>5, <1>6

\* Below an item that both documents have, no path of a field goes to its id.
LEMMA NotTheId ==
    ASSUME NEW D \in Document, NEW C \in Document, NEW p, FieldPath(D, C, p),
           NEW i \in 1 .. Len(p), i < Len(p), ~IsDict(At(D, Upto(p, i - 1)))
    PROVE  IsDict(At(D, Upto(p, i))) /\ p[i + 1] # "id"
<1>. DEFINE u == Upto(p, i - 1)
            w == Upto(p, i)
            s == p[i]
<1>1. /\ p \in Paths /\ Len(p) \in Nat /\ u \in Paths /\ Inner(D, C, u)
      /\ i + 1 \in 1 .. Len(p) /\ (i + 1) - 1 = i /\ i + 1 \in 0 .. Len(p)
  BY FieldSteps
<1>2. w \in Paths /\ Inner(D, C, w)
  BY <1>1, FieldSteps
<1>3. /\ Stable(At(D, u)) /\ ListNode(At(D, u))
      /\ Stable(At(C, u)) /\ ListNode(At(C, u))
  BY <1>1, InnerKinds
<1>4. At(D, w) = Child(At(D, u), s) /\ At(C, w) = Child(At(C, u), s)
  BY <1>1, AtNext DEF Paths
<1>5. At(D, w) # Missing /\ At(C, w) # Missing
  BY <1>2, Kinds DEF Inner, Opened, Stable
<1>6. PICK id \in IdsIn(At(D, u)) : s = ItemSegment(id) /\ Get(At(D, w), "id") = Leaf(id)
  BY <1>3, <1>4, <1>5, StableChildId
<1>7. PICK other \in IdsIn(At(C, u)) : s = ItemSegment(other) /\ Get(At(C, w), "id") = Leaf(other)
  BY <1>3, <1>4, <1>5, StableChildId
<1>8. id = other
  BY <1>3, <1>6, <1>7, StableItems, TreesAssumption
<1>9. IsDict(At(D, w))
  BY <1>3, <1>4, <1>5, StableChildId
<1>10. ASSUME p[i + 1] = "id"
       PROVE  FALSE
  <2>1. DictNode(At(D, w)) /\ DictNode(At(C, w))
    BY <1>2, <1>9, InnerKinds
  <2>2. Child(At(D, w), "id") = Child(At(C, w), "id")
    BY <1>6, <1>7, <1>8, <2>1, ChildOfDict
  <2>3. \A x : At(x, Upto(p, i + 1)) = Child(At(x, w), "id")
    <3>1. \A x : At(x, Upto(p, i + 1)) = Child(At(x, Upto(p, (i + 1) - 1)), p[i + 1])
      BY <1>1, AtNext DEF Paths
    <3>. QED
      BY <1>1, <1>10, <3>1
  <2>4. At(D, Upto(p, i + 1)) = At(C, Upto(p, i + 1))
    BY <2>2, <2>3
  <2>5. At(D, p) = At(C, p)
    BY <1>1, <2>4, SameBelow DEF Paths
  <2>. QED
    BY <2>5 DEF FieldPath
<1>. QED
  BY <1>9, <1>10

LEMMA KeptNode ==
    ASSUME NEW D, NEW C, NEW A, Kept(D, C, A), NEW q \in Paths, Inner(D, C, q)
    PROVE  At(A, q) # Missing /\ At(A, q) # Failed
<1>1. \A n : DictNode(n) => n # Missing /\ n # Failed
  <2>1. \A n : DictNode(n) => IsDict(n)
    BY Zenon DEF DictNode
  <2>. QED
    BY <2>1, Kinds
<1>2. \A n : ListNode(n) => n # Missing /\ n # Failed
  <2>1. \A n : ListNode(n) => IsList(n)
    BY Zenon DEF ListNode
  <2>. QED
    BY <2>1, Kinds
<1>. QED
  BY <1>1, <1>2 DEF Kept

LEMMA AheadChild ==
    ASSUME NEW n, ListNode(n), NEW ids, NEW s, Ahead(n.items, ids, s)
    PROVE  Child(n, s) # Missing /\ Selects(Child(n, s), s)
<1>1. n = List(n.items)
  BY DEF ListNode
<1>2. PICK S : n.items \in Seq(S)
  BY DEF ListNode
<1>3. ~NoneSelected(n.items, s)
  BY DEF Ahead, NoneSelected
<1>4. PICK f : First(n.items, s, f)
  BY <1>2, <1>3, FirstItem
<1>5. Child(n, s) = n.items[f]
  BY <1>1, <1>2, <1>4, FirstItem
<1>. QED
  BY <1>4, <1>5, SelectsNode DEF First

\* The node at each segment of the path, and what is put in its place.
Stages(A, path, value, R) ==
    /\ R[Len(path) + 1] = value
    /\ \A i \in 1 .. Len(path) : R[i] = Replaced(At(A, Upto(path, i - 1)), path[i], R[i + 1])

LEMMA PatchStages ==
    ASSUME NEW D \in Document, NEW C \in Document, NEW A, Kept(D, C, A),
           NEW patch, Sendable(D, C, patch)
    PROVE  \E R : Stages(A, patch.path, patch.value, R) /\ ApplyPatch(A, patch) = R[1]
<1>. DEFINE p == patch.path
            n == Len(p)
            create == patch.operation = "set"
            W == Containers(A, p, create)
<1>1. FieldPath(D, C, p) /\ p \in Paths /\ n \in Nat /\ n # 0
  BY DEF Sendable, FieldPath, Edge, Paths
<1>2. PICK R : StagesOf(W, p, patch.value, n, n, R) /\ ApplyPatch(A, patch) = R[1]
  BY <1>1, ApplyPatchStages DEF Paths
<1>3. \A i \in 1 .. n : W[i] = IF i = 1 THEN A ELSE Into(W[i - 1], p[i - 1], p[i], create)
  <2>1. p \in Seq(Steps)
    BY <1>1 DEF Paths
  <2>2. WithinOf(A, p, create, n, W)
    BY <2>1, ContainersOf
  <2>. HIDE DEF W, create
  <2>. QED
    BY <2>2, Zenon DEF WithinOf
<1>. HIDE DEF W, create
<1>. DEFINE T == {i \in Nat : i + 1 <= n => W[i + 1] = At(A, Upto(p, i))}
<1>4. 0 \in T
  <2>1. Upto(p, 0) = <<>> /\ 1 \in 1 .. n
    BY <1>1, UptoPath DEF Paths
  <2>. QED
    BY <1>3, <2>1, AtEmpty
<1>5. ASSUME NEW i \in Nat, i \in T
      PROVE  i + 1 \in T
  <2>. SUFFICES ASSUME (i + 1) + 1 <= n
                PROVE  W[(i + 1) + 1] = At(A, Upto(p, i + 1))
    OBVIOUS
  <2>1. /\ i + 1 \in 1 .. n /\ (i + 1) + 1 \in 1 .. n /\ (i + 1) + 1 # 1
        /\ ((i + 1) + 1) - 1 = i + 1 /\ (i + 1) - 1 = i
    BY <1>1
  <2>2. W[i + 1] = At(A, Upto(p, i))
    BY <1>5, <2>1
  <2>3. At(A, Upto(p, i + 1)) = Child(At(A, Upto(p, i)), p[i + 1])
    BY <1>1, <2>1, AtNext DEF Paths
  <2>4. Upto(p, i + 1) \in Paths /\ Inner(D, C, Upto(p, i + 1))
    BY <1>1, <2>1, FieldSteps
  <2>5. At(A, Upto(p, i + 1)) # Missing
    BY <2>4, KeptNode
  <2>6. W[(i + 1) + 1] = Into(W[i + 1], p[i + 1], p[(i + 1) + 1], create)
    BY <1>3, <2>1
  <2>7. \A m, s, next, c : Child(m, s) # Missing => Into(m, s, next, c) = Child(m, s)
    BY DEF Into
  <2>. QED
    BY <2>2, <2>3, <2>5, <2>6, <2>7
<1>. HIDE DEF T
<1>6. Nat \subseteq T
  BY <1>4, <1>5, NumberInduction
<1>7. \A i \in 1 .. n : W[i] = At(A, Upto(p, i - 1))
  <2>1. \A i \in 1 .. n : i - 1 \in Nat /\ (i - 1) + 1 = i /\ (i - 1) + 1 <= n
    BY <1>1
  <2>2. \A i \in 1 .. n : i - 1 \in T
    BY <1>6, <2>1
  <2>. QED
    BY <2>1, <2>2 DEF T
<1>8. \A i \in 1 .. n + 1 :
         R[i] = IF i = n + 1 THEN patch.value ELSE Replaced(W[i], p[i], R[i + 1])
  <2>1. n + 1 - n = 1
    BY <1>1
  <2>. QED
    BY <1>2, <2>1, Zenon DEF StagesOf
<1>9. R[n + 1] = patch.value /\ \A i \in 1 .. n : R[i] = Replaced(W[i], p[i], R[i + 1])
  <2>1. n + 1 \in 1 .. n + 1 /\ \A i \in 1 .. n : i \in 1 .. n + 1 /\ i # n + 1
    BY <1>1
  <2>. QED
    BY <1>8, <2>1
<1>. QED
  BY <1>2, <1>7, <1>9 DEF Stages

\* Dictionaries stay dictionaries and lists stay lists.
LEMMA StageKinds ==
    ASSUME NEW D \in Document, NEW C \in Document, NEW A, Kept(D, C, A),
           NEW patch, Sendable(D, C, patch), NEW R, Stages(A, patch.path, patch.value, R),
           NEW j \in 1 .. Len(patch.path)
    PROVE  /\ IsDict(At(D, Upto(patch.path, j - 1))) => DictNode(R[j])
           /\ ~IsDict(At(D, Upto(patch.path, j - 1))) => ListNode(R[j])
           /\ R[j] # Missing /\ R[j] # Failed /\ R[j + 1] # Failed
<1>. DEFINE p == patch.path
            n == Len(p)
            u(i) == Upto(p, i - 1)
            Right(i) == /\ IsDict(At(D, u(i))) => DictNode(R[i])
                        /\ ~IsDict(At(D, u(i))) => ListNode(R[i])
                        /\ R[i] # Missing /\ R[i] # Failed
            T == {k \in Nat : k < n => Right(n - k)}
<1>1. FieldPath(D, C, p) /\ p \in Paths /\ n \in Nat /\ n # 0
  BY DEF Sendable, FieldPath, Edge, Paths
<1>2. R[n + 1] = patch.value /\ patch.value # Failed
  BY DEF Stages, Sendable
<1>. HIDE DEF p
<1>3. ASSUME NEW i \in 1 .. n, R[i + 1] # Failed
      PROVE  Right(i)
  <2>1. /\ u(i) \in Paths /\ Inner(D, C, u(i)) /\ p[i] \in Steps
        /\ IsDict(At(D, u(i))) => p[i] \in Keys
        /\ ~IsDict(At(D, u(i))) => p[i] \in ItemSegments
    BY <1>1, FieldSteps
  <2>2. R[i] = Replaced(At(A, u(i)), p[i], R[i + 1])
    BY DEF Stages, p
  <2>3. CASE IsDict(At(D, u(i)))
    <3>1. DictNode(At(A, u(i))) /\ p[i] \in Keys
      BY <2>1, <2>3 DEF Kept
    <3>2. DictNode(R[i])
      BY <1>3, <2>2, <3>1, DictReplaced
    <3>3. IsDict(R[i])
      BY <3>2, Zenon DEF DictNode
    <3>. QED
      BY <2>3, <3>2, <3>3, Kinds
  <2>4. CASE ~IsDict(At(D, u(i)))
    <3>1. ListNode(At(A, u(i))) /\ p[i] \in ItemSegments
      BY <2>1, <2>4 DEF Kept
    <3>2. ListNode(R[i])
      BY <1>3, <2>2, <3>1, ListReplaced DEF NodeChanged
    <3>3. IsList(R[i])
      BY <3>2, Zenon DEF ListNode
    <3>. QED
      BY <2>4, <3>2, <3>3, Kinds
  <2>. QED
    BY <2>3, <2>4
<1>. HIDE DEF Right
<1>4. 0 \in T
  <2>1. n \in 1 .. n /\ n - 0 = n
    BY <1>1
  <2>2. Right(n)
    BY <1>2, <1>3, <2>1
  <2>. QED
    BY <2>1, <2>2
<1>5. ASSUME NEW k \in Nat, k \in T
      PROVE  k + 1 \in T
  <2>. SUFFICES ASSUME k + 1 < n
                PROVE  Right(n - (k + 1))
    OBVIOUS
  <2>1. n - (k + 1) \in 1 .. n /\ (n - (k + 1)) + 1 = n - k /\ k < n
    BY <1>1
  <2>2. R[n - k] # Failed
    BY <1>5, <2>1 DEF Right
  <2>. QED
    BY <1>3, <2>1, <2>2
<1>. HIDE DEF T
<1>6. Nat \subseteq T
  BY <1>4, <1>5, NumberInduction
<1>7. \A i \in 1 .. n : Right(i)
  <2>1. \A i \in 1 .. n : n - i \in Nat /\ n - i < n /\ n - (n - i) = i
    BY <1>1
  <2>2. \A i \in 1 .. n : n - i \in T
    BY <1>6, <2>1
  <2>. QED
    BY <2>1, <2>2 DEF T
<1>8. Right(j) /\ R[j + 1] # Failed
  <2>0. j \in 1 .. n
    BY DEF p
  <2>1. CASE j = n
    BY <1>2, <1>7, <2>0, <2>1
  <2>2. CASE j # n
    <3>1. j + 1 \in 1 .. n
      BY <1>1, <2>0, <2>2
    <3>. QED
      BY <1>7, <2>0, <3>1 DEF Right
  <2>. QED
    BY <2>1, <2>2
<1>. QED
  BY <1>8 DEF Right, p

\* An item on the way keeps its id.
LEMMA StageOwn ==
    ASSUME NEW D \in Document, NEW C \in Document, NEW A, Kept(D, C, A),
           NEW patch, Sendable(D, C, patch), NEW R, Stages(A, patch.path, patch.value, R),
           NEW i \in 1 .. Len(patch.path), i < Len(patch.path),
           ~IsDict(At(D, Upto(patch.path, i - 1)))
    PROVE  Selects(R[i + 1], patch.path[i]) /\ Child(At(A, Upto(patch.path, i - 1)), patch.path[i]) # Missing
<1>. DEFINE p == patch.path
            u == Upto(p, i - 1)
            w == Upto(p, i)
            s == p[i]
<1>1. FieldPath(D, C, p) /\ p \in Paths /\ Len(p) \in Nat
  BY DEF Sendable, FieldPath, Paths
<1>. HIDE DEF p
<1>2. i \in 1 .. Len(p) /\ i < Len(p) /\ ~IsDict(At(D, u)) /\ Stages(A, p, patch.value, R)
  BY DEF p
<1>3. /\ u \in Paths /\ Inner(D, C, u) /\ s \in Steps
      /\ i + 1 \in 1 .. Len(p) /\ (i + 1) - 1 = i
  BY <1>1, <1>2, FieldSteps
<1>4. IsDict(At(D, w)) /\ p[i + 1] # "id"
  BY <1>1, <1>2, NotTheId
<1>5. w \in Paths /\ Inner(D, C, w) /\ p[i + 1] \in Keys
  BY <1>1, <1>3, <1>4, FieldSteps
<1>6. DictNode(At(A, w))
  BY <1>4, <1>5 DEF Kept
<1>7. At(A, w) = Child(At(A, u), s)
  BY <1>1, <1>2, AtNext DEF Paths
<1>8. w = Append(u, s)
  BY <1>1, <1>2, UptoNext DEF Paths
<1>9. ListNode(At(A, u)) /\ Ahead(At(A, u).items, IdsIn(At(D, u)), s)
  BY <1>2, <1>3, <1>5, <1>8 DEF Kept
<1>10. Selects(At(A, w), s) /\ Child(At(A, u), s) # Missing
  BY <1>7, <1>9, AheadChild
<1>11. R[i + 1] = Replaced(At(A, w), p[i + 1], R[(i + 1) + 1]) /\ R[(i + 1) + 1] # Failed
  <2>1. R[(i + 1) + 1] # Failed
    BY <1>3, StageKinds DEF p
  <2>. QED
    BY <1>2, <1>3, <2>1 DEF Stages
<1>12. DictNode(R[i + 1]) /\ Child(R[i + 1], "id") = Child(At(A, w), "id")
  BY <1>4, <1>5, <1>6, <1>11, DictReplaced
<1>13. IsDict(R[i + 1]) /\ Get(R[i + 1], "id") = Get(At(A, w), "id")
  <2>1. IsDict(R[i + 1])
    BY <1>12, Zenon DEF DictNode
  <2>. QED
    BY <1>6, <1>12, <2>1, ChildOfDict
<1>14. Selects(R[i + 1], s)
  BY <1>10, <1>13 DEF Selects, Identified, IdOf
<1>. QED
  BY <1>10, <1>14 DEF p

\* What was put in is in the new document.
LEMMA StageAt ==
    ASSUME NEW D \in Document, NEW C \in Document, NEW A, Kept(D, C, A),
           NEW patch, Sendable(D, C, patch), NEW R, Stages(A, patch.path, patch.value, R)
    PROVE  \A i \in 1 .. Len(patch.path) : At(R[1], Upto(patch.path, i - 1)) = R[i]
<1>. DEFINE p == patch.path
            n == Len(p)
            T == {k \in Nat : k + 1 <= n => At(R[1], Upto(p, k)) = R[k + 1]}
<1>1. FieldPath(D, C, p) /\ p \in Paths /\ n \in Nat /\ Stages(A, p, patch.value, R)
  BY DEF Sendable, FieldPath, Paths
<1>. HIDE DEF p
<1>2. 0 \in T
  <2>1. Upto(p, 0) = <<>>
    BY <1>1, UptoPath DEF Paths
  <2>. QED
    BY <2>1, AtEmpty
<1>3. ASSUME NEW k \in Nat, k \in T
      PROVE  k + 1 \in T
  <2>. SUFFICES ASSUME (k + 1) + 1 <= n
                PROVE  At(R[1], Upto(p, k + 1)) = R[(k + 1) + 1]
    OBVIOUS
  <2>. DEFINE i == k + 1
  <2>1. i \in 1 .. n /\ i < n /\ i - 1 = k /\ i <= n
    BY <1>1
  <2>2. At(R[1], Upto(p, i - 1)) = R[i]
    BY <1>3, <2>1
  <2>. HIDE DEF i
  <2>3. At(R[1], Upto(p, i)) = Child(At(R[1], Upto(p, i - 1)), p[i])
    BY <1>1, <2>1, AtNext DEF Paths
  <2>4. R[i] = Replaced(At(A, Upto(p, i - 1)), p[i], R[i + 1])
    BY <1>1, <2>1 DEF Stages
  <2>5. /\ Upto(p, i - 1) \in Paths /\ Inner(D, C, Upto(p, i - 1))
        /\ IsDict(At(D, Upto(p, i - 1))) => p[i] \in Keys
        /\ ~IsDict(At(D, Upto(p, i - 1))) => p[i] \in ItemSegments
    BY <1>1, <2>1, FieldSteps
  <2>6. R[i + 1] # Failed
    BY <2>1, StageKinds DEF p
  <2>7. Child(R[i], p[i]) = R[i + 1]
    <3>1. CASE IsDict(At(D, Upto(p, i - 1)))
      <4>1. DictNode(At(A, Upto(p, i - 1)))
        BY <2>5, <3>1 DEF Kept
      <4>. QED
        BY <2>4, <2>5, <2>6, <3>1, <4>1, DictReplaced
    <3>2. CASE ~IsDict(At(D, Upto(p, i - 1)))
      <4>1. ListNode(At(A, Upto(p, i - 1)))
        BY <2>5, <3>2 DEF Kept
      <4>2. Selects(R[i + 1], p[i])
        BY <2>1, <3>2, StageOwn DEF p
      <4>3. NodeChanged(At(A, Upto(p, i - 1)), p[i], R[i + 1], R[i])
        BY <2>4, <2>5, <2>6, <3>2, <4>1, ListReplaced
      <4>. QED
        BY <4>2, <4>3 DEF NodeChanged
    <3>. QED
      BY <3>1, <3>2
  <2>8. At(R[1], Upto(p, i)) = R[i + 1]
    BY <2>2, <2>3, <2>7
  <2>. QED
    BY <2>8 DEF i
<1>. HIDE DEF T
<1>4. Nat \subseteq T
  BY <1>2, <1>3, NumberInduction
<1>5. ASSUME NEW i \in 1 .. n
      PROVE  At(R[1], Upto(p, i - 1)) = R[i]
  <2>1. i - 1 \in Nat /\ (i - 1) + 1 = i /\ (i - 1) + 1 <= n
    BY <1>1
  <2>2. i - 1 \in T
    BY <1>4, <2>1
  <2>. QED
    BY <2>1, <2>2 DEF T
<1>. QED
  BY <1>5 DEF p

\* An item that is entered anew is not among those of the draft.
LEMMA NewItemIsNew ==
    ASSUME NEW D \in Document, NEW C \in Document, NEW p, FieldPath(D, C, p),
           ~IsDict(At(D, Upto(p, Len(p) - 1))), At(C, p) # Missing
    PROVE  \A id \in IdsIn(At(D, Upto(p, Len(p) - 1))) : p[Len(p)] # ItemSegment(id)
<1>. DEFINE u == Upto(p, Len(p) - 1)
            s == p[Len(p)]
<1>1. p \in Paths /\ p # <<>> /\ ~Opened(At(D, p), At(C, p)) /\ Len(p) \in 1 .. Len(p)
  <2>1. p \in Paths /\ p # <<>> /\ ~Opened(At(D, p), At(C, p))
    BY DEF FieldPath, Edge
  <2>. QED
    BY <2>1 DEF Paths
<1>2. u \in Paths /\ Inner(D, C, u)
  BY <1>1, FieldSteps
<1>3. /\ Stable(At(D, u)) /\ ListNode(At(D, u))
      /\ Stable(At(C, u)) /\ ListNode(At(C, u))
  BY <1>2, InnerKinds
<1>4. At(D, p) = Child(At(D, u), s) /\ At(C, p) = Child(At(C, u), s)
  BY <1>1, LastStep DEF Paths
<1>. HIDE DEF u, s
<1>5. ASSUME NEW id \in IdsIn(At(D, u)), s = ItemSegment(id)
      PROVE  FALSE
  <2>1. At(D, p) # Missing
    BY <1>3, <1>4, <1>5, StableHas
  <2>2. IsDict(At(D, p)) /\ IsDict(At(C, p))
    BY <1>3, <1>4, <2>1, StableChildId
  <2>. QED
    BY <1>1, <2>2 DEF Opened
<1>. QED
  BY <1>5 DEF u, s

\* What is beside the path in its containers stays, unless what was entered has
\* the id of another item.
LEMMA StageOff ==
    ASSUME NEW D \in Document, NEW C \in Document, NEW A, Kept(D, C, A),
           NEW patch, Sendable(D, C, patch), NEW R, Stages(A, patch.path, patch.value, R),
           NEW i \in 1 .. Len(patch.path), NEW t \in Steps, t # patch.path[i],
           \/ IsDict(At(D, Upto(patch.path, i - 1)))
           \/ i < Len(patch.path) \/ patch.value = Missing
           \/ Selects(patch.value, patch.path[Len(patch.path)])
           \/ Inner(D, C, Append(Upto(patch.path, i - 1), t))
    PROVE  Child(R[i], t) = Child(At(A, Upto(patch.path, i - 1)), t)
<1>. DEFINE p == patch.path
            u == Upto(p, i - 1)
<1>1. FieldPath(D, C, p) /\ p \in Paths /\ Len(p) \in Nat
  BY DEF Sendable, FieldPath, Paths
<1>2. R[Len(p) + 1] = patch.value
  BY DEF Stages
<1>. HIDE DEF p
<1>3. i \in 1 .. Len(p) /\ t # p[i] /\ Stages(A, p, patch.value, R)
  BY DEF p
<1>4. R[i] = Replaced(At(A, u), p[i], R[i + 1]) /\ R[i + 1] # Failed
  <2>1. R[i + 1] # Failed
    BY StageKinds
  <2>. QED
    BY <1>3, <2>1 DEF Stages
<1>5. /\ u \in Paths /\ Inner(D, C, u)
      /\ IsDict(At(D, u)) => p[i] \in Keys
      /\ ~IsDict(At(D, u)) => p[i] \in ItemSegments
  BY <1>1, <1>3, FieldSteps
<1>6. CASE IsDict(At(D, u))
  <2>1. DictNode(At(A, u))
    BY <1>5, <1>6 DEF Kept
  <2>2. Child(R[i], t) = Child(At(A, u), t)
    BY <1>3, <1>4, <1>5, <1>6, <2>1, DictReplaced
  <2>. QED
    BY <2>2 DEF p, u
<1>7. CASE ~IsDict(At(D, u))
  <2>1. ListNode(At(A, u))
    BY <1>5, <1>7 DEF Kept
  <2>2. NodeChanged(At(A, u), p[i], R[i + 1], R[i])
    BY <1>4, <1>5, <1>7, <2>1, ListReplaced
  <2>3. CASE i < Len(p)
    <3>1. Selects(R[i + 1], p[i])
      BY <1>7, <2>3, StageOwn DEF p, u
    <3>2. Child(R[i], t) = Child(At(A, u), t)
      BY <1>3, <2>2, <3>1 DEF NodeChanged
    <3>. QED
      BY <3>2 DEF p, u
  <2>4. CASE i = Len(p) /\ (patch.value = Missing \/ Selects(patch.value, p[Len(p)]))
    <3>1. Selects(R[i + 1], p[i]) \/ R[i + 1] = Missing
      BY <1>2, <2>4
    <3>2. Child(R[i], t) = Child(At(A, u), t)
      BY <1>3, <2>2, <3>1 DEF NodeChanged
    <3>. QED
      BY <3>2 DEF p, u
  <2>5. CASE i = Len(p) /\ patch.value # Missing /\ Inner(D, C, Append(u, t))
    <3>1. At(C, p) # Missing
      BY <2>5 DEF Sendable, p
    <3>2. \A id \in IdsIn(At(D, u)) : p[i] # ItemSegment(id)
      BY <1>1, <1>7, <2>5, <3>1, NewItemIsNew DEF u
    <3>3. Ahead(At(A, u).items, IdsIn(At(D, u)), t)
      BY <1>5, <1>7, <2>5 DEF Kept
    <3>4. R[i + 1] # Missing
      BY <1>2, <2>5
    <3>5. Child(R[i], t) = Child(At(A, u), t)
      BY <2>2, <3>2, <3>3, <3>4 DEF NodeChanged
    <3>. QED
      BY <3>5 DEF p, u
  <2>6. \/ i < Len(p) \/ patch.value = Missing
        \/ Selects(patch.value, p[Len(p)]) \/ Inner(D, C, Append(u, t))
    BY <1>7 DEF p, u
  <2>. QED
    BY <1>1, <1>3, <2>3, <2>4, <2>5, <2>6
<1>. QED
  BY <1>6, <1>7

\* The items that the review looks into stay ahead of what was entered.
LEMMA StageAhead ==
    ASSUME NEW D \in Document, NEW C \in Document, NEW A, Kept(D, C, A),
           NEW patch, Sendable(D, C, patch), NEW R, Stages(A, patch.path, patch.value, R),
           NEW i \in 1 .. Len(patch.path), ~IsDict(At(D, Upto(patch.path, i - 1))),
           NEW t \in Steps, Inner(D, C, Append(Upto(patch.path, i - 1), t))
    PROVE  Ahead(R[i].items, IdsIn(At(D, Upto(patch.path, i - 1))), t)
<1>. DEFINE p == patch.path
            u == Upto(p, i - 1)
            ids == IdsIn(At(D, u))
<1>1. FieldPath(D, C, p) /\ p \in Paths /\ Len(p) \in Nat /\ ~Opened(At(D, p), At(C, p))
  BY DEF Sendable, FieldPath, Paths, Edge
<1>2. R[Len(p) + 1] = patch.value
  BY DEF Stages
<1>. HIDE DEF p
<1>3. i \in 1 .. Len(p) /\ Stages(A, p, patch.value, R)
  BY DEF p
<1>4. R[i] = Replaced(At(A, u), p[i], R[i + 1]) /\ R[i + 1] # Failed
  <2>1. R[i + 1] # Failed
    BY StageKinds
  <2>. QED
    BY <1>3, <2>1 DEF Stages
<1>5. ~IsDict(At(D, u)) /\ Inner(D, C, Append(u, t))
  BY DEF p
<1>6. u \in Paths /\ Inner(D, C, u) /\ p[i] \in ItemSegments
  BY <1>1, <1>3, <1>5, FieldSteps
<1>7. ListNode(At(A, u)) /\ Ahead(At(A, u).items, ids, t)
  BY <1>5, <1>6 DEF Kept
<1>8. NodeChanged(At(A, u), p[i], R[i + 1], R[i])
  BY <1>4, <1>6, <1>7, ListReplaced
<1>9. Upto(p, i) = Append(u, p[i])
  BY <1>1, <1>3, UptoNext DEF Paths
<1>10. Ahead(R[i].items, ids, t)
  <2>1. CASE i < Len(p)
    <3>1. Selects(R[i + 1], p[i]) /\ Child(At(A, u), p[i]) # Missing
      BY <1>5, <2>1, StageOwn DEF p, u
    <3>. QED
      BY <1>7, <1>8, <3>1 DEF NodeChanged
  <2>2. CASE i = Len(p)
    <3>1. t # p[i]
      <4>1. Upto(p, i) = p
        BY <1>1, <2>2, UptoPath DEF Paths
      <4>. QED
        BY <1>1, <1>5, <1>9, <4>1 DEF Inner
    <3>2. CASE patch.value = Missing
      <4>1. R[i + 1] = Missing
        BY <1>2, <2>2, <3>2
      <4>. QED
        BY <1>7, <1>8, <3>1, <4>1 DEF NodeChanged
    <3>3. CASE patch.value # Missing
      <4>1. At(C, p) # Missing
        BY <3>3 DEF Sendable, p
      <4>2. \A id \in ids : p[i] # ItemSegment(id)
        BY <1>1, <1>5, <2>2, <4>1, NewItemIsNew DEF u
      <4>3. R[i + 1] # Missing
        BY <1>2, <2>2, <3>3
      <4>. QED
        BY <1>7, <1>8, <4>2, <4>3 DEF NodeChanged
    <3>. QED
      BY <3>2, <3>3
  <2>. QED
    BY <1>1, <1>3, <2>1, <2>2
<1>. QED
  BY <1>10 DEF p, u, ids

\* If every item has the id under which it was sent, no id is doubled.
LEMMA StageStable ==
    ASSUME NEW D \in Document, NEW C \in Document, NEW A, Kept(D, C, A),
           NEW patch, Sendable(D, C, patch), NEW R, Stages(A, patch.path, patch.value, R),
           NEW i \in 1 .. Len(patch.path), ~IsDict(At(D, Upto(patch.path, i - 1))),
           OwnId(D, patch), Stable(At(A, Upto(patch.path, i - 1)))
    PROVE  Stable(R[i]) /\ Child(R[i], patch.path[i]) = R[i + 1]
<1>. DEFINE p == patch.path
            u == Upto(p, i - 1)
<1>1. FieldPath(D, C, p) /\ p \in Paths /\ p # <<>> /\ Len(p) \in Nat
  BY DEF Sendable, FieldPath, Paths, Edge
<1>2. R[Len(p) + 1] = patch.value
  BY DEF Stages
<1>3. patch.value # Missing /\ ~IsDict(At(D, Upto(p, Len(p) - 1))) => Selects(patch.value, p[Len(p)])
  BY DEF OwnId, Last
<1>. HIDE DEF p
<1>4. i \in 1 .. Len(p) /\ Stages(A, p, patch.value, R) /\ ~IsDict(At(D, u)) /\ Stable(At(A, u))
  BY DEF p
<1>5. R[i] = Replaced(At(A, u), p[i], R[i + 1]) /\ R[i + 1] # Failed
  <2>1. R[i + 1] # Failed
    BY StageKinds
  <2>. QED
    BY <1>4, <2>1 DEF Stages
<1>6. u \in Paths /\ Inner(D, C, u) /\ p[i] \in ItemSegments
  BY <1>1, <1>4, FieldSteps
<1>7. ListNode(At(A, u))
  BY <1>4, <1>6 DEF Kept
<1>8. NodeChanged(At(A, u), p[i], R[i + 1], R[i])
  BY <1>5, <1>6, <1>7, ListReplaced
<1>9. Selects(R[i + 1], p[i]) \/ R[i + 1] = Missing
  <2>1. CASE i < Len(p)
    BY <1>4, <2>1, StageOwn DEF p, u
  <2>2. CASE i = Len(p)
    BY <1>2, <1>3, <1>4, <2>2
  <2>. QED
    BY <1>1, <1>4, <2>1, <2>2
<1>10. Stable(R[i]) /\ Child(R[i], p[i]) = R[i + 1]
  BY <1>4, <1>8, <1>9 DEF NodeChanged
<1>. QED
  BY <1>10 DEF p

\* Two paths of which neither is the beginning of the other part somewhere.
LEMMA Diverge ==
    ASSUME NEW p \in Paths, NEW q \in Paths,
           \A i \in 0 .. Len(p) : q # Upto(p, i), \A i \in 0 .. Len(q) : p # Upto(q, i)
    PROVE  \E k \in Nat : k < Len(p) /\ k < Len(q) /\ Upto(p, k) = Upto(q, k) /\ p[k + 1] # q[k + 1]
<1>. SUFFICES ASSUME \A k \in Nat : k < Len(p) /\ k < Len(q) /\ Upto(p, k) = Upto(q, k)
                                        => p[k + 1] = q[k + 1]
              PROVE  FALSE
  OBVIOUS
<1>. DEFINE T == {k \in Nat : k <= Len(p) /\ k <= Len(q) => Upto(p, k) = Upto(q, k)}
<1>1. Len(p) \in Nat /\ Len(q) \in Nat /\ p \in Seq(Steps) /\ q \in Seq(Steps)
  BY DEF Paths
<1>2. 0 \in T
  <2>1. Upto(p, 0) = <<>> /\ Upto(q, 0) = <<>>
    BY <1>1, UptoPath
  <2>. QED
    BY <2>1
<1>3. ASSUME NEW k \in Nat, k \in T
      PROVE  k + 1 \in T
  <2>. SUFFICES ASSUME k + 1 <= Len(p), k + 1 <= Len(q)
                PROVE  Upto(p, k + 1) = Upto(q, k + 1)
    OBVIOUS
  <2>1. /\ k < Len(p) /\ k < Len(q) /\ k <= Len(p) /\ k <= Len(q)
        /\ k + 1 \in 1 .. Len(p) /\ k + 1 \in 1 .. Len(q) /\ (k + 1) - 1 = k
    BY <1>1
  <2>2. Upto(p, k) = Upto(q, k) /\ p[k + 1] = q[k + 1]
    BY <1>3, <2>1
  <2>3. /\ Upto(p, k + 1) = Append(Upto(p, k), p[k + 1])
        /\ Upto(q, k + 1) = Append(Upto(q, k), q[k + 1])
    BY <1>1, <2>1, UptoNext
  <2>. QED
    BY <2>2, <2>3
<1>. HIDE DEF T
<1>4. Nat \subseteq T
  BY <1>2, <1>3, NumberInduction
<1>5. CASE Len(p) <= Len(q)
  <2>1. Upto(p, Len(p)) = Upto(q, Len(p))
    BY <1>1, <1>4, <1>5 DEF T
  <2>2. Len(p) \in 0 .. Len(q) /\ Upto(p, Len(p)) = p
    BY <1>1, <1>5, UptoPath
  <2>. QED
    BY <2>1, <2>2
<1>6. CASE Len(q) <= Len(p)
  <2>1. Upto(p, Len(q)) = Upto(q, Len(q))
    BY <1>1, <1>4, <1>6 DEF T
  <2>2. Len(q) \in 0 .. Len(p) /\ Upto(q, Len(q)) = q
    BY <1>1, <1>6, UptoPath
  <2>. QED
    BY <2>1, <2>2
<1>. QED
  BY <1>1, <1>5, <1>6

\* The path of a field is not the beginning of what the review looks into nor of
\* another path that ends where the review does.
LEMMA Parted ==
    ASSUME NEW D \in Document, NEW C \in Document, NEW p, FieldPath(D, C, p),
           NEW q \in Paths,
           \/ Inner(D, C, q) /\ \A i \in 1 .. Len(p) : q # Upto(p, i - 1)
           \/ Edge(D, C, q) /\ q # p
    PROVE  \E k \in Nat : k < Len(p) /\ k < Len(q) /\ Upto(p, k) = Upto(q, k) /\ p[k + 1] # q[k + 1]
<1>1. p \in Paths /\ p # <<>> /\ OpenBefore(D, C, p) /\ ~Opened(At(D, p), At(C, p)) /\ Len(p) \in Nat
  BY DEF FieldPath, Edge, Paths
<1>2. Len(q) \in Nat /\ OpenBefore(D, C, q)
  BY DEF Inner, Edge, Paths
<1>3. Upto(p, Len(p)) = p /\ Upto(q, Len(q)) = q
  BY <1>1, UptoPath DEF Paths
<1>4. ~Inner(D, C, p)
  BY <1>1 DEF Inner
<1>5. ASSUME NEW i \in 0 .. Len(p), q = Upto(p, i)
      PROVE  FALSE
  <2>1. CASE i = Len(p)
    BY <1>3, <1>4, <1>5, <2>1
  <2>2. CASE i # Len(p)
    <3>1. i < Len(p) /\ i + 1 \in 1 .. Len(p) /\ (i + 1) - 1 = i
      BY <1>1, <2>2
    <3>2. Inner(D, C, q)
      BY <1>1, <1>5, <3>1, InnerPrefix
    <3>. QED
      BY <1>5, <3>1, <3>2 DEF Inner, Edge
  <2>. QED
    BY <2>1, <2>2
<1>6. ASSUME NEW i \in 0 .. Len(q), p = Upto(q, i)
      PROVE  FALSE
  <2>1. ~(i < Len(q) \/ Inner(D, C, q))
    BY <1>2, <1>4, <1>6, InnerPrefix
  <2>2. i = Len(q) /\ Edge(D, C, q) /\ q # p
    BY <1>2, <2>1
  <2>. QED
    BY <1>3, <1>6, <2>2
<1>. QED
  BY <1>1, <1>5, <1>6, Diverge

LEMMA SentElsewhere ==
    ASSUME NEW D \in Document, NEW C \in Document, NEW A, Kept(D, C, A),
           NEW patch, Sendable(D, C, patch), NEW q \in Paths,
           NEW k \in Nat, k < Len(patch.path), k < Len(q),
           Upto(patch.path, k) = Upto(q, k), patch.path[k + 1] # q[k + 1],
           Inner(D, C, q) \/ OwnId(D, patch)
    PROVE  At(ApplyPatch(A, patch), q) = At(A, q)
<1>. DEFINE p == patch.path
            B == ApplyPatch(A, patch)
<1>1. /\ FieldPath(D, C, p) /\ p \in Paths /\ p # <<>> /\ Len(p) \in Nat
      /\ p \in Seq(Steps) /\ q \in Seq(Steps) /\ Len(q) \in Nat
  BY DEF Sendable, FieldPath, Paths, Edge
<1>2. PICK R : Stages(A, p, patch.value, R) /\ B = R[1]
  BY PatchStages
<1>3. patch.value # Missing /\ ~IsDict(At(D, Upto(p, Len(p) - 1))) /\ OwnId(D, patch)
         => Selects(patch.value, p[Len(p)])
  BY DEF OwnId, Last
<1>. HIDE DEF B, p
<1>4. k < Len(p) /\ Upto(p, k) = Upto(q, k) /\ p[k + 1] # q[k + 1]
  BY DEF p
<1>5. k + 1 \in 1 .. Len(p) /\ k + 1 \in 1 .. Len(q) /\ (k + 1) - 1 = k
  BY <1>1, <1>4
<1>. DEFINE u == Upto(q, k)
            t == q[k + 1]
<1>6. At(B, u) = R[k + 1]
  <2>1. At(R[1], Upto(p, (k + 1) - 1)) = R[k + 1]
    BY <1>2, <1>5, StageAt DEF p
  <2>. QED
    BY <1>2, <1>4, <1>5, <2>1
<1>7. t \in Steps /\ Upto(q, k + 1) = Append(u, t)
  BY <1>1, <1>5, UptoNext
<1>8. \/ IsDict(At(D, u))
      \/ k + 1 < Len(p) \/ patch.value = Missing \/ Selects(patch.value, p[Len(p)])
      \/ Inner(D, C, Append(u, t))
  <2>1. CASE Inner(D, C, q)
    <3>1. Inner(D, C, Upto(q, k + 1))
      <4>1. OpenBefore(D, C, q) /\ k + 1 \in 0 .. Len(q)
        BY <1>5, <2>1 DEF Inner
      <4>. QED
        BY <2>1, <4>1, InnerPrefix
    <3>. QED
      BY <1>7, <3>1
  <2>2. CASE OwnId(D, patch)
    <3>1. k + 1 < Len(p) \/ Len(p) - 1 = k
      BY <1>1, <1>5
    <3>. QED
      BY <1>3, <1>4, <2>2, <3>1
  <2>. QED
    BY <2>1, <2>2
<1>. HIDE DEF u, t
<1>9. u = Upto(p, (k + 1) - 1) /\ t # p[k + 1]
  BY <1>4, <1>5 DEF u, t
<1>10. Child(R[k + 1], t) = Child(At(A, u), t)
  <2>1. k + 1 \in 1 .. Len(patch.path) /\ u = Upto(patch.path, (k + 1) - 1) /\ t # patch.path[k + 1]
        /\ Stages(A, patch.path, patch.value, R)
    BY <1>2, <1>5, <1>9 DEF p
  <2>. QED
    BY <1>7, <1>8, <2>1, StageOff DEF p
<1>11. \A x : At(x, Upto(q, k + 1)) = Child(At(x, u), t)
  <2>1. \A x : At(x, Upto(q, k + 1)) = Child(At(x, Upto(q, (k + 1) - 1)), q[k + 1])
    BY <1>1, <1>5, AtNext
  <2>. QED
    BY <1>5, <2>1 DEF u, t
<1>12. At(B, Upto(q, k + 1)) = At(A, Upto(q, k + 1))
  BY <1>6, <1>10, <1>11
<1>13. At(B, q) = At(A, q)
  <2>1. k + 1 \in 0 .. Len(q)
    BY <1>5
  <2>. QED
    BY <1>1, <1>12, <2>1, SameBelow
<1>. QED
  BY <1>13 DEF B

LEMMA RootKept ==
    ASSUME NEW D \in Document, NEW C \in Document
    PROVE  /\ <<>> \in Paths /\ Inner(D, C, <<>>)
           /\ \A A : Kept(D, C, A) => DictNode(A) /\ A # Missing /\ A # Failed
<1>1. <<>> \in Paths /\ Len(<<>>) = 0
  BY DEF Paths
<1>2. IsDict(D) /\ IsDict(C)
  BY DocumentIsNode
<1>3. \A x : At(x, <<>>) = x
  BY AtEmpty
<1>4. OpenBefore(D, C, <<>>)
  BY <1>1 DEF OpenBefore
<1>5. Inner(D, C, <<>>)
  BY <1>2, <1>3, <1>4 DEF Inner, Opened
<1>6. ASSUME NEW A, Kept(D, C, A)
      PROVE  DictNode(A) /\ A # Missing /\ A # Failed
  <2>1. DictNode(At(A, <<>>)) /\ At(A, <<>>) # Missing /\ At(A, <<>>) # Failed
    <3>1. IsDict(At(D, <<>>))
      BY <1>2, <1>3
    <3>2. DictNode(At(A, <<>>))
      BY <1>1, <1>5, <1>6, <3>1 DEF Kept
    <3>3. At(A, <<>>) # Missing /\ At(A, <<>>) # Failed
      BY <1>1, <1>5, <1>6, KeptNode
    <3>. QED
      BY <3>2, <3>3
  <2>2. At(A, <<>>) = A
    BY <1>3
  <2>. QED
    BY <2>1, <2>2
<1>. QED
  BY <1>1, <1>5, <1>6

LEMMA PatchKeeps ==
    ASSUME NEW D \in Document, NEW C \in Document, NEW A, Kept(D, C, A),
           NEW patch, Sendable(D, C, patch)
    PROVE  Kept(D, C, ApplyPatch(A, patch))
<1>. DEFINE p == patch.path
            B == ApplyPatch(A, patch)
<1>1. FieldPath(D, C, p) /\ p \in Paths /\ Len(p) \in Nat /\ p \in Seq(Steps)
  BY DEF Sendable, FieldPath, Paths
<1>2. PICK R : Stages(A, p, patch.value, R) /\ B = R[1]
  BY PatchStages
<1>. SUFFICES ASSUME NEW q \in Paths, Inner(D, C, q)
              PROVE  /\ IsDict(At(D, q)) => DictNode(At(B, q))
                     /\ ~IsDict(At(D, q)) =>
                           /\ ListNode(At(B, q))
                           /\ \A s \in Steps : Inner(D, C, Append(q, s)) =>
                                 Ahead(At(B, q).items, IdsIn(At(D, q)), s)
  BY DEF Kept
<1>. HIDE DEF B
<1>3. ASSUME NEW i \in 1 .. Len(p), q = Upto(p, i - 1)
      PROVE  /\ IsDict(At(D, q)) => DictNode(At(B, q))
             /\ ~IsDict(At(D, q)) =>
                   /\ ListNode(At(B, q))
                   /\ \A s \in Steps : Inner(D, C, Append(q, s)) =>
                         Ahead(At(B, q).items, IdsIn(At(D, q)), s)
  <2>1. At(B, q) = R[i]
    BY <1>2, <1>3, StageAt
  <2>2. /\ IsDict(At(D, q)) => DictNode(R[i])
        /\ ~IsDict(At(D, q)) => ListNode(R[i])
    BY <1>2, <1>3, StageKinds
  <2>3. ASSUME ~IsDict(At(D, q)), NEW s \in Steps, Inner(D, C, Append(q, s))
        PROVE  Ahead(R[i].items, IdsIn(At(D, q)), s)
    BY <1>2, <1>3, <2>3, StageAhead
  <2>. QED
    BY <2>1, <2>2, <2>3
<1>4. CASE \A i \in 1 .. Len(p) : q # Upto(p, i - 1)
  <2>1. PICK k \in Nat : k < Len(p) /\ k < Len(q) /\ Upto(p, k) = Upto(q, k) /\ p[k + 1] # q[k + 1]
    BY <1>1, <1>4, Parted
  <2>2. At(B, q) = At(A, q)
    BY <2>1, SentElsewhere DEF B
  <2>. QED
    BY <2>2 DEF Kept
<1>. QED
  BY <1>3, <1>4

\* The other sections stay as they were.
LEMMA PatchHead ==
    ASSUME NEW D \in Document, NEW C \in Document, NEW A, Kept(D, C, A),
           NEW patch, Sendable(D, C, patch), NEW k \in Keys, k # Head(patch.path)
    PROVE  Get(ApplyPatch(A, patch), k) = Get(A, k)
<1>. DEFINE p == patch.path
            B == ApplyPatch(A, patch)
<1>1. FieldPath(D, C, p) /\ p \in Paths /\ p # <<>>
  BY DEF Sendable, FieldPath, Edge
<1>2. PICK R : Stages(A, p, patch.value, R) /\ B = R[1]
  BY PatchStages
<1>3. 1 \in 1 .. Len(p) /\ Head(p) = p[1] /\ 1 - 1 = 0
  BY <1>1, HeadOfPath
<1>4. Upto(p, 0) = <<>> /\ k \in Steps
  BY <1>1, UptoPath DEF Paths, Steps
<1>5. At(D, <<>>) = D /\ At(A, <<>>) = A /\ IsDict(D)
  BY AtEmpty, DocumentIsNode
<1>6. Child(R[1], k) = Child(A, k)
  <2>1. IsDict(At(D, Upto(p, 1 - 1))) /\ At(A, Upto(p, 1 - 1)) = A
    BY <1>3, <1>4, <1>5
  <2>2. Child(R[1], k) = Child(At(A, Upto(p, 1 - 1)), k)
    BY <1>2, <1>3, <1>4, <2>1, StageOff
  <2>. QED
    BY <2>1, <2>2
<1>7. Kept(D, C, B)
  BY PatchKeeps
<1>8. DictNode(A) /\ DictNode(B)
  BY <1>7, RootKept
<1>. HIDE DEF B
<1>9. Child(B, k) = Get(B, k) /\ Child(A, k) = Get(A, k)
  BY <1>8, ChildOfDict
<1>10. Get(B, k) = Get(A, k)
  BY <1>2, <1>6, <1>9
<1>. QED
  BY <1>10 DEF B

\* With the ids that were sent, the value is under its path, and every other path
\* that ends where the review does leads to what it did.
LEMMA PatchLands ==
    ASSUME NEW D \in Document, NEW C \in Document, NEW A, Kept(D, C, A), Steady(D, C, A),
           NEW patch, Sendable(D, C, patch), OwnId(D, patch)
    PROVE  /\ Steady(D, C, ApplyPatch(A, patch))
           /\ At(ApplyPatch(A, patch), patch.path) = patch.value
           /\ \A q \in Paths : Edge(D, C, q) /\ q # patch.path
                                  => At(ApplyPatch(A, patch), q) = At(A, q)
<1>. DEFINE p == patch.path
            B == ApplyPatch(A, patch)
<1>1. FieldPath(D, C, p) /\ p \in Paths /\ p # <<>> /\ Len(p) \in Nat /\ p \in Seq(Steps)
  BY DEF Sendable, FieldPath, Edge, Paths
<1>2. PICK R : Stages(A, p, patch.value, R) /\ B = R[1]
  BY PatchStages
<1>. HIDE DEF B
<1>3. ASSUME NEW i \in 1 .. Len(p), ~IsDict(At(D, Upto(p, i - 1)))
      PROVE  Stable(R[i]) /\ Child(R[i], p[i]) = R[i + 1]
  <2>1. Upto(p, i - 1) \in Paths /\ Inner(D, C, Upto(p, i - 1))
    BY <1>1, FieldSteps
  <2>2. Stable(At(A, Upto(p, i - 1)))
    BY <1>3, <2>1 DEF Steady
  <2>. QED
    BY <1>2, <1>3, <2>2, StageStable
<1>4. ASSUME NEW q \in Paths, Inner(D, C, q), ~IsDict(At(D, q))
      PROVE  Stable(At(B, q))
  <2>1. ASSUME NEW i \in 1 .. Len(p), q = Upto(p, i - 1)
        PROVE  Stable(At(B, q))
    <3>1. At(B, q) = R[i]
      BY <1>2, <2>1, StageAt
    <3>. QED
      BY <1>3, <1>4, <2>1, <3>1
  <2>2. CASE \A i \in 1 .. Len(p) : q # Upto(p, i - 1)
    <3>1. PICK k \in Nat : k < Len(p) /\ k < Len(q) /\ Upto(p, k) = Upto(q, k) /\ p[k + 1] # q[k + 1]
      BY <1>1, <1>4, <2>2, Parted
    <3>2. At(B, q) = At(A, q)
      BY <1>4, <3>1, SentElsewhere DEF B
    <3>. QED
      BY <1>4, <3>2 DEF Steady
  <2>. QED
    BY <2>1, <2>2
<1>5. At(B, p) = patch.value
  <2>. DEFINE n == Len(p)
  <2>1. n \in 1 .. n /\ At(B, p) = Child(At(B, Upto(p, n - 1)), p[n])
    BY <1>1, LastStep
  <2>2. At(B, Upto(p, n - 1)) = R[n]
    BY <1>2, <2>1, StageAt
  <2>3. R[n + 1] = patch.value /\ R[n] = Replaced(At(A, Upto(p, n - 1)), p[n], R[n + 1])
        /\ R[n + 1] # Failed
    <3>1. R[n + 1] # Failed
      BY <1>2, <2>1, StageKinds
    <3>. QED
      BY <1>2, <2>1, <3>1 DEF Stages
  <2>4. Child(R[n], p[n]) = R[n + 1]
    <3>1. CASE IsDict(At(D, Upto(p, n - 1)))
      <4>1. /\ Upto(p, n - 1) \in Paths /\ Inner(D, C, Upto(p, n - 1)) /\ p[n] \in Keys
        BY <1>1, <2>1, <3>1, FieldSteps
      <4>2. DictNode(At(A, Upto(p, n - 1)))
        BY <3>1, <4>1 DEF Kept
      <4>. QED
        BY <2>3, <4>1, <4>2, DictReplaced
    <3>2. CASE ~IsDict(At(D, Upto(p, n - 1)))
      BY <1>3, <2>1, <3>2
    <3>. QED
      BY <3>1, <3>2
  <2>. QED
    BY <2>1, <2>2, <2>3, <2>4
<1>6. ASSUME NEW q \in Paths, Edge(D, C, q), q # p
      PROVE  At(B, q) = At(A, q)
  <2>1. PICK k \in Nat : k < Len(p) /\ k < Len(q) /\ Upto(p, k) = Upto(q, k) /\ p[k + 1] # q[k + 1]
    BY <1>1, <1>6, Parted
  <2>. QED
    BY <2>1, SentElsewhere DEF B
<1>. QED
  BY <1>4, <1>5, <1>6 DEF Steady, B

LEMMA KeptDraft ==
    ASSUME NEW D \in Document, NEW C \in Document
    PROVE  Kept(D, C, D) /\ Steady(D, C, D)
<1>1. ASSUME NEW q \in Paths, Inner(D, C, q)
      PROVE  \/ IsDict(At(D, q)) /\ DictNode(At(D, q))
             \/ ~IsDict(At(D, q)) /\ ListNode(At(D, q)) /\ Stable(At(D, q)) /\ Stable(At(C, q))
  BY <1>1, InnerKinds
<1>2. ASSUME NEW q \in Paths, Inner(D, C, q), ~IsDict(At(D, q)), NEW s \in Steps,
             Inner(D, C, Append(q, s))
      PROVE  Ahead(At(D, q).items, IdsIn(At(D, q)), s)
  <2>. DEFINE n == At(D, q)
  <2>1. ListNode(n) /\ Stable(n) /\ Stable(At(C, q))
    BY <1>1, <1>2
  <2>2. At(D, Append(q, s)) = Child(n, s)
    BY AtAppend DEF Paths
  <2>3. Child(n, s) # Missing
    BY <1>2, <2>2, Kinds DEF Inner, Opened, Stable
  <2>. HIDE DEF n
  <2>4. PICK S : n = List(n.items) /\ n.items \in Seq(S)
    BY <2>1 DEF ListNode
  <2>5. \E j \in 1 .. Len(n.items) : Selects(n.items[j], s)
    <3>1. PICK j : First(n.items, s, j)
      BY <2>3, <2>4, FirstItem
    <3>. QED
      BY <3>1 DEF First
  <2>6. \A i \in 1 .. Len(n.items) : Identified(n.items[i]) /\ IdOf(n.items[i]) \in IdsIn(n)
    <3>1. DOMAIN n.items = 1 .. Len(n.items)
      BY <2>4
    <3>. QED
      BY <2>1, <3>1 DEF Stable, IdsIn
  <2>7. Len(n.items) \in Nat
    BY <2>4
  <2>8. \A j \in 1 .. Len(n.items) : \A i \in 1 .. j : i \in 1 .. Len(n.items)
    BY <2>7
  <2>9. Ahead(n.items, IdsIn(n), s)
    BY <2>5, <2>6, <2>8 DEF Ahead
  <2>. QED
    BY <2>9 DEF n
<1>. QED
  BY <1>1, <1>2 DEF Kept, Steady

(***************************************************************************)
(* One patch after the other, and what the application adds.               *)
(***************************************************************************)
AppliesOf(document, patches, n, f) ==
    f = [i \in 0 .. n |-> IF i = 0 THEN document ELSE ApplyPatch(f[i - 1], patches[i])]

LEMMA AppliesExist ==
    ASSUME NEW document, NEW patches, NEW n \in Nat
    PROVE  \E f : AppliesOf(document, patches, n, f)
<1>. DEFINE Made == {m \in Nat : \E f : AppliesOf(document, patches, m, f)}
<1>1. 0 \in Made
  <2>. DEFINE f == [i \in 0 .. 0 |-> document]
  <2>1. AppliesOf(document, patches, 0, f)
    BY DEF AppliesOf
  <2>. QED
    BY <2>1
<1>2. ASSUME NEW m \in Nat, m \in Made
      PROVE  m + 1 \in Made
  <2>1. PICK f : AppliesOf(document, patches, m, f)
    BY <1>2
  <2>. DEFINE step(h, i) == IF i = 0 THEN document ELSE ApplyPatch(h[i - 1], patches[i])
              g == [i \in 0 .. m + 1 |-> step(f, i)]
  <2>2. \A i \in 0 .. m : g[i] = f[i]
    BY <2>1 DEF AppliesOf
  <2>3. \A i \in 0 .. m + 1 : i = 0 \/ i - 1 \in 0 .. m
    OBVIOUS
  <2>4. \A i \in 0 .. m + 1 : step(f, i) = step(g, i)
    BY <2>2, <2>3
  <2>5. g = [i \in 0 .. m + 1 |-> step(g, i)]
    BY <2>4
  <2>. HIDE DEF g
  <2>6. AppliesOf(document, patches, m + 1, g)
    BY <2>5 DEF AppliesOf
  <2>. QED
    BY <2>6
<1>. HIDE DEF Made
<1>3. n \in Made
  BY <1>1, <1>2, NumberInduction
<1>. QED
  BY <1>3 DEF Made

LEMMA PatchesInTurn ==
    ASSUME NEW document, NEW S, NEW patches \in Seq(S)
    PROVE  \E f : /\ f[0] = document
                  /\ \A i \in 1 .. Len(patches) : f[i] = ApplyPatch(f[i - 1], patches[i])
                  /\ ApplyPatches(document, patches) = f[Len(patches)]
<1>. DEFINE W == CHOOSE f : AppliesOf(document, patches, Len(patches), f)
<1>1. AppliesOf(document, patches, Len(patches), W)
  BY AppliesExist
<1>2. ApplyPatches(document, patches) = W[Len(patches)]
  BY Zenon DEF ApplyPatches, AppliesOf
<1>. HIDE DEF W
<1>3. \A i \in 0 .. Len(patches) :
         W[i] = IF i = 0 THEN document ELSE ApplyPatch(W[i - 1], patches[i])
  BY <1>1 DEF AppliesOf
<1>4. 0 \in 0 .. Len(patches) /\ \A i \in 1 .. Len(patches) : i \in 0 .. Len(patches) /\ i # 0
  OBVIOUS
<1>5. W[0] = document /\ \A i \in 1 .. Len(patches) : W[i] = ApplyPatch(W[i - 1], patches[i])
  BY <1>3, <1>4
<1>. QED
  BY <1>2, <1>5

\* What a request may send of the review of D and C.
Sent(D, C, patches) ==
    /\ \A i \in 1 .. Len(patches) : Sendable(D, C, patches[i])
    /\ \A i, j \in 1 .. Len(patches) : patches[i].path = patches[j].path => i = j

OwnIds(D, patches) == \A i \in 1 .. Len(patches) : OwnId(D, patches[i])

\* What the first i patches have made of the draft D.
Landed(D, C, patches, i, A) ==
    /\ Kept(D, C, A)
    /\ \A k \in Keys : (\A j \in 1 .. i : Head(patches[j].path) # k) => Get(A, k) = Get(D, k)
    /\ OwnIds(D, patches) =>
          /\ Steady(D, C, A)
          /\ \A j \in 1 .. i : At(A, patches[j].path) = patches[j].value
          /\ \A q \in Paths : Edge(D, C, q) /\ (\A j \in 1 .. i : patches[j].path # q)
                                 => At(A, q) = At(D, q)

LEMMA LandedFirst ==
    ASSUME NEW D \in Document, NEW C \in Document, NEW patches
    PROVE  Landed(D, C, patches, 0, D)
  BY KeptDraft DEF Landed

LEMMA LandedNext ==
    ASSUME NEW D \in Document, NEW C \in Document, NEW S, NEW patches \in Seq(S),
           Sent(D, C, patches), NEW i \in 1 .. Len(patches), NEW A,
           Landed(D, C, patches, i - 1, A)
    PROVE  Landed(D, C, patches, i, ApplyPatch(A, patches[i]))
<1>. DEFINE patch == patches[i]
            B == ApplyPatch(A, patch)
<1>1. Sendable(D, C, patch) /\ Kept(D, C, A)
  BY DEF Sent, Landed
<1>2. i \in Nat /\ Len(patches) \in Nat /\ \A j \in 1 .. i : j = i \/ j \in 1 .. i - 1
  OBVIOUS
<1>3. i \in 1 .. i /\ \A j \in 1 .. i - 1 : j # i /\ j \in 1 .. i /\ j \in 1 .. Len(patches)
  BY <1>2
<1>4. Kept(D, C, B)
  BY <1>1, PatchKeeps
<1>5. ASSUME NEW k \in Keys, \A j \in 1 .. i : Head(patches[j].path) # k
      PROVE  Get(B, k) = Get(D, k)
  <2>1. Get(A, k) = Get(D, k)
    BY <1>3, <1>5 DEF Landed
  <2>2. k # Head(patch.path)
    BY <1>3, <1>5
  <2>3. Get(B, k) = Get(A, k)
    BY <1>1, <2>2, PatchHead
  <2>. QED
    BY <2>1, <2>3
<1>6. ASSUME OwnIds(D, patches)
      PROVE  /\ Steady(D, C, B)
             /\ \A j \in 1 .. i : At(B, patches[j].path) = patches[j].value
             /\ \A q \in Paths : Edge(D, C, q) /\ (\A j \in 1 .. i : patches[j].path # q)
                                    => At(B, q) = At(D, q)
  <2>1. OwnId(D, patch) /\ Steady(D, C, A)
    BY <1>6 DEF OwnIds, Landed
  <2>2. /\ Steady(D, C, B) /\ At(B, patch.path) = patch.value
        /\ \A q \in Paths : Edge(D, C, q) /\ q # patch.path => At(B, q) = At(A, q)
    BY <1>1, <2>1, PatchLands
  <2>. HIDE DEF B
  <2>3. ASSUME NEW j \in 1 .. i - 1
        PROVE  At(B, patches[j].path) = patches[j].value
    <3>1. patches[j].path # patch.path
      BY <1>3 DEF Sent
    <3>2. patches[j].path \in Paths /\ Edge(D, C, patches[j].path)
      BY <1>3 DEF Sent, Sendable, FieldPath
    <3>3. At(A, patches[j].path) = patches[j].value
      BY <1>6 DEF Landed
    <3>. QED
      BY <2>2, <3>1, <3>2, <3>3
  <2>4. ASSUME NEW q \in Paths, Edge(D, C, q), \A j \in 1 .. i : patches[j].path # q
        PROVE  At(B, q) = At(D, q)
    <3>1. At(A, q) = At(D, q)
      BY <1>3, <1>6, <2>4 DEF Landed
    <3>. QED
      BY <1>3, <2>2, <2>4, <3>1
  <2>. QED
    BY <1>2, <2>2, <2>3, <2>4
<1>. HIDE DEF B
<1>7. Landed(D, C, patches, i, B)
  BY <1>4, <1>5, <1>6 DEF Landed
<1>. QED
  BY <1>7 DEF B

LEMMA PatchesLanded ==
    ASSUME NEW D \in Document, NEW C \in Document, NEW S, NEW patches \in Seq(S),
           Sent(D, C, patches)
    PROVE  Landed(D, C, patches, Len(patches), ApplyPatches(D, patches))
<1>1. PICK f : /\ f[0] = D
               /\ \A i \in 1 .. Len(patches) : f[i] = ApplyPatch(f[i - 1], patches[i])
               /\ ApplyPatches(D, patches) = f[Len(patches)]
  BY PatchesInTurn
<1>. DEFINE T == {i \in Nat : i <= Len(patches) => Landed(D, C, patches, i, f[i])}
<1>2. 0 \in T
  BY <1>1, LandedFirst
<1>3. ASSUME NEW i \in Nat, i \in T
      PROVE  i + 1 \in T
  <2>. SUFFICES ASSUME i + 1 <= Len(patches)
                PROVE  Landed(D, C, patches, i + 1, f[i + 1])
    OBVIOUS
  <2>1. i + 1 \in 1 .. Len(patches) /\ (i + 1) - 1 = i /\ i <= Len(patches)
    OBVIOUS
  <2>2. Landed(D, C, patches, (i + 1) - 1, f[i])
    BY <1>3, <2>1
  <2>3. f[i + 1] = ApplyPatch(f[i], patches[i + 1])
    BY <1>1, <2>1
  <2>. QED
    BY <2>1, <2>2, <2>3, LandedNext
<1>. HIDE DEF T
<1>4. Len(patches) \in T /\ Len(patches) \in Nat
  BY <1>2, <1>3, NumberInduction
<1>. QED
  BY <1>1, <1>4 DEF T

LEMMA PutDict ==
    ASSUME NEW n, DictNode(n), NEW key \in Keys, NEW value
    PROVE  /\ DictNode(Put(n, key, value))
           /\ \A k \in Keys : Get(Put(n, key, value), k) = IF k = key THEN value ELSE Get(n, k)
<1>. DEFINE f == [n.fields EXCEPT ![key] = value]
<1>1. n.fields = [k \in Keys |-> n.fields[k]]
  BY Zenon DEF DictNode
<1>2. Put(n, key, value) = Dict(f)
  BY DEF Put
<1>3. f = [k \in Keys |-> IF k = key THEN value ELSE n.fields[k]]
  BY <1>1
<1>. HIDE DEF f
<1>4. f = [k \in Keys |-> f[k]] /\ \A k \in Keys : f[k] = IF k = key THEN value ELSE n.fields[k]
  BY <1>3
<1>5. Dict(f).fields = f /\ IsDict(Dict(f))
  BY Kinds
<1>6. DictNode(Dict(f))
  BY <1>4, <1>5, Zenon DEF DictNode
<1>7. \A k \in Keys : Get(Dict(f), k) = IF k = key THEN value ELSE Get(n, k)
  BY <1>4, <1>5 DEF Get
<1>. QED
  BY <1>2, <1>6, <1>7

LEMMA Stamped ==
    ASSUME NEW E, DictNode(E), E # Failed, NEW D, NEW C
    PROVE  /\ DictNode(Stamp(E, D, C)) /\ Stamp(E, D, C) # Failed
           /\ \A k \in Keys \ SystemRootFields : Get(Stamp(E, D, C), k) = Get(E, k)
           /\ \A q \in Paths : q # <<>> /\ Head(q) \notin SystemRootFields
                                  => At(Stamp(E, D, C), q) = At(E, q)
<1>. DEFINE X == Stamp(E, D, C)
<1>1. PICK x, y, z : X = Put(Put(Put(E, "version", x), "draft", y), "needsManualReview", z)
  BY DEF Stamp
<1>2. "version" \in Keys /\ "draft" \in Keys /\ "needsManualReview" \in Keys
  BY TreesAssumption DEF SystemRootFields
<1>. HIDE DEF X
<1>3. PICK F : F = Put(E, "version", x)
  OBVIOUS
<1>4. PICK G : G = Put(F, "draft", y)
  OBVIOUS
<1>5. DictNode(F) /\ \A k \in Keys : Get(F, k) = IF k = "version" THEN x ELSE Get(E, k)
  BY <1>2, <1>3, PutDict
<1>6. DictNode(G) /\ \A k \in Keys : Get(G, k) = IF k = "draft" THEN y ELSE Get(F, k)
  BY <1>2, <1>4, <1>5, PutDict
<1>7. X = Put(G, "needsManualReview", z)
  BY <1>1, <1>3, <1>4
<1>8. DictNode(X) /\ \A k \in Keys : Get(X, k) = IF k = "needsManualReview" THEN z ELSE Get(G, k)
  BY <1>2, <1>6, <1>7, PutDict
<1>9. \A k \in Keys \ SystemRootFields : Get(X, k) = Get(E, k)
  BY <1>5, <1>6, <1>8 DEF SystemRootFields
<1>10. X # Failed
  <2>1. IsDict(X)
    BY <1>8, Zenon DEF DictNode
  <2>. QED
    BY <2>1, Kinds
<1>11. ASSUME NEW q \in Paths, q # <<>>, Head(q) \notin SystemRootFields
       PROVE  At(X, q) = At(E, q)
  <2>1. Child(X, Head(q)) = Get(X, Head(q)) /\ Child(E, Head(q)) = Get(E, Head(q))
    BY <1>8, ChildOfDict
  <2>2. Get(X, Head(q)) = Get(E, Head(q))
    BY <1>9, <1>11 DEF Get
  <2>3. At(X, Upto(q, 1)) = At(E, Upto(q, 1))
    BY <1>11, <2>1, <2>2, FirstStep
  <2>4. 1 \in 0 .. Len(q) /\ q \in Seq(Steps)
    BY <1>11, HeadOfPath DEF Paths
  <2>. QED
    BY <2>3, <2>4, SameBelow
<1>. QED
  BY <1>8, <1>9, <1>10, <1>11 DEF X

(***************************************************************************)
(* Requests.                                                               *)
(***************************************************************************)
LEMMA ReviewFields ==
    ASSUME NEW D \in Document, NEW C \in Document
    PROVE  /\ \A field \in Review(D, C) :
                 /\ FieldPath(D, C, field.path)
                 /\ field.current = At(D, field.path) /\ field.candidate = At(C, field.path)
                 /\ field.operation = IF At(C, field.path) = Missing THEN "remove" ELSE "set"
                 /\ field = Change(Reaches(D, C, field.path))
           /\ \A q : FieldPath(D, C, q) =>
                 /\ Change(Reaches(D, C, q)) \in Review(D, C)
                 /\ Change(Reaches(D, C, q)).path = q
                 /\ Change(Reaches(D, C, q)).candidate = At(C, q)
                 /\ Change(Reaches(D, C, q)).operation = IF At(C, q) = Missing THEN "remove" ELSE "set"
<1>1. \A x, y, q :
         /\ Change(Call(x, y, q)).path = q /\ Change(Call(x, y, q)).current = x
         /\ Change(Call(x, y, q)).candidate = y
         /\ Change(Call(x, y, q)).operation = IF y = Missing THEN "remove" ELSE "set"
  BY CallHas DEF Change
<1>2. \A q : /\ Change(Reaches(D, C, q)).path = q /\ Change(Reaches(D, C, q)).current = At(D, q)
             /\ Change(Reaches(D, C, q)).candidate = At(C, q)
             /\ Change(Reaches(D, C, q)).operation = IF At(C, q) = Missing THEN "remove" ELSE "set"
  BY <1>1 DEF Reaches
<1>3. \A field : field \in Review(D, C) <=>
         \E q \in Paths : FieldPath(D, C, q) /\ field = Change(Reaches(D, C, q))
  BY ReviewPaths
<1>4. \A q : FieldPath(D, C, q) => q \in Paths
  BY DEF FieldPath
<1>5. ASSUME NEW field \in Review(D, C)
      PROVE  /\ FieldPath(D, C, field.path)
             /\ field.current = At(D, field.path) /\ field.candidate = At(C, field.path)
             /\ field.operation = IF At(C, field.path) = Missing THEN "remove" ELSE "set"
             /\ field = Change(Reaches(D, C, field.path))
  <2>1. PICK q : FieldPath(D, C, q) /\ field = Change(Reaches(D, C, q))
    BY <1>3
  <2>2. field.path = q
    BY <1>2, <2>1
  <2>. QED
    BY <1>2, <2>1, <2>2
<1>6. \A q : FieldPath(D, C, q) => Change(Reaches(D, C, q)) \in Review(D, C)
  BY <1>3, <1>4
<1>. QED
  BY <1>2, <1>5, <1>6

LEMMA NotFailed == \A d \in 0 .. Depth : Failed \notin Node[d]
  BY PartsOfNodes DEF NodeParts

LEMMA NodesAreThere ==
    ASSUME NEW D \in Document, NEW q \in Paths
    PROVE  At(D, q) # Failed
<1>1. Depth \in 0 .. Depth /\ D \in Node[Depth] /\ q \in Seq(Steps)
  BY TreesAssumption, DocumentIsNode DEF Paths
<1>2. At(D, q) = Missing \/ \E d \in 0 .. Depth : At(D, q) \in Node[d]
  BY <1>1, AtLevel
<1>. QED
  BY <1>2, NotFailed, Kinds

\* What was requested of the review of D and C: its fields, none twice, with
\* the candidate's value or an entered one.
Requested(D, C, patches) ==
    /\ patches # <<>> /\ DOMAIN patches = 1 .. Len(patches)
    /\ \E S : patches \in Seq(S)
    /\ \A i \in 1 .. Len(patches) :
          /\ FieldPath(D, C, patches[i].path)
          /\ patches[i].operation = IF At(C, patches[i].path) = Missing THEN "remove" ELSE "set"
          /\ \/ patches[i].value = At(C, patches[i].path)
             \/ patches[i].operation = "set" /\ patches[i].value \in Entered
    /\ \A i, j \in 1 .. Len(patches) : patches[i].path = patches[j].path => i = j

LEMMA RequestSent ==
    ASSUME NEW D \in Document, NEW C \in Document, NEW first, NEW patches,
           Requested(first, C, patches), InReview(patches, Review(D, C))
    PROVE  Sent(D, C, patches)
<1>1. ASSUME NEW i \in 1 .. Len(patches)
      PROVE  Sendable(D, C, patches[i])
  <2>1. PICK field \in Review(D, C) : patches[i].path = field.path
    BY <1>1 DEF Requested, InReview
  <2>2. FieldPath(D, C, patches[i].path) /\ patches[i].path \in Paths
    BY <2>1, ReviewFields DEF FieldPath
  <2>3. /\ patches[i].operation = IF At(C, patches[i].path) = Missing THEN "remove" ELSE "set"
        /\ \/ patches[i].value = At(C, patches[i].path)
           \/ patches[i].operation = "set" /\ patches[i].value \in Entered
    BY <1>1 DEF Requested
  <2>4. CASE patches[i].value = At(C, patches[i].path)
    BY <2>2, <2>4, NodesAreThere DEF Sendable
  <2>5. CASE patches[i].operation = "set" /\ patches[i].value \in Entered
    <3>1. patches[i].value \in Node[Depth] /\ Depth \in 0 .. Depth
      BY <2>5, TreesAssumption
    <3>2. patches[i].value # Failed
      BY <3>1, NotFailed
    <3>3. At(C, patches[i].path) # Missing
      BY <2>3, <2>5
    <3>. QED
      BY <2>2, <3>2, <3>3 DEF Sendable
  <2>. QED
    BY <2>3, <2>4, <2>5
<1>. QED
  BY <1>1 DEF Sent, Requested

LEMMA RequestInReview ==
    ASSUME NEW D \in Document, NEW C \in Document, NEW patches, Requested(D, C, patches)
    PROVE  InReview(patches, Review(D, C))
<1>1. ASSUME NEW i \in 1 .. Len(patches)
      PROVE  /\ Head(patches[i].path) \notin SystemRootFields
             /\ \E field \in Review(D, C) :
                   patches[i].path = field.path /\ patches[i].operation = field.operation
  <2>1. /\ FieldPath(D, C, patches[i].path)
        /\ patches[i].operation = IF At(C, patches[i].path) = Missing THEN "remove" ELSE "set"
    BY DEF Requested
  <2>2. Head(patches[i].path) \notin SystemRootFields
    BY <2>1 DEF FieldPath
  <2>. QED
    BY <2>1, <2>2, ReviewFields
<1>. QED
  BY <1>1 DEF InReview, Requested

\* The new draft of an application, section by section and path by path.
LEMMA NewDraft ==
    ASSUME NEW D \in Document, NEW C \in Document, NEW patches, \E S : patches \in Seq(S),
           Sent(D, C, patches)
    PROVE  LET E == ApplyPatches(D, patches)
               X == Stamp(E, D, C)
           IN /\ Landed(D, C, patches, Len(patches), E)
              /\ DictNode(X) /\ X # Failed
              /\ \A k \in Keys \ SystemRootFields : Get(X, k) = Get(E, k)
              /\ \A q \in Paths : q # <<>> /\ Head(q) \notin SystemRootFields
                                     => At(X, q) = At(E, q)
<1>. DEFINE E == ApplyPatches(D, patches)
<1>1. Landed(D, C, patches, Len(patches), E)
  BY PatchesLanded
<1>. HIDE DEF E
<1>2. DictNode(E) /\ E # Failed
  BY <1>1, RootKept DEF Landed
<1>3. /\ DictNode(Stamp(E, D, C)) /\ Stamp(E, D, C) # Failed
      /\ \A k \in Keys \ SystemRootFields : Get(Stamp(E, D, C), k) = Get(E, k)
      /\ \A q \in Paths : q # <<>> /\ Head(q) \notin SystemRootFields
                             => At(Stamp(E, D, C), q) = At(E, q)
  BY <1>2, Stamped
<1>. QED
  BY <1>1, <1>3, Zenon DEF E

(***************************************************************************)
(* What the properties need.                                               *)
(***************************************************************************)
\* A path that the comparison of the draft and the candidate does not look into
\* goes through one that ends where the review does.
LEMMA EdgeOnWay ==
    ASSUME NEW D \in Document, NEW C \in Document, NEW q \in Paths, ~Inner(D, C, q)
    PROVE  \E i \in 1 .. Len(q) : Edge(D, C, Upto(q, i))
<1>1. Len(q) \in Nat /\ q \in Seq(Steps)
  BY DEF Paths
<1>2. CASE ~Opened(At(D, q), At(C, q))
  BY <1>2, FirstEdge
<1>3. CASE ~OpenBefore(D, C, q)
  <2>1. PICK j \in 1 .. Len(q) : ~Opened(At(D, Upto(q, j - 1)), At(C, Upto(q, j - 1)))
    BY <1>3 DEF OpenBefore
  <2>2. j - 1 \in 0 .. Len(q) /\ j - 1 \in Nat
    BY <1>1
  <2>3. PICK u : u = Upto(q, j - 1)
    OBVIOUS
  <2>4. u \in Paths /\ Len(u) = j - 1 /\ \A i \in 0 .. j - 1 : Upto(u, i) = Upto(q, i)
    <3>1. /\ Upto(q, j - 1) \in Seq(Steps) /\ Len(Upto(q, j - 1)) = j - 1
          /\ \A i \in 0 .. j - 1 : Upto(Upto(q, j - 1), i) = Upto(q, i)
      BY <1>1, <2>2, UptoPath
    <3>. QED
      BY <2>3, <3>1 DEF Paths
  <2>5. PICK i \in 1 .. Len(u) : Edge(D, C, Upto(u, i))
    BY <2>1, <2>3, <2>4, FirstEdge
  <2>6. i \in 0 .. j - 1 /\ i \in 1 .. Len(q)
    BY <1>1, <2>2, <2>4, <2>5
  <2>. QED
    BY <2>4, <2>5, <2>6
<1>. QED
  BY <1>2, <1>3 DEF Inner

LEMMA HeadUpto ==
    ASSUME NEW q \in Paths, NEW i \in 1 .. Len(q)
    PROVE  Upto(q, i) \in Paths /\ Upto(q, i) # <<>> /\ Head(Upto(q, i)) = Head(q) /\ q # <<>>
<1>1. q \in Seq(Steps) /\ i \in 0 .. Len(q) /\ 1 \in 1 .. i /\ i \in Nat
  BY DEF Paths
<1>2. PICK u : u = Upto(q, i)
  OBVIOUS
<1>3. u \in Paths /\ Len(u) = i /\ u[1] = q[1]
  BY <1>1, <1>2, UptoPath DEF Paths
<1>4. u # <<>> /\ q # <<>>
  BY <1>1, <1>3
<1>5. Head(u) = u[1] /\ Head(q) = q[1]
  BY <1>3, <1>4, HeadOfPath
<1>. QED
  BY <1>2, <1>3, <1>4, <1>5

\* The values of the candidate have the ids that their paths select.
LEMMA CandidateIds ==
    ASSUME NEW D \in Document, NEW C \in Document, NEW patch, FieldPath(D, C, patch.path),
           patch.value = At(C, patch.path)
    PROVE  OwnId(D, patch)
<1>. DEFINE p == patch.path
            u == Upto(p, Len(p) - 1)
<1>. SUFFICES ASSUME patch.value # Missing, ~IsDict(At(D, u))
              PROVE  Selects(patch.value, p[Len(p)])
  BY DEF OwnId, Last
<1>1. p \in Paths /\ p # <<>> /\ p \in Seq(Steps)
  BY DEF FieldPath, Edge, Paths
<1>. HIDE DEF p
<1>2. Len(p) \in 1 .. Len(p) /\ At(C, p) = Child(At(C, u), p[Len(p)])
  BY <1>1, LastStep
<1>3. u \in Paths /\ Inner(D, C, u)
  BY <1>2, FieldSteps DEF p
<1>4. Stable(At(C, u)) /\ ListNode(At(C, u))
  BY <1>3, InnerKinds
<1>5. Child(At(C, u), p[Len(p)]) # Missing
  BY <1>2 DEF p
<1>. QED
  BY <1>2, <1>4, <1>5, StableChildId DEF p

\* When the candidate's values have been put in, what remains of the review is
\* what was left out.
LEMMA LeftOut ==
    ASSUME NEW D \in Document, NEW C \in Document, NEW patches, \E S : patches \in Seq(S),
           Sent(D, C, patches),
           \A i \in 1 .. Len(patches) : patches[i].value = At(C, patches[i].path),
           NEW X \in Document, X = Stamp(ApplyPatches(D, patches), D, C)
    PROVE  /\ \A q : FieldPath(X, C, q) <=>
                        FieldPath(D, C, q) /\ \A i \in 1 .. Len(patches) : patches[i].path # q
           /\ \A q : FieldPath(D, C, q) /\ (\A i \in 1 .. Len(patches) : patches[i].path # q)
                        => At(X, q) = At(D, q)
<1>. DEFINE Unsent(q) == \A i \in 1 .. Len(patches) : patches[i].path # q
<1>1. PICK E : E = ApplyPatches(D, patches)
  OBVIOUS
<1>2. Landed(D, C, patches, Len(patches), E)
  BY <1>1, NewDraft
<1>3. \A q \in Paths : q # <<>> /\ Head(q) \notin SystemRootFields => At(X, q) = At(E, q)
  BY <1>1, NewDraft
<1>4. OwnIds(D, patches)
  BY CandidateIds DEF OwnIds, Sent, Sendable
<1>5. /\ Kept(D, C, E) /\ Steady(D, C, E)
      /\ \A i \in 1 .. Len(patches) : At(E, patches[i].path) = At(C, patches[i].path)
      /\ \A q \in Paths : Edge(D, C, q) /\ Unsent(q) => At(E, q) = At(D, q)
  BY <1>2, <1>4 DEF Landed
<1>6. ASSUME NEW q \in Paths, Inner(D, C, q), q = <<>> \/ Head(q) \notin SystemRootFields
      PROVE  Opened(At(X, q), At(C, q))
  <2>1. CASE q = <<>>
    <3>1. At(X, q) = X /\ At(C, q) = C
      BY <2>1, AtEmpty
    <3>. QED
      BY <3>1, DocumentIsNode DEF Opened
  <2>2. CASE q # <<>>
    <3>1. At(X, q) = At(E, q)
      BY <1>3, <1>6, <2>2
    <3>2. CASE IsDict(At(D, q))
      <4>1. DictNode(At(E, q)) /\ IsDict(At(C, q))
        BY <1>5, <1>6, <3>2, InnerKinds DEF Kept
      <4>2. IsDict(At(E, q))
        BY <4>1, Zenon DEF DictNode
      <4>. QED
        BY <3>1, <4>1, <4>2 DEF Opened
    <3>3. CASE ~IsDict(At(D, q))
      <4>1. Stable(At(E, q)) /\ Stable(At(C, q))
        BY <1>5, <1>6, <3>3, InnerKinds DEF Steady
      <4>. QED
        BY <3>1, <4>1 DEF Opened
    <3>. QED
      BY <3>2, <3>3
  <2>. QED
    BY <2>1, <2>2
<1>7. ASSUME NEW q, FieldPath(D, C, q), Unsent(q)
      PROVE  FieldPath(X, C, q) /\ At(X, q) = At(D, q)
  <2>1. /\ q \in Paths /\ q # <<>> /\ Edge(D, C, q) /\ OpenBefore(D, C, q)
        /\ ~Opened(At(D, q), At(C, q)) /\ At(D, q) # At(C, q) /\ Head(q) \notin SystemRootFields
        /\ Len(q) \in Nat /\ q \in Seq(Steps)
    BY <1>7 DEF FieldPath, Edge, Paths
  <2>2. At(X, q) = At(D, q)
    BY <1>3, <1>5, <1>7, <2>1
  <2>3. ASSUME NEW i \in 1 .. Len(q)
        PROVE  Opened(At(X, Upto(q, i - 1)), At(C, Upto(q, i - 1)))
    <3>1. Upto(q, i - 1) \in Paths /\ Inner(D, C, Upto(q, i - 1))
      BY <1>7, FieldSteps
    <3>2. Upto(q, i - 1) = <<>> \/ Head(Upto(q, i - 1)) \notin SystemRootFields
      <4>1. CASE i = 1
        <5>1. Upto(q, 0) = <<>> /\ i - 1 = 0
          BY <2>1, <4>1, UptoPath
        <5>. QED
          BY <5>1
      <4>2. CASE i # 1
        <5>1. i - 1 \in 1 .. Len(q)
          BY <2>1, <4>2
        <5>. QED
          BY <2>1, <5>1, HeadUpto
      <4>. QED
        BY <4>1, <4>2
    <3>. QED
      BY <1>6, <3>1, <3>2
  <2>4. OpenBefore(X, C, q)
    BY <2>3 DEF OpenBefore
  <2>. QED
    BY <2>1, <2>2, <2>4 DEF FieldPath, Edge
<1>8. ASSUME NEW q, FieldPath(X, C, q)
      PROVE  FieldPath(D, C, q) /\ Unsent(q)
  <2>1. /\ q \in Paths /\ q # <<>> /\ OpenBefore(X, C, q) /\ ~Opened(At(X, q), At(C, q))
        /\ At(X, q) # At(C, q) /\ Head(q) \notin SystemRootFields
        /\ Len(q) \in Nat /\ q \in Seq(Steps)
    BY <1>8 DEF FieldPath, Edge, Paths
  <2>2. ~Inner(D, C, q)
    BY <1>6, <2>1
  <2>3. PICK i \in 1 .. Len(q) : Edge(D, C, Upto(q, i))
    BY <2>1, <2>2, EdgeOnWay
  <2>4. PICK u : u = Upto(q, i)
    OBVIOUS
  <2>5. /\ u \in Paths /\ u # <<>> /\ Head(u) \notin SystemRootFields /\ Edge(D, C, u)
        /\ ~Opened(At(D, u), At(C, u)) /\ i \in 0 .. Len(q)
    BY <2>1, <2>3, <2>4, HeadUpto DEF Edge
  <2>6. At(X, u) = At(E, u)
    BY <1>3, <2>5
  <2>7. At(X, u) # At(C, u)
    BY <2>1, <2>4, <2>5, SameBelow
  <2>8. Unsent(u)
    BY <1>5, <2>6, <2>7
  <2>9. At(X, u) = At(D, u)
    BY <1>5, <2>5, <2>6, <2>8
  <2>10. i = Len(q)
    <3>1. ASSUME i # Len(q)
          PROVE  FALSE
      <4>1. i + 1 \in 1 .. Len(q) /\ (i + 1) - 1 = i
        BY <2>1, <3>1
      <4>2. Opened(At(X, u), At(C, u))
        BY <2>1, <2>4, <4>1 DEF OpenBefore
      <4>. QED
        BY <2>5, <2>9, <4>2
    <3>. QED
      BY <3>1
  <2>11. u = q
    BY <2>1, <2>4, <2>5, <2>10, UptoPath
  <2>. QED
    BY <2>1, <2>5, <2>8, <2>9, <2>11 DEF FieldPath
<1>. QED
  BY <1>7, <1>8

\* A section of which no field was sent stays; one with a value of the candidate
\* does not.
LEMMA SectionsChanged ==
    ASSUME NEW D \in Document, NEW C \in Document, NEW patches, \E S : patches \in Seq(S),
           Sent(D, C, patches), NEW X, X = Stamp(ApplyPatches(D, patches), D, C)
    PROVE  /\ \A k \in Keys \ SystemRootFields :
                 (\A i \in 1 .. Len(patches) : Head(patches[i].path) # k) => Get(X, k) = Get(D, k)
           /\ (\A i \in 1 .. Len(patches) : patches[i].value = At(C, patches[i].path)) =>
                 \A i \in 1 .. Len(patches) :
                    /\ Head(patches[i].path) \in Keys \ SystemRootFields
                    /\ Get(X, Head(patches[i].path)) # Get(D, Head(patches[i].path))
<1>1. PICK E : E = ApplyPatches(D, patches)
  OBVIOUS
<1>2. /\ Landed(D, C, patches, Len(patches), E) /\ DictNode(X)
      /\ \A k \in Keys \ SystemRootFields : Get(X, k) = Get(E, k)
      /\ \A q \in Paths : q # <<>> /\ Head(q) \notin SystemRootFields => At(X, q) = At(E, q)
  BY <1>1, NewDraft
<1>3. ASSUME NEW k \in Keys \ SystemRootFields,
             \A i \in 1 .. Len(patches) : Head(patches[i].path) # k
      PROVE  Get(X, k) = Get(D, k)
  BY <1>2, <1>3 DEF Landed
<1>4. ASSUME \A i \in 1 .. Len(patches) : patches[i].value = At(C, patches[i].path),
             NEW i \in 1 .. Len(patches)
      PROVE  /\ Head(patches[i].path) \in Keys \ SystemRootFields
             /\ Get(X, Head(patches[i].path)) # Get(D, Head(patches[i].path))
  <2>. DEFINE p == patches[i].path
  <2>1. FieldPath(D, C, p) /\ OwnIds(D, patches)
    BY <1>4, CandidateIds DEF Sent, Sendable, OwnIds
  <2>2. /\ p \in Paths /\ p # <<>> /\ At(D, p) # At(C, p) /\ Head(p) \notin SystemRootFields
        /\ p \in Seq(Steps)
    BY <2>1 DEF FieldPath, Edge, Paths
  <2>3. At(E, p) = At(C, p)
    BY <1>2, <1>4, <2>1 DEF Landed
  <2>. HIDE DEF p
  <2>4. At(X, p) # At(D, p)
    BY <1>2, <2>2, <2>3
  <2>5. At(X, Upto(p, 1)) # At(D, Upto(p, 1))
    <3>1. 1 \in 0 .. Len(p)
      BY <2>2, HeadOfPath
    <3>. QED
      BY <2>2, <2>4, <3>1, SameBelow
  <2>6. Child(X, Head(p)) # Child(D, Head(p))
    BY <2>2, <2>5, FirstStep
  <2>7. Get(X, Head(p)) # Get(D, Head(p))
    BY <1>2, <2>6, DocumentIsNode, ChildOfDict
  <2>8. Head(p) \in Keys
    BY <2>7 DEF Get
  <2>. QED
    BY <2>2, <2>7, <2>8 DEF p
<1>. QED
  BY <1>3, <1>4

\* The section-by-section comparison and the review of the same two documents.
LEMMA CandidateCompared ==
    ASSUME NEW D \in Document, NEW C \in Document
    PROVE  /\ \A k \in {Head(field.path) : field \in Review(D, C)}
                          \ (Compared(C, D) \ SystemRootFields) :
                 {Get(D, k), Get(C, k)} = {Null, Missing}
           /\ \A k \in (Compared(C, D) \ SystemRootFields)
                          \ {Head(field.path) : field \in Review(D, C)} :
                 Content[Depth - 1][Get(D, k)] = Content[Depth - 1][Get(C, k)]
<1>. DEFINE reviewed == {Head(field.path) : field \in Review(D, C)}
<1>1. \A k : k \in reviewed <=> \E q : FieldPath(D, C, q) /\ Head(q) = k
  BY ReviewFields
<1>2. \A k : k \in Compared(C, D) <=> /\ k \in Keys /\ Get(C, k) # Get(D, k)
                                      /\ {Get(D, k), Get(C, k)} # {Null, Missing}
  <2>1. \A k : {Get(C, k), Get(D, k)} = {Get(D, k), Get(C, k)}
    OBVIOUS
  <2>. QED
    BY <2>1, Zenon DEF Compared
<1>. HIDE DEF reviewed
<1>3. ASSUME NEW k \in reviewed, k \notin Compared(C, D) \ SystemRootFields
      PROVE  {Get(D, k), Get(C, k)} = {Null, Missing}
  <2>1. k \in Keys \ SystemRootFields /\ Get(D, k) # Get(C, k)
    BY <1>1, FieldHead
  <2>. QED
    BY <1>2, <1>3, <2>1
<1>4. ASSUME NEW k \in Compared(C, D) \ SystemRootFields, k \notin reviewed
      PROVE  Content[Depth - 1][Get(D, k)] = Content[Depth - 1][Get(C, k)]
  <2>1. k \in Keys /\ k \notin SystemRootFields /\ Depth - 1 \in 0 .. Depth
    BY <1>2, TreesAssumption
  <2>2. Same(Get(D, k), Get(C, k))
    BY <1>1, <1>4, <2>1, HeadSame
  <2>3. Get(D, k) \in Node[Depth - 1] \cup {Missing} /\ Get(C, k) \in Node[Depth - 1] \cup {Missing}
    BY <2>1 DEF Get, Document
  <2>4. ContentIsSame(Depth - 1)
    BY <2>1, ContentSame
  <2>. QED
    BY <2>2, <2>3, <2>4 DEF ContentIsSame
<1>. QED
  BY <1>3, <1>4 DEF reviewed

(***************************************************************************)
(* The states.                                                             *)
(***************************************************************************)
ShownInv ==
    shown = NoReview \/ (shown.of \in Document /\ shown.fields = Review(shown.of, candidate))

\* What was applied or refused was a request of a review, and what was applied is
\* in the review of the draft that it was applied to.
LastInv ==
    last.status # "none" =>
       /\ \E first \in Document : Requested(first, candidate, last.patches)
       /\ Applied => /\ InReview(last.patches, Review(last.before, candidate))
                     /\ draft = Stamp(ApplyPatches(last.before, last.patches), last.before, candidate)
                     /\ backup = last.before

ReviewInv == TypeOK /\ ShownInv /\ LastInv /\ RefusedOnlyWhenStale

LEMMA SelectionRequested ==
    ASSUME candidate \in Document, ShownInv, NEW patches \in Selections
    PROVE  shown.of \in Document /\ Requested(shown.of, candidate, patches)
<1>1. PICK chosen \in SeqOf(shown.fields, MaxPatches) :
         /\ chosen # <<>> /\ \A i, j \in DOMAIN chosen : chosen[i] = chosen[j] => i = j
         /\ \E edited \in SUBSET {i \in DOMAIN chosen : chosen[i].operation = "set"} :
               \E value \in [edited -> Entered] :
                  patches = [i \in DOMAIN chosen |->
                       Patch(chosen[i], IF i \in edited THEN value[i] ELSE chosen[i].candidate)]
  BY DEF Selections
<1>0. PICK edited \in SUBSET {i \in DOMAIN chosen : chosen[i].operation = "set"} :
         \E value \in [edited -> Entered] :
            patches = [i \in DOMAIN chosen |->
                          Patch(chosen[i], IF i \in edited THEN value[i] ELSE chosen[i].candidate)]
  BY <1>1
<1>2. PICK value \in [edited -> Entered] :
         patches = [i \in DOMAIN chosen |->
                       Patch(chosen[i], IF i \in edited THEN value[i] ELSE chosen[i].candidate)]
  BY <1>0
<1>3. PICK n \in 0 .. MaxPatches : chosen \in [1 .. n -> shown.fields]
  BY <1>1 DEF SeqOf
<1>4. n \in Nat /\ chosen \in Seq(shown.fields) /\ Len(chosen) = n /\ DOMAIN chosen = 1 .. n
  BY <1>3, TreesAssumption
<1>5. n # 0
  BY <1>1, <1>4
<1>6. shown # NoReview
  <2>1. 1 \in 1 .. n
    BY <1>4, <1>5
  <2>2. shown.fields # {}
    BY <1>3, <2>1
  <2>. QED
    BY <2>2 DEF NoReview
<1>7. shown.of \in Document /\ shown.fields = Review(shown.of, candidate)
  BY <1>6 DEF ShownInv
<1>8. \A i \in 1 .. n :
         /\ patches[i].path = chosen[i].path /\ patches[i].operation = chosen[i].operation
         /\ patches[i].value = IF i \in edited THEN value[i] ELSE chosen[i].candidate
  BY <1>2, <1>4 DEF Patch
<1>9. \A i \in 1 .. n :
         /\ FieldPath(shown.of, candidate, chosen[i].path)
         /\ chosen[i].candidate = At(candidate, chosen[i].path)
         /\ chosen[i].operation = IF At(candidate, chosen[i].path) = Missing THEN "remove" ELSE "set"
         /\ chosen[i] = Change(Reaches(shown.of, candidate, chosen[i].path))
  <2>1. \A i \in 1 .. n : chosen[i] \in Review(shown.of, candidate)
    BY <1>3, <1>7
  <2>. QED
    BY <1>7, <2>1, ReviewFields
<1>10. \A i \in 1 .. n : i \in edited => value[i] \in Entered /\ chosen[i].operation = "set"
  BY <1>0, <1>2
<1>11. patches \in Seq({patches[i] : i \in 1 .. n}) /\ Len(patches) = n /\ DOMAIN patches = 1 .. n
  <2>1. DOMAIN patches = 1 .. n /\ patches = [i \in 1 .. n |-> patches[i]]
    BY <1>2, <1>4
  <2>2. PICK S : S = {patches[i] : i \in 1 .. n}
    OBVIOUS
  <2>3. patches \in [1 .. n -> S]
    BY <2>1, <2>2
  <2>4. patches \in Seq(S) /\ Len(patches) = n
    BY <1>4, <2>3
  <2>. QED
    BY <2>1, <2>2, <2>4
<1>12. patches # <<>>
  BY <1>5, <1>11
<1>13. \A i, j \in 1 .. n : patches[i].path = patches[j].path => i = j
  <2>. SUFFICES ASSUME NEW i \in 1 .. n, NEW j \in 1 .. n, patches[i].path = patches[j].path
                PROVE  i = j
    OBVIOUS
  <2>1. chosen[i].path = chosen[j].path
    BY <1>8
  <2>2. chosen[i] = chosen[j]
    BY <1>9, <2>1
  <2>. QED
    BY <1>1, <1>4, <2>2
<1>14. \A i \in 1 .. n :
          /\ FieldPath(shown.of, candidate, patches[i].path)
          /\ patches[i].operation = IF At(candidate, patches[i].path) = Missing THEN "remove" ELSE "set"
          /\ \/ patches[i].value = At(candidate, patches[i].path)
             \/ patches[i].operation = "set" /\ patches[i].value \in Entered
  BY <1>8, <1>9, <1>10
<1>15. Requested(shown.of, candidate, patches)
  BY <1>11, <1>12, <1>13, <1>14 DEF Requested
<1>. QED
  BY <1>7, <1>15

LEMMA InitInv == Init => ReviewInv
<1>. SUFFICES ASSUME Init
              PROVE  ReviewInv
  OBVIOUS
<1>1. TypeOK
  BY TreesAssumption DEF Init, TypeOK, NoApplication, Statuses
<1>. QED
  BY <1>1 DEF Init, ReviewInv, ShownInv, LastInv, NoApplication, RefusedOnlyWhenStale

LEMMA ApplyInv ==
    ASSUME ReviewInv, NEW patches \in Selections, ApplyFields(patches)
    PROVE  ReviewInv'
<1>. DEFINE next == Stamp(ApplyPatches(draft, patches), draft, candidate)
            accepted == InReview(patches, Review(draft, candidate)) /\ next # Failed
<1>1. /\ accepted => next \in Document
      /\ last' = [status  |-> IF accepted THEN "applied" ELSE "refused",
                  before  |-> draft,
                  patches |-> patches,
                  fresh   |-> shown.of = draft]
      /\ draft' = IF accepted THEN next ELSE draft
      /\ backup' = IF accepted THEN draft ELSE backup
      /\ shown' = IF accepted THEN NoReview ELSE shown
      /\ candidate' = candidate
  BY DEF ApplyFields
<1>2. /\ draft \in Document /\ candidate \in Document /\ backup \in Document \cup {Missing}
      /\ ShownInv
  BY DEF ReviewInv, TypeOK
<1>3. shown.of \in Document /\ Requested(shown.of, candidate, patches)
  BY <1>2, SelectionRequested
<1>4. /\ last'.status = IF accepted THEN "applied" ELSE "refused"
      /\ last'.before = draft /\ last'.patches = patches /\ last'.fresh = (shown.of = draft)
  BY <1>1
<1>5. \E S : patches \in Seq(S)
  BY <1>3 DEF Requested
<1>6. accepted => InReview(patches, Review(draft, candidate))
  OBVIOUS
<1>7. shown.of = draft => accepted
  <2>. SUFFICES ASSUME shown.of = draft
                PROVE  accepted
    OBVIOUS
  <2>1. InReview(patches, Review(draft, candidate))
    BY <1>2, <1>3, RequestInReview
  <2>2. Sent(draft, candidate, patches)
    BY <1>2, <1>3, <2>1, RequestSent
  <2>3. next # Failed
    BY <1>2, <1>5, <2>2, NewDraft
  <2>. QED
    BY <2>1, <2>3
<1>. HIDE DEF accepted
<1>8. TypeOK'
  BY <1>1, <1>2, <1>4 DEF TypeOK, Statuses
<1>9. ShownInv'
  BY <1>1, <1>2 DEF ShownInv, NoReview
<1>10. LastInv'
  BY <1>1, <1>3, <1>4, <1>6 DEF LastInv, Applied
<1>11. RefusedOnlyWhenStale'
  BY <1>4, <1>7 DEF RefusedOnlyWhenStale
<1>. QED
  BY <1>8, <1>9, <1>10, <1>11 DEF ReviewInv

LEMMA NextInv == ReviewInv /\ [Next]_vars => ReviewInv'
<1>. SUFFICES ASSUME ReviewInv, [Next]_vars
              PROVE  ReviewInv'
  OBVIOUS
<1>1. CASE SaveDraft
  <2>1. /\ draft' \in Document /\ last' = NoApplication
        /\ candidate' = candidate /\ backup' = backup /\ shown' = shown
    BY <1>1, TreesAssumption DEF SaveDraft
  <2>2. last'.status = "none"
    BY <2>1 DEF NoApplication
  <2>3. TypeOK'
    BY <2>1, <2>2 DEF ReviewInv, TypeOK, Statuses
  <2>4. ShownInv'
    BY <2>1 DEF ReviewInv, ShownInv, NoReview
  <2>5. LastInv' /\ RefusedOnlyWhenStale'
    BY <2>2 DEF LastInv, RefusedOnlyWhenStale
  <2>. QED
    BY <2>3, <2>4, <2>5 DEF ReviewInv
<1>2. CASE OpenReview
  <2>1. /\ shown' = [fields |-> Review(draft, candidate), of |-> draft]
        /\ draft' = draft /\ candidate' = candidate /\ backup' = backup /\ last' = last
    BY <1>2 DEF OpenReview
  <2>2. TypeOK'
    BY <2>1 DEF ReviewInv, TypeOK
  <2>3. ShownInv'
    BY <2>1 DEF ReviewInv, ShownInv, TypeOK
  <2>4. LastInv' /\ RefusedOnlyWhenStale'
    BY <2>1 DEF ReviewInv, LastInv, Applied, RefusedOnlyWhenStale
  <2>. QED
    BY <2>2, <2>3, <2>4 DEF ReviewInv
<1>3. CASE \E patches \in Selections : ApplyFields(patches)
  BY <1>3, ApplyInv
<1>4. CASE UNCHANGED vars
  <2>1. /\ draft' = draft /\ candidate' = candidate /\ backup' = backup /\ last' = last
        /\ shown' = shown
    BY <1>4 DEF vars
  <2>2. TypeOK'
    BY <2>1 DEF ReviewInv, TypeOK
  <2>3. ShownInv'
    BY <2>1 DEF ReviewInv, ShownInv, NoReview
  <2>4. LastInv' /\ RefusedOnlyWhenStale'
    BY <2>1 DEF ReviewInv, LastInv, Applied, RefusedOnlyWhenStale
  <2>. QED
    BY <2>2, <2>3, <2>4 DEF ReviewInv
<1>. QED
  BY <1>1, <1>2, <1>3, <1>4 DEF Next

LEMMA Reviewing == Spec => []ReviewInv
  BY InitInv, NextInv, PTL DEF Spec

\* The draft, the candidate and the backup are documents, whatever the reviewer
\* enters and whoever saves in between.
THEOREM ReviewTypes == Spec => []TypeOK
<1>1. ReviewInv => TypeOK
  BY DEF ReviewInv
<1>. QED
  BY <1>1, Reviewing, PTL

\* The review of an import candidate has no field exactly if the draft and the
\* candidate have the same content, whatever documents they are.
THEOREM ReviewDifferenceShown == Spec => []ReviewIsTheDifference
<1>1. ReviewInv => ReviewIsTheDifference
  BY ReviewEmpty DEF ReviewInv, TypeOK, ReviewIsTheDifference
<1>. QED
  BY <1>1, Reviewing, PTL

\* A request that selects fields of the review of the draft as it is is never
\* refused: only one of an older review is.
THEOREM RefusedWhenStale == Spec => []RefusedOnlyWhenStale
<1>1. ReviewInv => RefusedOnlyWhenStale
  BY DEF ReviewInv
<1>. QED
  BY <1>1, Reviewing, PTL

\* What an application was made of.
LEMMA ApplicationOf ==
    ASSUME ReviewInv, Applied
    PROVE  /\ last.before \in Document /\ candidate \in Document /\ draft \in Document
           /\ \E S : last.patches \in Seq(S)
           /\ Sent(last.before, candidate, last.patches)
           /\ draft = Stamp(ApplyPatches(last.before, last.patches), last.before, candidate)
           /\ backup = last.before
           /\ DOMAIN last.patches = 1 .. Len(last.patches)
           /\ \A i \in 1 .. Len(last.patches) :
                 last.patches[i].operation = "set" \/ last.patches[i].value = Missing
           /\ Unedited => \A i \in 1 .. Len(last.patches) :
                             last.patches[i].value = At(candidate, last.patches[i].path)
<1>1. /\ last.before \in Document /\ candidate \in Document /\ draft \in Document
      /\ InReview(last.patches, Review(last.before, candidate))
      /\ draft = Stamp(ApplyPatches(last.before, last.patches), last.before, candidate)
      /\ backup = last.before
  BY DEF ReviewInv, TypeOK, LastInv, Applied
<1>2. PICK first \in Document : Requested(first, candidate, last.patches)
  BY DEF ReviewInv, LastInv, Applied
<1>3. Sent(last.before, candidate, last.patches)
  BY <1>1, <1>2, RequestSent
<1>4. /\ \E S : last.patches \in Seq(S)
      /\ DOMAIN last.patches = 1 .. Len(last.patches)
      /\ \A i \in 1 .. Len(last.patches) :
            last.patches[i].operation = "set" \/ last.patches[i].value = Missing
  BY <1>2 DEF Requested
<1>5. ASSUME Unedited, NEW i \in 1 .. Len(last.patches)
      PROVE  last.patches[i].value = At(candidate, last.patches[i].path)
  <2>1. PICK field \in Review(last.before, candidate) : last.patches[i].path = field.path
    BY <1>1, <1>4 DEF InReview
  <2>2. field.candidate = At(candidate, field.path)
    BY <1>1, ReviewFields
  <2>. QED
    BY <1>4, <1>5, <2>1, <2>2 DEF Unedited
<1>. QED
  BY <1>1, <1>3, <1>4, <1>5

\* After an application every value that was sent, edited or not, is under its
\* path in the new draft, and every removed path is gone, unless the reviewer has
\* changed the id of an item.
THEOREM PatchesLandThere == Spec => []PatchesLand
<1>1. ASSUME ReviewInv
      PROVE  PatchesLand
  <2>. SUFFICES ASSUME Applied, IdsKept, NEW i \in DOMAIN last.patches
                PROVE  At(draft, last.patches[i].path) = last.patches[i].value
    BY DEF PatchesLand
  <2>. DEFINE patches == last.patches
              D == last.before
              E == ApplyPatches(D, patches)
  <2>1. /\ D \in Document /\ candidate \in Document /\ \E S : patches \in Seq(S)
        /\ Sent(D, candidate, patches) /\ draft = Stamp(E, D, candidate)
        /\ DOMAIN patches = 1 .. Len(patches)
        /\ \A j \in 1 .. Len(patches) : patches[j].operation = "set" \/ patches[j].value = Missing
    BY <1>1, ApplicationOf
  <2>2. ASSUME NEW j \in 1 .. Len(patches), patches[j].value # Missing,
               ~IsDict(At(D, Upto(patches[j].path, Len(patches[j].path) - 1)))
        PROVE  Selects(patches[j].value, Last(patches[j].path))
    <3>. DEFINE p == patches[j].path
    <3>1. FieldPath(D, candidate, p) /\ p \in Seq(Steps) /\ p # <<>>
      BY <2>1 DEF Sent, Sendable, FieldPath, Edge, Paths
    <3>2. Len(p) \in 1 .. Len(p)
      BY <3>1, LastStep
    <3>. HIDE DEF p
    <3>3. p[Len(p)] \in ItemSegments
      BY <2>1, <2>2, <3>1, <3>2, FieldSteps DEF p
    <3>4. Last(p) \in ItemSegments
      BY <3>3 DEF Last
    <3>5. patches[j].operation = "set"
      BY <2>1, <2>2
    <3>. QED
      BY <2>1, <3>4, <3>5 DEF IdsKept, Selects, p
  <2>3. OwnIds(D, patches)
    BY <2>2 DEF OwnIds, OwnId
  <2>4. /\ Landed(D, candidate, patches, Len(patches), E)
        /\ \A q \in Paths : q # <<>> /\ Head(q) \notin SystemRootFields => At(draft, q) = At(E, q)
    BY <2>1, NewDraft
  <2>5. FieldPath(D, candidate, patches[i].path)
    BY <2>1 DEF Sent, Sendable
  <2>. HIDE DEF E
  <2>6. At(E, patches[i].path) = patches[i].value
    BY <2>1, <2>3, <2>4 DEF Landed
  <2>7. At(draft, patches[i].path) = At(E, patches[i].path)
    BY <2>4, <2>5 DEF FieldPath, Edge
  <2>. QED
    BY <2>6, <2>7
<1>. QED
  BY <1>1, Reviewing, PTL

\* When unedited fields have been applied, the review of the new draft has
\* exactly the fields that were left out, each as it was.
THEOREM SelectionIsExact == Spec => []SelectionExact
<1>1. ASSUME ReviewInv
      PROVE  SelectionExact
  <2>. SUFFICES ASSUME Applied, Unedited
                PROVE  Review(draft, candidate)
                          = {field \in Review(last.before, candidate) : field.path \notin SentPaths}
    BY DEF SelectionExact
  <2>. DEFINE patches == last.patches
              D == last.before
              Unsent(q) == \A i \in 1 .. Len(patches) : patches[i].path # q
  <2>1. /\ D \in Document /\ candidate \in Document /\ draft \in Document
        /\ \E S : patches \in Seq(S) /\ Sent(D, candidate, patches)
        /\ draft = Stamp(ApplyPatches(D, patches), D, candidate)
        /\ DOMAIN patches = 1 .. Len(patches)
        /\ \A i \in 1 .. Len(patches) : patches[i].value = At(candidate, patches[i].path)
    BY <1>1, ApplicationOf
  <2>2. /\ \A q : FieldPath(draft, candidate, q) <=> FieldPath(D, candidate, q) /\ Unsent(q)
        /\ \A q : FieldPath(D, candidate, q) /\ Unsent(q) => At(draft, q) = At(D, q)
    BY <2>1, LeftOut
  <2>3. \A q : q \notin SentPaths <=> Unsent(q)
    BY <2>1 DEF SentPaths
  <2>. HIDE DEF Unsent
  <2>4. \A q : At(draft, q) = At(D, q) =>
           Change(Reaches(draft, candidate, q)) = Change(Reaches(D, candidate, q))
    BY DEF Reaches
  <2>5. ASSUME NEW field \in Review(draft, candidate)
        PROVE  field \in Review(D, candidate) /\ field.path \notin SentPaths
    <3>1. FieldPath(draft, candidate, field.path) /\ field = Change(Reaches(draft, candidate, field.path))
      BY <2>1, ReviewFields
    <3>2. FieldPath(D, candidate, field.path) /\ Unsent(field.path)
      BY <2>2, <3>1
    <3>3. field = Change(Reaches(D, candidate, field.path))
      BY <2>2, <2>4, <3>1, <3>2
    <3>4. Change(Reaches(D, candidate, field.path)) \in Review(D, candidate)
      BY <2>1, <3>2, ReviewFields
    <3>. QED
      BY <2>3, <3>2, <3>3, <3>4
  <2>6. ASSUME NEW field \in Review(D, candidate), field.path \notin SentPaths
        PROVE  field \in Review(draft, candidate)
    <3>1. FieldPath(D, candidate, field.path) /\ field = Change(Reaches(D, candidate, field.path))
      BY <2>1, ReviewFields
    <3>2. Unsent(field.path)
      BY <2>3, <2>6
    <3>3. FieldPath(draft, candidate, field.path) /\ At(draft, field.path) = At(D, field.path)
      BY <2>2, <3>1, <3>2
    <3>4. Change(Reaches(draft, candidate, field.path)) \in Review(draft, candidate)
      BY <2>1, <3>3, ReviewFields
    <3>. QED
      BY <2>4, <3>1, <3>3, <3>4
  <2>. QED
    BY <2>5, <2>6
<1>. QED
  BY <1>1, Reviewing, PTL

\* What the panel compares section by section agrees with what it reviews and
\* applies field by field, before an application and, with the backup that it
\* leaves, after it.
THEOREM ComparisonsAgree == Spec => []ComparisonAgrees
<1>1. ASSUME ReviewInv
      PROVE  CandidateComparisonAgrees
  <2>1. draft \in Document /\ candidate \in Document
    BY <1>1 DEF ReviewInv, TypeOK
  <2>. QED
    BY <2>1, CandidateCompared
       DEF CandidateComparisonAgrees, compare_import_candidate_to_snapshot
<1>2. ASSUME ReviewInv
      PROVE  BackupComparisonAgrees
  <2>. DEFINE patches == last.patches
              D == last.before
              sections == {Head(path) : path \in SentPaths}
              changed == compare_backup_to_snapshot \ SystemRootFields
  <2>. SUFFICES ASSUME Applied
                PROVE  /\ changed \subseteq sections
                       /\ Unedited => \A k \in sections \ changed :
                             {Get(backup, k), Get(draft, k)} = {Null, Missing}
    BY DEF BackupComparisonAgrees
  <2>1. /\ D \in Document /\ candidate \in Document /\ \E S : patches \in Seq(S)
        /\ Sent(D, candidate, patches) /\ backup = D
        /\ draft = Stamp(ApplyPatches(D, patches), D, candidate)
        /\ DOMAIN patches = 1 .. Len(patches)
        /\ Unedited => \A i \in 1 .. Len(patches) :
                          patches[i].value = At(candidate, patches[i].path)
    BY <1>2, ApplicationOf
  <2>2. /\ \A k \in Keys \ SystemRootFields :
              (\A i \in 1 .. Len(patches) : Head(patches[i].path) # k) => Get(draft, k) = Get(D, k)
        /\ Unedited => \A i \in 1 .. Len(patches) :
              /\ Head(patches[i].path) \in Keys \ SystemRootFields
              /\ Get(draft, Head(patches[i].path)) # Get(D, Head(patches[i].path))
    BY <2>1, SectionsChanged
  <2>3. \A k : k \in sections <=> \E i \in 1 .. Len(patches) : Head(patches[i].path) = k
    BY <2>1 DEF SentPaths
  <2>4. \A k : k \in changed <=>
           /\ k \in Keys \ SystemRootFields /\ Get(backup, k) # Get(draft, k)
           /\ {Get(backup, k), Get(draft, k)} # {Null, Missing}
    BY Zenon DEF compare_backup_to_snapshot, Compared
  <2>. HIDE DEF sections, changed
  <2>5. changed \subseteq sections
    BY <2>1, <2>2, <2>3, <2>4
  <2>6. ASSUME Unedited, NEW k \in sections \ changed
        PROVE  {Get(backup, k), Get(draft, k)} = {Null, Missing}
    <3>1. PICK i \in 1 .. Len(patches) : Head(patches[i].path) = k
      BY <2>3
    <3>2. k \in Keys \ SystemRootFields /\ Get(backup, k) # Get(draft, k)
      BY <2>1, <2>2, <2>6, <3>1
    <3>. QED
      BY <2>4, <3>2
  <2>. QED
    BY <2>5, <2>6
<1>3. ReviewInv => ComparisonAgrees
  BY <1>1, <1>2 DEF ComparisonAgrees
<1>. QED
  BY <1>3, Reviewing, PTL
=============================================================================
