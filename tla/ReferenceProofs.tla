-------------------------- MODULE ReferenceProofs --------------------------
(***************************************************************************)
(* Proofs that the first pass enters what Reference says is declared, and  *)
(* the second finds of every node that its operands fit.                   *)
(***************************************************************************)
EXTENDS PlainProofs, ReferenceInv

-----------------------------------------------------------------------------
(***************************************************************************)
(* Numbers.                                                                *)
(***************************************************************************)
LEMMA LeastNumber ==
  ASSUME NEW S, S \subseteq Nat, S # {}
  PROVE  \E x \in S : \A y \in S : x <= y
<1>1. PICK t \in S : \A u \in S : ~ (<<u, t>> \in OpToRel(<, Nat))
  BY NatLessThanWellFounded, WFMin
<1>2. ASSUME NEW u \in S PROVE t <= u
  <2>1. ~(u < t)
    BY <1>1 DEF OpToRel
  <2> QED BY <2>1
<1> QED BY <1>2

LEMMA GreatestNumber ==
  ASSUME NEW n \in Nat, NEW S, S \subseteq 0..n, S # {}
  PROVE  \E x \in S : \A y \in S : y <= x
<1> DEFINE T == {n - y : y \in S}
<1>1. T \subseteq Nat /\ T # {}
  <2>1. \A y \in S : n - y \in Nat
    OBVIOUS
  <2>2. PICK y \in S : TRUE
    OBVIOUS
  <2> QED BY <2>1, <2>2
<1>2. PICK t \in T : \A u \in T : t <= u
  <2> HIDE DEF T
  <2> QED BY <1>1, LeastNumber
<1>3. PICK x \in S : t = n - x
  OBVIOUS
<1>4. ASSUME NEW y \in S PROVE y <= x
  <2>1. n - y \in T
    OBVIOUS
  <2>2. n - x <= n - y
    BY <1>2, <1>3, <2>1
  <2> QED BY <2>2
<1> QED BY <1>4

-----------------------------------------------------------------------------
(***************************************************************************)
(* The tree of a node is the nodes from it to its last one: first itself,  *)
(* then the trees of its children, each after the one before.              *)
(***************************************************************************)
LEMMA NodeFacts ==
  ASSUME NEW n \in Node
  PROVE  /\ n \in Nat /\ LastIn[n] \in Nat /\ n <= LastIn[n] /\ n..LastIn[n] \subseteq Node
         /\ Kids[n] \in Seq(Node) /\ Len(Kids[n]) \in Nat /\ DOMAIN Kids[n] = 1..Len(Kids[n])
         /\ \A k \in DOMAIN Kids[n] : Kids[n][k] \in Node
         /\ Kids[n] = << >> => LastIn[n] = n
         /\ Len(Kids[n]) > 0 => Kids[n][1] = n + 1 /\ LastIn[n] = LastIn[Kids[n][Len(Kids[n])]]
         /\ \A k \in 2..Len(Kids[n]) : Kids[n][k] = LastIn[Kids[n][k - 1]] + 1
<1>1. Kids[n] \in Seq(Node) /\ n \in Node
  BY TreeAssumption
<1>2. /\ Len(Kids[n]) \in Nat /\ DOMAIN Kids[n] = 1..Len(Kids[n])
      /\ \A k \in DOMAIN Kids[n] : Kids[n][k] \in Node
      /\ Len(Kids[n]) > 0 => Kids[n] # << >>
  BY <1>1
<1>3. n \in Nat /\ LastIn[n] \in Nat
  BY OrderAssumption
<1> QED BY <1>1, <1>2, <1>3, OrderAssumption

\* The children come one after the other.
LEMMA Between ==
  ASSUME NEW n \in Nat, NEW m \in Nat, NEW from \in Nat, NEW to \in Nat, n <= from, to <= m + 1,
         NEW a \in from..(to - 1)
  PROVE  a \in n..m
OBVIOUS

LEMMA KidsInOrder ==
  ASSUME NEW n \in Node, NEW j \in DOMAIN Kids[n], NEW k \in DOMAIN Kids[n], j < k
  PROVE  LastIn[Kids[n][j]] < Kids[n][k]
<1> DEFINE S == {i \in DOMAIN Kids[n] : j < i /\ ~(LastIn[Kids[n][j]] < Kids[n][i])}
<1> SUFFICES ASSUME S # {} PROVE FALSE
  OBVIOUS
<1>1. /\ j \in Nat /\ Kids[n][j] \in Node /\ LastIn[Kids[n][j]] \in Nat
      /\ DOMAIN Kids[n] = 1..Len(Kids[n]) /\ Len(Kids[n]) \in Nat
  BY NodeFacts
<1>2. PICK i \in S : \A l \in S : i <= l
  <2>1. S \subseteq Nat
    BY <1>1
  <2> HIDE DEF S
  <2> QED BY <2>1, LeastNumber
<1>3. i \in 2..Len(Kids[n]) /\ i - 1 \in DOMAIN Kids[n] /\ i - 1 \notin S /\ j <= i - 1
  BY <1>1, <1>2
<1>4. Kids[n][i] = LastIn[Kids[n][i - 1]] + 1 /\ Kids[n][i - 1] \in Node
  BY <1>3, NodeFacts
<1>5. LastIn[Kids[n][i - 1]] \in Nat /\ Kids[n][i - 1] \in Nat /\ Kids[n][i - 1] <= LastIn[Kids[n][i - 1]]
  BY <1>4, NodeFacts
<1>6. CASE j = i - 1
  BY <1>1, <1>2, <1>4, <1>6
<1>7. CASE j < i - 1
  <2>1. LastIn[Kids[n][j]] < Kids[n][i - 1]
    BY <1>3, <1>7
  <2>2. PICK a, b, c, d : /\ a = LastIn[Kids[n][j]] /\ b = Kids[n][i - 1]
                          /\ c = LastIn[Kids[n][i - 1]] /\ d = Kids[n][i]
    OBVIOUS
  <2>3. a \in Nat /\ b \in Nat /\ c \in Nat /\ d = c + 1 /\ a < b /\ b <= c
    BY <1>1, <1>4, <1>5, <2>1, <2>2
  <2>4. ~(a < d)
    BY <1>2, <2>2
  <2> QED BY <2>3, <2>4
<1> QED BY <1>1, <1>3, <1>6, <1>7

LEMMA KidRange ==
  ASSUME NEW n \in Node, NEW k \in DOMAIN Kids[n]
  PROVE  /\ Kids[n][k] \in Node /\ Kids[n][k] \in Nat /\ LastIn[Kids[n][k]] \in Nat
         /\ n < Kids[n][k] /\ Kids[n][k] <= LastIn[Kids[n][k]] /\ LastIn[Kids[n][k]] <= LastIn[n]
<1>1. /\ n \in Nat /\ LastIn[n] \in Nat /\ DOMAIN Kids[n] = 1..Len(Kids[n]) /\ Len(Kids[n]) \in Nat
      /\ Kids[n][k] \in Node
  BY NodeFacts
<1>2. Kids[n][k] \in Nat /\ LastIn[Kids[n][k]] \in Nat /\ Kids[n][k] <= LastIn[Kids[n][k]]
  BY <1>1, NodeFacts
<1>3. 1 \in DOMAIN Kids[n] /\ Len(Kids[n]) \in DOMAIN Kids[n] /\ Len(Kids[n]) > 0
  BY <1>1
<1>4. Kids[n][1] = n + 1 /\ LastIn[n] = LastIn[Kids[n][Len(Kids[n])]]
  BY <1>3, NodeFacts
<1>5. n < Kids[n][k]
  <2>1. CASE k = 1
    BY <2>1, <1>1, <1>4
  <2>2. CASE k # 1
    <3>1. LastIn[Kids[n][1]] < Kids[n][k]
      BY <2>2, <1>1, <1>3, KidsInOrder
    <3>2. Kids[n][1] \in Node /\ Kids[n][1] <= LastIn[Kids[n][1]] /\ LastIn[Kids[n][1]] \in Nat
      BY <1>3, NodeFacts
    <3> QED BY <3>1, <3>2, <1>1, <1>2, <1>4
  <2> QED BY <2>1, <2>2
<1>6. LastIn[Kids[n][k]] <= LastIn[n]
  <2>1. CASE k = Len(Kids[n])
    BY <2>1, <1>2, <1>4
  <2>2. CASE k # Len(Kids[n])
    <3>1. LastIn[Kids[n][k]] < Kids[n][Len(Kids[n])]
      BY <2>2, <1>1, <1>3, KidsInOrder
    <3>2. /\ Kids[n][Len(Kids[n])] \in Node /\ Kids[n][Len(Kids[n])] \in Nat
          /\ Kids[n][Len(Kids[n])] <= LastIn[Kids[n][Len(Kids[n])]]
      BY <1>3, NodeFacts
    <3> QED BY <3>1, <3>2, <1>1, <1>2, <1>4
  <2> QED BY <2>1, <2>2
<1> QED BY <1>1, <1>2, <1>5, <1>6

\* Each node below n is in the tree of one of its children.
LEMMA InAKid ==
  ASSUME NEW n \in Node, NEW m \in (n + 1)..LastIn[n]
  PROVE  \E k \in DOMAIN Kids[n] : m \in Kids[n][k]..LastIn[Kids[n][k]]
<1> DEFINE S == {k \in DOMAIN Kids[n] : m <= LastIn[Kids[n][k]]}
<1>1. /\ n \in Nat /\ LastIn[n] \in Nat /\ DOMAIN Kids[n] = 1..Len(Kids[n]) /\ Len(Kids[n]) \in Nat
      /\ m \in Nat /\ Kids[n] \in Seq(Node)
  BY NodeFacts
<1>2. Len(Kids[n]) \in S
  <2>1. Len(Kids[n]) > 0
    <3>1. Kids[n] = << >> => LastIn[n] = n
      BY NodeFacts
    <3> QED BY <1>1, <3>1
  <2> QED BY <2>1, <1>1, NodeFacts
<1>3. PICK k \in S : \A l \in S : k <= l
  <2>1. S \subseteq Nat
    BY <1>1
  <2> HIDE DEF S
  <2> QED BY <1>2, <2>1, LeastNumber
<1>4. Kids[n][k] \in Nat /\ LastIn[Kids[n][k]] \in Nat
  BY <1>3, KidRange
<1>5. Kids[n][k] <= m
  <2>1. CASE k = 1
    <3>1. Kids[n][1] = n + 1
      BY <2>1, <1>1, <1>3, NodeFacts
    <3> QED BY <2>1, <3>1, <1>1
  <2>2. CASE k # 1
    <3>1. k \in 2..Len(Kids[n]) /\ k - 1 \in DOMAIN Kids[n] /\ k - 1 \notin S
      BY <2>2, <1>1, <1>3
    <3>2. Kids[n][k] = LastIn[Kids[n][k - 1]] + 1 /\ LastIn[Kids[n][k - 1]] \in Nat
      BY <3>1, NodeFacts, KidRange
    <3> QED BY <3>1, <3>2, <1>1, <1>4
  <2> QED BY <2>1, <2>2
<1> QED BY <1>1, <1>3, <1>4, <1>5

\* Of two trees, one is in the other or they are apart.
LEMMA TreesNest ==
  ASSUME NEW n \in Node, NEW m \in n..LastIn[n]
  PROVE  m \in Node /\ LastIn[m] <= LastIn[n]
<1> DEFINE S == {a \in Node : m \in a..LastIn[a] /\ ~(LastIn[m] <= LastIn[a])}
<1>1. m \in Node /\ m \in Nat /\ LastIn[m] \in Nat
  BY NodeFacts
<1> SUFFICES ASSUME S # {} PROVE FALSE
  BY <1>1
<1>2. PICK a \in S : \A b \in S : b <= a
  <2>1. ASSUME NEW a \in S PROVE a \in 0..m
    <3>1. a \in Node /\ m \in a..LastIn[a]
      OBVIOUS
    <3>2. a \in Nat /\ LastIn[a] \in Nat
      BY <3>1, NodeFacts
    <3> QED BY <1>1, <3>1, <3>2
  <2> HIDE DEF S
  <2> QED BY <1>1, <2>1, GreatestNumber
<1>3. a \in Node /\ a \in Nat /\ LastIn[a] \in Nat /\ m \in a..LastIn[a] /\ m # a
  BY <1>1, <1>2, NodeFacts
<1>4. PICK k \in DOMAIN Kids[a] : m \in Kids[a][k]..LastIn[Kids[a][k]]
  <2>1. m \in (a + 1)..LastIn[a]
    BY <1>1, <1>3
  <2> QED BY <1>3, <2>1, InAKid
<1>5. /\ Kids[a][k] \in Node /\ Kids[a][k] \in Nat /\ LastIn[Kids[a][k]] \in Nat
      /\ a < Kids[a][k] /\ LastIn[Kids[a][k]] <= LastIn[a]
  BY <1>3, KidRange
<1>6. Kids[a][k] \notin S
  BY <1>2, <1>3, <1>5
<1> QED BY <1>1, <1>2, <1>3, <1>4, <1>5, <1>6

\* Below an expression that is no assignment there are only such.
LEMMA PureTree ==
  ASSUME NEW n \in Node, Kind[n] \in PureKinds, NEW m \in n..LastIn[n]
  PROVE  m \in Node /\ Kind[m] \in PureKinds
<1> DEFINE S == {a \in Node : m \in a..LastIn[a] /\ Kind[a] \in PureKinds}
<1>1. m \in Node /\ m \in Nat
  BY NodeFacts
<1>2. PICK a \in S : \A b \in S : b <= a
  <2>1. ASSUME NEW a \in S PROVE a \in 0..m
    <3>1. a \in Node /\ m \in a..LastIn[a]
      OBVIOUS
    <3>2. a \in Nat /\ LastIn[a] \in Nat
      BY <3>1, NodeFacts
    <3> QED BY <1>1, <3>1, <3>2
  <2>2. n \in S
    OBVIOUS
  <2> HIDE DEF S
  <2> QED BY <1>1, <2>1, <2>2, GreatestNumber
<1>3. a \in Node /\ a \in Nat /\ LastIn[a] \in Nat /\ m \in a..LastIn[a] /\ Kind[a] \in PureKinds
  BY <1>2, NodeFacts
<1>4. ASSUME a # m PROVE FALSE
  <2>1. PICK k \in DOMAIN Kids[a] : m \in Kids[a][k]..LastIn[Kids[a][k]]
    <3>1. m \in (a + 1)..LastIn[a]
      BY <1>1, <1>3, <1>4
    <3> QED BY <1>3, <3>1, InAKid
  <2>2. Kids[a][k] \in Node /\ Kids[a][k] \in Nat /\ a < Kids[a][k]
    BY <1>3, <2>1, KidRange
  <2>3. Kind[Kids[a][k]] \in PureKinds
    <3>1. Kind[Kids[a][k]] \in ExprKinds
      BY <1>3, <2>1, TreeAssumption DEF PureKinds
    <3>2. Kind[Kids[a][k]] # "assign"
      BY <1>3, <2>1, PlainAssumption DEF PureKinds, ExprKinds, LeafKinds, UnaryKinds, BinaryKinds
    <3> QED BY <3>1, <3>2 DEF PureKinds
  <2> QED BY <1>2, <1>3, <2>1, <2>2, <2>3
<1> QED BY <1>1, <1>3, <1>4

-----------------------------------------------------------------------------
(***************************************************************************)
(* The blocks around a node.                                               *)
(***************************************************************************)
\* A node of the tree of r, and the blocks around it.
InTree(r, n) == r \in Node /\ n \in r..LastIn[r]

LEMMA AroundFacts ==
  ASSUME NEW r, NEW n, InTree(r, n)
  PROVE  /\ r \in Nat /\ n \in Node /\ n \in Nat /\ r <= n
         /\ LastIn[n] \in Nat /\ LastIn[r] \in Nat /\ n <= LastIn[n] /\ LastIn[n] <= LastIn[r]
         /\ \A b \in Around(r, n) :
              /\ b \in Node /\ b \in Nat /\ r <= b /\ b < n /\ Kind[b] = "block" /\ InTree(r, b)
              /\ LastIn[b] \in Nat /\ n <= LastIn[b] /\ LastIn[n] <= LastIn[b]
<1>1. r \in Node /\ n \in Node /\ LastIn[n] <= LastIn[r] /\ n \in r..LastIn[r]
  BY TreesNest DEF InTree
<1>2. r \in Nat /\ n \in Nat /\ LastIn[n] \in Nat /\ LastIn[r] \in Nat /\ n <= LastIn[n]
  BY <1>1, NodeFacts
<1>3. ASSUME NEW b \in Around(r, n)
      PROVE  /\ b \in Node /\ b \in Nat /\ r <= b /\ b < n /\ Kind[b] = "block" /\ InTree(r, b)
             /\ LastIn[b] \in Nat /\ n <= LastIn[b] /\ LastIn[n] <= LastIn[b]
  <2>1. b \in r..(n - 1) /\ Kind[b] = "block" /\ n <= LastIn[b]
    BY <1>3 DEF Around
  <2>2. InTree(r, b) /\ b \in Nat
    BY <1>1, <1>2, <2>1 DEF InTree
  <2>3. b \in Node /\ LastIn[b] \in Nat
    BY <2>2, TreesNest, NodeFacts DEF InTree
  <2>4. n \in b..LastIn[b]
    BY <1>2, <2>1, <2>2, <2>3
  <2> QED BY <1>2, <2>1, <2>2, <2>3, <2>4, TreesNest
<1> QED BY <1>1, <1>2, <1>3

LEMMA AroundRoot ==
  ASSUME NEW r \in Node
  PROVE  InTree(r, r) /\ Around(r, r) = {}
<1>1. r \in Nat /\ LastIn[r] \in Nat /\ r <= LastIn[r]
  BY NodeFacts
<1>2. InTree(r, r)
  BY <1>1 DEF InTree
<1>3. Around(r, r) = {}
  BY <1>1 DEF Around
<1> QED BY <1>2, <1>3

\* A child is in the blocks around its parent, and in its parent.
LEMMA AroundKid ==
  ASSUME NEW r, NEW n, InTree(r, n), NEW k \in DOMAIN Kids[n]
  PROVE  /\ InTree(r, Kids[n][k])
         /\ Around(r, Kids[n][k]) = IF Kind[n] = "block" THEN Around(r, n) \cup {n} ELSE Around(r, n)
<1> DEFINE m == Kids[n][k]
<1>1. /\ r \in Nat /\ n \in Node /\ n \in Nat /\ r <= n /\ LastIn[n] \in Nat /\ LastIn[r] \in Nat
      /\ LastIn[n] <= LastIn[r] /\ r \in Node
  BY AroundFacts DEF InTree
<1>2. m \in Nat /\ LastIn[m] \in Nat /\ n < m /\ m <= LastIn[m] /\ LastIn[m] <= LastIn[n]
  BY <1>1, KidRange
<1>3. InTree(r, m)
  BY <1>1, <1>2 DEF InTree
<1>4. ASSUME NEW b \in Around(r, n) PROVE b \in Around(r, m)
  <2>1. b \in Nat /\ r <= b /\ b < n /\ Kind[b] = "block" /\ LastIn[b] \in Nat /\ LastIn[n] <= LastIn[b]
    BY AroundFacts
  <2> QED BY <2>1, <1>1, <1>2 DEF Around
<1>5. ASSUME Kind[n] = "block" PROVE n \in Around(r, m)
  BY <1>1, <1>2, <1>5 DEF Around
<1>6. ASSUME NEW b \in Around(r, m), b # n PROVE b \in Around(r, n)
  <2>1. b \in Node /\ b \in Nat /\ r <= b /\ b < m /\ Kind[b] = "block" /\ LastIn[b] \in Nat /\ m <= LastIn[b]
    BY <1>3, <1>6, AroundFacts
  <2>2. CASE b < n
    BY <2>1, <2>2, <1>1, <1>2 DEF Around
  <2>3. CASE n < b
    <3>1. b \in (n + 1)..LastIn[n]
      BY <2>1, <2>3, <1>1, <1>2
    <3>2. PICK j \in DOMAIN Kids[n] : b \in Kids[n][j]..LastIn[Kids[n][j]]
      BY <1>1, <3>1, InAKid
    <3>3. Kids[n][j] \in Nat /\ LastIn[Kids[n][j]] \in Nat /\ Kids[n][j] \in Node
      BY <1>1, KidRange
    <3>4. LastIn[b] <= LastIn[Kids[n][j]]
      BY <3>2, <3>3, TreesNest
    <3>5. DOMAIN Kids[n] = 1..Len(Kids[n]) /\ Len(Kids[n]) \in Nat
      BY <1>1, NodeFacts
    <3>6. ASSUME j < k PROVE FALSE
      BY <3>6, <3>2, <3>3, <3>4, <2>1, <1>1, <1>2, KidsInOrder
    <3>7. ASSUME k < j PROVE FALSE
      <4>1. LastIn[m] < Kids[n][j]
        BY <3>7, <1>1, KidsInOrder
      <4> QED BY <4>1, <3>2, <3>3, <2>1, <1>2
    <3>8. ASSUME k = j PROVE FALSE
      BY <3>8, <3>2, <3>3, <2>1, <1>2
    <3> QED BY <3>5, <3>6, <3>7, <3>8
  <2> QED BY <1>1, <1>6, <2>1, <2>2, <2>3
<1>7. ASSUME n \in Around(r, m) PROVE Kind[n] = "block"
  BY <1>7 DEF Around
<1>8. Kind[n] = "block" => Around(r, m) = Around(r, n) \cup {n}
  BY <1>4, <1>5, <1>6
<1>9. Kind[n] # "block" => Around(r, m) = Around(r, n)
  BY <1>4, <1>6, <1>7
<1> QED BY <1>3, <1>8, <1>9

\* The innermost of some numbers is the greatest.
LEMMA InnermostIs ==
  ASSUME NEW n \in Nat, NEW S, S \subseteq 0..n, S # {}
  PROVE  Innermost(S) \in S /\ \A c \in S : c <= Innermost(S)
<1>1. \E x \in S : \A y \in S : y <= x
  BY GreatestNumber
<1> QED BY <1>1 DEF Innermost

LEMMA InnermostAround ==
  ASSUME NEW r, NEW n, InTree(r, n), NEW S, S \subseteq Around(r, n), S # {}
  PROVE  Innermost(S) \in S /\ \A c \in S : c <= Innermost(S)
<1>1. n \in Nat /\ S \subseteq 0..n
  <2>1. \A b \in Around(r, n) : b \in 0..n
    BY AroundFacts
  <2> QED BY <2>1, AroundFacts
<1> QED BY <1>1, InnermostIs

\* What is not the root of the tree is in a block, if that is one.
LEMMA HomeIs ==
  ASSUME NEW r, NEW n, InTree(r, n), Kind[r] = "block", n # r
  PROVE  Home(r, n) \in Around(r, n) /\ \A b \in Around(r, n) : b <= Home(r, n)
<1>1. r \in Nat /\ n \in Nat /\ r <= n /\ LastIn[r] \in Nat /\ n \in r..LastIn[r]
  BY AroundFacts DEF InTree
<1>2. r \in Around(r, n)
  BY <1>1 DEF Around
<1> QED BY <1>2, InnermostAround DEF Home

\* A node whose home is around n is in no other blocks than n.
LEMMA AroundHome ==
  ASSUME NEW r, NEW n, InTree(r, n), NEW a, InTree(r, a), Kind[r] = "block", a # r,
         Home(r, a) \in Around(r, n)
  PROVE  Around(r, a) \subseteq Around(r, n)
<1> DEFINE h == Home(r, a)
<1> SUFFICES ASSUME NEW b \in Around(r, a) PROVE b \in Around(r, n)
  OBVIOUS
<1>1. h \in Around(r, a) /\ b <= h
  BY HomeIs
<1>2. /\ b \in Node /\ b \in Nat /\ r \in Nat /\ r <= b /\ Kind[b] = "block" /\ LastIn[b] \in Nat
      /\ a \in Nat /\ a <= LastIn[b]
  BY AroundFacts
<1>3. h \in Nat /\ h < a
  BY <1>1, AroundFacts
<1>4. h < n /\ n <= LastIn[h] /\ n \in Nat /\ LastIn[h] \in Nat
  BY AroundFacts
<1>5. h \in b..LastIn[b]
  BY <1>1, <1>2, <1>3
<1>6. LastIn[h] <= LastIn[b]
  BY <1>2, <1>5, TreesNest
<1> HIDE DEF h
<1> QED BY <1>1, <1>2, <1>3, <1>4, <1>6 DEF Around

-----------------------------------------------------------------------------
(***************************************************************************)
(* Declarations.                                                           *)
(***************************************************************************)
LEMMA DeclaredAs ==
  ASSUME NEW r, NEW n, NEW b, NEW x
  PROVE  <<b, x>> \in Declared(r, n) <=>
           \E a \in r..(n - 1) : Declares(r, a) /\ b = Home(r, a) /\ x = Var[a]
BY DEF Declared

\* A tree, and a number up to the one after its last node.
UptoIn(r, n) == r \in Root /\ n \in r..(LastIn[r] + 1)

LEMMA UptoFacts ==
  ASSUME NEW r, NEW n, UptoIn(r, n)
  PROVE  /\ r \in Node /\ Kind[r] = "block" /\ r \in Nat /\ n \in Nat /\ LastIn[r] \in Nat
         /\ \A a \in r..(n - 1) : InTree(r, a) /\ a \in Nat
         /\ n <= LastIn[r] => InTree(r, n)
<1>1. r \in Node /\ Kind[r] = "block"
  BY TreeAssumption DEF UptoIn
<1>2. r \in Nat /\ LastIn[r] \in Nat
  BY <1>1, NodeFacts
<1> QED BY <1>1, <1>2 DEF UptoIn, InTree

\* An assignment declares its name unless a block around it has it already.
LEMMA KnownBefore ==
  ASSUME NEW r, NEW n, UptoIn(r, n), n <= LastIn[r], Kind[n] = "assign"
  PROVE  Having(r, n, Var[n], Declared(r, n)) = {} <=> Declares(r, n)
<1> DEFINE S == {m \in r..(n - 1) : Kind[m] = "assign" /\ Var[m] = Var[n] /\ Home(r, m) \in Around(r, n)}
<1>1. /\ r \in Node /\ Kind[r] = "block" /\ r \in Nat /\ n \in Nat /\ InTree(r, n)
      /\ \A a \in r..(n - 1) : InTree(r, a) /\ a \in Nat
  BY UptoFacts
<1>2. Declares(r, n) <=> S = {}
  BY DEF Declares
<1>3. ASSUME NEW b \in Having(r, n, Var[n], Declared(r, n)) PROVE S # {}
  <2>1. b \in Around(r, n) /\ <<b, Var[n]>> \in Declared(r, n)
    BY DEF Having
  <2>2. PICK a \in r..(n - 1) : Declares(r, a) /\ b = Home(r, a) /\ Var[n] = Var[a]
    BY <2>1, DeclaredAs
  <2> QED BY <2>1, <2>2 DEF Declares
<1>4. ASSUME S # {} PROVE Having(r, n, Var[n], Declared(r, n)) # {}
  <2>1. PICK a \in S : \A m \in S : a <= m
    <3>1. S \subseteq Nat
      BY <1>1
    <3> HIDE DEF S
    <3> QED BY <1>4, <3>1, LeastNumber
  <2>2. /\ a \in r..(n - 1) /\ Kind[a] = "assign" /\ Var[a] = Var[n] /\ Home(r, a) \in Around(r, n)
        /\ InTree(r, a) /\ a \in Nat /\ a # r
    BY <1>1, <2>1
  <2>3. Around(r, a) \subseteq Around(r, n)
    BY <1>1, <2>2, AroundHome
  <2>4. ASSUME NEW m \in r..(a - 1), Kind[m] = "assign", Var[m] = Var[a]
        PROVE  Home(r, m) \notin Around(r, a)
    <3> SUFFICES ASSUME Home(r, m) \in Around(r, a) PROVE FALSE
      OBVIOUS
    <3>1. m \in r..(n - 1) /\ m < a
      BY <1>1, <2>2
    <3>2. m \in S
      BY <3>1, <2>2, <2>3, <2>4
    <3> QED BY <2>1, <2>2, <3>1, <3>2, <1>1
  <2>5. Declares(r, a)
    BY <2>2, <2>4 DEF Declares
  <2>6. <<Home(r, a), Var[n]>> \in Declared(r, n)
    BY <2>2, <2>5, DeclaredAs
  <2> QED BY <2>2, <2>6 DEF Having
<1> QED BY <1>2, <1>3, <1>4

LEMMA DeclaredNext ==
  ASSUME NEW r, NEW n, UptoIn(r, n)
  PROVE  Declared(r, n + 1) = IF Declares(r, n) THEN Declared(r, n) \cup {<<Home(r, n), Var[n]>>}
                              ELSE Declared(r, n)
<1>1. r..((n + 1) - 1) = r..(n - 1) \cup {n}
  BY UptoFacts DEF UptoIn
<1> QED BY <1>1 DEF Declared

LEMMA DeclaredSame ==
  ASSUME NEW r, NEW n, UptoIn(r, n), NEW m, UptoIn(r, m), n <= m,
         \A a \in n..(m - 1) : Kind[a] # "assign"
  PROVE  Declared(r, m) = Declared(r, n)
<1>1. n \in Nat /\ m \in Nat /\ r \in Nat
  BY UptoFacts
<1>2. {a \in r..(m - 1) : Declares(r, a)} = {a \in r..(n - 1) : Declares(r, a)}
  <2>1. ASSUME NEW a \in r..(m - 1), Declares(r, a) PROVE a \in r..(n - 1)
    <3>1. Kind[a] = "assign"
      BY <2>1 DEF Declares
    <3> QED BY <1>1, <3>1
  <2>2. \A a \in r..(n - 1) : a \in r..(m - 1)
    BY <1>1
  <2> QED BY <2>1, <2>2
<1> QED BY <1>2 DEF Declared

\* Of two blocks around a node one has the name: if the outer one had it when
\* the inner one ended, the inner one never gets it.
LEMMA Single ==
  ASSUME NEW r \in Root, NEW n, InTree(r, n), NEW b \in Around(r, n), NEW c \in Around(r, n), c < b,
         NEW k \in Nat, k <= LastIn[b] + 1, NEW x, <<c, x>> \in Declared(r, k)
  PROVE  <<b, x>> \notin Declarations(r)
<1> SUFFICES ASSUME <<b, x>> \in Declarations(r) PROVE FALSE
  OBVIOUS
<1>1. /\ r \in Nat /\ LastIn[r] \in Nat /\ n \in Nat
      /\ b \in Nat /\ c \in Nat /\ r <= c /\ b < n /\ Kind[b] = "block" /\ Kind[c] = "block" /\ InTree(r, b)
      /\ LastIn[b] \in Nat /\ LastIn[c] \in Nat /\ n <= LastIn[b] /\ n <= LastIn[c]
  BY AroundFacts
<1>2. LastIn[b] <= LastIn[r] /\ LastIn[b] <= LastIn[c] /\ r \in Node /\ Kind[r] = "block" /\ c \in Node
  <2>1. c \in Node /\ b \in c..LastIn[c]
    BY <1>1, AroundFacts
  <2> QED BY <1>1, <2>1, AroundFacts, TreesNest, TreeAssumption
<1>3. PICK m \in r..LastIn[r] : Declares(r, m) /\ b = Home(r, m) /\ x = Var[m]
  <2>1. (LastIn[r] + 1) - 1 = LastIn[r]
    BY <1>1
  <2> QED BY <2>1, DeclaredAs DEF Declarations
<1>4. PICK a \in r..(k - 1) : Declares(r, a) /\ c = Home(r, a) /\ x = Var[a]
  BY DeclaredAs
<1>5. Kind[m] = "assign" /\ Kind[a] = "assign"
  BY <1>3, <1>4 DEF Declares
<1>6. InTree(r, m) /\ InTree(r, a) /\ m # r /\ a # r /\ m \in Nat /\ a \in Nat
  BY <1>1, <1>2, <1>3, <1>4, <1>5 DEF InTree
<1>7. b \in Around(r, m) /\ c \in Around(r, a) /\ \A d \in Around(r, a) : d <= c
  BY <1>2, <1>3, <1>4, <1>6, HomeIs
<1>8. b < m /\ m <= LastIn[b]
  BY <1>6, <1>7, AroundFacts
<1>9. c \in Around(r, m)
  BY <1>1, <1>2, <1>6, <1>8 DEF Around
<1>10. a < m
  <2>1. ASSUME b < a PROVE FALSE
    <3>1. b \in Around(r, a)
      BY <2>1, <1>1, <1>4, <1>6 DEF Around
    <3> QED BY <3>1, <1>1, <1>7
  <2>2. a # b
    BY <1>1, <1>5
  <2> QED BY <2>1, <2>2, <1>1, <1>6, <1>8
<1>11. a \in r..(m - 1)
  BY <1>1, <1>4, <1>6, <1>10
<1> QED BY <1>3, <1>4, <1>5, <1>9, <1>11 DEF Declares

-----------------------------------------------------------------------------
(***************************************************************************)
(* The accessor's list is the blocks around the node that is visited.      *)
(***************************************************************************)
ScopeIs(scope, r, n) ==
  /\ scope \in Seq(Node)
  /\ \A i \in DOMAIN scope : scope[i] \in Around(r, n)
  /\ \A b \in Around(r, n) : \E i \in DOMAIN scope : scope[i] = b
  /\ \A i, j \in DOMAIN scope : i < j => scope[i] < scope[j]

LEMMA ScopeRoot ==
  ASSUME NEW r \in Node
  PROVE  ScopeIs(<< >>, r, r)
BY AroundRoot DEF ScopeIs

LEMMA ScopeKid ==
  ASSUME NEW r, NEW n, InTree(r, n), NEW k \in DOMAIN Kids[n], NEW scope, ScopeIs(scope, r, n),
         NEW inner, inner = IF Kind[n] = "block" THEN Append(scope, n) ELSE scope
  PROVE  ScopeIs(inner, r, Kids[n][k])
<1> DEFINE m == Kids[n][k]
<1>1. Around(r, m) = IF Kind[n] = "block" THEN Around(r, n) \cup {n} ELSE Around(r, n)
  BY AroundKid
<1>2. CASE Kind[n] # "block"
  BY <1>1, <1>2 DEF ScopeIs
<1>3. CASE Kind[n] = "block"
  <2>1. n \in Node /\ scope \in Seq(Node)
    BY AroundFacts DEF ScopeIs
  <2>2. /\ inner = Append(scope, n) /\ inner \in Seq(Node) /\ Len(scope) \in Nat
        /\ DOMAIN scope = 1..Len(scope) /\ DOMAIN inner = 1..(Len(scope) + 1)
        /\ \A i \in DOMAIN scope : inner[i] = scope[i]
        /\ inner[Len(scope) + 1] = n
    BY <1>3, <2>1
  <2>3. ASSUME NEW i \in DOMAIN inner PROVE inner[i] \in Around(r, m)
    <3>1. CASE i \in DOMAIN scope
      BY <3>1, <1>1, <1>3, <2>2 DEF ScopeIs
    <3>2. CASE i = Len(scope) + 1
      BY <3>2, <1>1, <1>3, <2>2
    <3> QED BY <3>1, <3>2, <2>2
  <2>4. ASSUME NEW b \in Around(r, m) PROVE \E i \in DOMAIN inner : inner[i] = b
    <3>1. CASE b = n
      BY <3>1, <2>2
    <3>2. CASE b \in Around(r, n)
      <4>1. PICK i \in DOMAIN scope : scope[i] = b
        BY <3>2 DEF ScopeIs
      <4>2. i \in DOMAIN inner
        BY <2>2
      <4> QED BY <4>1, <4>2, <2>2
    <3> QED BY <3>1, <3>2, <1>1, <1>3
  <2>5. ASSUME NEW i \in DOMAIN inner, NEW j \in DOMAIN inner, i < j PROVE inner[i] < inner[j]
    <3>1. i \in DOMAIN scope
      BY <2>5, <2>2
    <3>2. CASE j \in DOMAIN scope
      <4>1. scope[i] < scope[j]
        BY <3>1, <3>2, <2>5 DEF ScopeIs
      <4> QED BY <4>1, <3>1, <3>2, <2>2
    <3>3. CASE j = Len(scope) + 1
      <4>1. scope[i] \in Around(r, n)
        BY <3>1 DEF ScopeIs
      <4>2. scope[i] < n
        BY <4>1, AroundFacts
      <4> QED BY <4>2, <3>1, <3>3, <2>2
    <3> QED BY <3>2, <3>3, <2>2
  <2> QED BY <2>2, <2>3, <2>4, <2>5 DEF ScopeIs
<1> QED BY <1>2, <1>3

\* So it is for every call on the stack.
LEMMA ScopesAround ==
  ASSUME stk \in Seq(Frames), PathOK, root \in Root, NEW i \in 1..Len(stk)
  PROVE  InTree(root, stk[i].n) /\ ScopeIs(stk[i].scope, root, stk[i].n)
<1> DEFINE S == {j \in 1..Len(stk) : ~(InTree(root, stk[j].n) /\ ScopeIs(stk[j].scope, root, stk[j].n))}
<1> SUFFICES ASSUME S # {} PROVE FALSE
  OBVIOUS
<1>1. Len(stk) \in Nat /\ root \in Node
  BY RootFacts
<1>2. PICK j \in S : \A l \in S : j <= l
  <2>1. S \subseteq Nat
    BY <1>1
  <2> HIDE DEF S
  <2> QED BY <2>1, LeastNumber
<1>3. j # 1
  <2>1. stk # << >>
    BY <1>2
  <2>2. stk[1].n = root /\ stk[1].scope = << >>
    BY <2>1 DEF PathOK
  <2> QED BY <1>1, <1>2, <2>2, AroundRoot, ScopeRoot
<1>4. j \in 2..Len(stk) /\ j - 1 \in 1..Len(stk) /\ j - 1 \notin S
  BY <1>1, <1>2, <1>3
<1> DEFINE f == stk[j - 1]
           g == stk[j]
<1>5. Calls(f, g)
  BY <1>4 DEF PathOK
<1>6. InTree(root, f.n) /\ ScopeIs(f.scope, root, f.n)
  BY <1>4
<1>7. /\ Called(f) \in DOMAIN Kids[f.n] /\ g.n = Kids[f.n][Called(f)] /\ f.stage > 0
      /\ g.scope = Inside(f)
  BY <1>5 DEF Calls
<1>8. Inside(f) = IF Kind[f.n] = "block" THEN Append(f.scope, f.n) ELSE f.scope
  BY <1>7 DEF Inside
<1>9. InTree(root, g.n)
  BY <1>6, <1>7, AroundKid
<1>10. ScopeIs(g.scope, root, g.n)
  BY <1>6, <1>7, <1>8, ScopeKid
<1> QED BY <1>2, <1>9, <1>10

\* The accessor finds a name in the innermost block around the node that has it.
LEMMA NearestIs ==
  ASSUME EntriesOK, NEW r, NEW n, InTree(r, n), NEW scope, ScopeIs(scope, r, n), NEW x,
         NEW fe \in BOOLEAN, NEW decls, decls = {k \in DOMAIN table : fe => table[k].evaluated}
  PROVE  /\ Nearest(scope, x, fe) = 0 <=> Having(r, n, x, decls) = {}
         /\ Nearest(scope, x, fe) # 0 =>
              /\ Nearest(scope, x, fe) \in DOMAIN scope
              /\ scope[Nearest(scope, x, fe)] = Innermost(Having(r, n, x, decls))
              /\ LookupIn(scope, x, fe) = table[Owner(r, n, x, decls)]
              /\ Owner(r, n, x, decls) \in decls
<1> DEFINE H == Having(r, n, x, decls)
           p == Nearest(scope, x, fe)
<1>1. scope \in Seq(Node) /\ DOMAIN scope = 1..Len(scope) /\ Len(scope) \in Nat
  BY DEF ScopeIs
<1>2. ASSUME NEW i \in DOMAIN scope PROVE i \in Stops(scope, x, fe) <=> scope[i] \in H
  <2>1. scope[i] \in Around(r, n)
    BY DEF ScopeIs
  <2>2. Bound(scope[i], x) <=> <<scope[i], x>> \in DOMAIN table
    BY BoundFacts
  <2>3. <<scope[i], x>> \in DOMAIN table => At(scope[i], x) = table[<<scope[i], x>>]
    BY DEF At
  <2>4. i \in Stops(scope, x, fe) <=>
          <<scope[i], x>> \in DOMAIN table /\ (fe => table[<<scope[i], x>>].evaluated)
    BY <2>2, <2>3 DEF Stops
  <2>5. scope[i] \in H <=> <<scope[i], x>> \in decls
    BY <2>1 DEF Having
  <2> QED BY <2>4, <2>5
<1>3. Stops(scope, x, fe) \subseteq DOMAIN scope
  BY DEF Stops
<1>4. ASSUME NEW b \in H PROVE \E i \in Stops(scope, x, fe) : scope[i] = b
  <2>1. b \in Around(r, n)
    BY DEF Having
  <2>2. PICK i \in DOMAIN scope : scope[i] = b
    BY <2>1 DEF ScopeIs
  <2> HIDE DEF H
  <2> QED BY <2>2, <1>2
<1>5. Stops(scope, x, fe) = {} <=> H = {}
  <2> HIDE DEF H
  <2> QED BY <1>2, <1>3, <1>4
<1>6. Stops(scope, x, fe) = {} => p = 0
  BY NearestStops, <1>1
<1>7. Stops(scope, x, fe) # {} => p \in Stops(scope, x, fe) /\ \A j \in Stops(scope, x, fe) : j <= p
  <2>1. ASSUME Stops(scope, x, fe) # {}
        PROVE  \E i \in Stops(scope, x, fe) : \A j \in Stops(scope, x, fe) : j <= i
    BY <2>1, <1>1, <1>3, LastPosition
  <2> QED BY <2>1 DEF Nearest
<1>8. p = 0 <=> H = {}
  <2>1. Stops(scope, x, fe) # {} => p # 0
    BY <1>1, <1>3, <1>7
  <2> HIDE DEF p, H
  <2> QED BY <2>1, <1>5, <1>6
<1>9. ASSUME p # 0
      PROVE  /\ p \in DOMAIN scope /\ scope[p] = Innermost(H) /\ Innermost(H) \in H
  <2>1. p \in Stops(scope, x, fe) /\ \A j \in Stops(scope, x, fe) : j <= p
    BY <1>6, <1>7, <1>9
  <2>2. p \in DOMAIN scope /\ scope[p] \in H
    BY <2>1, <1>2, <1>3
  <2>3. H \subseteq Around(r, n) /\ H # {}
    BY <2>2 DEF Having
  <2>4. Innermost(H) \in H /\ \A c \in H : c <= Innermost(H)
    <3> HIDE DEF H
    <3> QED BY <2>3, InnermostAround
  <2>5. PICK i \in Stops(scope, x, fe) : scope[i] = Innermost(H)
    BY <2>4, <1>4
  <2>6. i <= p /\ i \in DOMAIN scope
    BY <2>1, <2>5, <1>3
  <2>7. scope[p] \in Nat /\ scope[i] \in Nat
    <3>1. scope[p] \in Around(r, n) /\ scope[i] \in Around(r, n)
      BY <2>2, <2>6 DEF ScopeIs
    <3> QED BY <3>1, AroundFacts
  <2>8. i < p => scope[i] < scope[p]
    BY <2>2, <2>6 DEF ScopeIs
  <2>9. scope[p] <= scope[i]
    BY <2>2, <2>4, <2>5
  <2>10. i = p
    <3> HIDE DEF p
    <3> QED BY <2>2, <2>6, <2>7, <2>8, <2>9, <1>1
  <2> QED BY <2>2, <2>4, <2>5, <2>10
<1>10. ASSUME p # 0
       PROVE  LookupIn(scope, x, fe) = table[Owner(r, n, x, decls)] /\ Owner(r, n, x, decls) \in decls
  <2>1. LookupIn(scope, x, fe) = At(scope[p], x)
    BY <1>10 DEF LookupIn
  <2>2. Owner(r, n, x, decls) = <<scope[p], x>>
    BY <1>9, <1>10 DEF Owner
  <2>3. <<scope[p], x>> \in decls
    BY <1>9, <1>10 DEF Having
  <2>4. <<scope[p], x>> \in DOMAIN table
    BY <2>3
  <2> HIDE DEF p
  <2> QED BY <2>1, <2>2, <2>3, <2>4 DEF At
<1> HIDE DEF p, H
<1>11. (p = 0 <=> H = {}) /\ (p # 0 => p \in DOMAIN scope /\ scope[p] = Innermost(H)
            /\ LookupIn(scope, x, fe) = table[Owner(r, n, x, decls)] /\ Owner(r, n, x, decls) \in decls)
  BY <1>8, <1>9, <1>10
<1> QED BY <1>11 DEF p, H

LEMMA NearestEntry ==
  ASSUME EntriesOK, NEW r, NEW n, InTree(r, n), NEW scope, ScopeIs(scope, r, n), NEW x
  PROVE  /\ Nearest(scope, x, FALSE) = 0 <=> Having(r, n, x, DOMAIN table) = {}
         /\ Nearest(scope, x, FALSE) # 0 => Nearest(scope, x, FALSE) \in DOMAIN scope
         /\ Nearest(scope, x, FALSE) # 0 =>
              scope[Nearest(scope, x, FALSE)] = Innermost(Having(r, n, x, DOMAIN table))
         /\ Nearest(scope, x, FALSE) # 0 => LookupIn(scope, x, FALSE) = table[Owner(r, n, x, DOMAIN table)]
         /\ Nearest(scope, x, FALSE) # 0 => Owner(r, n, x, DOMAIN table) \in DOMAIN table
<1>1. PICK decls : decls = {k \in DOMAIN table : FALSE => table[k].evaluated}
  OBVIOUS
<1>2. decls = DOMAIN table
  BY <1>1
<1>3. PICK fe : fe = FALSE
  OBVIOUS
<1>4. fe \in BOOLEAN /\ decls = {k \in DOMAIN table : fe => table[k].evaluated}
  BY <1>1, <1>3
<1>5. /\ Nearest(scope, x, fe) = 0 <=> Having(r, n, x, decls) = {}
      /\ Nearest(scope, x, fe) # 0 =>
           /\ Nearest(scope, x, fe) \in DOMAIN scope
           /\ scope[Nearest(scope, x, fe)] = Innermost(Having(r, n, x, decls))
           /\ LookupIn(scope, x, fe) = table[Owner(r, n, x, decls)]
           /\ Owner(r, n, x, decls) \in decls
  BY <1>4, NearestIs
<1>6. /\ Nearest(scope, x, FALSE) = 0 <=> Having(r, n, x, decls) = {}
      /\ Nearest(scope, x, FALSE) # 0 =>
           /\ Nearest(scope, x, FALSE) \in DOMAIN scope
           /\ scope[Nearest(scope, x, FALSE)] = Innermost(Having(r, n, x, decls))
           /\ LookupIn(scope, x, FALSE) = table[Owner(r, n, x, decls)]
           /\ Owner(r, n, x, decls) \in decls
  BY <1>3, <1>5
<1>7. /\ Nearest(scope, x, FALSE) = 0 <=> Having(r, n, x, DOMAIN table) = {}
      /\ Nearest(scope, x, FALSE) # 0 =>
           /\ Nearest(scope, x, FALSE) \in DOMAIN scope
           /\ scope[Nearest(scope, x, FALSE)] = Innermost(Having(r, n, x, DOMAIN table))
           /\ LookupIn(scope, x, FALSE) = table[Owner(r, n, x, DOMAIN table)]
           /\ Owner(r, n, x, DOMAIN table) \in DOMAIN table
  BY <1>2, <1>6
<1> QED BY <1>7

\* The innermost block of a scope is the node's home.
LEMMA LastHome ==
  ASSUME NEW r, NEW n, InTree(r, n), Kind[r] = "block", n # r, NEW scope, ScopeIs(scope, r, n)
  PROVE  scope # << >> /\ scope[Len(scope)] = Home(r, n)
<1>1. Home(r, n) \in Around(r, n) /\ \A b \in Around(r, n) : b <= Home(r, n)
  BY HomeIs
<1>2. PICK i \in DOMAIN scope : scope[i] = Home(r, n)
  BY <1>1 DEF ScopeIs
<1>3. scope \in Seq(Node) /\ i \in 1..Len(scope) /\ Len(scope) \in DOMAIN scope /\ Len(scope) \in Nat
  BY <1>2 DEF ScopeIs
<1>4. scope[Len(scope)] \in Around(r, n)
  BY <1>3 DEF ScopeIs
<1>5. i < Len(scope) => scope[i] < scope[Len(scope)]
  BY <1>2, <1>3 DEF ScopeIs
<1>6. scope[Len(scope)] \in Nat /\ Home(r, n) \in Nat
  BY <1>1, <1>4, AroundFacts
<1>7. scope[Len(scope)] <= Home(r, n)
  BY <1>1, <1>4
<1>8. i = Len(scope)
  BY <1>2, <1>3, <1>5, <1>6, <1>7
<1> QED BY <1>2, <1>3, <1>8

-----------------------------------------------------------------------------
(***************************************************************************)
(* How far in the text the steps get.                                      *)
(***************************************************************************)
LEMMA TopInTree ==
  ASSUME MachineOK, stk # << >>
  PROVE  /\ stk \in Seq(Frames) /\ nested \in Seq(Node) /\ PathOK /\ root \in Root /\ root \in Node
         /\ InTree(root, N) /\ ScopeIs(Top.scope, root, N) /\ N \in Node /\ Top.stage \in Nat
         /\ Kind[root] = "block"
<1>1. stk \in Seq(Frames) /\ nested \in Seq(Node) /\ PathOK /\ root \in Root
  BY DEF MachineOK, TypeOK
<1>2. Len(stk) \in 1..Len(stk) /\ Top = stk[Len(stk)] /\ N = Top.n
  BY <1>1, TopFacts DEF Top, N
<1>3. InTree(root, N) /\ ScopeIs(Top.scope, root, N)
  BY <1>1, <1>2, ScopesAround
<1> QED BY <1>1, <1>3, TopFacts, KidFacts, RootFacts

LEMMA CallUpto ==
  ASSUME stk \in Seq(Frames), stk # << >>, nested \in Seq(Node),
         NEW k \in DOMAIN Kids[N], NEW v \in Int, NEW typed \in BOOLEAN, Call(k, v, typed)
  PROVE  stk' # << >> /\ Upto' = Kids[N][k]
<1>1. /\ stk' \in Seq(Frames) /\ Len(stk') = Len(stk) + 1
      /\ stk'[Len(stk) + 1] = Frame(Kids[N][k], typed, nested)
  BY CallFacts
<1>2. Len(stk) \in Nat /\ Len(stk) > 0
  BY TopFacts
<1>3. stk' # << >> /\ Top' = Frame(Kids[N][k], typed, nested)
  BY <1>1, <1>2 DEF Top
<1>4. Top'.stage = 0 /\ Top'.n = Kids[N][k]
  BY <1>3, FrameFacts
<1> QED BY <1>3, <1>4 DEF Upto, Reached

LEMMA EnterUpto ==
  ASSUME stk \in Seq(Frames), stk # << >>, NEW v \in Int, EnterScope(v)
  PROVE  stk' # << >> /\ Upto' = N /\ Upto = N
<1>1. Kind[N] = "block" /\ Top.stage = 0 /\ Goto(1, v)
  BY DEF EnterScope, Running
<1>2. /\ stk' \in Seq(Frames) /\ Len(stk') = Len(stk) /\ stk'[Len(stk)] = Later(1, v)
  BY <1>1, GotoFacts
<1>3. Len(stk) \in Nat /\ Len(stk) > 0
  BY TopFacts
<1>4. stk' # << >> /\ Top' = Later(1, v)
  BY <1>2, <1>3 DEF Top
<1>5. Top'.n = N /\ Top'.stage = 1
  BY <1>4, LaterFacts
<1>6. Called(Top)' = 0
  BY <1>1, <1>5 DEF Called
<1>7. Upto' = N
  BY <1>4, <1>5, <1>6 DEF Upto, Reached
<1>8. Upto = N
  BY <1>1 DEF Upto, Reached, N
<1> QED BY <1>4, <1>7, <1>8

LEMMA ReturnUpto ==
  ASSUME stk \in Seq(Frames), stk # << >>, PathOK, Return, UNCHANGED <<root, phase>>
  PROVE  Upto' = LastIn[N] + 1
<1>1. stk' \in Seq(Frames) /\ Len(stk') = Len(stk) - 1 /\ \A i \in 1..(Len(stk) - 1) : stk'[i] = stk[i]
  BY ReturnFacts
<1>2. Len(stk) \in Nat /\ Len(stk) > 0
  BY TopFacts
<1>3. CASE stk' = << >>
  <2>1. N = root
    BY <1>3, RootReturn
  <2> QED BY <1>3, <2>1 DEF Upto
<1>4. CASE stk' # << >>
  <2> DEFINE f == stk[Len(stk) - 1]
  <2>1. Len(stk) \in 2..Len(stk) /\ Len(stk) - 1 \in 1..(Len(stk) - 1)
    BY <1>1, <1>2, <1>4
  <2>2. Calls(f, stk[Len(stk)])
    BY <2>1 DEF PathOK
  <2>3. f.stage > 0 /\ Called(f) \in DOMAIN Kids[f.n] /\ N = Kids[f.n][Called(f)]
    BY <2>2 DEF Calls, N, Top
  <2>4. Top' = f
    BY <1>1, <2>1 DEF Top
  <2>5. f \in Frames
    BY <2>1
  <2>6. f.n \in Node /\ f.stage \in Nat
    BY <2>5 DEF Frames
  <2>7. DOMAIN Kids[f.n] = 1..Len(Kids[f.n])
    BY <2>6, NodeFacts
  <2>8. Called(Top)' = Called(f)
    BY <2>4 DEF Called
  <2>9. Called(f) # 0 /\ f.stage # 0
    BY <2>3, <2>6, <2>7
  <2> HIDE DEF f
  <2> QED BY <1>4, <2>3, <2>4, <2>8, <2>9 DEF Upto, Reached
<1> QED BY <1>3, <1>4

\* Where the call on top is: at its node, or after one of its children.
LEMMA UptoHere ==
  ASSUME stk # << >>
  PROVE  /\ Top.stage = 0 \/ Called(Top) = 0 => Upto = N
         /\ Top.stage # 0 /\ Called(Top) # 0 => Upto = LastIn[Kids[N][Called(Top)]] + 1
BY DEF Upto, Reached, N

LEMMA UptoOf ==
  ASSUME NEW r \in Root, NEW n, InTree(r, n)
  PROVE  UptoIn(r, n) /\ UptoIn(r, LastIn[n] + 1) /\ UptoIn(r, n + 1)
<1>1. /\ r \in Nat /\ n \in Node /\ n \in Nat /\ r <= n
      /\ LastIn[n] \in Nat /\ LastIn[r] \in Nat /\ n <= LastIn[n] /\ LastIn[n] <= LastIn[r]
  BY AroundFacts
<1> QED BY <1>1 DEF UptoIn

Skips(from, to) ==
  /\ UptoIn(root, from) /\ UptoIn(root, to) /\ from <= to
  /\ \A a \in from..(to - 1) : Kind[a] # "assign"

LEMMA SkipsNone ==
  ASSUME NEW from, UptoIn(root, from)
  PROVE  Skips(from, from)
<1>1. from \in Nat
  BY UptoFacts
<1> QED BY <1>1 DEF Skips

\* Populate enters the name of an assignment that it comes to, and goes on over
\* nodes that are none.
LEMMA PopulateMoves ==
  ASSUME MachineOK, Populate
  PROVE  /\ stk # << >>
         /\ \/ UNCHANGED table /\ Skips(Upto, Upto')
            \/ /\ Kind[N] = "assign" /\ Upto = N /\ Upto' = N + 1
               /\ IF Known(Var[N]) THEN UNCHANGED table
                  ELSE Put(nested[Len(nested)], Var[N], Entry(RightSide, Undet, FALSE))
<1>1. /\ phase = "populate" /\ phase' = "populate" /\ UNCHANGED root
      /\ PopulateBlock \/ PopulateAssign \/ PopulateIf \/ PopulateOther
  BY DEF Populate, PopulateStep
<1>2. stk # << >>
  BY <1>1 DEF PopulateBlock, EnterScope, NextStatement, LeaveScope, PopulateAssign, PopulateIf,
              PopulateOther, Running
<1>3. /\ stk \in Seq(Frames) /\ nested \in Seq(Node) /\ PathOK /\ root \in Root /\ root \in Node
      /\ InTree(root, N) /\ ScopeIs(Top.scope, root, N) /\ N \in Node /\ Top.stage \in Nat
  BY <1>2, TopInTree
<1>4. /\ Kids[N] \in Seq(Node) /\ (Kind[N] # "block" => DOMAIN Kids[N] = 1..Arity(Kind[N]))
      /\ DOMAIN Kids[N] = 1..Len(Kids[N]) /\ Len(Kids[N]) \in Nat /\ Top.local \in Int /\ 0 \in Int
      /\ Kind[N] # "block" => Len(Kids[N]) = Arity(Kind[N])
  BY <1>2, <1>3, KidFacts, NodeFacts, TreeAssumption
<1>5. /\ N \in Nat /\ LastIn[N] \in Nat /\ N <= LastIn[N] /\ UptoIn(root, N) /\ UptoIn(root, LastIn[N] + 1)
      /\ UptoIn(root, N + 1)
  BY <1>3, NodeFacts, UptoOf
<1>6. ASSUME NEW k \in DOMAIN Kids[N]
      PROVE  /\ Kids[N][k] \in Nat /\ LastIn[Kids[N][k]] \in Nat /\ N < Kids[N][k] /\ Kids[N][k] <= LastIn[Kids[N][k]]
             /\ LastIn[Kids[N][k]] <= LastIn[N] /\ Kids[N][k] \in Node
             /\ UptoIn(root, Kids[N][k]) /\ UptoIn(root, LastIn[Kids[N][k]] + 1)
             /\ k = 1 => Kids[N][k] = N + 1
             /\ k > 1 => k - 1 \in DOMAIN Kids[N] /\ Kids[N][k] = LastIn[Kids[N][k - 1]] + 1
             /\ k = Len(Kids[N]) => LastIn[Kids[N][k]] = LastIn[N]
  <2>1. InTree(root, Kids[N][k])
    BY <1>3, AroundKid
  <2>2. UptoIn(root, Kids[N][k]) /\ UptoIn(root, LastIn[Kids[N][k]] + 1)
    BY <1>3, <2>1, UptoOf
  <2>3. k > 1 => k \in 2..Len(Kids[N]) /\ k - 1 \in DOMAIN Kids[N]
    BY <1>4
  <2>4. Len(Kids[N]) > 0
    BY <1>4
  <2> QED BY <1>3, <2>2, <2>3, <2>4, KidRange, NodeFacts
<1>7. ASSUME Kind[N] # "assign" PROVE Skips(N, N + 1)
  BY <1>5, <1>7 DEF Skips
<1>8. CASE PopulateBlock
  <2>0. UNCHANGED table /\ 0 \in Int
    BY <1>8 DEF PopulateBlock
  <2>1. CASE EnterScope(0)
    <3>1. Upto' = N /\ Upto = N
      BY <1>2, <1>3, <2>1, EnterUpto, <2>0
    <3> QED BY <1>2, <1>5, <2>0, <3>1, SkipsNone
  <2>2. CASE NextStatement
    <3>1. Kind[N] = "block" /\ Top.stage \in 1..Len(Kids[N]) /\ Call(Top.stage, Top.local, FALSE)
      BY <2>2 DEF NextStatement
    <3>2. Called(Top) = Top.stage - 1 /\ Top.stage \in DOMAIN Kids[N]
      BY <1>4, <3>1 DEF Called, N
    <3>3. Upto' = Kids[N][Top.stage]
      BY <1>2, <1>3, <1>4, <3>1, <3>2, CallUpto
    <3>4. CASE Top.stage = 1
      <4>1. Upto = N /\ Upto' = N + 1
        BY <1>2, <1>6, <3>2, <3>3, <3>4, UptoHere
      <4> QED BY <1>2, <1>7, <2>0, <3>1, <4>1
    <3>5. CASE Top.stage > 1
      <4>1. Upto = LastIn[Kids[N][Top.stage - 1]] + 1
        BY <1>2, <1>3, <3>2, <3>5, UptoHere
      <4>2. Upto = Kids[N][Top.stage]
        BY <1>6, <3>2, <3>5, <4>1
      <4> QED BY <1>2, <1>6, <2>0, <3>2, <3>3, <4>2, SkipsNone
    <3> QED BY <1>3, <3>1, <3>4, <3>5
  <2>3. CASE LeaveScope
    <3>1. Kind[N] = "block" /\ Top.stage = Len(Kids[N]) + 1 /\ Return
      BY <2>3 DEF LeaveScope, Running
    <3>2. Upto' = LastIn[N] + 1
      BY <1>1, <1>2, <1>3, <3>1, ReturnUpto
    <3>3. Called(Top) = Len(Kids[N])
      BY <1>4, <3>1 DEF Called, N
    <3>4. CASE Len(Kids[N]) = 0
      <4>1. Kids[N] = << >>
        BY <1>4, <3>4
      <4>2. Upto = N /\ LastIn[N] = N
        BY <1>2, <1>3, <3>3, <3>4, <4>1, UptoHere, NodeFacts
      <4> QED BY <1>2, <1>7, <2>0, <3>1, <3>2, <4>2
    <3>5. CASE Len(Kids[N]) # 0
      <4>1. Len(Kids[N]) \in DOMAIN Kids[N]
        BY <1>4, <3>5
      <4>2. Top.stage # 0
        BY <1>4, <3>1
      <4>3. Upto = LastIn[N] + 1
        BY <1>2, <1>6, <3>3, <3>5, <4>1, <4>2, UptoHere
      <4> QED BY <1>2, <1>5, <2>0, <3>2, <4>3, SkipsNone
    <3> QED BY <3>4, <3>5
  <2> QED BY <1>8, <2>1, <2>2, <2>3 DEF PopulateBlock
<1>9. CASE PopulateAssign
  <2>1. Kind[N] = "assign" /\ Top.stage \in {0, 1}
    BY <1>9 DEF PopulateAssign, Running
  <2>2. 1 \in DOMAIN Kids[N] /\ Len(Kids[N]) = 1
    <3>1. Kind[N] # "block" /\ Arity(Kind[N]) = 1
      BY <2>1, ArityFacts
    <3> QED BY <1>4, <3>1
  <2>3. Called(Top) = Top.stage
    BY <2>1 DEF Called, N
  <2>4. CASE /\ IF Known(Var[N]) THEN UNCHANGED table
                ELSE Put(nested[Len(nested)], Var[N], Entry(RightSide, Undet, FALSE))
             /\ Call(1, 0, FALSE) /\ Top.stage = 0
    <3>1. Upto' = Kids[N][1]
      BY <1>2, <1>3, <1>4, <2>2, <2>4, CallUpto
    <3>2. Upto = N
      BY <1>2, <2>4, UptoHere
    <3> QED BY <1>2, <1>6, <2>1, <2>2, <2>4, <3>1, <3>2
  <2>5. CASE Top.stage = 1 /\ Return /\ UNCHANGED table
    <3>1. Upto' = LastIn[N] + 1
      BY <1>1, <1>2, <1>3, <2>5, ReturnUpto
    <3>2. Upto = LastIn[N] + 1
      BY <1>2, <1>6, <2>2, <2>3, <2>5, UptoHere
    <3> QED BY <1>2, <1>5, <2>5, <3>1, <3>2, SkipsNone
  <2> QED BY <1>9, <2>4, <2>5 DEF PopulateAssign, Running
<1>10. CASE PopulateIf
  <2>1. Kind[N] = "if_stmt" /\ Top.stage \in {0, 1} /\ UNCHANGED table
    BY <1>10 DEF PopulateIf, Running
  <2>2. 1 \in DOMAIN Kids[N] /\ 2 \in DOMAIN Kids[N] /\ Len(Kids[N]) = 2
    <3>1. Kind[N] # "block" /\ Arity(Kind[N]) = 2
      BY <2>1, ArityFacts
    <3> QED BY <1>4, <3>1
  <2>3. CASE Call(2, 0, FALSE) /\ Top.stage = 0
    <3>1. Upto' = Kids[N][2] /\ Upto = N
      BY <1>2, <1>3, <1>4, <2>2, <2>3, CallUpto, UptoHere
    <3>2. Kids[N][2] = LastIn[Kids[N][1]] + 1 /\ Kids[N][1] = N + 1
      BY <1>6, <2>2
    <3>3. Kind[Kids[N][1]] \in PureKinds
      <4>1. Kind[Kids[N][1]] # "assign"
        BY <1>3, <2>1, <2>2, PlainAssumption
      <4>2. Kind[Kids[N][1]] \in ExprKinds
        BY <1>2, <1>3, <2>1, KidFacts
      <4> QED BY <4>1, <4>2 DEF PureKinds
    <3>4. ASSUME NEW a \in N..(Kids[N][2] - 1) PROVE Kind[a] # "assign"
      <4>1. CASE a = N
        BY <2>1, <4>1
      <4>2. CASE a # N
        <5>1. a \in Kids[N][1]..LastIn[Kids[N][1]]
          BY <1>5, <1>6, <2>2, <3>2, <4>2
        <5>2. Kind[a] \in PureKinds
          BY <1>6, <2>2, <3>3, <5>1, PureTree
        <5> QED BY <5>2 DEF PureKinds
      <4> QED BY <4>1, <4>2
    <3>5. Skips(N, Kids[N][2])
      BY <1>5, <1>6, <2>2, <3>4 DEF Skips
    <3> QED BY <1>2, <2>1, <3>1, <3>5
  <2>4. CASE Top.stage = 1 /\ Return
    <3>1. Called(Top) = 2
      BY <1>1, <2>1 DEF Called, N
    <3>2. Upto' = LastIn[N] + 1
      BY <1>1, <1>2, <1>3, <2>4, ReturnUpto
    <3>3. Upto = LastIn[N] + 1
      BY <1>2, <1>6, <2>2, <2>4, <3>1, UptoHere
    <3> QED BY <1>2, <1>5, <2>1, <3>2, <3>3, SkipsNone
  <2> QED BY <1>10, <2>3, <2>4 DEF PopulateIf, Running
<1>11. CASE PopulateOther
  <2>1. Kind[N] \in PureKinds /\ UNCHANGED table
    BY <1>11 DEF PopulateOther, PureKinds
  <2>2. Kind[N] \notin {"block", "if_stmt", "assign"}
    BY <2>1 DEF PureKinds, ExprKinds, LeafKinds, UnaryKinds, BinaryKinds
  <2>3. Called(Top) = Top.stage
    BY <2>2 DEF Called, N
  <2>4. \/ Top.stage < Len(Kids[N]) /\ Call(Top.stage + 1, 0, FALSE)
        \/ Top.stage = Len(Kids[N]) /\ Return
    BY <1>11 DEF PopulateOther
  <2>5. Top.stage # 0 => Top.stage \in DOMAIN Kids[N]
    <3>1. Top.stage < Len(Kids[N]) \/ Top.stage = Len(Kids[N])
      BY <2>4
    <3>2. Top.stage <= Len(Kids[N])
      BY <1>3, <1>4, <3>1
    <3> QED BY <1>3, <1>4, <3>2
  <2>6. /\ Top.stage = 0 => Upto = N
        /\ Top.stage # 0 => Upto = LastIn[Kids[N][Top.stage]] + 1
    BY <1>2, <2>3, UptoHere
  <2>7. Upto \in Nat /\ N <= Upto /\ UptoIn(root, Upto) /\ Upto <= LastIn[N] + 1
    <3>1. CASE Top.stage = 0
      BY <1>5, <2>6, <3>1
    <3>2. CASE Top.stage # 0
      BY <1>5, <1>6, <2>5, <2>6, <3>2
    <3> QED BY <3>1, <3>2
  <2>8. Upto' \in Nat /\ Upto' <= LastIn[N] + 1 /\ UptoIn(root, Upto') /\ Upto <= Upto'
    <3>1. CASE Top.stage < Len(Kids[N]) /\ Call(Top.stage + 1, 0, FALSE)
      <4>1. Top.stage + 1 \in DOMAIN Kids[N]
        BY <1>3, <1>4, <3>1
      <4>2. Upto' = Kids[N][Top.stage + 1]
        BY <1>2, <1>3, <1>4, <3>1, <4>1, CallUpto
      <4>3. Top.stage # 0 => Upto' = Upto
        <5>1. Top.stage # 0 => Top.stage + 1 > 1 /\ (Top.stage + 1) - 1 = Top.stage
          BY <1>3
        <5> QED BY <1>6, <2>6, <4>1, <4>2, <5>1
      <4>4. Top.stage = 0 => Upto <= Upto'
        BY <1>5, <1>6, <2>6, <4>1, <4>2
      <4> QED BY <1>5, <1>6, <2>7, <4>1, <4>2, <4>3, <4>4
    <3>2. CASE Top.stage = Len(Kids[N]) /\ Return
      <4>1. Upto' = LastIn[N] + 1
        BY <1>1, <1>2, <1>3, <3>2, ReturnUpto
      <4> QED BY <1>5, <2>7, <4>1
    <3> QED BY <2>4, <3>1, <3>2
  <2>9. ASSUME NEW a \in Upto..(Upto' - 1) PROVE Kind[a] # "assign"
    <3>1. a \in N..LastIn[N]
      BY <1>5, <2>7, <2>8, Between
    <3>2. Kind[a] \in PureKinds
      BY <1>3, <2>1, <3>1, PureTree
    <3> QED BY <3>2 DEF PureKinds
  <2>10. Skips(Upto, Upto')
    BY <2>7, <2>8, <2>9 DEF Skips
  <2> QED BY <1>2, <2>1, <2>10
<1> QED BY <1>1, <1>8, <1>9, <1>10, <1>11

LEMMA PopulateDeclares ==
  ASSUME MachineOK, EntriesOK, Populate, DeclaredOK
  PROVE  DeclaredOK'
<1>1. phase = "populate" /\ phase' = "populate" /\ UNCHANGED root
  BY DEF Populate, PopulateStep
<1>2. stk # << >> /\ DOMAIN table = Declared(root, Upto)
  BY <1>1, PopulateMoves DEF DeclaredOK
<1>3. /\ root \in Root /\ InTree(root, N) /\ ScopeIs(Top.scope, root, N) /\ Kind[root] = "block"
  BY <1>2, TopInTree
<1>4. CASE UNCHANGED table /\ Skips(Upto, Upto')
  <2>1. Declared(root, Upto') = Declared(root, Upto)
    BY <1>4, DeclaredSame DEF Skips
  <2> QED BY <1>1, <1>2, <1>4, <2>1 DEF DeclaredOK
<1>5. CASE /\ Kind[N] = "assign" /\ Upto = N /\ Upto' = N + 1
           /\ IF Known(Var[N]) THEN UNCHANGED table
              ELSE Put(nested[Len(nested)], Var[N], Entry(RightSide, Undet, FALSE))
  <2>1. nested = Top.scope /\ N # root /\ ScopeIs(nested, root, N)
    BY <1>2, <1>3, <1>5, ScopeOfTop
  <2>2. nested[Len(nested)] = Home(root, N)
    BY <1>3, <2>1, LastHome
  <2>3. UptoIn(root, N) /\ N <= LastIn[root]
    BY <1>3, UptoOf, AroundFacts
  <2>4. Nearest(nested, Var[N], FALSE) = 0 <=> Having(root, N, Var[N], DOMAIN table) = {}
    <3>1. InTree(root, N) /\ ScopeIs(nested, root, N)
      BY <1>3, <2>1
    <3> QED BY <3>1, NearestEntry
  <2> DEFINE H == Having(root, N, Var[N], DOMAIN table)
             p == Nearest(nested, Var[N], FALSE)
  <2>5. /\ p # 0 => LookupIn(nested, Var[N], FALSE) = table[Owner(root, N, Var[N], DOMAIN table)]
        /\ p # 0 => Owner(root, N, Var[N], DOMAIN table) \in DOMAIN table
    <3>1. PICK r, n, x, scope : r = root /\ n = N /\ x = Var[N] /\ scope = nested
      OBVIOUS
    <3>2. InTree(r, n) /\ ScopeIs(scope, r, n)
      BY <1>3, <2>1, <3>1
    <3>3. /\ Nearest(scope, x, FALSE) # 0 => LookupIn(scope, x, FALSE) = table[Owner(r, n, x, DOMAIN table)]
          /\ Nearest(scope, x, FALSE) # 0 => Owner(r, n, x, DOMAIN table) \in DOMAIN table
      BY <3>2, NearestEntry
    <3> QED BY <3>1, <3>3, Zenon
  <2>6. Known(Var[N]) <=> H # {}
    <3>1. p = 0 => Lookup(Var[N], FALSE) = Absent
      BY DEF Lookup, LookupIn
    <3>2. Absent.ptr = Null /\ Null.kind = "null"
      BY DEF Absent, Entry, Null
    <3>3. ASSUME p # 0 PROVE Lookup(Var[N], FALSE).ptr.kind # "null"
      BY <2>5, <3>3 DEF Lookup, EntriesOK
    <3>4. p = 0 <=> H = {}
      BY <2>4
    <3> HIDE DEF p, H
    <3> QED BY <3>1, <3>2, <3>3, <3>4 DEF Known
  <2>7. Known(Var[N]) <=> ~Declares(root, N)
    BY <1>2, <1>5, <2>3, <2>6, KnownBefore
  <2>8. Declared(root, N + 1) = IF Declares(root, N) THEN Declared(root, N) \cup {<<Home(root, N), Var[N]>>}
                                ELSE Declared(root, N)
    BY <2>3, DeclaredNext
  <2>9. CASE Known(Var[N])
    BY <1>1, <1>2, <1>5, <2>7, <2>8, <2>9 DEF DeclaredOK
  <2>10. CASE ~Known(Var[N])
    <3>1. DOMAIN table' = DOMAIN table \cup {<<Home(root, N), Var[N]>>}
      BY <1>5, <2>2, <2>10 DEF Put
    <3> QED BY <1>1, <1>2, <1>5, <2>7, <2>8, <2>10, <3>1 DEF DeclaredOK
  <2> QED BY <2>9, <2>10
<1> QED BY <1>4, <1>5, PopulateMoves

LEMMA InitDeclares ==
  ASSUME Init
  PROVE  DeclaredOK
<1>1. /\ root \in Root /\ phase = "populate" /\ table = << >> /\ stk = <<Frame(root, FALSE, << >>)>>
  BY DEF Init
<1>2. root \in Node /\ root \in Nat
  BY <1>1, RootFacts, NodeFacts
<1>3. stk # << >> /\ Top = Frame(root, FALSE, << >>)
  BY <1>1 DEF Top
<1>4. Upto = root
  <2>1. Top.stage = 0 /\ Top.n = root
    BY <1>3 DEF Frame
  <2> QED BY <1>3, <2>1 DEF Upto, Reached
<1>5. Declared(root, root) = {}
  BY <1>2 DEF Declared
<1>6. DOMAIN table = {}
  BY <1>1
<1> QED BY <1>1, <1>4, <1>5, <1>6 DEF DeclaredOK

LEMMA NeverPopulatesAgain ==
  ASSUME MachineOK, [Next]_vars
  PROVE  /\ UNCHANGED root
         /\ phase # "populate" => phase' # "populate"
<1>1. CASE Populate
  BY <1>1 DEF Populate, PopulateStep
<1>2. CASE Check
  <2>1. UNCHANGED root /\ phase = "check"
    BY <1>2 DEF Check, CheckStep
  <2>2. /\ Reject => phase' = "stopped"
        /\ Checked => phase' = phase
        /\ \A k, v : CheckChild(k, v) => phase' = phase
        /\ \A ty : Conclude(ty) => phase' \in {phase, "stopped"}
    BY DEF Reject, Checked, CheckChild, Conclude
  <2>3. phase' \in {"check", "stopped"}
    BY <1>2, <2>1, <2>2 DEF Check, CheckStep, CheckLeaf, CheckUnary, CheckBinary, CheckEquals,
                            CheckAssign, CheckIf, CheckBlock
  <2> QED BY <2>1, <2>3
<1>3. CASE Eval
  <2>1. UNCHANGED root /\ phase = "eval"
    BY <1>3 DEF Eval, EvalStep
  <2>2. phase' \in {"eval", "ready", "stopped"}
    BY <1>3, <2>1, EvaluatorHolds, EvalShapes DEF EvalShape
  <2> QED BY <2>1, <2>2
<1>4. CASE StartCheck \/ EndCheck \/ Evaluate \/ EndEvaluate
  BY <1>4 DEF StartCheck, EndCheck, Evaluate, EndEvaluate
<1>5. CASE UNCHANGED vars
  BY <1>5 DEF vars
<1> QED BY <1>1, <1>2, <1>3, <1>4, <1>5 DEF Next

LEMMA DeclaredInductive ==
  ASSUME IInv, DeclaredOK, [Next]_vars
  PROVE  DeclaredOK'
<1>1. MachineOK /\ TablesOK /\ EntriesOK
  BY DEF IInv, TablesOK
<1>2. Advances \/ UNCHANGED vars
  BY <1>1, TablesInductive
<1>3. UNCHANGED root /\ (phase # "populate" => phase' # "populate")
  BY <1>1, NeverPopulatesAgain
<1>4. CASE UNCHANGED vars
  BY <1>4 DEF vars, DeclaredOK, Upto, Reached, Called, Top
<1>5. CASE Populate
  BY <1>1, <1>5, PopulateDeclares
<1>6. CASE StartCheck
  <2>1. phase = "populate" /\ phase' = "check" /\ stk = << >> /\ UNCHANGED table
    BY <1>6 DEF StartCheck
  <2>2. Upto = LastIn[root] + 1
    BY <2>1 DEF Upto
  <2> QED BY <1>3, <2>1, <2>2 DEF DeclaredOK, Declarations
<1>7. CASE phase # "populate" /\ Advances
  <2>1. DOMAIN table' = DOMAIN table
    BY <1>7 DEF Advances
  <2> QED BY <1>3, <1>7, <2>1 DEF DeclaredOK
<1>8. Next => Populate \/ StartCheck \/ phase # "populate"
  BY DEF Next, Check, CheckStep, EndCheck, Evaluate, Eval, EvalStep, EndEvaluate
<1> QED BY <1>2, <1>4, <1>5, <1>6, <1>7, <1>8

(***************************************************************************)
(* populate_symbol_table (populate_symbol_table.cpp) enters the names that *)
(* the text declares so far, each in the block of its textually first      *)
(* assignment, at every moment of the pass.                                *)
(***************************************************************************)
THEOREM DeclaresAsWritten == Spec => []DeclaredOK
<1>1. Init => DeclaredOK
  BY InitDeclares
<1>2. IInv /\ DeclaredOK /\ [Next]_vars => DeclaredOK'
  BY DeclaredInductive
<1> QED BY <1>1, <1>2, Inductive, PTL DEF Spec

(***************************************************************************)
(* What it has entered is what the scoping rule says of the whole text,    *)
(* and the type checker and every evaluation leave it so.                  *)
(***************************************************************************)
THEOREM EnteredTheDeclared == Spec => []EntersTheDeclared
<1>1. DeclaredOK => EntersTheDeclared
  BY DEF DeclaredOK, EntersTheDeclared
<1> QED BY <1>1, DeclaresAsWritten, PTL

-----------------------------------------------------------------------------
(***************************************************************************)
(* The types of variables, and the operands that fit.                      *)
(***************************************************************************)
LEMMA OwnerIn ==
  ASSUME NEW r, NEW n, InTree(r, n), NEW x, NEW decls, Having(r, n, x, decls) # {}
  PROVE  /\ Owner(r, n, x, decls) \in decls
         /\ Owner(r, n, x, decls) = <<Innermost(Having(r, n, x, decls)), x>>
         /\ Innermost(Having(r, n, x, decls)) \in Around(r, n)
         /\ \A b \in Having(r, n, x, decls) : b <= Innermost(Having(r, n, x, decls))
<1>1. Having(r, n, x, decls) \subseteq Around(r, n)
  BY DEF Having
<1>2. /\ Innermost(Having(r, n, x, decls)) \in Having(r, n, x, decls)
      /\ \A b \in Having(r, n, x, decls) : b <= Innermost(Having(r, n, x, decls))
  BY <1>1, InnermostAround
<1>3. <<Innermost(Having(r, n, x, decls)), x>> \in decls
  BY <1>2 DEF Having
<1> QED BY <1>1, <1>2, <1>3 DEF Owner

\* It is the type that the accessor finds.
LEMMA TypeAtIs ==
  ASSUME EntriesOK, NEW n, InTree(root, n), NEW scope, ScopeIs(scope, root, n)
  PROVE  TypeAt(n) = LookupIn(scope, Var[n], FALSE).type
<1> DEFINE p == Nearest(scope, Var[n], FALSE)
<1>1. /\ p = 0 <=> Having(root, n, Var[n], DOMAIN table) = {}
      /\ p # 0 => LookupIn(scope, Var[n], FALSE) = table[Owner(root, n, Var[n], DOMAIN table)]
  <2>1. PICK r, x : r = root /\ x = Var[n]
    OBVIOUS
  <2>2. InTree(r, n) /\ ScopeIs(scope, r, n)
    BY <2>1
  <2>3. /\ Nearest(scope, x, FALSE) = 0 <=> Having(r, n, x, DOMAIN table) = {}
        /\ Nearest(scope, x, FALSE) # 0 => LookupIn(scope, x, FALSE) = table[Owner(r, n, x, DOMAIN table)]
    BY <2>2, NearestEntry
  <2> QED BY <2>1, <2>3, Zenon
<1>2. CASE p = 0
  <2>1. LookupIn(scope, Var[n], FALSE) = Absent
    BY <1>2 DEF LookupIn
  <2>2. Absent.type = Undet
    BY DEF Absent, Entry
  <2>3. Having(root, n, Var[n], DOMAIN table) = {}
    BY <1>1, <1>2
  <2> QED BY <2>1, <2>2, <2>3 DEF TypeAt
<1>3. CASE p # 0
  <2>1. Having(root, n, Var[n], DOMAIN table) # {}
    BY <1>1, <1>3
  <2>2. LookupIn(scope, Var[n], FALSE) = table[Owner(root, n, Var[n], DOMAIN table)]
    BY <1>1, <1>3
  <2> QED BY <2>1, <2>2 DEF TypeAt
<1> QED BY <1>2, <1>3

LEMMA TypeAtTypes ==
  ASSUME TypeOK, NEW n, InTree(root, n)
  PROVE  TypeAt(n) \in TableTypes
<1>1. Undet \in TableTypes
  BY DEF TableTypes
<1>2. CASE Having(root, n, Var[n], DOMAIN table) = {}
  BY <1>1, <1>2 DEF TypeAt
<1>3. CASE Having(root, n, Var[n], DOMAIN table) # {}
  <2>1. Owner(root, n, Var[n], DOMAIN table) \in DOMAIN table
    BY <1>3, OwnerIn
  <2>2. table[Owner(root, n, Var[n], DOMAIN table)] \in Entries
    BY <2>1 DEF TypeOK
  <2>3. TypeAt(n) = table[Owner(root, n, Var[n], DOMAIN table)].type
    BY <1>3 DEF TypeAt
  <2> QED BY <2>2, <2>3 DEF Entries
<1> QED BY <1>2, <1>3

\* A step that leaves the names and their types.
SameNames == UNCHANGED root /\ DOMAIN table' = DOMAIN table /\ KeepsTypes

LEMMA TypeAtStays ==
  ASSUME SameNames, NEW n, InTree(root, n), TypeAt(n) # Undet
  PROVE  TypeAt(n)' = TypeAt(n)
<1>1. Having(root, n, Var[n], DOMAIN table) # {}
  BY DEF TypeAt
<1> DEFINE k == Owner(root, n, Var[n], DOMAIN table)
<1>2. k \in DOMAIN table
  BY <1>1, OwnerIn
<1>3. TypeAt(n) = table[k].type
  BY <1>1 DEF TypeAt
<1>4. TypeAt(n)' = table'[k].type
  BY <1>1 DEF TypeAt, SameNames
<1>5. table'[k].type = table[k].type
  BY <1>2, <1>3 DEF SameNames, KeepsTypes
<1> QED BY <1>3, <1>4, <1>5

LEMMA FitsStays ==
  ASSUME SameNames, NEW n, InTree(root, n)
  PROVE  /\ IsNumber(n) => IsNumber(n)'
         /\ IsString(n) => IsString(n)'
         /\ \A ty : Fits(n, ty) => Fits(n, ty)'
<1>1. ASSUME TypeAt(n) \in {IntType, FloatType, StringType} PROVE TypeAt(n)' = TypeAt(n)
  <2>1. TypeAt(n) # Undet
    BY <1>1 DEF IntType, FloatType, StringType, Undet
  <2> QED BY <2>1, TypeAtStays
<1>2. IsNumber(n) => IsNumber(n)'
  BY <1>1 DEF IsNumber
<1>3. IsString(n) => IsString(n)'
  BY <1>1 DEF IsString
<1> QED BY <1>2, <1>3 DEF Fits

LEMMA SoundStays ==
  ASSUME SameNames, NEW n, InTree(root, n), Annotation(n)' = Annotation(n), Sound(n)
  PROVE  Sound(n)'
<1>1. n \in Node
  BY AroundFacts
<1>2. ASSUME NEW k \in DOMAIN Kids[n] PROVE InTree(root, Kids[n][k])
  BY AroundKid
<1>3. ASSUME NEW k \in DOMAIN Kids[n]
      PROVE  /\ IsNumber(Kids[n][k]) => IsNumber(Kids[n][k])'
             /\ \A ty : Fits(Kids[n][k], ty) => Fits(Kids[n][k], ty)'
  BY <1>2, FitsStays
<1>4. (Kind[n] \in UnaryKinds \cup BinaryKinds => \A k \in DOMAIN Kids[n] : IsNumber(Kids[n][k]))'
  BY <1>3 DEF Sound
<1>5. (Kind[n] = "comp_equals" =>
         /\ Annotation(n) \in ValueTypes
         /\ \A k \in DOMAIN Kids[n] : Fits(Kids[n][k], ComparedAs(Annotation(n))))'
  <2> SUFFICES ASSUME Kind[n] = "comp_equals"
               PROVE  /\ Annotation(n)' \in ValueTypes
                      /\ \A k \in DOMAIN Kids[n] : Fits(Kids[n][k], ComparedAs(Annotation(n)))'
    OBVIOUS
  <2>1. /\ Annotation(n) \in ValueTypes
        /\ \A k \in DOMAIN Kids[n] : Fits(Kids[n][k], ComparedAs(Annotation(n)))
    BY DEF Sound
  <2>2. ComparedAs(Annotation(n))' = ComparedAs(Annotation(n))
    BY DEF ComparedAs
  <2>3. ASSUME NEW k \in DOMAIN Kids[n] PROVE Fits(Kids[n][k], ComparedAs(Annotation(n)))'
    <3>1. PICK ty : ty = ComparedAs(Annotation(n))
      OBVIOUS
    <3>2. Fits(Kids[n][k], ty)'
      BY <1>3, <2>1, <3>1
    <3> QED BY <2>2, <3>1, <3>2 DEF Fits
  <2> QED BY <2>1, <2>3
<1>6. ASSUME Kind[n] \in {"if_stmt", "assign"} PROVE 1 \in DOMAIN Kids[n]
  <2>1. Len(Kids[n]) = Arity(Kind[n]) /\ DOMAIN Kids[n] = 1..Len(Kids[n])
    BY <1>1, <1>6, TreeAssumption, NodeFacts
  <2> QED BY <2>1, <1>6, ArityFacts
<1>7. (Kind[n] = "if_stmt" /\ Annotation(n) \in ValueTypes => Fits(Kids[n][1], Annotation(n)))'
  <2> SUFFICES ASSUME Kind[n] = "if_stmt", Annotation(n) \in ValueTypes
               PROVE  Fits(Kids[n][1], Annotation(n))'
    OBVIOUS
  <2>1. PICK ty : ty = Annotation(n)
    OBVIOUS
  <2>2. Fits(Kids[n][1], ty)
    BY <2>1 DEF Sound
  <2>3. Fits(Kids[n][1], ty)'
    BY <1>3, <1>6, <2>2
  <2> QED BY <2>1, <2>3 DEF Fits
<1>8. (Kind[n] = "assign" /\ Acts(n) => TypeAt(n) \in ValueTypes /\ Fits(Kids[n][1], TypeAt(n)))'
  <2> SUFFICES ASSUME Kind[n] = "assign", Acts(n)
               PROVE  TypeAt(n)' \in ValueTypes /\ Fits(Kids[n][1], TypeAt(n))'
    BY DEF Acts
  <2>1. PICK ty : ty = TypeAt(n)
    OBVIOUS
  <2>2. ty \in ValueTypes /\ Fits(Kids[n][1], ty)
    BY <2>1 DEF Sound
  <2>3. TypeAt(n)' = ty
    <3>1. ty # Undet
      BY <2>2 DEF ValueTypes, IntType, FloatType, StringType, Undet
    <3> QED BY <2>1, <3>1, TypeAtStays
  <2>4. Fits(Kids[n][1], ty)'
    BY <1>3, <1>6, <2>2
  <2> QED BY <2>2, <2>3, <2>4 DEF Fits
<1> QED BY <1>4, <1>5, <1>7, <1>8 DEF Sound

-----------------------------------------------------------------------------
(***************************************************************************)
(* The type checker's calls.                                               *)
(***************************************************************************)
SoundsKept == \A n \in root..LastIn[root] : Sound(n) => Sound(n)'

LEMMA SoundsStay ==
  ASSUME SameNames, root \in Node, NEW m, \A n \in Node : n # m => Annotation(n)' = Annotation(n),
         Annotation(m)' = Annotation(m) \/ Sound(m)'
  PROVE  SoundsKept
<1> SUFFICES ASSUME NEW n \in root..LastIn[root], Sound(n) PROVE Sound(n)'
  BY DEF SoundsKept
<1>1. InTree(root, n) /\ n \in Node
  BY NodeFacts DEF InTree
<1> QED BY <1>1, SoundStays

LEMMA CallStays ==
  ASSUME SameNames, SoundsKept, checked \subseteq checked', NEW f \in Frames, InTree(root, f.n),
         NEW done, CallTyped(f, done)
  PROVE  CallTyped(f, done)'
<1>1. CheckedNodes \subseteq CheckedNodes'
  BY DEF CheckedNodes
<1>2. (\A k \in 1..done : Kids[f.n][k] \in CheckedNodes)'
  BY <1>1 DEF CallTyped
<1>3. (Kind[f.n] \in BinaryKinds \cup {"comp_equals"} /\ f.stage = 2 =>
         f.local \in TableTypes /\ (f.local \in ValueTypes => Fits(Kids[f.n][1], f.local)))'
  <2> SUFFICES ASSUME Kind[f.n] \in BinaryKinds \cup {"comp_equals"}, f.stage = 2
               PROVE  f.local \in TableTypes /\ (f.local \in ValueTypes => Fits(Kids[f.n][1], f.local)')
    OBVIOUS
  <2>1. f.local \in TableTypes /\ (f.local \in ValueTypes => Fits(Kids[f.n][1], f.local))
    BY DEF CallTyped
  <2>2. 1 \in DOMAIN Kids[f.n]
    <3>1. f.n \in Node /\ Kind[f.n] # "block" /\ Arity(Kind[f.n]) = 2
      BY ArityFacts, AroundFacts
    <3>2. Len(Kids[f.n]) = 2 /\ DOMAIN Kids[f.n] = 1..Len(Kids[f.n])
      BY <3>1, TreeAssumption, NodeFacts
    <3> QED BY <3>2
  <2>3. InTree(root, Kids[f.n][1])
    BY <2>2, AroundKid
  <2> QED BY <2>1, <2>3, FitsStays
<1>4. (Kind[f.n] = "if_stmt" /\ f.stage = 2 => Sound(f.n))'
  <2>1. f.n \in root..LastIn[root]
    BY DEF InTree
  <2> QED BY <2>1 DEF CallTyped, SoundsKept
<1> QED BY <1>2, <1>3, <1>4 DEF CallTyped

CallAt(frames, i, f, done) ==
  f = frames[i] /\ done = IF i = Len(frames) THEN Called(f) ELSE Called(f) - 1

LEMMA CallsNow ==
  ASSUME NEW i \in 1..Len(stk), CallsOK, NEW f, NEW done, CallAt(stk, i, f, done)
  PROVE  CallTyped(f, done)
BY DEF CallsOK, CallAt

LEMMA CallsNext ==
  ASSUME \A i \in 1..Len(stk') : \A f, done : CallAt(stk, i, f, done)' => CallTyped(f, done)'
  PROVE  CallsOK'
<1> SUFFICES ASSUME NEW i \in 1..Len(stk')
             PROVE  CallTyped(stk[i], IF i = Len(stk) THEN Called(stk[i]) ELSE Called(stk[i]) - 1)'
  BY DEF CallsOK
<1>1. PICK f, done : f = stk'[i] /\ done = IF i = Len(stk') THEN Called(stk[i])' ELSE Called(stk[i])' - 1
  OBVIOUS
<1>2. Called(f)' = Called(stk[i])'
  BY <1>1 DEF Called
<1>3. CallTyped(f, done)'
  BY <1>1, <1>2 DEF CallAt
<1> QED BY <1>1, <1>3 DEF CallTyped

\* A call on the stack is one of a node of the tree.
LEMMA CallInTree ==
  ASSUME MachineOK, NEW i \in 1..Len(stk)
  PROVE  /\ stk[i] \in Frames /\ stk[i].n \in Node /\ stk[i].stage \in Nat /\ stk[i].local \in Int
         /\ InTree(root, stk[i].n) /\ ScopeIs(stk[i].scope, root, stk[i].n)
<1>1. stk \in Seq(Frames) /\ PathOK /\ root \in Root
  BY DEF MachineOK, TypeOK
<1>2. stk[i] \in Frames
  BY <1>1
<1>3. stk[i].n \in Node /\ stk[i].stage \in Nat /\ stk[i].local \in Int
  BY <1>2 DEF Frames
<1> QED BY <1>1, <1>2, <1>3, ScopesAround

\* What is called when the call on top calls or returns.
LEMMA CalledFacts ==
  ASSUME phase = "check", UNCHANGED phase, NEW f
  PROVE  /\ Called(f)' = Called(f)
         /\ Called(f) = IF Kind[f.n] = "block" THEN f.stage - 1 ELSE f.stage
BY DEF Called

\* The calls below the one on top stay as they are.
LEMMA BelowStays ==
  ASSUME MachineOK, stk # << >>, CallsOK, SameNames, SoundsKept, checked \subseteq checked',
         phase = "check", UNCHANGED phase,
         NEW i \in 1..(Len(stk) - 1), NEW f, f = stk[i], NEW done, done = Called(f) - 1
  PROVE  f \in Frames /\ InTree(root, f.n) /\ CallTyped(f, done) /\ CallTyped(f, done)'
<1>1. stk \in Seq(Frames)
  BY DEF MachineOK, TypeOK
<1>2. i \in 1..Len(stk) /\ i # Len(stk)
  BY <1>1
<1>3. f \in Frames /\ InTree(root, f.n)
  BY <1>2, CallInTree
<1>4. CallTyped(f, done)
  BY <1>2, CallsNow DEF CallAt
<1> QED BY <1>3, <1>4, CallStays

\* A call of the next child.
LEMMA TypedCall ==
  ASSUME MachineOK, stk # << >>, CallsOK, CurrFits, SameNames, SoundsKept, UNCHANGED <<checked, curr>>,
         phase = "check", UNCHANGED phase,
         NEW k \in DOMAIN Kids[N], k = Called(Top) + 1, NEW v \in Int, Call(k, v, FALSE),
         Kind[N] \in BinaryKinds \cup {"comp_equals"} /\ k = 2 => v = curr,
         NEW n, n = N, Kind[N] = "if_stmt" /\ k = 2 => Sound(n)'
  PROVE  CallsOK' /\ CurrFits'
<1>1. stk \in Seq(Frames) /\ nested \in Seq(Node) /\ curr \in TableTypes /\ FALSE \in BOOLEAN
  BY DEF MachineOK, TypeOK
<1>2. Len(stk) \in Nat /\ Len(stk) > 0 /\ Top = stk[Len(stk)] /\ Top \in Frames
  BY <1>1, TopFacts DEF Top
<1>3. /\ stk' \in Seq(Frames) /\ Len(stk') = Len(stk) + 1
      /\ \A i \in 1..(Len(stk) - 1) : stk'[i] = stk[i]
      /\ stk'[Len(stk)] = Later(Top.stage + 1, v)
      /\ stk'[Len(stk) + 1] = Frame(Kids[N][k], FALSE, nested)
  BY <1>1, CallFacts
<1>4. /\ InTree(root, N) /\ N \in Node /\ Top.stage \in Nat
  BY TopInTree
<1>5. checked \subseteq checked'
  OBVIOUS
<1>6. ASSUME NEW f, f = Later(Top.stage + 1, v) PROVE CallTyped(f, k - 1)'
  <2>1. f.n = N /\ f.stage = Top.stage + 1 /\ f.local = v
    BY <1>6, LaterFacts
  <2>2. PICK g : g = Top
    OBVIOUS
  <2>3. Called(g) = k - 1 /\ Called(g) \in Int
    <3>1. Called(g) \in Int
      BY <1>4, <2>2, CalledFacts
    <3> QED BY <3>1, <2>2
  <2>4. CallTyped(g, k - 1)
    <3>1. PICK i, done : i = Len(stk) /\ done = k - 1
      OBVIOUS
    <3>2. i \in 1..Len(stk)
      BY <1>2, <3>1
    <3>3. CallAt(stk, i, g, done)
      BY <1>2, <2>2, <2>3, <3>1 DEF CallAt
    <3> QED BY <3>1, <3>2, <3>3, CallsNow
  <2>5. (\A j \in 1..(k - 1) : Kids[f.n][j] \in CheckedNodes)'
    BY <2>1, <2>2, <2>4 DEF CallTyped, CheckedNodes, N
  <2>6. ASSUME Kind[f.n] \in BinaryKinds \cup {"comp_equals"}, f.stage = 2
        PROVE  f.local \in TableTypes /\ (f.local \in ValueTypes => Fits(Kids[f.n][1], f.local)')
    <3>1. Kind[N] \in PureKinds /\ Kind[N] # "block" /\ Arity(Kind[N]) = 2
      BY <2>1, <2>6, ArityFacts DEF PureKinds, ExprKinds, BinaryKinds
    <3>2. Called(Top) = 1 /\ k = 2
      BY <1>4, <2>1, <2>2, <2>3, <2>6, <3>1, CalledFacts DEF N
    <3>3. v = curr
      BY <2>1, <2>6, <3>2
    <3>4. 1 \in DOMAIN Kids[N]
      BY <1>1, <3>1, KidFacts
    <3>5. Kind[Kids[N][1]] \in PureKinds
      <4>1. Kind[Kids[N][1]] \in ExprKinds /\ Kind[N] # "assign" /\ Kind[N] # "if_stmt"
        BY <1>1, <3>1, <3>4, <2>1, <2>6, KidFacts DEF PureKinds, BinaryKinds
      <4>2. Kind[Kids[N][1]] # "assign"
        BY <1>4, <3>1, <3>4, <4>1, PlainAssumption
      <4> QED BY <4>1, <4>2 DEF PureKinds
    <3>6. curr \in ValueTypes => Fits(Kids[N][1], curr)
      BY <3>2, <3>5 DEF CurrFits, Kid
    <3>7. InTree(root, Kids[N][1])
      BY <1>4, <3>4, AroundKid
    <3>8. v \in ValueTypes => Fits(Kids[f.n][1], v)'
      BY <2>1, <3>3, <3>6, <3>7, FitsStays
    <3> QED BY <1>1, <2>1, <3>3, <3>8
  <2>7. ASSUME Kind[f.n] = "if_stmt", f.stage = 2 PROVE Sound(f.n)'
    <3>1. Called(Top) = 1
      BY <1>4, <2>1, <2>2, <2>7, CalledFacts DEF N
    <3>2. f.n = n
      BY <2>1
    <3> QED BY <2>1, <2>7, <3>1, <3>2
  <2> QED BY <2>5, <2>6, <2>7 DEF CallTyped
<1>7. ASSUME NEW f, f = Frame(Kids[N][k], FALSE, nested), NEW done, done = Called(f)'
      PROVE  CallTyped(f, done)'
  <2>1. f.stage = 0
    BY <1>7 DEF Frame
  <2>2. done \in {0, -1}
    <3>1. Called(f)' = IF Kind[f.n] = "block" THEN f.stage - 1 ELSE f.stage
      BY CalledFacts
    <3>2. CASE Kind[f.n] = "block"
      <4>1. Called(f)' = f.stage - 1
        BY <3>1, <3>2
      <4>2. f.stage - 1 = -1
        BY <2>1
      <4>3. done = -1
        BY <1>7, <4>1, <4>2, Zenon
      <4> QED BY <4>3
    <3>3. CASE Kind[f.n] # "block"
      <4>1. Called(f)' = f.stage
        BY <3>1, <3>3
      <4> QED BY <1>7, <2>1, <4>1
    <3> QED BY <3>2, <3>3
  <2> QED BY <2>1, <2>2 DEF CallTyped
<1>8. ASSUME NEW i \in 1..Len(stk'), NEW f, NEW done, CallAt(stk, i, f, done)' PROVE CallTyped(f, done)'
  <2>1. f = stk'[i] /\ done = IF i = Len(stk') THEN Called(f)' ELSE Called(f)' - 1
    BY <1>8 DEF CallAt
  <2>2. CASE i \in 1..(Len(stk) - 1)
    <3>1. f = stk[i] /\ done = Called(f) - 1
      BY <2>1, <2>2, <1>2, <1>3, CalledFacts
    <3> QED BY <1>5, <2>2, <3>1, BelowStays
  <2>3. CASE i = Len(stk)
    <3>1. f = Later(Top.stage + 1, v)
      BY <1>3, <2>1, <2>3
    <3>2. f.n = N /\ f.stage = Top.stage + 1
      BY <3>1, LaterFacts
    <3>3. Called(f)' = k
      <4>1. Called(f)' = IF Kind[f.n] = "block" THEN f.stage - 1 ELSE f.stage
        BY CalledFacts
      <4>2. Called(Top) = IF Kind[Top.n] = "block" THEN Top.stage - 1 ELSE Top.stage
        BY DEF Called
      <4> QED BY <1>4, <3>2, <4>1, <4>2 DEF N
    <3>4. done = k - 1
      BY <1>2, <1>3, <2>1, <2>3, <3>3
    <3> QED BY <1>6, <3>1, <3>4
  <2>4. CASE i = Len(stk) + 1
    BY <1>3, <1>7, <2>1, <2>4
  <2> QED BY <1>2, <1>3, <2>2, <2>3, <2>4
<1>9. CallsOK'
  BY <1>8, CallsNext
<1>10. CurrFits'
  <2>1. Top' = Frame(Kids[N][k], FALSE, nested)
    BY <1>2, <1>3 DEF Top
  <2>2. Top'.stage = 0
    BY <2>1 DEF Frame
  <2>3. Called(Top)' = IF Kind[Top'.n] = "block" THEN Top'.stage - 1 ELSE Top'.stage
    BY DEF Called
  <2>4. ~(Called(Top)' > 0)
    BY <2>2, <2>3
  <2> QED BY <2>4 DEF CurrFits
<1> QED BY <1>9, <1>10

\* A block enters its scope.
LEMMA TypedEnter ==
  ASSUME MachineOK, stk # << >>, CallsOK, SameNames, SoundsKept, UNCHANGED checked,
         phase = "check", UNCHANGED phase, NEW v \in Int, EnterScope(v)
  PROVE  CallsOK' /\ CurrFits'
<1>1. stk \in Seq(Frames) /\ Kind[N] = "block" /\ Goto(1, v)
  BY DEF MachineOK, TypeOK, EnterScope, Running
<1>2. Len(stk) \in Nat /\ Len(stk) > 0
  BY <1>1, TopFacts
<1>3. /\ stk' \in Seq(Frames) /\ Len(stk') = Len(stk)
      /\ \A i \in 1..(Len(stk) - 1) : stk'[i] = stk[i]
      /\ stk'[Len(stk)] = Later(1, v)
  BY <1>1, GotoFacts
<1>4. /\ Later(1, v).n = N /\ Later(1, v).stage = 1
  BY LaterFacts
<1>5. ASSUME NEW f, f = Later(1, v) PROVE Called(f)' = 0
  BY <1>1, <1>4, <1>5 DEF Called
<1>6. ASSUME NEW i \in 1..Len(stk'), NEW f, NEW done, CallAt(stk, i, f, done)' PROVE CallTyped(f, done)'
  <2>1. f = stk'[i] /\ done = IF i = Len(stk') THEN Called(f)' ELSE Called(f)' - 1
    BY <1>6 DEF CallAt
  <2>2. CASE i \in 1..(Len(stk) - 1)
    <3>1. f = stk[i] /\ done = Called(f) - 1
      BY <2>1, <2>2, <1>2, <1>3, CalledFacts
    <3>2. checked \subseteq checked'
      OBVIOUS
    <3> QED BY <3>2, <2>2, <3>1, BelowStays
  <2>3. CASE i = Len(stk)
    <3>1. f = Later(1, v) /\ done = 0 /\ f.n = N
      BY <1>3, <1>4, <1>5, <2>1, <2>3
    <3>2. Kind[f.n] \notin BinaryKinds \cup {"comp_equals"} /\ Kind[f.n] # "if_stmt"
      BY <1>1, <3>1 DEF BinaryKinds
    <3> QED BY <3>1, <3>2 DEF CallTyped
  <2> QED BY <1>2, <1>3, <2>2, <2>3
<1>7. CallsOK'
  BY <1>6, CallsNext
<1>8. CurrFits'
  <2>1. Top' = Later(1, v)
    BY <1>2, <1>3 DEF Top
  <2>2. Called(Top)' = 0
    BY <1>1, <1>4, <2>1 DEF Called
  <2>3. ~(Called(Top)' > 0)
    BY <2>2
  <2> QED BY <2>3 DEF CurrFits
<1> QED BY <1>7, <1>8

\* A call returns to the one below it.
LEMMA TypedReturn ==
  ASSUME MachineOK, stk # << >>, CallsOK, SameNames, SoundsKept, Return,
         checked' = checked \cup {<<N, Top.scope>>}, phase = "check", UNCHANGED phase,
         NEW n, n = N, curr' \in ValueTypes /\ Kind[n] \in PureKinds => Fits(n, curr)'
  PROVE  CallsOK' /\ CurrFits'
<1>1. stk \in Seq(Frames) /\ PathOK
  BY DEF MachineOK, TypeOK
<1>2. Len(stk) \in Nat /\ Len(stk) > 0 /\ Top = stk[Len(stk)] /\ N = Top.n
  BY <1>1, TopFacts DEF Top, N
<1>3. stk' \in Seq(Frames) /\ Len(stk') = Len(stk) - 1 /\ \A i \in 1..(Len(stk) - 1) : stk'[i] = stk[i]
  BY <1>1, ReturnFacts
<1>4. checked \subseteq checked' /\ n \in CheckedNodes'
  <2>1. <<N, Top.scope>>[1] = N
    OBVIOUS
  <2> QED BY <2>1 DEF CheckedNodes
<1>5. ASSUME NEW f, stk' # << >>, f = stk[Len(stk) - 1]
      PROVE  /\ f \in Frames /\ Called(f) \in Nat /\ Called(f) > 0 /\ Kids[f.n][Called(f)] = n
             /\ CallTyped(f, Called(f) - 1)'
  <2>1. Len(stk) \in 2..Len(stk) /\ Len(stk) - 1 \in 1..(Len(stk) - 1)
    BY <1>2, <1>3, <1>5
  <2>2. Calls(f, stk[Len(stk)])
    BY <1>1, <1>5, <2>1 DEF PathOK
  <2>3. Called(f) \in DOMAIN Kids[f.n] /\ n = Kids[f.n][Called(f)]
    BY <1>2, <2>2 DEF Calls
  <2>4. PICK done : done = Called(f) - 1
    OBVIOUS
  <2>5. f \in Frames /\ CallTyped(f, done)'
    BY <1>4, <1>5, <2>1, <2>4, BelowStays
  <2>6. f.n \in Node
    BY <2>5 DEF Frames
  <2>7. Called(f) \in Nat /\ Called(f) > 0
    BY <2>3, <2>6, NodeFacts
  <2>8. Called(f)' = Called(f)
    BY CalledFacts
  <2> QED BY <2>3, <2>4, <2>5, <2>7, <2>8 DEF CallTyped
<1>6. ASSUME NEW i \in 1..Len(stk'), NEW f, NEW done, CallAt(stk, i, f, done)' PROVE CallTyped(f, done)'
  <2>1. f = stk'[i] /\ done = IF i = Len(stk') THEN Called(f)' ELSE Called(f)' - 1
    BY <1>6 DEF CallAt
  <2>2. i \in 1..(Len(stk) - 1) /\ f = stk[i] /\ Called(f)' = Called(f)
    BY <1>2, <1>3, <2>1, CalledFacts
  <2>3. CASE i # Len(stk')
    <3>1. done = Called(f) - 1
      BY <2>1, <2>2, <2>3
    <3> QED BY <1>4, <2>2, <3>1, BelowStays
  <2>4. CASE i = Len(stk')
    <3>1. stk' # << >> /\ f = stk[Len(stk) - 1] /\ done = Called(f)
      BY <1>2, <1>3, <2>1, <2>2, <2>4
    <3>2. done \in Nat /\ done > 0 /\ Kids[f.n][done] = n /\ CallTyped(f, done - 1)'
      <4>1. /\ Called(f) \in Nat /\ Called(f) > 0 /\ Kids[f.n][Called(f)] = n
            /\ CallTyped(f, Called(f) - 1)'
        BY <1>5, <3>1
      <4> QED BY <2>2, <3>1, <4>1 DEF CallTyped
    <3>3. ASSUME NEW j \in 1..done PROVE Kids[f.n][j] \in CheckedNodes'
      <4>1. CASE j = done
        BY <1>4, <3>2, <4>1
      <4>2. CASE j # done
        <5>1. j \in 1..(done - 1)
          BY <3>2, <4>2
        <5> QED BY <3>2, <5>1 DEF CallTyped
      <4> QED BY <4>1, <4>2
    <3> QED BY <3>2, <3>3 DEF CallTyped
  <2> QED BY <2>3, <2>4
<1>7. CallsOK'
  BY <1>6, CallsNext
<1>8. CurrFits'
  <2> SUFFICES ASSUME stk' # << >>, curr' \in ValueTypes, Kind[Kid(Called(Top))'] \in PureKinds
               PROVE  Fits(Kid(Called(Top)), curr)'
    BY DEF CurrFits
  <2>1. PICK f : f = stk[Len(stk) - 1]
    OBVIOUS
  <2>2. Top' = f
    BY <1>2, <1>3, <2>1 DEF Top
  <2>3. Called(Top)' = Called(f)
    BY <2>2, CalledFacts DEF Called
  <2>4. Kid(Called(Top))' = n
    BY <1>5, <2>1, <2>2, <2>3 DEF Kid, N
  <2> QED BY <2>4 DEF Fits, IsNumber, IsString, TypeAt
<1> QED BY <1>7, <1>8

LEMMA NodesStay ==
  ASSUME NodesOK, SoundsKept, SameNames, UNCHANGED checked
  PROVE  NodesOK'
<1>1. CheckedNodes' = CheckedNodes /\ UNCHANGED root
  BY DEF CheckedNodes, SameNames
<1>2. ASSUME NEW n \in CheckedNodes PROVE Sound(n)'
  BY <1>2 DEF NodesOK, SoundsKept
<1> QED BY <1>1, <1>2 DEF NodesOK

LEMMA NodesReturn ==
  ASSUME NodesOK, SoundsKept, SameNames, checked' = checked \cup {<<N, Top.scope>>},
         NEW n, n = N, n \in root..LastIn[root], Sound(n)',
         \A k \in DOMAIN Kids[n] : Kids[n][k] \in CheckedNodes
  PROVE  NodesOK'
<1>1. CheckedNodes' = CheckedNodes \cup {n} /\ UNCHANGED root
  <2>1. <<N, Top.scope>>[1] = n
    OBVIOUS
  <2> QED BY <2>1 DEF CheckedNodes, SameNames
<1>2. ASSUME NEW m \in CheckedNodes PROVE Sound(m)'
  BY <1>2 DEF NodesOK, SoundsKept
<1> QED BY <1>1, <1>2 DEF NodesOK

\* The children that the call on top has visited.
LEMMA KidsChecked ==
  ASSUME MachineOK, stk # << >>, CallsOK, NEW k \in 1..Called(Top)
  PROVE  Kids[N][k] \in CheckedNodes
<1>1. stk \in Seq(Frames)
  BY DEF MachineOK, TypeOK
<1>2. Len(stk) \in Nat /\ Len(stk) > 0 /\ Top = stk[Len(stk)] /\ N = Top.n
  BY <1>1, TopFacts DEF Top, N
<1>3. PICK i, f, done : i = Len(stk) /\ f = Top /\ done = Called(f)
  OBVIOUS
<1>4. i \in 1..Len(stk)
  BY <1>2, <1>3
<1>5. CallAt(stk, i, f, done)
  BY <1>2, <1>3 DEF CallAt
<1>6. CallTyped(f, done)
  BY <1>4, <1>5, CallsNow
<1> QED BY <1>2, <1>3, <1>6 DEF CallTyped

\* What the call on top has kept, and what it has visited last.
LEMMA TopTyped ==
  ASSUME MachineOK, stk # << >>, CallsOK
  PROVE  /\ Kind[N] \in BinaryKinds \cup {"comp_equals"} /\ Top.stage = 2 =>
              Top.local \in TableTypes /\ (Top.local \in ValueTypes => Fits(Kids[N][1], Top.local))
         /\ Kind[N] = "if_stmt" /\ Top.stage = 2 => Sound(N)
<1>1. stk \in Seq(Frames)
  BY DEF MachineOK, TypeOK
<1>2. Len(stk) \in Nat /\ Len(stk) > 0 /\ Top = stk[Len(stk)] /\ N = Top.n
  BY <1>1, TopFacts DEF Top, N
<1>3. PICK i, f, done : i = Len(stk) /\ f = Top /\ done = Called(f)
  OBVIOUS
<1>4. i \in 1..Len(stk)
  BY <1>2, <1>3
<1>5. CallAt(stk, i, f, done)
  BY <1>2, <1>3 DEF CallAt
<1>6. CallTyped(f, done)
  BY <1>4, <1>5, CallsNow
<1> QED BY <1>2, <1>3, <1>6 DEF CallTyped

Typing == NodesOK /\ CallsOK /\ CurrFits

LEMMA TypingCall ==
  ASSUME MachineOK, stk # << >>, Typing, SameNames, UNCHANGED <<checked, curr>>,
         phase = "check", UNCHANGED phase,
         NEW k \in DOMAIN Kids[N], k = Called(Top) + 1, NEW v \in Int, Call(k, v, FALSE),
         Kind[N] \in BinaryKinds \cup {"comp_equals"} /\ k = 2 => v = curr,
         NEW n, n = N, Kind[N] = "if_stmt" /\ k = 2 => Sound(n)',
         \A m \in Node : m # n => Annotation(m)' = Annotation(m),
         Annotation(n)' = Annotation(n) \/ Sound(n)'
  PROVE  Typing'
<1>1. root \in Node
  BY TopInTree
<1>2. SoundsKept
  BY <1>1, SoundsStay
<1>3. NodesOK'
  BY <1>2, NodesStay DEF Typing
<1>4. CallsOK' /\ CurrFits'
  BY <1>2, TypedCall DEF Typing
<1> QED BY <1>3, <1>4 DEF Typing

LEMMA TypingReturn ==
  ASSUME MachineOK, stk # << >>, Typing, SameNames, Return, checked' = checked \cup {<<N, Top.scope>>},
         phase = "check", UNCHANGED phase, Called(Top) = Len(Kids[N]),
         NEW n, n = N, Sound(n)', \A m \in Node : m # n => Annotation(m)' = Annotation(m),
         curr' \in ValueTypes /\ Kind[n] \in PureKinds => Fits(n, curr)'
  PROVE  Typing'
<1>1. root \in Node /\ InTree(root, N) /\ N \in Node
  BY TopInTree
<1>2. SoundsKept
  BY <1>1, SoundsStay
<1>3. n \in root..LastIn[root]
  BY <1>1 DEF InTree
<1>4. \A k \in DOMAIN Kids[n] : Kids[n][k] \in CheckedNodes
  <2>1. DOMAIN Kids[N] = 1..Len(Kids[N])
    BY <1>1, NodeFacts
  <2> QED BY <2>1, KidsChecked DEF Typing
<1>5. NodesOK'
  BY <1>2, <1>3, <1>4, NodesReturn DEF Typing
<1>6. CallsOK' /\ CurrFits'
  BY <1>2, TypedReturn DEF Typing
<1> QED BY <1>5, <1>6 DEF Typing

\* Operands, conditions and the expressions of assignments are no assignments.
LEMMA PureKids ==
  ASSUME NEW n \in Node, NEW k \in DOMAIN Kids[n],
         Kind[n] \in PureKinds \/ (Kind[n] = "if_stmt" /\ k = 1) \/ (Acts(n) /\ k = 1)
  PROVE  Kind[Kids[n][k]] \in PureKinds
<1>1. CASE Kind[n] \in PureKinds
  <2>1. Kind[Kids[n][k]] \in ExprKinds
    BY <1>1, TreeAssumption DEF PureKinds
  <2>2. Kind[Kids[n][k]] # "assign"
    BY <1>1, PlainAssumption DEF PureKinds, ExprKinds, LeafKinds, UnaryKinds, BinaryKinds
  <2> QED BY <2>1, <2>2 DEF PureKinds
<1>2. CASE Kind[n] = "if_stmt" /\ k = 1
  <2>1. Kind[Kids[n][k]] \in ExprKinds /\ Kind[Kids[n][k]] # "assign"
    BY <1>2, TreeAssumption, PlainAssumption
  <2> QED BY <2>1 DEF PureKinds
<1>3. CASE Acts(n) /\ k = 1 /\ Kind[n] = "assign"
  <2>1. Kind[Kids[n][k]] \in ExprKinds
    BY <1>3, TreeAssumption DEF ExprKinds
  <2> QED BY <1>3, <2>1 DEF Acts, PureKinds
<1> QED BY <1>1, <1>2, <1>3 DEF Acts

LEMMA VisitedFits ==
  ASSUME stk # << >>, CurrFits, Kind[N] # "block", phase = "check", Top.stage > 0,
         NEW k, k = Top.stage, Kind[Kids[N][k]] \in PureKinds, curr \in ValueTypes
  PROVE  Fits(Kids[N][k], curr)
<1>1. Called(Top) = k
  BY DEF Called, N
<1> QED BY <1>1 DEF CurrFits, Kid

LEMMA TypingTop ==
  ASSUME MachineOK, stk # << >>, phase = "check", Kind[N] # "block"
  PROVE  /\ N \in Node /\ InTree(root, N) /\ ScopeIs(Top.scope, root, N) /\ nested = Top.scope
         /\ Called(Top) = Top.stage /\ Top.stage \in Nat
         /\ Len(Kids[N]) = Arity(Kind[N]) /\ DOMAIN Kids[N] = 1..Arity(Kind[N])
         /\ curr \in TableTypes /\ curr \in Int /\ curr \in BoolType..Failed
<1>1. /\ stk \in Seq(Frames) /\ N \in Node /\ InTree(root, N) /\ ScopeIs(Top.scope, root, N) /\ Top.stage \in Nat
  BY TopInTree
<1>2. nested = Top.scope
  BY ScopeOfTop
<1>3. Called(Top) = Top.stage
  BY DEF Called, N
<1>4. Len(Kids[N]) = Arity(Kind[N]) /\ DOMAIN Kids[N] = 1..Arity(Kind[N])
  BY <1>1, TreeAssumption, KidFacts
<1>5. curr \in TableTypes
  BY DEF MachineOK, TypeOK
<1> QED BY <1>1, <1>2, <1>3, <1>4, <1>5, CurrTypes

LEMMA TypingLeaf ==
  ASSUME MachineOK, EntriesOK, Typing, SameNames, phase = "check", CheckLeaf
  PROVE  Typing'
<1>1. /\ stk # << >> /\ Kind[N] \in LeafKinds /\ Top.stage = 0
      /\ Return /\ checked' = checked \cup {<<N, Top.scope>>} /\ UNCHANGED phase
      /\ UNCHANGED anntype
  BY DEF CheckLeaf, Running, Checked
<1>2. Kind[N] # "block" /\ Arity(Kind[N]) = 0
  BY <1>1, ArityFacts
<1>3. /\ InTree(root, N) /\ ScopeIs(Top.scope, root, N) /\ nested = Top.scope
      /\ Called(Top) = Len(Kids[N]) /\ N \in Node
  BY <1>1, <1>2, TypingTop
<1>4. PICK n, ty : n = N /\ ty = curr'
  OBVIOUS
<1>5. Sound(n)'
  BY <1>1, <1>4 DEF Sound, LeafKinds, UnaryKinds, BinaryKinds
<1>6. ASSUME ty \in ValueTypes PROVE Fits(n, ty)
  <2>1. CASE Kind[N] = "variable"
    <3>1. ty = Lookup(Var[N], FALSE).type
      BY <1>4, <2>1 DEF CheckLeaf
    <3>2. ty = TypeAt(N)
      BY <1>3, <3>1, TypeAtIs DEF Lookup
    <3> QED BY <1>4, <1>6, <2>1, <3>2 DEF Fits, IsNumber, IsString, ValueTypes
  <2>2. CASE Kind[N] = "int_constant"
    <3>1. ty = IntType
      BY <1>4, <2>2 DEF CheckLeaf
    <3> QED BY <1>4, <2>2, <3>1 DEF Fits, IsNumber, IntType, StringType
  <2>3. CASE Kind[N] = "float_constant"
    <3>1. ty = FloatType
      BY <1>4, <2>3 DEF CheckLeaf
    <3> QED BY <1>4, <2>3, <3>1 DEF Fits, IsNumber, FloatType, StringType
  <2>4. CASE Kind[N] = "string_constant"
    <3>1. ty = StringType
      BY <1>4, <2>4 DEF CheckLeaf
    <3> QED BY <1>4, <2>4, <3>1 DEF Fits, IsString
  <2> QED BY <1>1, <2>1, <2>2, <2>3, <2>4 DEF LeafKinds
<1>7. curr' \in ValueTypes => Fits(n, curr)'
  <2>1. ty \in ValueTypes => Fits(n, ty)'
    BY <1>3, <1>4, <1>6, FitsStays
  <2> QED BY <1>4, <2>1 DEF Fits
<1>8. \A m \in Node : Annotation(m)' = Annotation(m)
  BY <1>1 DEF Annotation
<1> QED BY <1>1, <1>3, <1>4, <1>5, <1>7, <1>8, TypingReturn

\* A visit of the next child, of an expression or an assignment or an if.
LEMMA TypingChild ==
  ASSUME MachineOK, stk # << >>, Typing, SameNames, phase = "check", Kind[N] # "block",
         NEW k \in 1..Arity(Kind[N]), Top.stage + 1 = k, NEW v \in Int, CheckChild(k, v), UNCHANGED curr,
         Kind[N] \in BinaryKinds \cup {"comp_equals"} /\ k = 2 => v = curr,
         Kind[N] = "if_stmt" => k = 1
  PROVE  Typing'
<1>1. k \in DOMAIN Kids[N] /\ k = Called(Top) + 1
  BY TypingTop
<1>2. Call(k, v, FALSE) /\ UNCHANGED <<checked, curr>> /\ UNCHANGED phase /\ UNCHANGED anntype
  BY DEF CheckChild
<1>3. PICK n : n = N
  OBVIOUS
<1>4. \A m : Annotation(m)' = Annotation(m)
  BY <1>2 DEF Annotation
<1>5. Kind[N] = "if_stmt" /\ k = 2 => Sound(n)'
  OBVIOUS
<1> QED BY <1>1, <1>2, <1>3, <1>4, <1>5, TypingCall

\* The end of an operation, unless it is rejected.
LEMMA TypingConclude ==
  ASSUME MachineOK, stk # << >>, Typing, SameNames, phase = "check", Kind[N] \in PureKinds, IsNumber(N),
         Top.stage = Arity(Kind[N]), NEW ty, ty # StringType, Conclude(ty),
         NEW n, n = N, Sound(n)', \A m \in Node : m # n => Annotation(m)' = Annotation(m)
  PROVE  phase' = "stopped" \/ Typing'
<1>1. CASE ty = Failed
  BY <1>1 DEF Conclude, Reject
<1>2. CASE ty # Failed
  <2>1. curr' = ty /\ Return /\ checked' = checked \cup {<<N, Top.scope>>} /\ UNCHANGED phase
    BY <1>2 DEF Conclude, Checked
  <2>2. Kind[N] # "block"
    BY DEF PureKinds, ExprKinds, LeafKinds, UnaryKinds, BinaryKinds
  <2>3. InTree(root, N) /\ Called(Top) = Len(Kids[N])
    BY <2>2, TypingTop
  <2>4. Fits(n, ty)
    BY DEF Fits
  <2>5. Fits(n, ty)'
    BY <2>3, <2>4, FitsStays
  <2>6. Fits(n, curr)'
    BY <2>1, <2>5 DEF Fits
  <2> QED BY <2>1, <2>3, <2>6, TypingReturn
<1> QED BY <1>1, <1>2

\* What propagate accepts are numbers.
LEMMA PropagateNumbers ==
  ASSUME NEW l \in TableTypes, NEW r \in TableTypes, NEW least \in {BoolType, IntType},
         Propagate(l, r, least) # Failed
  PROVE  /\ l \in {IntType, FloatType} /\ r \in {IntType, FloatType}
         /\ Propagate(l, r, least) \in {IntType, FloatType}
BY DEF Propagate, TableTypes, BoolType, IntType, FloatType, StringType, Undet, Failed

LEMMA NumberFits ==
  ASSUME NEW n, NEW ty \in {IntType, FloatType}, Fits(n, ty)
  PROVE  IsNumber(n)
BY DEF Fits, IntType, FloatType, StringType

LEMMA TypingUnary ==
  ASSUME MachineOK, Typing, SameNames, phase = "check", CheckUnary
  PROVE  phase' = "stopped" \/ Typing'
<1>1. stk # << >> /\ Kind[N] \in UnaryKinds
  BY DEF CheckUnary, Running
<1>2. Kind[N] # "block" /\ Arity(Kind[N]) = 1 /\ Kind[N] \in PureKinds /\ IsNumber(N)
  BY <1>1, ArityFacts DEF PureKinds, ExprKinds, UnaryKinds, IsNumber
<1>3. /\ N \in Node /\ InTree(root, N) /\ DOMAIN Kids[N] = 1..Arity(Kind[N]) /\ Top.stage \in Nat
      /\ curr \in TableTypes /\ 0 \in Int /\ 1 \in DOMAIN Kids[N]
  BY <1>1, <1>2, TypingTop
<1>4. CASE Top.stage = 0 /\ CheckChild(1, 0) /\ UNCHANGED curr
  <2>1. Kind[N] \notin BinaryKinds \cup {"comp_equals"}
    BY <1>1 DEF UnaryKinds, BinaryKinds
  <2> QED BY <1>1, <1>2, <1>3, <1>4, <2>1, TypingChild
<1>5. CASE Top.stage = 1 /\ Conclude(Propagate(curr, BoolType, BoolType)) /\ UNCHANGED anntype
  <2>1. PICK ty : ty = Propagate(curr, BoolType, BoolType)
    OBVIOUS
  <2>2. ty # StringType
    BY <1>3, <2>1 DEF Propagate, TableTypes, BoolType, IntType, FloatType, StringType, Undet, Failed
  <2>3. CASE ty = Failed
    BY <1>5, <2>1, <2>3 DEF Conclude, Reject
  <2>4. CASE ty # Failed
    <3>1. curr \in {IntType, FloatType} \/ curr = BoolType
      BY <1>3, <2>1, <2>4 DEF Propagate, TableTypes, BoolType, IntType, FloatType, StringType, Undet, Failed
    <3>2. curr \in {IntType, FloatType} /\ curr \in ValueTypes
      BY <1>3, <3>1 DEF TableTypes, ValueTypes, BoolType, IntType, FloatType, StringType, Undet
    <3>3. Kind[Kids[N][1]] \in PureKinds
      BY <1>2, <1>3, PureKids
    <3>4. Fits(Kids[N][1], curr)
      BY <1>1, <1>2, <1>5, <3>2, <3>3, VisitedFits DEF Typing
    <3>5. IsNumber(Kids[N][1])
      BY <3>2, <3>4, NumberFits
    <3>6. PICK n : n = N
      OBVIOUS
    <3>7. IsNumber(Kids[n][1])'
      <4>1. InTree(root, Kids[N][1])
        BY <1>3, AroundKid
      <4> QED BY <3>5, <3>6, <4>1, FitsStays
    <3>8. Sound(n)'
      <4>1. \A k \in DOMAIN Kids[n] : k = 1
        BY <1>2, <1>3, <3>6
      <4> QED BY <1>1, <3>6, <3>7, <4>1 DEF Sound, UnaryKinds
    <3>9. \A m : Annotation(m)' = Annotation(m)
      BY <1>5 DEF Annotation
    <3> QED BY <1>1, <1>2, <1>5, <2>1, <2>2, <3>6, <3>8, <3>9, TypingConclude
  <2> QED BY <2>3, <2>4
<1> QED BY <1>4, <1>5 DEF CheckUnary, Running

\* Both operands of an operation or a comparison.
LEMMA OperandsFit ==
  ASSUME MachineOK, stk # << >>, Typing, SameNames, phase = "check",
         Kind[N] \in BinaryKinds \cup {"comp_equals"}, Top.stage = 2
  PROVE  /\ Kind[N] # "block" /\ Arity(Kind[N]) = 2 /\ Kind[N] \in PureKinds /\ IsNumber(N)
         /\ N \in Node /\ InTree(root, N) /\ DOMAIN Kids[N] = {1, 2}
         /\ curr \in TableTypes /\ Top.local \in TableTypes
         /\ Top.local \in ValueTypes => Fits(Kids[N][1], Top.local)
         /\ curr \in ValueTypes => Fits(Kids[N][2], curr)
         /\ \A k \in {1, 2} : InTree(root, Kids[N][k])
<1>1. Kind[N] # "block" /\ Arity(Kind[N]) = 2 /\ Kind[N] \in PureKinds /\ IsNumber(N)
  BY ArityFacts DEF PureKinds, ExprKinds, BinaryKinds, IsNumber
<1>2. /\ N \in Node /\ InTree(root, N) /\ DOMAIN Kids[N] = 1..Arity(Kind[N]) /\ curr \in TableTypes
  BY <1>1, TypingTop
<1>3. DOMAIN Kids[N] = {1, 2}
  BY <1>1, <1>2
<1>4. Top.local \in TableTypes /\ (Top.local \in ValueTypes => Fits(Kids[N][1], Top.local))
  BY TopTyped DEF Typing
<1>5. Kind[Kids[N][2]] \in PureKinds
  BY <1>1, <1>2, <1>3, PureKids
<1>6. curr \in ValueTypes => Fits(Kids[N][2], curr)
  BY <1>1, <1>5, VisitedFits DEF Typing
<1>7. \A k \in {1, 2} : InTree(root, Kids[N][k])
  BY <1>2, <1>3, AroundKid
<1> QED BY <1>1, <1>2, <1>3, <1>4, <1>6, <1>7

LEMMA TypingBinary ==
  ASSUME MachineOK, Typing, SameNames, phase = "check", CheckBinary
  PROVE  phase' = "stopped" \/ Typing'
<1>1. stk # << >> /\ Kind[N] \in BinaryKinds
  BY DEF CheckBinary, Running
<1>2. Kind[N] # "block" /\ Arity(Kind[N]) = 2 /\ Kind[N] # "if_stmt"
  BY <1>1, ArityFacts DEF BinaryKinds
<1>3. curr \in Int /\ 0 \in Int
  BY <1>1, <1>2, TypingTop
<1>4. CASE Top.stage = 0 /\ CheckChild(1, 0) /\ UNCHANGED curr
  BY <1>1, <1>2, <1>3, <1>4, TypingChild
<1>5. CASE Top.stage = 1 /\ CheckChild(2, curr) /\ UNCHANGED curr
  BY <1>1, <1>2, <1>3, <1>5, TypingChild
<1>6. CASE Top.stage = 2 /\ Conclude(OperationType(Top.local, curr)) /\ UNCHANGED anntype
  <2>1. /\ Kind[N] \in PureKinds /\ IsNumber(N) /\ DOMAIN Kids[N] = {1, 2}
        /\ curr \in TableTypes /\ Top.local \in TableTypes
        /\ Top.local \in ValueTypes => Fits(Kids[N][1], Top.local)
        /\ curr \in ValueTypes => Fits(Kids[N][2], curr)
        /\ \A k \in {1, 2} : InTree(root, Kids[N][k])
    BY <1>1, <1>6, OperandsFit
  <2>2. PICK ty, pr : ty = OperationType(Top.local, curr) /\ pr = Propagate(Top.local, curr, MinValid)
    OBVIOUS
  <2>3. ty = IF pr = BoolType THEN IntType ELSE pr
    BY <2>2 DEF OperationType
  <2>4. MinValid \in {BoolType, IntType}
    BY DEF MinValid
  <2>5. CASE ty = Failed
    BY <1>6, <2>2, <2>5 DEF Conclude, Reject
  <2>6. CASE ty # Failed
    <3>1. pr # Failed
      BY <2>3, <2>6 DEF BoolType, Failed
    <3>2. /\ Top.local \in {IntType, FloatType} /\ curr \in {IntType, FloatType} /\ pr \in {IntType, FloatType}
      BY <2>1, <2>2, <2>4, <3>1, PropagateNumbers
    <3>3. ty # StringType
      BY <2>3, <3>2 DEF BoolType, IntType, FloatType, StringType
    <3>4. IsNumber(Kids[N][1]) /\ IsNumber(Kids[N][2])
      BY <2>1, <3>2, NumberFits DEF ValueTypes
    <3>5. PICK n : n = N
      OBVIOUS
    <3>6. \A k \in DOMAIN Kids[n] : IsNumber(Kids[n][k])'
      BY <2>1, <3>4, <3>5, FitsStays
    <3>7. Sound(n)'
      BY <1>1, <3>5, <3>6 DEF Sound, BinaryKinds
    <3>8. \A m : Annotation(m)' = Annotation(m)
      BY <1>6 DEF Annotation
    <3> QED BY <1>1, <1>2, <1>6, <2>1, <2>2, <3>3, <3>5, <3>7, <3>8, TypingConclude
  <2> QED BY <2>5, <2>6
<1> QED BY <1>4, <1>5, <1>6 DEF CheckBinary, Running

\* An annotation.
LEMMA AnnotateIs ==
  ASSUME NEW n, NEW ty, Annotate(n, ty)
  PROVE  Annotation(n)' = ty /\ \A m : m # n => Annotation(m)' = Annotation(m)
BY DEF Annotate, Annotation

LEMMA TypingEquals ==
  ASSUME MachineOK, Typing, SameNames, phase = "check", CheckEquals
  PROVE  phase' = "stopped" \/ Typing'
<1>1. stk # << >> /\ Kind[N] = "comp_equals"
  BY DEF CheckEquals, Running
<1>2. Kind[N] # "block" /\ Arity(Kind[N]) = 2 /\ Kind[N] # "if_stmt"
  BY <1>1, ArityFacts
<1>3. curr \in Int /\ 0 \in Int
  BY <1>1, <1>2, TypingTop
<1>4. CASE Top.stage = 0 /\ CheckChild(1, 0) /\ UNCHANGED curr
  BY <1>1, <1>2, <1>3, <1>4, TypingChild
<1>5. CASE Top.stage = 1 /\ CheckChild(2, curr) /\ UNCHANGED curr
  BY <1>1, <1>2, <1>3, <1>5, TypingChild
<1>6. CASE /\ Top.stage = 2
           /\ Annotate(N, IF StringType \in {Top.local, curr} THEN StringType
                          ELSE ComparisonType(Top.local, curr))
           /\ Conclude(IF ComparisonType(Top.local, curr) = Failed THEN Failed ELSE IntType)
  <2>1. /\ Kind[N] \in PureKinds /\ IsNumber(N) /\ DOMAIN Kids[N] = {1, 2}
        /\ curr \in TableTypes /\ Top.local \in TableTypes
        /\ Top.local \in ValueTypes => Fits(Kids[N][1], Top.local)
        /\ curr \in ValueTypes => Fits(Kids[N][2], curr)
        /\ \A k \in {1, 2} : InTree(root, Kids[N][k])
    BY <1>1, <1>6, OperandsFit
  <2>2. CASE ComparisonType(Top.local, curr) = Failed
    <3>1. Conclude(Failed)
      BY <1>6, <2>2
    <3> QED BY <3>1 DEF Conclude, Reject
  <2>3. CASE ComparisonType(Top.local, curr) # Failed
    <3>1. Conclude(IntType)
      BY <1>6, <2>3
    <3>2. PICK n, ann : n = N /\ ann = Annotation(n)'
      OBVIOUS
    <3>3. /\ ann = IF StringType \in {Top.local, curr} THEN StringType ELSE ComparisonType(Top.local, curr)
          /\ \A m : m # n => Annotation(m)' = Annotation(m)
      BY <1>6, <3>2, AnnotateIs
    <3>4. ann \in ValueTypes /\ Fits(Kids[N][1], ComparedAs(ann)) /\ Fits(Kids[N][2], ComparedAs(ann))
      <4>1. CASE StringType \in {Top.local, curr}
        <5>1. Top.local = StringType /\ curr = StringType /\ ann = StringType
          BY <2>3, <3>3, <4>1 DEF ComparisonType
        <5>2. ComparedAs(ann) = StringType /\ StringType \in ValueTypes
          BY <5>1 DEF ComparedAs, FloatType, StringType, ValueTypes
        <5> QED BY <2>1, <5>1, <5>2
      <4>2. CASE StringType \notin {Top.local, curr}
        <5>1. ann = Propagate(Top.local, curr, BoolType) /\ ann # Failed
          BY <2>3, <3>3, <4>2 DEF ComparisonType
        <5>2. /\ Top.local \in {IntType, FloatType} /\ curr \in {IntType, FloatType} /\ ann \in {IntType, FloatType}
          BY <2>1, <5>1, PropagateNumbers
        <5>3. IsNumber(Kids[N][1]) /\ IsNumber(Kids[N][2])
          BY <2>1, <5>2, NumberFits DEF ValueTypes
        <5>4. ComparedAs(ann) = IntType /\ IntType # StringType
          BY <5>2 DEF ComparedAs, IntType, FloatType, StringType
        <5> QED BY <5>2, <5>3, <5>4 DEF Fits, ValueTypes
      <4> QED BY <4>1, <4>2
    <3>5. \A k \in DOMAIN Kids[n] : Fits(Kids[n][k], ComparedAs(ann))'
      BY <2>1, <3>2, <3>4, FitsStays
    <3>6. \A k \in DOMAIN Kids[n] : Fits(Kids[n][k], ComparedAs(Annotation(n)))'
      BY <3>2, <3>5 DEF Fits, ComparedAs
    <3>7. Sound(n)'
      BY <1>1, <3>2, <3>4, <3>6 DEF Sound, UnaryKinds, BinaryKinds
    <3>8. IntType # StringType
      BY DEF IntType, StringType
    <3> QED BY <1>1, <1>2, <1>6, <2>1, <3>1, <3>2, <3>3, <3>7, <3>8, TypingConclude
  <2> QED BY <2>2, <2>3
<1> QED BY <1>4, <1>5, <1>6 DEF CheckEquals, Running

LEMMA DeclaredGrows ==
  ASSUME NEW r, NEW n, UptoIn(r, n), NEW m, UptoIn(r, m), n <= m
  PROVE  Declared(r, n) \subseteq Declared(r, m) /\ Declared(r, m) \subseteq Declarations(r)
<1>1. n \in Nat /\ m \in Nat /\ r \in Nat /\ LastIn[r] \in Nat
  BY UptoFacts
<1>2. \A a \in r..(n - 1) : a \in r..(m - 1)
  BY <1>1
<1>3. \A a \in r..(m - 1) : a \in r..((LastIn[r] + 1) - 1)
  BY <1>1 DEF UptoIn
<1> QED BY <1>2, <1>3 DEF Declared, Declarations

\* The variable of an assignment is one that the text has declared by then.
LEMMA OwnerDeclared ==
  ASSUME NEW r \in Root, NEW a, InTree(r, a), Kind[a] = "assign"
  PROVE  /\ Having(r, a, Var[a], Declarations(r)) # {}
         /\ Owner(r, a, Var[a], Declarations(r)) \in Declared(r, a + 1)
<1> DEFINE x == Var[a]
           H == Having(r, a, x, Declarations(r))
<1>1. UptoIn(r, a) /\ UptoIn(r, a + 1) /\ a \in Nat /\ a <= LastIn[r] /\ Kind[r] = "block" /\ a # r
  BY UptoOf, AroundFacts, RootFacts, TreeAssumption
<1>2. PICK c \in Around(r, a) : <<c, x>> \in Declared(r, a + 1)
  <2>1. CASE Declares(r, a)
    <3>1. Declared(r, a + 1) = Declared(r, a) \cup {<<Home(r, a), Var[a]>>}
      BY <1>1, <2>1, DeclaredNext
    <3>2. Home(r, a) \in Around(r, a)
      BY <1>1, HomeIs
    <3> QED BY <3>1, <3>2
  <2>2. CASE ~Declares(r, a)
    <3>1. Having(r, a, Var[a], Declared(r, a)) # {}
      BY <1>1, <2>2, KnownBefore
    <3>2. Declared(r, a) \subseteq Declared(r, a + 1)
      BY <1>1, DeclaredGrows
    <3> QED BY <3>1, <3>2 DEF Having
  <2> QED BY <2>1, <2>2
<1>3. c \in H
  <2>1. a + 1 <= a + 1
    BY <1>1
  <2>2. Declared(r, a + 1) \subseteq Declarations(r)
    BY <1>1, <2>1, DeclaredGrows
  <2> QED BY <1>2, <2>2 DEF Having
<1>4. PICK b : b = Innermost(H)
  OBVIOUS
<1>5. /\ Owner(r, a, x, Declarations(r)) = <<b, x>> /\ <<b, x>> \in Declarations(r)
      /\ b \in Around(r, a) /\ c <= b
  BY <1>3, <1>4, OwnerIn
<1>6. b \in Nat /\ c \in Nat /\ LastIn[b] \in Nat /\ a <= LastIn[b]
  BY <1>2, <1>5, AroundFacts
<1>7. ~(c < b)
  <2>1. a + 1 \in Nat /\ a + 1 <= LastIn[b] + 1
    BY <1>1, <1>6
  <2> QED BY <1>2, <1>5, <2>1, Single
<1>8. c = b
  BY <1>5, <1>6, <1>7
<1> QED BY <1>2, <1>3, <1>5, <1>8

LEMMA DeclaresAll ==
  ASSUME DeclaredOK, phase # "populate"
  PROVE  DOMAIN table = Declarations(root)
BY DEF DeclaredOK

LEMMA TypingAssign ==
  ASSUME MachineOK, EntriesOK, EntriesOK', Advances, DeclaredOK, Typing, SameNames, phase = "check", CheckAssign
  PROVE  phase' = "stopped" \/ Typing'
<1>1. stk # << >> /\ Kind[N] = "assign"
  BY DEF CheckAssign, Running
<1>2. Kind[N] # "block" /\ Arity(Kind[N]) = 1 /\ Kind[N] # "if_stmt" /\ Kind[N] \notin BinaryKinds \cup {"comp_equals"}
  BY <1>1, ArityFacts DEF BinaryKinds
<1>3. /\ curr \in Int /\ 0 \in Int /\ curr \in TableTypes /\ N \in Node /\ InTree(root, N)
      /\ ScopeIs(Top.scope, root, N) /\ nested = Top.scope /\ Called(Top) = Top.stage
      /\ Len(Kids[N]) = 1 /\ DOMAIN Kids[N] = 1..1
  <2>1. curr \in Int /\ curr \in TableTypes /\ N \in Node /\ InTree(root, N)
    BY <1>1, TypingTop
  <2>2. ScopeIs(Top.scope, root, N) /\ nested = Top.scope
    BY <1>1, TypingTop
  <2>3. Called(Top) = Top.stage
    BY <1>1, <1>2, TypingTop
  <2>4. Len(Kids[N]) = Arity(Kind[N]) /\ DOMAIN Kids[N] = 1..Len(Kids[N])
    BY <1>1, <1>2, <2>1, TreeAssumption
  <2>5. 0 \in Int
    OBVIOUS
  <2> QED BY <1>2, <2>1, <2>2, <2>3, <2>4, <2>5
<1>4. CASE Top.stage = 0 /\ CheckChild(1, 0) /\ UNCHANGED curr
  BY <1>1, <1>2, <1>3, <1>4, TypingChild
<1>5. CASE /\ Top.stage = 1
           /\ LET sym == Lookup(Var[N], FALSE)
              IN  IF IllTyped(sym) THEN Reject
                  ELSE GiveType(sym) /\ Checked /\ UNCHANGED nested
           /\ UNCHANGED <<curr, anntype>>
  <2>1. CASE IllTyped(Lookup(Var[N], FALSE))
    BY <1>5, <2>1 DEF Reject
  <2>2. CASE ~IllTyped(Lookup(Var[N], FALSE))
    <3>1. /\ GiveType(Lookup(Var[N], FALSE)) /\ Return /\ checked' = checked \cup {<<N, Top.scope>>}
          /\ UNCHANGED <<phase, nested, curr, anntype>>
      BY <1>5, <2>2 DEF Checked
    <3>2. PICK n, scope, x, ty : n = N /\ scope = Top.scope /\ x = Var[N] /\ ty = curr
      OBVIOUS
    <3>3. TypedAs(scope, x)'
      BY <1>1, <2>2, <3>1, <3>2, CheckTypes
    <3>4. ty \in ValueTypes
      BY <1>3, <2>2, <3>2 DEF IllTyped, TableTypes, ValueTypes
    <3>5. TypeAt(n)' = ty
      <4> DEFINE H == Having(root, n, x, DOMAIN table)
      <4>1. root \in Root /\ DOMAIN table = Declarations(root)
        BY DeclaresAll DEF MachineOK, TypeOK
      <4>2. H # {}
        BY <1>1, <1>3, <3>2, <4>1, OwnerDeclared
      <4>3. PICK i : i = Nearest(scope, x, FALSE)
        OBVIOUS
      <4>4. i # 0 /\ scope[i] = Innermost(H) /\ scope \in Seq(Node)
        BY <1>3, <3>2, <4>2, <4>3, NearestEntry DEF ScopeIs
      <4>5. Nearest(scope, x, FALSE)' = i
        BY <4>3, NearestStays
      <4>6. HasBinding(scope, x)
        BY <4>3, <4>4, BindingFound
      <4>7. HasBinding(scope, x)'
        BY <4>6, BindingStays
      <4>8. LookupIn(scope, x, FALSE)'.type = ty
        BY <3>1, <3>2, <3>3, <4>7 DEF TypedAs
      <4>9. LookupIn(scope, x, FALSE)' = At(scope[i], x)'
        BY <4>4, <4>5 DEF LookupIn
      <4>10. <<scope[i], x>> \in DOMAIN table /\ <<scope[i], x>> = Owner(root, n, x, DOMAIN table)
        <5>1. InTree(root, n)
          BY <1>3, <3>2
        <5>2. /\ Owner(root, n, x, DOMAIN table) \in DOMAIN table
              /\ Owner(root, n, x, DOMAIN table) = <<Innermost(H), x>>
          BY <4>2, <5>1, OwnerIn
        <5> QED BY <4>4, <5>2
      <4>11. DOMAIN table' = DOMAIN table /\ UNCHANGED root
        BY DEF SameNames
      <4>12. At(scope[i], x)' = table'[<<scope[i], x>>]
        BY <4>10, <4>11 DEF At
      <4>13. TypeAt(n)' = table'[Owner(root, n, x, DOMAIN table)].type
        <5>1. x = Var[n]
          BY <3>2
        <5> QED BY <4>2, <4>11, <5>1 DEF TypeAt
      <4> QED BY <4>8, <4>9, <4>10, <4>12, <4>13
    <3>6. ASSUME Acts(n) PROVE Fits(Kids[n][1], ty)'
      <4>1. Kind[Kids[N][1]] \in PureKinds
        BY <1>3, <3>2, <3>6, PureKids
      <4>2. Fits(Kids[N][1], ty)
        BY <1>1, <1>2, <1>5, <3>2, <3>4, <4>1, VisitedFits DEF Typing
      <4>3. InTree(root, Kids[N][1])
        <5>1. 1 \in DOMAIN Kids[N]
          BY <1>3
        <5> QED BY <1>3, <5>1, AroundKid
      <4> QED BY <3>2, <4>2, <4>3, FitsStays
    <3>7. Sound(n)'
      <4>1. Acts(n) => Fits(Kids[n][1], TypeAt(n))'
        BY <3>5, <3>6 DEF Fits
      <4>2. Kind[n] = "assign"
        BY <1>1, <3>2
      <4> QED BY <3>4, <3>5, <4>1, <4>2 DEF Sound, UnaryKinds, BinaryKinds
    <3>8. Kind[n] \notin PureKinds
      BY <1>1, <3>2 DEF PureKinds
    <3>9. \A m : Annotation(m)' = Annotation(m)
      BY <3>1 DEF Annotation
    <3> QED BY <1>1, <1>3, <1>5, <3>1, <3>2, <3>7, <3>8, <3>9, TypingReturn
  <2> QED BY <2>1, <2>2
<1> QED BY <1>4, <1>5 DEF CheckAssign, Running

LEMMA TypingIf ==
  ASSUME MachineOK, Typing, SameNames, phase = "check", CheckIf
  PROVE  Typing'
<1>1. stk # << >> /\ Kind[N] = "if_stmt"
  BY DEF CheckIf, Running
<1>2. Kind[N] # "block" /\ Arity(Kind[N]) = 2 /\ Kind[N] \notin BinaryKinds \cup {"comp_equals"}
  BY <1>1, ArityFacts DEF BinaryKinds
<1>3. /\ curr \in Int /\ 0 \in Int /\ curr \in TableTypes /\ N \in Node /\ InTree(root, N)
      /\ Called(Top) = Top.stage /\ Len(Kids[N]) = 2 /\ 1 \in DOMAIN Kids[N] /\ 2 \in DOMAIN Kids[N]
  <2>1. curr \in Int /\ curr \in TableTypes /\ N \in Node /\ InTree(root, N)
    BY <1>1, TypingTop
  <2>2. Called(Top) = Top.stage
    BY <1>1, <1>2, TypingTop
  <2>3. Len(Kids[N]) = Arity(Kind[N]) /\ DOMAIN Kids[N] = 1..Len(Kids[N])
    BY <1>1, <1>2, <2>1, TreeAssumption
  <2>4. 0 \in Int
    OBVIOUS
  <2> QED BY <1>2, <2>1, <2>2, <2>3, <2>4
<1>4. CASE Top.stage = 0 /\ CheckChild(1, 0) /\ UNCHANGED curr
  BY <1>1, <1>2, <1>3, <1>4, TypingChild
<1>5. CASE /\ Top.stage = 1
           /\ Annotate(N, curr)
           /\ Call(2, 0, FALSE)
           /\ UNCHANGED <<curr, table, nested, phase, result, checked>>
  <2>1. PICK n, ty : n = N /\ ty = curr
    OBVIOUS
  <2>2. Annotation(n)' = ty /\ \A m : m # n => Annotation(m)' = Annotation(m)
    BY <1>5, <2>1, AnnotateIs
  <2>3. ASSUME ty \in ValueTypes PROVE Fits(Kids[n][1], ty)'
    <3>1. Kind[Kids[N][1]] \in PureKinds
      BY <1>1, <1>3, PureKids
    <3>2. Fits(Kids[N][1], ty)
      BY <1>1, <1>2, <1>5, <2>1, <2>3, <3>1, VisitedFits DEF Typing
    <3>3. InTree(root, Kids[N][1])
      BY <1>3, AroundKid
    <3> QED BY <2>1, <3>2, <3>3, FitsStays
  <2>4. (Annotation(n) \in ValueTypes => Fits(Kids[n][1], Annotation(n)))'
    BY <2>2, <2>3 DEF Fits
  <2>5. Sound(n)'
    BY <1>1, <2>1, <2>4 DEF Sound, UnaryKinds, BinaryKinds
  <2>6. 2 = Called(Top) + 1
    BY <1>3, <1>5
  <2> QED BY <1>1, <1>2, <1>3, <1>5, <2>1, <2>2, <2>5, <2>6, TypingCall
<1>6. CASE Top.stage = 2 /\ Checked /\ UNCHANGED <<curr, table, nested, anntype>>
  <2>1. Return /\ checked' = checked \cup {<<N, Top.scope>>} /\ UNCHANGED phase /\ UNCHANGED anntype
    BY <1>6 DEF Checked
  <2>2. PICK n : n = N
    OBVIOUS
  <2>3. \A m : Annotation(m)' = Annotation(m)
    BY <2>1 DEF Annotation
  <2>4. Sound(n)'
    <3>1. Sound(n)
      BY <1>1, <1>6, <2>2, TopTyped DEF Typing
    <3> QED BY <1>3, <2>2, <2>3, <3>1, SoundStays
  <2>5. Kind[n] \notin PureKinds
    BY <1>1, <2>2 DEF PureKinds, ExprKinds, LeafKinds, UnaryKinds, BinaryKinds
  <2> QED BY <1>1, <1>3, <1>6, <2>1, <2>2, <2>3, <2>4, <2>5, TypingReturn
<1> QED BY <1>4, <1>5, <1>6 DEF CheckIf, Running

LEMMA TypingBlock ==
  ASSUME MachineOK, Typing, SameNames, phase = "check", CheckBlock
  PROVE  Typing'
<1>1. UNCHANGED anntype
  BY DEF CheckBlock
<1>2. PICK n : n = N
  OBVIOUS
<1>3. \A m : Annotation(m)' = Annotation(m)
  BY <1>1 DEF Annotation
<1>4. curr \in TableTypes /\ curr \in Int
  BY CurrTypes DEF MachineOK, TypeOK
<1>5. CASE EnterScope(curr) /\ curr' = Undet /\ UNCHANGED <<phase, result, checked>>
  <2>1. stk # << >>
    BY <1>5 DEF EnterScope, Running
  <2>2. root \in Node
    BY <2>1, TopInTree
  <2>3. SoundsKept
    BY <1>3, <2>2, SoundsStay
  <2>4. NodesOK'
    BY <1>5, <2>3, NodesStay DEF Typing
  <2>5. CallsOK' /\ CurrFits'
    BY <1>4, <1>5, <2>1, <2>3, TypedEnter DEF Typing
  <2> QED BY <2>4, <2>5 DEF Typing
<1>6. CASE NextStatement /\ UNCHANGED <<curr, phase, result, checked>>
  <2>1. /\ stk # << >> /\ Kind[N] = "block" /\ Top.stage \in 1..Len(Kids[N])
        /\ Call(Top.stage, Top.local, FALSE)
    BY <1>6 DEF NextStatement
  <2>2. stk \in Seq(Frames) /\ N \in Node /\ Top.local \in Int
    BY <2>1, TopInTree, KidFacts
  <2>3. Top.stage \in DOMAIN Kids[N] /\ Top.stage = Called(Top) + 1
    <3>1. DOMAIN Kids[N] = 1..Len(Kids[N])
      BY <2>2, NodeFacts
    <3>2. Called(Top) = Top.stage - 1 /\ Top.stage \in Int
      BY <2>1 DEF Called, N
    <3> QED BY <2>1, <3>1, <3>2
  <2>4. Kind[N] \notin BinaryKinds \cup {"comp_equals"} /\ Kind[N] # "if_stmt"
    BY <2>1 DEF BinaryKinds
  <2> QED BY <1>2, <1>3, <1>6, <2>1, <2>2, <2>3, <2>4, TypingCall
<1>7. CASE LeaveScope /\ curr' = Top.local /\ Checked
  <2>1. /\ stk # << >> /\ Kind[N] = "block" /\ Top.stage = Len(Kids[N]) + 1
        /\ Return /\ checked' = checked \cup {<<N, Top.scope>>} /\ UNCHANGED phase
    BY <1>7 DEF LeaveScope, Running, Checked
  <2>2. Called(Top) = Len(Kids[N])
    <3>1. N \in Node /\ Len(Kids[N]) \in Nat
      BY <2>1, TopInTree, NodeFacts
    <3>2. Called(Top) = Top.stage - 1
      BY <2>1 DEF Called, N
    <3> QED BY <2>1, <3>1, <3>2
  <2>3. Kind[n] \notin PureKinds
    BY <1>2, <2>1 DEF PureKinds, ExprKinds, LeafKinds, UnaryKinds, BinaryKinds
  <2>4. Sound(n)'
    BY <1>2, <2>1 DEF Sound, UnaryKinds, BinaryKinds
  <2> QED BY <1>2, <1>3, <2>1, <2>2, <2>3, <2>4, TypingReturn
<1> QED BY <1>5, <1>6, <1>7 DEF CheckBlock

LEMMA TypingCheck ==
  ASSUME MachineOK, EntriesOK, EntriesOK', Advances, DeclaredOK, Typing, SameNames, Check
  PROVE  phase' = "stopped" \/ Typing'
<1>1. /\ phase = "check"
      /\ CheckLeaf \/ CheckUnary \/ CheckBinary \/ CheckEquals \/ CheckAssign \/ CheckIf \/ CheckBlock
  BY DEF Check, CheckStep
<1> QED BY <1>1, TypingLeaf, TypingUnary, TypingBinary, TypingEquals, TypingAssign, TypingIf, TypingBlock

\* The other steps leave what was checked.
LEMMA TypingKept ==
  ASSUME TypingOK, NodesOK => NodesOK', phase # "stopped", phase' # "check"
  PROVE  TypingOK'
BY DEF TypingOK

LEMMA TypingInductive ==
  ASSUME IInv, IInv', PlainOK, DeclaredOK, TypingOK, [Next]_vars
  PROVE  TypingOK'
<1>1. MachineOK /\ TablesOK /\ EntriesOK /\ EntriesOK' /\ PassesOK /\ root \in Root
  BY DEF IInv, TablesOK, MachineOK, TypeOK
<1>2. Advances \/ UNCHANGED vars
  BY <1>1, TablesInductive
<1>3. KeepsTypes
  BY PlainInductive
<1>4. UNCHANGED root
  BY <1>1, NeverPopulatesAgain
<1>5. CASE UNCHANGED vars
  <2>1. UNCHANGED <<root, table, anntype, stk, curr, checked, phase>>
    BY <1>5 DEF vars
  <2>2. \A n : TypeAt(n)' = TypeAt(n)
    BY <2>1 DEF TypeAt
  <2>3. \A n, ty : Fits(n, ty)' = Fits(n, ty)
    BY <2>2 DEF Fits, IsNumber, IsString
  <2>4. \A n : IsNumber(n)' = IsNumber(n) /\ Annotation(n)' = Annotation(n)
    BY <2>1, <2>2 DEF IsNumber, Annotation
  <2>5. \A n : Sound(n)' = Sound(n)
    BY <2>2, <2>3, <2>4 DEF Sound
  <2>6. NodesOK' = NodesOK
    BY <2>1, <2>5 DEF NodesOK, CheckedNodes
  <2>7. \A f, done : CallTyped(f, done)' = CallTyped(f, done)
    BY <2>1, <2>3, <2>5 DEF CallTyped, CheckedNodes
  <2>8. \A f : Called(f)' = Called(f)
    BY <2>1 DEF Called
  <2>9. CallsOK' = CallsOK
    BY <2>1, <2>7, <2>8 DEF CallsOK
  <2>10. Top' = Top /\ N' = N
    BY <2>1 DEF Top, N
  <2>11. CurrFits' = CurrFits
    BY <2>1, <2>3, <2>8, <2>10 DEF CurrFits, Kid
  <2> QED BY <2>1, <2>6, <2>9, <2>11 DEF TypingOK
<1>6. CASE Populate \/ StartCheck
  <2>1. phase = "populate" /\ UNCHANGED <<checked, curr>>
    BY <1>6 DEF Populate, PopulateStep, StartCheck
  <2>2. checked' = {}
    BY <1>1, <2>1 DEF PassesOK, CheckedOK
  <2>3. NodesOK'
    BY <2>2 DEF NodesOK, CheckedNodes
  <2>4. CASE Populate
    <3>1. phase' # "check"
      BY <2>1, <2>4 DEF Populate, PopulateStep
    <3> QED BY <2>3, <3>1 DEF TypingOK
  <2>5. CASE StartCheck
    <3>1. stk' = <<Frame(root, FALSE, << >>)>>
      BY <2>5 DEF StartCheck
    <3>2. PICK f : f = Frame(root, FALSE, << >>)
      OBVIOUS
    <3>3. Len(stk') = 1 /\ stk'[1] = f /\ Top' = f /\ f.n = root /\ f.stage = 0
      BY <3>1, <3>2 DEF Top, Frame
    <3>4. Called(f)' = -1
      <4>1. Kind[root] = "block"
        BY <1>1, RootFacts
      <4> QED BY <3>3, <4>1 DEF Called
    <3>5. CallsOK'
      <4>1. ASSUME NEW i \in 1..Len(stk'), NEW g, NEW done, CallAt(stk, i, g, done)' PROVE CallTyped(g, done)'
        <5>1. g = f /\ done = -1
          BY <3>3, <3>4, <4>1 DEF CallAt
        <5> QED BY <3>3, <5>1 DEF CallTyped
      <4> QED BY <4>1, CallsNext
    <3>6. CurrFits'
      <4>1. ~(Called(Top)' > 0)
        BY <3>3, <3>4 DEF Called
      <4> QED BY <4>1 DEF CurrFits
    <3> QED BY <2>3, <3>5, <3>6 DEF TypingOK
  <2> QED BY <1>6, <2>4, <2>5
<1>7. CASE Advances /\ Check
  <2>1. phase = "check"
    BY <1>7 DEF Check, CheckStep
  <2>2. SameNames
    BY <1>3, <1>4, <1>7, <2>1 DEF SameNames, Advances
  <2>3. Typing
    BY <2>1 DEF Typing, TypingOK
  <2>4. phase' = "stopped" \/ Typing'
    BY <1>1, <1>7, <2>2, <2>3, TypingCheck
  <2> QED BY <2>4 DEF Typing, TypingOK
<1>8. CASE Advances /\ (EndCheck \/ Evaluate \/ Eval \/ EndEvaluate)
  <2>1. /\ phase # "populate" /\ phase # "stopped" /\ UNCHANGED <<checked, anntype>>
    BY <1>8 DEF EndCheck, Evaluate, Eval, EvalStep, EndEvaluate
  <2>2. phase' # "check"
    <3>1. CASE Eval
      <4>1. EvaluatorOK
        BY <1>1, <3>1, EvaluatorHolds DEF Eval, EvalStep
      <4>2. EvalShape
        BY <3>1, <4>1, EvalShapes
      <4> QED BY <4>2 DEF EvalShape
    <3>2. CASE EndCheck \/ Evaluate \/ EndEvaluate
      BY <3>2 DEF EndCheck, Evaluate, EndEvaluate
    <3> QED BY <1>8, <3>1, <3>2
  <2>3. SameNames
    BY <1>3, <1>4, <1>8, <2>1 DEF SameNames, Advances
  <2>4. SoundsKept
    <3>1. \A m : Annotation(m)' = Annotation(m)
      BY <2>1 DEF Annotation
    <3>2. root \in Node
      BY <1>1, RootFacts
    <3> QED BY <2>3, <3>1, <3>2, SoundsStay
  <2>5. NodesOK => NodesOK'
    BY <2>1, <2>3, <2>4, NodesStay
  <2> QED BY <2>1, <2>2, <2>5, TypingKept
<1> QED BY <1>2, <1>5, <1>6, <1>7, <1>8 DEF Next

(***************************************************************************)
(* What the type checker has looked at (type_checker.cpp) stays well       *)
(* typed, in every later pass and evaluation: the operands of an operation *)
(* are numbers, those of a comparison, a condition and the expression of   *)
(* an assignment fit the type that they are evaluated at.                  *)
(***************************************************************************)
THEOREM WellTyped == Spec => []TypingOK
<1>1. Init => TypingOK
  BY DEF Init, TypingOK, NodesOK, CheckedNodes
<1>2. IInv /\ IInv' /\ PlainOK /\ DeclaredOK /\ TypingOK /\ [Next]_vars => TypingOK'
  BY TypingInductive
<1>3. PlainInv => PlainOK
  BY DEF PlainInv
<1> QED BY <1>1, <1>2, <1>3, Inductive, Plain, DeclaresAsWritten, PTL DEF Spec

=============================================================================
