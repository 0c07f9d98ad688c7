-------------------------- MODULE MeaningProofs --------------------------
(***************************************************************************)
(* Proofs that an evaluation ends with what Reference says the program     *)
(* means, reads the variables that the second pass looked at, and leaves   *)
(* what query answers.                                                     *)
(*                                                                         *)
(* Reference's functions first; then what its course and its values are at *)
(* the node an evaluation is before; then the actions of the interpreter   *)
(* and of the typed interpreters, one lemma each, that the evaluation      *)
(* stays at the course, and the theorems about it; last the query.         *)
(***************************************************************************)
EXTENDS ReferenceProofs, Operations

-----------------------------------------------------------------------------
(***************************************************************************)
(* The reference's two recursive functions are what their equations say.   *)
(***************************************************************************)
IsProgram(p) == p.root \in Root /\ DOMAIN p.types = Declarations(p.root)

LEMMA ProgramFacts ==
  ASSUME NEW p, IsProgram(p)
  PROVE  /\ p.root \in Root /\ p.root \in Node /\ Kind[p.root] = "block" /\ InTree(p.root, p.root)
         /\ p.root \in Nat /\ LastIn[p.root] \in Nat /\ p.root <= LastIn[p.root]
         /\ DOMAIN p.types = Declarations(p.root)
<1>1. p.root \in Root /\ p.root \in Node /\ Kind[p.root] = "block" /\ DOMAIN p.types = Declarations(p.root)
  BY TreeAssumption DEF IsProgram
<1> QED BY <1>1, NodeFacts, AroundRoot

\* The node n of the course, given the one before it.
Moved(p, at, n) == IF n = p.root THEN State(<< >>, p.root, TRUE) ELSE Pass(p, at[n - 1], n - 1)

LEMMA CourseExists ==
  ASSUME NEW p, IsProgram(p)
  PROVE  \E at : at = [n \in p.root..(LastIn[p.root] + 1) |-> Moved(p, at, n)]
<1> DEFINE r == p.root
           to == LastIn[p.root] + 1
           Good == {k \in r..to : \E at : at = [n \in r..k |-> Moved(p, at, n)]}
<1>1. r \in Nat /\ to \in Nat /\ r <= to
  BY ProgramFacts
<1>2. r \in Good
  <2> DEFINE at == [n \in r..r |-> State(<< >>, r, TRUE)]
  <2>1. \A n \in r..r : Moved(p, at, n) = State(<< >>, r, TRUE)
    <3>1. \A n \in r..r : n = p.root
      BY <1>1
    <3> HIDE DEF at
    <3> QED BY <3>1 DEF Moved
  <2>2. at = [n \in r..r |-> Moved(p, at, n)]
    BY <2>1
  <2>3. r \in r..to
    BY <1>1
  <2> QED BY <2>2, <2>3
<1>3. PICK k \in Good : \A q \in Good : q <= k
  <2>1. Good \subseteq 0..to /\ Good # {}
    <3>1. ASSUME NEW k \in Good PROVE k \in 0..to
      <4>1. k \in r..to
        OBVIOUS
      <4> HIDE DEF Good
      <4> QED BY <1>1, <4>1
    <3> HIDE DEF Good
    <3> QED BY <1>2, <3>1
  <2> HIDE DEF Good
  <2> QED BY <1>1, <2>1, GreatestNumber
<1>4. CASE k = to
  BY <1>3, <1>4
<1>5. CASE k # to
  <2>1. k \in r..to /\ k + 1 \in r..to /\ k \in Nat /\ k + 1 \notin Good
    <3>1. k \in r..to
      BY <1>3
    <3>2. k \in Nat /\ k + 1 \in r..to
      BY <1>1, <1>5, <3>1
    <3>3. ~(k + 1 <= k)
      BY <3>2
    <3> HIDE DEF Good
    <3> QED BY <1>3, <3>1, <3>2, <3>3
  <2>2. PICK f : f = [n \in r..k |-> Moved(p, f, n)]
    BY <1>3
  <2> DEFINE g == [n \in r..(k + 1) |-> Moved(p, f, n)]
  <2>3. ASSUME NEW n \in r..(k + 1) PROVE Moved(p, g, n) = Moved(p, f, n)
    <3>1. CASE n = p.root
      BY <3>1 DEF Moved
    <3>2. CASE n # p.root
      <4>1. n - 1 \in r..k /\ n - 1 \in r..(k + 1)
        BY <1>1, <2>1, <3>2
      <4>2. g[n - 1] = f[n - 1]
        BY <2>2, <4>1
      <4> HIDE DEF g
      <4> QED BY <4>2 DEF Moved
    <3> QED BY <3>1, <3>2
  <2>4. g = [n \in r..(k + 1) |-> Moved(p, g, n)]
    BY <2>3, Zenon
  <2>5. k + 1 \in Good
    <3> HIDE DEF g
    <3> QED BY <2>1, <2>4
  <2> QED BY <2>1, <2>5
<1> QED BY <1>4, <1>5

LEMMA CourseIs ==
  ASSUME NEW p, IsProgram(p)
  PROVE  /\ Course(p)[p.root] = State(<< >>, p.root, TRUE)
         /\ \A n \in p.root..LastIn[p.root] : Course(p)[n + 1] = Pass(p, Course(p)[n], n)
<1> DEFINE at == CHOOSE f : f = [n \in p.root..(LastIn[p.root] + 1) |-> Moved(p, f, n)]
<1>1. at = [n \in p.root..(LastIn[p.root] + 1) |-> Moved(p, at, n)]
  BY CourseExists
<1>2. Course(p) = at
  BY Zenon DEF Course, Moved
<1> HIDE DEF at
<1>3. p.root \in Nat /\ LastIn[p.root] \in Nat /\ p.root <= LastIn[p.root]
  BY ProgramFacts
<1>4. p.root \in p.root..(LastIn[p.root] + 1)
  BY <1>3
<1>5. ASSUME NEW n \in p.root..LastIn[p.root] PROVE at[n + 1] = Pass(p, at[n], n)
  <2>1. n + 1 \in p.root..(LastIn[p.root] + 1) /\ n + 1 # p.root /\ (n + 1) - 1 = n
    BY <1>3
  <2>2. at[n + 1] = Moved(p, at, n + 1)
    BY <1>1, <2>1
  <2> QED BY <2>1, <2>2 DEF Moved
<1>6. at[p.root] = State(<< >>, p.root, TRUE)
  BY <1>1, <1>4 DEF Moved
<1> QED BY <1>2, <1>5, <1>6

\* The values of a node depend on those of its children.
LEMMA ValuesAgree ==
  ASSUME NEW p, NEW mem, NEW e \in Node, NEW f, NEW g,
         \A k \in DOMAIN Kids[e] : f[Kids[e][k]] = g[Kids[e][k]]
  PROVE  ValuesAt(p, mem, e, f) = ValuesAt(p, mem, e, g)
<1>1. Kind[e] \in NodeKinds /\ (Kind[e] # "block" => DOMAIN Kids[e] = 1..Arity(Kind[e]))
  BY TreeAssumption
<1>2. CASE Kind[e] \in UnaryKinds
  <2>1. f[Kids[e][1]] = g[Kids[e][1]]
    BY <1>1, <1>2, ArityFacts
  <2> QED BY <1>2, <2>1 DEF ValuesAt, ValueAt, UnaryKinds, BinaryKinds, ConstantKinds
<1>3. CASE Kind[e] \in BinaryKinds
  <2>1. f[Kids[e][1]] = g[Kids[e][1]] /\ f[Kids[e][2]] = g[Kids[e][2]]
    BY <1>1, <1>3, ArityFacts
  <2> QED BY <1>3, <2>1 DEF ValuesAt, ValueAt, UnaryKinds, BinaryKinds, ConstantKinds
<1>4. CASE Kind[e] = "comp_equals"
  <2>1. f[Kids[e][1]] = g[Kids[e][1]] /\ f[Kids[e][2]] = g[Kids[e][2]]
    BY <1>1, <1>4, ArityFacts
  <2> QED BY <1>4, <2>1 DEF ValuesAt, ValueAt, UnaryKinds, BinaryKinds, ConstantKinds
<1>5. CASE Kind[e] \notin UnaryKinds \cup BinaryKinds \cup {"comp_equals"}
  BY <1>5 DEF ValuesAt, ValueAt
<1> QED BY <1>2, <1>3, <1>4, <1>5

LEMMA ValuesExist ==
  ASSUME NEW p, IsProgram(p), NEW mem
  PROVE  \E val : val = [e \in p.root..LastIn[p.root] |-> ValuesAt(p, mem, e, val)]
<1> DEFINE r == p.root
           to == LastIn[p.root]
           Good == {k \in r..to : \E val : val = [e \in k..to |-> ValuesAt(p, mem, e, val)]}
<1>1. r \in Nat /\ to \in Nat /\ r <= to /\ r \in Node
  BY ProgramFacts
<1>2. \A e \in r..to : /\ e \in Node /\ e \in Nat
                         /\ \A j \in DOMAIN Kids[e] : Kids[e][j] \in (e + 1)..to
  <2> TAKE e \in r..to
  <2>1. e \in Node /\ e \in Nat /\ LastIn[e] <= to
    BY <1>1, TreesNest
  <2>2. ASSUME NEW j \in DOMAIN Kids[e] PROVE Kids[e][j] \in (e + 1)..to
    <3>1. /\ Kids[e][j] \in Nat /\ LastIn[Kids[e][j]] \in Nat /\ LastIn[e] \in Nat
          /\ e < Kids[e][j] /\ Kids[e][j] <= LastIn[Kids[e][j]] /\ LastIn[Kids[e][j]] <= LastIn[e]
      BY <2>1, KidRange, NodeFacts
    <3> QED BY <1>1, <2>1, <3>1
  <2> QED BY <2>1, <2>2
<1>3. to \in Good
  <2> DEFINE val == [e \in to..to |-> ValuesAt(p, mem, e, << >>)]
  <2>1. ASSUME NEW e \in to..to PROVE ValuesAt(p, mem, e, val) = ValuesAt(p, mem, e, << >>)
    <3>1. e = to /\ e \in r..to
      BY <1>1
    <3>2. DOMAIN Kids[e] = {}
      <4>1. \A j \in DOMAIN Kids[e] : Kids[e][j] \in (to + 1)..to
        BY <1>2, <3>1
      <4>2. (to + 1)..to = {}
        BY <1>1
      <4> QED BY <4>1, <4>2
    <3> HIDE DEF val
    <3> QED BY <1>2, <3>1, <3>2, ValuesAgree
  <2>2. val = [e \in to..to |-> ValuesAt(p, mem, e, val)]
    BY <2>1, Zenon
  <2>3. to \in r..to
    BY <1>1
  <2> HIDE DEF val
  <2> QED BY <2>2, <2>3
<1>4. PICK k \in Good : \A q \in Good : k <= q
  <2>1. Good \subseteq Nat /\ Good # {}
    <3>1. ASSUME NEW k \in Good PROVE k \in Nat
      <4>1. k \in r..to
        OBVIOUS
      <4> HIDE DEF Good
      <4> QED BY <1>1, <4>1
    <3> HIDE DEF Good
    <3> QED BY <1>3, <3>1
  <2> HIDE DEF Good
  <2> QED BY <2>1, LeastNumber
<1>5. CASE k = r
  BY <1>4, <1>5
<1>6. CASE k # r
  <2>1. k \in r..to /\ k - 1 \in r..to /\ k \in Nat /\ k - 1 \notin Good /\ (k - 1) + 1 = k
    <3>1. k \in r..to
      BY <1>4
    <3>2. k \in Nat /\ k - 1 \in r..to /\ (k - 1) + 1 = k /\ ~(k <= k - 1)
      BY <1>1, <1>6, <3>1
    <3> HIDE DEF Good
    <3> QED BY <1>4, <3>1, <3>2
  <2>2. PICK f : f = [e \in k..to |-> ValuesAt(p, mem, e, f)]
    BY <1>4
  <2> DEFINE g == [e \in (k - 1)..to |-> ValuesAt(p, mem, e, f)]
  <2>3. ASSUME NEW e \in (k - 1)..to PROVE ValuesAt(p, mem, e, g) = ValuesAt(p, mem, e, f)
    <3>1. e \in r..to
      BY <1>1, <2>1
    <3>2. ASSUME NEW j \in DOMAIN Kids[e] PROVE g[Kids[e][j]] = f[Kids[e][j]]
      <4>1. Kids[e][j] \in (e + 1)..to
        BY <1>2, <3>1
      <4>2. Kids[e][j] \in k..to /\ Kids[e][j] \in (k - 1)..to
        BY <1>1, <2>1, <4>1
      <4> QED BY <2>2, <4>2
    <3> HIDE DEF g
    <3> QED BY <1>2, <3>1, <3>2, ValuesAgree
  <2>4. g = [e \in (k - 1)..to |-> ValuesAt(p, mem, e, g)]
    BY <2>3, Zenon
  <2>5. k - 1 \in Good
    <3> HIDE DEF g
    <3> QED BY <2>1, <2>4
  <2> QED BY <2>1, <2>5
<1> QED BY <1>5, <1>6

LEMMA ValuesAre ==
  ASSUME NEW p, IsProgram(p), NEW mem, NEW e, InTree(p.root, e)
  PROVE  Values(p, mem)[e] = ValuesAt(p, mem, e, Values(p, mem))
<1> DEFINE val == CHOOSE f : f = [m \in p.root..LastIn[p.root] |-> ValuesAt(p, mem, m, f)]
<1>1. val = [m \in p.root..LastIn[p.root] |-> ValuesAt(p, mem, m, val)]
  <2>1. \E f : f = [m \in p.root..LastIn[p.root] |-> ValuesAt(p, mem, m, f)]
    BY ValuesExist
  <2> QED BY <2>1, Zenon
<1>2. Values(p, mem) = val
  BY Zenon DEF Values
<1> HIDE DEF val
<1>3. e \in p.root..LastIn[p.root]
  BY DEF InTree
<1> QED BY <1>1, <1>2, <1>3

-----------------------------------------------------------------------------
(***************************************************************************)
(* The course.                                                             *)
(***************************************************************************)
LEMMA CourseRange ==
  ASSUME NEW p, IsProgram(p), NEW a, UptoIn(p.root, a), NEW b, UptoIn(p.root, b),
         NEW m \in a..(b - 1)
  PROVE  m \in Nat /\ InTree(p.root, m) /\ UptoIn(p.root, m) /\ UptoIn(p.root, m + 1)
<1>1. /\ p.root \in Root /\ p.root \in Nat /\ LastIn[p.root] \in Nat /\ p.root \in Node
      /\ a \in p.root..(LastIn[p.root] + 1) /\ b \in p.root..(LastIn[p.root] + 1)
  BY ProgramFacts DEF UptoIn
<1>2. m \in p.root..LastIn[p.root] /\ m \in Nat /\ m + 1 \in p.root..(LastIn[p.root] + 1)
      /\ m \in p.root..(LastIn[p.root] + 1)
  BY <1>1
<1> QED BY <1>1, <1>2 DEF InTree, UptoIn

\* Nodes that do not act, are skipped or come after a failure change nothing.
LEMMA Quiet ==
  ASSUME NEW p, IsProgram(p), NEW a, UptoIn(p.root, a), NEW b, UptoIn(p.root, b), a <= b,
         \A m \in a..(b - 1) : ~Acts(m) \/ m < Course(p)[a].next \/ ~Course(p)[a].ok
  PROVE  Course(p)[b] = Course(p)[a]
<1> DEFINE S == {m \in a..b : Course(p)[m] # Course(p)[a]}
<1>1. a \in Nat /\ b \in Nat
  BY ProgramFacts DEF UptoIn
<1> SUFFICES ASSUME S # {} PROVE FALSE
  <2>1. b \in a..b
    BY <1>1
  <2> QED BY <2>1
<1>2. PICK m \in S : \A n \in S : m <= n
  <2>1. S \subseteq Nat
    <3>1. ASSUME NEW k \in S PROVE k \in Nat
      <4>1. k \in a..b
        OBVIOUS
      <4> HIDE DEF S
      <4> QED BY <1>1, <4>1
    <3> HIDE DEF S
    <3> QED BY <3>1
  <2> HIDE DEF S
  <2> QED BY <2>1, LeastNumber
<1>3. m \in a..b /\ Course(p)[m] # Course(p)[a] /\ m # a
  BY <1>2
<1>4. m - 1 \in a..(b - 1) /\ m - 1 \in a..b /\ (m - 1) + 1 = m /\ ~(m <= m - 1)
  BY <1>1, <1>3
<1>5. Course(p)[m - 1] = Course(p)[a]
  BY <1>2, <1>4
<1>6. PICK k : k = m - 1
  OBVIOUS
<1>7. InTree(p.root, k)
  BY <1>4, <1>6, CourseRange
<1>8. Course(p)[k + 1] = Pass(p, Course(p)[a], k)
  BY <1>5, <1>6, <1>7, CourseIs DEF InTree
<1>9. Pass(p, Course(p)[a], k) = Course(p)[a]
  BY <1>4, <1>6 DEF Pass
<1> QED BY <1>3, <1>4, <1>6, <1>8, <1>9

LEMMA QuietTree ==
  ASSUME NEW p, IsProgram(p), NEW n, InTree(p.root, n), Kind[n] \in PureKinds
  PROVE  Course(p)[LastIn[n] + 1] = Course(p)[n]
<1>1. p.root \in Root /\ n \in Node /\ n \in Nat /\ LastIn[n] \in Nat /\ n <= LastIn[n]
  BY ProgramFacts, AroundFacts
<1>2. UptoIn(p.root, n) /\ UptoIn(p.root, LastIn[n] + 1)
  BY <1>1, UptoOf
<1>3. ASSUME NEW m \in n..((LastIn[n] + 1) - 1) PROVE ~Acts(m)
  <2>1. m \in n..LastIn[n]
    BY <1>1
  <2> QED BY <1>1, <2>1, PureTree DEF Acts, PureKinds, ExprKinds, LeafKinds, UnaryKinds, BinaryKinds
<1> QED BY <1>1, <1>2, <1>3, Quiet

\* What an acting node that is not skipped does.
LEMMA ActingPass ==
  ASSUME NEW p, IsProgram(p), NEW n, InTree(p.root, n), Acts(n), NEW st, st = Course(p)[n],
         st.ok, ~(n < st.next),
         NEW ty, ty = Wanted(p, n), NEW value, value = Values(p, st.mem)[Kids[n][1]][ty],
         NEW then, then = Course(p)[n + 1]
  PROVE  /\ ty \notin ValueTypes => /\ then.mem = st.mem /\ then.next = LastIn[n] + 1
                                  /\ (NDEBUG => then.ok) /\ (~NDEBUG => ~then.ok)
         /\ ty \in ValueTypes /\ value = << >> => then.mem = st.mem /\ then.next = st.next /\ ~then.ok
         /\ ty \in ValueTypes /\ value # << >> /\ Kind[n] = "assign" =>
              /\ then.mem = Assigned(p, st.mem, Cascaded(p.root, n), NewConstant(ty, value[1]))
              /\ then.next = st.next /\ then.ok
         /\ ty \in ValueTypes /\ value # << >> /\ Kind[n] = "if_stmt" =>
              /\ then.mem = st.mem /\ then.next = (IF value[1] = 0 THEN LastIn[n] + 1 ELSE st.next)
              /\ then.ok
<1>1. then = Pass(p, st, n)
  BY CourseIs DEF InTree
<1>2. then = Use(p, st, n, value)
  BY <1>1 DEF Pass
<1>3. Kind[n] = "assign" \/ Kind[n] = "if_stmt"
  BY DEF Acts
<1>4. CASE ty \notin ValueTypes
  <2>1. then = State(st.mem, LastIn[n] + 1, NDEBUG)
    BY <1>2, <1>4 DEF Use
  <2>2. then.mem = st.mem /\ then.next = LastIn[n] + 1
    BY <2>1 DEF State
  <2>3. NDEBUG => then.ok
    <3>1. ASSUME NDEBUG PROVE State(st.mem, LastIn[n] + 1, NDEBUG).ok
      BY <3>1 DEF State
    <3> QED BY <2>1, <3>1
  <2>4. ~NDEBUG => ~then.ok
    <3>1. ASSUME ~NDEBUG PROVE ~State(st.mem, LastIn[n] + 1, NDEBUG).ok
      BY <3>1 DEF State
    <3> QED BY <2>1, <3>1
  <2> QED BY <1>4, <2>2, <2>3, <2>4
<1>5. CASE ty \in ValueTypes /\ value = << >>
  <2>1. then = State(st.mem, st.next, FALSE)
    BY <1>2, <1>5 DEF Use
  <2> QED BY <1>5, <2>1 DEF State
<1>6. CASE ty \in ValueTypes /\ value # << >> /\ Kind[n] = "assign"
  <2>1. then = State(Assigned(p, st.mem, Cascaded(p.root, n), NewConstant(ty, value[1])), st.next, TRUE)
    BY <1>2, <1>6 DEF Use
  <2> QED BY <1>6, <2>1 DEF State
<1>7. CASE ty \in ValueTypes /\ value # << >> /\ Kind[n] = "if_stmt"
  <2>1. then = State(st.mem, IF value[1] = 0 THEN LastIn[n] + 1 ELSE st.next, TRUE)
    BY <1>2, <1>7 DEF Use
  <2> QED BY <1>7, <2>1 DEF State
<1> QED BY <1>3, <1>4, <1>5, <1>6, <1>7

\* A node never takes a value from a name, nor gives one to a name that is not
\* declared by then.
LEMMA PassMemory ==
  ASSUME NEW p, IsProgram(p), NEW n, InTree(p.root, n)
  PROVE  /\ DOMAIN Course(p)[n].mem \subseteq DOMAIN Course(p)[n + 1].mem
         /\ \A k \in DOMAIN Course(p)[n + 1].mem :
              k \in DOMAIN Course(p)[n].mem \/ k \in Declared(p.root, n + 1)
<1>0. PICK st, ty : st = Course(p)[n] /\ ty = Wanted(p, n)
  OBVIOUS
<1>3. PICK value : value = Values(p, st.mem)[Kids[n][1]][ty]
  OBVIOUS
<1> DEFINE mem == Assigned(p, st.mem, Cascaded(p.root, n), NewConstant(ty, value[1]))
<1>1. CASE ~st.ok \/ n < st.next \/ ~Acts(n)
  <2>1. Course(p)[n + 1] = Pass(p, st, n)
    BY <1>0, CourseIs DEF InTree
  <2>2. Course(p)[n + 1] = st
    BY <1>0, <1>1, <2>1 DEF Pass
  <2> QED BY <1>0, <2>2
<1>2. CASE st.ok /\ ~(n < st.next) /\ Acts(n)
  <2>1. Course(p)[n + 1].mem = st.mem \/ (Kind[n] = "assign" /\ Course(p)[n + 1].mem = mem)
    <3>1. PICK then : then = Course(p)[n + 1]
      OBVIOUS
    <3>2. Kind[n] = "assign" \/ Kind[n] = "if_stmt"
      BY <1>2 DEF Acts
    <3>3. CASE ty \notin ValueTypes \/ value = << >> \/ Kind[n] = "if_stmt"
      <4>1. then.mem = st.mem
        BY <1>0, <1>2, <1>3, <3>1, <3>2, <3>3, ActingPass
      <4> QED BY <3>1, <4>1
    <3>4. CASE ty \in ValueTypes /\ value # << >> /\ Kind[n] = "assign"
      <4>1. then.mem = mem
        BY <1>0, <1>2, <1>3, <3>1, <3>4, ActingPass
      <4> HIDE DEF mem
      <4> QED BY <3>1, <3>4, <4>1
    <3> QED BY <3>2, <3>3, <3>4
  <2>2. ASSUME Kind[n] = "assign"
        PROVE  /\ DOMAIN st.mem \subseteq DOMAIN mem
               /\ \A k \in DOMAIN mem : k \in DOMAIN st.mem \/ k \in Declared(p.root, n + 1)
    <3> DEFINE pairs == {PairOf(p, a) : a \in Cascaded(p.root, n)}
    <3>1. DOMAIN mem = DOMAIN st.mem \cup pairs
      BY DEF Assigned
    <3>2. ASSUME NEW a \in Cascaded(p.root, n) PROVE PairOf(p, a) \in Declared(p.root, n + 1)
      <4>1. /\ p.root \in Root /\ p.root \in Nat /\ LastIn[p.root] \in Nat /\ n \in Nat
            /\ n \in p.root..LastIn[p.root] /\ p.root \in Node
            /\ DOMAIN p.types = Declarations(p.root)
        BY ProgramFacts DEF InTree
      <4>2. a \in p.root..n /\ Kind[a] = "assign"
        <5>1. a \in p.root..n /\ \A b \in a..n : Kind[b] = "assign"
          BY DEF Cascaded
        <5>2. a \in a..n
          BY <4>1, <5>1
        <5> QED BY <5>1, <5>2
      <4>3. a \in p.root..LastIn[p.root] /\ a + 1 \in p.root..(LastIn[p.root] + 1)
            /\ n + 1 \in p.root..(LastIn[p.root] + 1) /\ a + 1 <= n + 1
        BY <4>1, <4>2
      <4>4. InTree(p.root, a) /\ UptoIn(p.root, a + 1) /\ UptoIn(p.root, n + 1)
        BY <4>1, <4>3 DEF InTree, UptoIn
      <4>5. Owner(p.root, a, Var[a], Declarations(p.root)) \in Declared(p.root, a + 1)
        BY <4>1, <4>2, <4>4, OwnerDeclared
      <4>6. Declared(p.root, a + 1) \subseteq Declared(p.root, n + 1)
        BY <4>3, <4>4, DeclaredGrows
      <4> QED BY <4>1, <4>5, <4>6 DEF PairOf
    <3> HIDE DEF mem
    <3> QED BY <3>1, <3>2
  <2> HIDE DEF mem
  <2> QED BY <1>0, <2>1, <2>2
<1> QED BY <1>1, <1>2

LEMMA MemoryGrows ==
  ASSUME NEW p, IsProgram(p), NEW a, UptoIn(p.root, a), NEW b, UptoIn(p.root, b), a <= b
  PROVE  DOMAIN Course(p)[a].mem \subseteq DOMAIN Course(p)[b].mem
<1> DEFINE S == {m \in a..b : ~(DOMAIN Course(p)[a].mem \subseteq DOMAIN Course(p)[m].mem)}
<1>1. a \in Nat /\ b \in Nat
  BY ProgramFacts DEF UptoIn
<1> SUFFICES ASSUME S # {} PROVE FALSE
  <2>1. b \in a..b
    BY <1>1
  <2> QED BY <2>1
<1>2. PICK m \in S : \A n \in S : m <= n
  <2>1. S \subseteq Nat
    <3>1. ASSUME NEW k \in S PROVE k \in Nat
      <4>1. k \in a..b
        OBVIOUS
      <4> HIDE DEF S
      <4> QED BY <1>1, <4>1
    <3> HIDE DEF S
    <3> QED BY <3>1
  <2> HIDE DEF S
  <2> QED BY <2>1, LeastNumber
<1>3. m \in a..b /\ m # a
  BY <1>2
<1>4. PICK k : k = m - 1
  OBVIOUS
<1>5. k \in a..(b - 1) /\ k \in a..b /\ k + 1 = m /\ ~(m <= k)
  BY <1>1, <1>3, <1>4
<1>6. DOMAIN Course(p)[a].mem \subseteq DOMAIN Course(p)[k].mem
  BY <1>2, <1>5
<1>7. InTree(p.root, k)
  BY <1>5, CourseRange
<1>8. DOMAIN Course(p)[k].mem \subseteq DOMAIN Course(p)[k + 1].mem
  BY <1>7, PassMemory
<1> QED BY <1>2, <1>5, <1>6, <1>8

LEMMA MemoryDeclared ==
  ASSUME NEW p, IsProgram(p), NEW n, UptoIn(p.root, n)
  PROVE  DOMAIN Course(p)[n].mem \subseteq Declared(p.root, n)
<1> DEFINE S == {m \in p.root..n : ~(DOMAIN Course(p)[m].mem \subseteq Declared(p.root, m))}
<1>1. /\ n \in Nat /\ p.root \in Nat /\ p.root <= n /\ n <= LastIn[p.root] + 1 /\ LastIn[p.root] \in Nat
      /\ p.root \in Root
  BY ProgramFacts DEF UptoIn
<1> SUFFICES ASSUME S # {} PROVE FALSE
  <2>1. n \in p.root..n
    BY <1>1
  <2> QED BY <2>1
<1>2. PICK m \in S : \A k \in S : m <= k
  <2>1. S \subseteq Nat
    <3>1. ASSUME NEW k \in S PROVE k \in Nat
      <4>1. k \in p.root..n
        OBVIOUS
      <4> HIDE DEF S
      <4> QED BY <1>1, <4>1
    <3> HIDE DEF S
    <3> QED BY <3>1
  <2> HIDE DEF S
  <2> QED BY <2>1, LeastNumber
<1>3. m # p.root
  <2>1. Course(p)[p.root].mem = << >>
    <3>1. PICK st : st = Course(p)[p.root]
      OBVIOUS
    <3>2. st = [mem |-> << >>, next |-> p.root, ok |-> TRUE]
      BY <3>1, CourseIs DEF State
    <3> QED BY <3>1, <3>2
  <2>2. DOMAIN Course(p)[p.root].mem = {}
    BY <2>1
  <2> QED BY <1>2, <2>2
<1>4. PICK k : k = m - 1
  OBVIOUS
<1>5. m \in p.root..n
  BY <1>2
<1>6. k \in p.root..LastIn[p.root] /\ k \in p.root..n /\ k + 1 = m /\ ~(m <= k)
      /\ k \in p.root..(LastIn[p.root] + 1) /\ m \in p.root..(LastIn[p.root] + 1) /\ k <= m
  BY <1>1, <1>3, <1>4, <1>5
<1>7. DOMAIN Course(p)[k].mem \subseteq Declared(p.root, k)
  BY <1>2, <1>6
<1>8. InTree(p.root, k) /\ UptoIn(p.root, k) /\ UptoIn(p.root, m)
  BY <1>1, <1>6, ProgramFacts DEF InTree, UptoIn
<1>9. Declared(p.root, k) \subseteq Declared(p.root, m)
  BY <1>6, <1>8, DeclaredGrows
<1>10. \A q \in DOMAIN Course(p)[m].mem : q \in DOMAIN Course(p)[k].mem \/ q \in Declared(p.root, m)
  BY <1>6, <1>8, PassMemory
<1> QED BY <1>2, <1>7, <1>9, <1>10

\* An expression without a value is the end.
LEMMA Fails ==
  ASSUME NEW p, IsProgram(p), NEW n, InTree(p.root, n), Acts(n), NEW st, st = Course(p)[n],
         st.ok, ~(n < st.next),
         NEW ty, ty = Wanted(p, n), ty \in ValueTypes, Values(p, st.mem)[Kids[n][1]][ty] = << >>
  PROVE  ~Meaning(p).ok /\ Meaning(p).mem = st.mem
<1>1. PICK then : then = Course(p)[n + 1]
  OBVIOUS
<1>2. then.mem = st.mem /\ ~then.ok
  BY <1>1, ActingPass
<1>3. /\ UptoIn(p.root, n + 1) /\ UptoIn(p.root, LastIn[p.root] + 1) /\ n + 1 <= LastIn[p.root] + 1
      /\ LastIn[p.root] \in Nat
  <2>1. p.root \in Root /\ InTree(p.root, p.root)
    BY ProgramFacts
  <2>2. n \in Nat /\ n <= LastIn[n] /\ LastIn[n] <= LastIn[p.root] /\ LastIn[n] \in Nat /\ LastIn[p.root] \in Nat
    BY AroundFacts
  <2> QED BY <2>1, <2>2, UptoOf
<1>4. Course(p)[LastIn[p.root] + 1] = Course(p)[n + 1]
  BY <1>1, <1>2, <1>3, Quiet
<1> QED BY <1>1, <1>2, <1>4 DEF Meaning

\* What an assignment or an if leaves at the end of its tree.
LEMMA AssignPasses ==
  ASSUME NEW p, IsProgram(p), NEW n, InTree(p.root, n), Acts(n), Kind[n] = "assign"
  PROVE  Course(p)[LastIn[n] + 1] = Course(p)[n + 1]
<1>1. n \in Node /\ Kind[n] # "block" /\ Len(Kids[n]) = 1 /\ 1 \in DOMAIN Kids[n]
  <2>1. n \in Node
    BY AroundFacts
  <2>2. Kind[n] # "block" /\ Arity(Kind[n]) = 1
    BY ArityFacts
  <2>3. Len(Kids[n]) = 1 /\ DOMAIN Kids[n] = 1..Len(Kids[n])
    BY <2>1, <2>2, NodeFacts, TreeAssumption
  <2> QED BY <2>1, <2>2, <2>3
<1>2. Kids[n][1] = n + 1 /\ LastIn[n] = LastIn[Kids[n][1]] /\ Kind[Kids[n][1]] \in PureKinds
  BY <1>1, NodeFacts, PureKids
<1>3. InTree(p.root, Kids[n][1])
  BY <1>1, AroundKid
<1> QED BY <1>2, <1>3, QuietTree

LEMMA IfKids ==
  ASSUME NEW n \in Node, Kind[n] = "if_stmt"
  PROVE  /\ DOMAIN Kids[n] = {1, 2} /\ Kids[n][1] = n + 1 /\ Kids[n][2] = LastIn[Kids[n][1]] + 1
         /\ LastIn[n] = LastIn[Kids[n][2]] /\ Kids[n][1] \in Node /\ Kids[n][2] \in Node
         /\ Kind[Kids[n][1]] \in PureKinds
<1>1. Len(Kids[n]) = 2
  BY ArityFacts, TreeAssumption
<1>2. DOMAIN Kids[n] = {1, 2} /\ 1 \in DOMAIN Kids[n]
  <2>1. DOMAIN Kids[n] = 1..Len(Kids[n])
    BY NodeFacts
  <2> QED BY <1>1, <2>1
<1>3. Kids[n][1] = n + 1 /\ LastIn[n] = LastIn[Kids[n][2]] /\ Kids[n][1] \in Node /\ Kids[n][2] \in Node
  BY <1>1, <1>2, NodeFacts
<1>4. Kids[n][2] = LastIn[Kids[n][1]] + 1
  <2>1. 2 \in 2..Len(Kids[n]) /\ 2 - 1 = 1
    BY <1>1
  <2>2. Kids[n][2] = LastIn[Kids[n][2 - 1]] + 1
    BY <2>1, NodeFacts
  <2> QED BY <2>1, <2>2
<1>5. Kind[Kids[n][1]] \in PureKinds
  BY <1>2, PureKids
<1> QED BY <1>2, <1>3, <1>4, <1>5

LEMMA IfSkips ==
  ASSUME NEW p, IsProgram(p), NEW n, InTree(p.root, n), NEW then, then = Course(p)[n + 1],
         then.next = LastIn[n] + 1
  PROVE  Course(p)[LastIn[n] + 1] = then
<1>1. n \in Nat /\ LastIn[n] \in Nat /\ n <= LastIn[n] /\ p.root \in Root
  BY AroundFacts, ProgramFacts
<1>2. UptoIn(p.root, n + 1) /\ UptoIn(p.root, LastIn[n] + 1) /\ n + 1 <= LastIn[n] + 1
  BY <1>1, UptoOf
<1>3. \A m \in (n + 1)..((LastIn[n] + 1) - 1) : m < LastIn[n] + 1
  BY <1>1
<1> QED BY <1>2, <1>3, Quiet

-----------------------------------------------------------------------------
(***************************************************************************)
(* The values of the kinds of expressions.                                 *)
(***************************************************************************)
ExpressionOf(p, e, ty) == IsProgram(p) /\ InTree(p.root, e) /\ ty \in ValueTypes

LEMMA ValueIs ==
  ASSUME NEW p, NEW mem, NEW e, NEW ty, ExpressionOf(p, e, ty), NEW val, val = Values(p, mem)
  PROVE  val[e][ty] = ValueAt(p, mem, e, val, ty)
<1>1. val[e] = ValuesAt(p, mem, e, val) /\ ty \in ValueTypes
  BY ValuesAre DEF ExpressionOf
<1> QED BY <1>1 DEF ValuesAt

LEMMA ValueCases ==
  ASSUME NEW p, NEW mem, NEW e, NEW ty, NEW val
  PROVE  /\ Kind[e] \in ConstantKinds => ValueAt(p, mem, e, val, ty) = Loaded(ty, Const(Kind[e], Lit[e]))
         /\ Kind[e] = "variable" =>
              ValueAt(p, mem, e, val, ty) =
                IF Having(p.root, e, Var[e], DOMAIN p.types) # {} /\ PairOf(p, e) \in DOMAIN mem
                  THEN Loaded(ty, mem[PairOf(p, e)]) ELSE << >>
         /\ Kind[e] \in UnaryKinds =>
              ValueAt(p, mem, e, val, ty) = Computed(Kind[e], ty, val[Kids[e][1]][ty], val[Kids[e][1]][ty])
         /\ Kind[e] \in BinaryKinds =>
              ValueAt(p, mem, e, val, ty) = Computed(Kind[e], ty, val[Kids[e][1]][ty], val[Kids[e][2]][ty])
<1>1. ASSUME Kind[e] \in ConstantKinds
      PROVE  ValueAt(p, mem, e, val, ty) = Loaded(ty, Const(Kind[e], Lit[e]))
  <2>1. Kind[e] # "variable" /\ Kind[e] \notin UnaryKinds /\ Kind[e] \notin BinaryKinds /\ Kind[e] # "comp_equals"
    BY <1>1 DEF ConstantKinds, UnaryKinds, BinaryKinds
  <2> QED BY <1>1, <2>1, Zenon DEF ValueAt
<1>2. ASSUME Kind[e] = "variable"
      PROVE  ValueAt(p, mem, e, val, ty) =
               IF Having(p.root, e, Var[e], DOMAIN p.types) # {} /\ PairOf(p, e) \in DOMAIN mem
                 THEN Loaded(ty, mem[PairOf(p, e)]) ELSE << >>
  <2>1. /\ Kind[e] \notin ConstantKinds /\ Kind[e] \notin UnaryKinds /\ Kind[e] \notin BinaryKinds
        /\ Kind[e] # "comp_equals"
    BY <1>2 DEF ConstantKinds, UnaryKinds, BinaryKinds
  <2> QED BY <1>2, <2>1, Zenon DEF ValueAt
<1>3. ASSUME Kind[e] \in UnaryKinds
      PROVE  ValueAt(p, mem, e, val, ty) = Computed(Kind[e], ty, val[Kids[e][1]][ty], val[Kids[e][1]][ty])
  <2>1. Kind[e] # "variable" /\ Kind[e] \notin ConstantKinds /\ Kind[e] \notin BinaryKinds /\ Kind[e] # "comp_equals"
    BY <1>3 DEF ConstantKinds, UnaryKinds, BinaryKinds
  <2> QED BY <1>3, <2>1, Zenon DEF ValueAt
<1>4. ASSUME Kind[e] \in BinaryKinds
      PROVE  ValueAt(p, mem, e, val, ty) = Computed(Kind[e], ty, val[Kids[e][1]][ty], val[Kids[e][2]][ty])
  <2>1. Kind[e] # "variable" /\ Kind[e] \notin ConstantKinds /\ Kind[e] \notin UnaryKinds /\ Kind[e] # "comp_equals"
    BY <1>4 DEF ConstantKinds, UnaryKinds, BinaryKinds
  <2> QED BY <1>4, <2>1, Zenon DEF ValueAt
<1> QED BY <1>1, <1>2, <1>3, <1>4

LEMMA LeafValue ==
  ASSUME NEW p, NEW mem, NEW e, NEW ty, ExpressionOf(p, e, ty)
  PROVE  /\ Kind[e] \in ConstantKinds =>
              Values(p, mem)[e][ty] = Loaded(ty, Const(Kind[e], Lit[e]))
         /\ Kind[e] = "variable" =>
              Values(p, mem)[e][ty] =
                IF Having(p.root, e, Var[e], DOMAIN p.types) # {} /\ PairOf(p, e) \in DOMAIN mem
                  THEN Loaded(ty, mem[PairOf(p, e)]) ELSE << >>
<1>1. PICK val : val = Values(p, mem)
  OBVIOUS
<1>2. val[e][ty] = ValueAt(p, mem, e, val, ty)
  BY <1>1, ValueIs
<1>3. ASSUME Kind[e] \in ConstantKinds PROVE val[e][ty] = Loaded(ty, Const(Kind[e], Lit[e]))
  BY <1>2, <1>3, ValueCases
<1>4. ASSUME Kind[e] = "variable"
      PROVE  val[e][ty] = IF Having(p.root, e, Var[e], DOMAIN p.types) # {} /\ PairOf(p, e) \in DOMAIN mem
                            THEN Loaded(ty, mem[PairOf(p, e)]) ELSE << >>
  <2>1. PICK w : w = IF Having(p.root, e, Var[e], DOMAIN p.types) # {} /\ PairOf(p, e) \in DOMAIN mem
                       THEN Loaded(ty, mem[PairOf(p, e)]) ELSE << >>
    OBVIOUS
  <2>2. ValueAt(p, mem, e, val, ty) = w
    BY <1>4, <2>1, ValueCases, Zenon
  <2> QED BY <1>2, <2>1, <2>2, Zenon
<1> QED BY <1>1, <1>3, <1>4

LEMMA OperatorValue ==
  ASSUME NEW p, NEW mem, NEW e, NEW ty, ExpressionOf(p, e, ty), NEW a, NEW b,
         Kind[e] \in UnaryKinds \cup BinaryKinds, a = Values(p, mem)[Kids[e][1]][ty],
         b = IF Kind[e] \in UnaryKinds THEN a ELSE Values(p, mem)[Kids[e][2]][ty]
  PROVE  /\ Values(p, mem)[e][ty] = Computed(Kind[e], ty, a, b)
         /\ a = << >> \/ b = << >> => Values(p, mem)[e][ty] = << >>
         /\ \A v, w : a = <<v>> /\ b = <<w>> /\ Exact(Kind[e], ty, v, w) =>
              Values(p, mem)[e][ty] = <<Compute(Kind[e], ty, v, w)>>
<1>1. PICK val : val = Values(p, mem)
  OBVIOUS
<1>2. val[e][ty] = ValueAt(p, mem, e, val, ty)
  BY <1>1, ValueIs
<1>3. val[e][ty] = Computed(Kind[e], ty, a, b)
  <2>1. CASE Kind[e] \in UnaryKinds
    <3>1. a = val[Kids[e][1]][ty] /\ b = a
      BY <1>1, <2>1
    <3> QED BY <1>2, <2>1, <3>1, ValueCases
  <2>2. CASE Kind[e] \in BinaryKinds
    <3>1. Kind[e] \notin UnaryKinds
      BY <2>2 DEF BinaryKinds, UnaryKinds
    <3>2. a = val[Kids[e][1]][ty] /\ b = val[Kids[e][2]][ty]
      BY <1>1, <3>1
    <3> QED BY <1>2, <2>2, <3>2, ValueCases
  <2> QED BY <2>1, <2>2
<1>4. a = << >> \/ b = << >> => Computed(Kind[e], ty, a, b) = << >>
  BY DEF Computed
<1>5. ASSUME NEW v, NEW w, a = <<v>>, b = <<w>>, Exact(Kind[e], ty, v, w)
      PROVE  Computed(Kind[e], ty, a, b) = <<Compute(Kind[e], ty, v, w)>>
  <2>1. a # << >> /\ b # << >> /\ a[1] = v /\ b[1] = w
    BY <1>5
  <2> QED BY <1>5, <2>1 DEF Computed
<1> QED BY <1>1, <1>3, <1>4, <1>5

LEMMA EqualsValue ==
  ASSUME NEW p, NEW mem, NEW e, NEW ty, ExpressionOf(p, e, ty), Kind[e] = "comp_equals",
         NEW as, as = ComparedAs(CondType(p, e)), CondType(p, e) \in ValueTypes,
         NEW a, a = Values(p, mem)[Kids[e][1]][as], NEW b, b = Values(p, mem)[Kids[e][2]][as]
  PROVE  Values(p, mem)[e][ty] = IF ty = IntType THEN Compared(a, b) ELSE << >>
<1>1. PICK val : val = Values(p, mem)
  OBVIOUS
<1>2. val[e][ty] = ValueAt(p, mem, e, val, ty)
  BY <1>1, ValueIs
<1>3. Kind[e] \notin UnaryKinds \cup BinaryKinds \cup ConstantKinds /\ Kind[e] # "variable"
  BY DEF UnaryKinds, BinaryKinds, ConstantKinds
<1>4. ty # IntType => val[e][ty] = << >>
  BY <1>2, <1>3 DEF ValueAt
<1>5. ty = IntType => val[e][ty] = Compared(a, b)
  BY <1>1, <1>2, <1>3 DEF ValueAt
<1> QED BY <1>1, <1>4, <1>5

-----------------------------------------------------------------------------
(***************************************************************************)
(* The program of the tree that is evaluated.                              *)
(***************************************************************************)
LEMMA ProgramOK ==
  ASSUME MachineOK, DeclaredOK, phase # "populate"
  PROVE  /\ IsProgram(Program) /\ Program.root = root /\ DOMAIN Program.types = DOMAIN table
         /\ root \in Root /\ root \in Node /\ root \in Nat /\ Kind[root] = "block" /\ InTree(root, root)
         /\ LastIn[root] \in Nat /\ root <= LastIn[root]
<1>1. root \in Root /\ DOMAIN table = Declarations(root)
  BY DeclaresAll DEF MachineOK, TypeOK
<1>2. Program.root = root /\ DOMAIN Program.types = DOMAIN table
  BY DEF Program
<1>3. IsProgram(Program)
  BY <1>1, <1>2 DEF IsProgram
<1> HIDE DEF Program
<1> QED BY <1>1, <1>2, <1>3, ProgramFacts

LEMMA ProgramIs ==
  /\ \A k \in DOMAIN table : Program.types[k] = table[k].type
  /\ \A n : CondType(Program, n) = Annotation(n)
  /\ \A n : PairOf(Program, n) = Owner(root, n, Var[n], DOMAIN table)
<1>1. \A n : CondType(Program, n) = Annotation(n)
  BY DEF Program, CondType, Annotation
<1>2. DOMAIN Program.types = DOMAIN table /\ Program.root = root
      /\ \A k \in DOMAIN table : Program.types[k] = table[k].type
  BY DEF Program
<1> HIDE DEF Program
<1> QED BY <1>1, <1>2 DEF PairOf

\* The type checker was at every node of the tree.
LEMMA AllSound ==
  ASSUME MachineOK, CheckedOK, TypingOK, phase \in {"ready", "eval"}, NEW m, InTree(root, m)
  PROVE  Sound(m)
<1>1. root \in Node /\ root \in Nat /\ m \in root..LastIn[root] /\ m \in Nat /\ LastIn[root] \in Nat
  BY AroundFacts DEF InTree
<1>2. NodesOK
  BY DEF TypingOK
<1>3. root \in CheckedNodes
  <2>1. << root, << >> >> \in checked /\ << root, << >> >>[1] = root
    BY DEF CheckedOK
  <2> QED BY <2>1 DEF CheckedNodes
<1> SUFFICES ASSUME m \notin CheckedNodes PROVE FALSE
  BY <1>2 DEF NodesOK
<1> DEFINE T == {n \in CheckedNodes : m \in (n + 1)..LastIn[n]}
<1>4. root \in T
  BY <1>1, <1>3
<1>5. PICK n \in T : \A q \in T : q <= n
  <2>1. ASSUME NEW n \in T PROVE n \in 0..m
    <3>1. n \in root..LastIn[root] /\ m \in (n + 1)..LastIn[n]
      BY <1>2 DEF NodesOK
    <3> HIDE DEF T
    <3> QED BY <1>1, <3>1
  <2>2. T \subseteq 0..m /\ T # {}
    <3> HIDE DEF T
    <3> QED BY <1>4, <2>1
  <2> HIDE DEF T
  <2> QED BY <1>1, <2>2, GreatestNumber
<1>6. n \in CheckedNodes /\ n \in Node /\ m \in (n + 1)..LastIn[n]
  <2>1. n \in CheckedNodes /\ n \in root..LastIn[root] /\ m \in (n + 1)..LastIn[n]
    BY <1>2, <1>5 DEF NodesOK
  <2> QED BY <1>1, <2>1, TreesNest
<1>7. PICK k \in DOMAIN Kids[n] : m \in Kids[n][k]..LastIn[Kids[n][k]]
  BY <1>6, InAKid
<1>8. Kids[n][k] \in CheckedNodes /\ Kids[n][k] # m
  BY <1>2, <1>6 DEF NodesOK
<1>9. Kids[n][k] \in Nat /\ LastIn[Kids[n][k]] \in Nat /\ n < Kids[n][k] /\ n \in Nat
  BY <1>6, KidRange, NodeFacts
<1>10. m \in (Kids[n][k] + 1)..LastIn[Kids[n][k]] /\ ~(Kids[n][k] <= n)
  BY <1>1, <1>7, <1>8, <1>9
<1> QED BY <1>5, <1>8, <1>10

\* A node is the child of one other.
LEMMA OneParent ==
  ASSUME NEW a \in Node, NEW j \in DOMAIN Kids[a], NEW b \in Node, NEW k \in DOMAIN Kids[b],
         Kids[a][j] = Kids[b][k]
  PROVE  ~(a < b)
<1> SUFFICES ASSUME a < b PROVE FALSE
  OBVIOUS
<1>1. PICK m : m = Kids[b][k]
  OBVIOUS
<1>2. /\ a \in Nat /\ b \in Nat /\ m \in Nat /\ LastIn[m] \in Nat /\ LastIn[a] \in Nat /\ LastIn[b] \in Nat
      /\ b < m /\ m <= LastIn[m] /\ LastIn[m] <= LastIn[b] /\ LastIn[m] <= LastIn[a]
  BY <1>1, KidRange, NodeFacts
<1>3. b \in (a + 1)..LastIn[a]
  BY <1>2
<1>4. PICK i \in DOMAIN Kids[a] : b \in Kids[a][i]..LastIn[Kids[a][i]]
  BY <1>3, InAKid
<1>5. /\ Kids[a][i] \in Node /\ Kids[a][i] \in Nat /\ LastIn[Kids[a][i]] \in Nat
      /\ Kids[a][i] <= b /\ b <= LastIn[Kids[a][i]] /\ LastIn[b] <= LastIn[Kids[a][i]]
  BY <1>2, <1>4, KidRange, TreesNest
<1>6. i # j
  BY <1>1, <1>2, <1>5
<1>7. i \in Nat /\ j \in Nat
  BY NodeFacts
<1>8. CASE i < j
  <2>1. LastIn[Kids[a][i]] < Kids[a][j]
    BY <1>8, KidsInOrder
  <2> QED BY <1>1, <1>2, <1>5, <2>1
<1>9. CASE j < i
  <2>1. LastIn[Kids[a][j]] < Kids[a][i]
    BY <1>9, KidsInOrder
  <2> QED BY <1>1, <1>2, <1>5, <2>1
<1> QED BY <1>6, <1>7, <1>8, <1>9

LEMMA AssignKid ==
  ASSUME NEW n \in Node, Kind[n] = "assign"
  PROVE  DOMAIN Kids[n] = {1} /\ Kids[n][1] = n + 1 /\ LastIn[n] = LastIn[n + 1] /\ n + 1 \in Node
<1>1. Len(Kids[n]) = 1
  BY ArityFacts, TreeAssumption
<1>2. DOMAIN Kids[n] = {1}
  BY <1>1, NodeFacts
<1>3. Kids[n][1] = n + 1 /\ LastIn[n] = LastIn[Kids[n][1]] /\ Kids[n][1] \in Node
  BY <1>1, <1>2, NodeFacts
<1> QED BY <1>2, <1>3

LEMMA CascadedNext ==
  ASSUME NEW r, NEW n, InTree(r, n), Kind[n] = "assign"
  PROVE  /\ n \in Cascaded(r, n) /\ \A a \in Cascaded(r, n) : Kind[a] = "assign" /\ InTree(r, a) /\ a <= n
         /\ IF r <= n - 1 /\ Kind[n - 1] = "assign" THEN Cascaded(r, n) = Cascaded(r, n - 1) \cup {n}
            ELSE Cascaded(r, n) = {n}
<1>1. r \in Nat /\ n \in Nat /\ r <= n /\ r \in Node /\ n \in r..LastIn[r] /\ LastIn[r] \in Nat
  BY AroundFacts DEF InTree
<1>2. n \in Cascaded(r, n)
  <2>1. \A b \in n..n : b = n
    BY <1>1
  <2> QED BY <1>1, <2>1 DEF Cascaded
<1>3. ASSUME NEW a \in Cascaded(r, n)
      PROVE  /\ Kind[a] = "assign" /\ InTree(r, a) /\ a <= n /\ a \in Nat
             /\ a # n => a \in r..(n - 1) /\ Kind[n - 1] = "assign" /\ r <= n - 1
                         /\ \A b \in a..(n - 1) : Kind[b] = "assign"
  <2>1. a \in r..n /\ \A b \in a..n : Kind[b] = "assign"
    BY DEF Cascaded
  <2>2. a \in Nat /\ r <= a /\ a <= n /\ a \in a..n /\ a \in r..LastIn[r]
    BY <1>1, <2>1
  <2>3. ASSUME a # n PROVE a \in r..(n - 1) /\ n - 1 \in a..n /\ r <= n - 1 /\ \A b \in a..(n - 1) : b \in a..n
    BY <1>1, <2>2, <2>3
  <2> QED BY <1>1, <2>1, <2>2, <2>3 DEF InTree
<1>4. CASE r <= n - 1 /\ Kind[n - 1] = "assign"
  <2>1. ASSUME NEW a \in Cascaded(r, n - 1) PROVE a \in Cascaded(r, n)
    <3>1. a \in r..(n - 1) /\ \A b \in a..(n - 1) : Kind[b] = "assign"
      BY DEF Cascaded
    <3>2. a \in r..n
      BY <1>1, <3>1
    <3>3. ASSUME NEW b \in a..n PROVE b = n \/ b \in a..(n - 1)
      BY <1>1, <3>1
    <3> QED BY <3>1, <3>2, <3>3 DEF Cascaded
  <2>2. ASSUME NEW a \in Cascaded(r, n), a # n PROVE a \in Cascaded(r, n - 1)
    BY <1>3, <2>2 DEF Cascaded
  <2>3. Cascaded(r, n) = Cascaded(r, n - 1) \cup {n}
    BY <1>2, <2>1, <2>2
  <2> QED BY <1>2, <1>3, <1>4, <2>3
<1>5. CASE ~(r <= n - 1 /\ Kind[n - 1] = "assign")
  <2>1. Cascaded(r, n) = {n}
    BY <1>2, <1>3, <1>5
  <2> QED BY <1>2, <1>3, <1>5, <2>1
<1> QED BY <1>4, <1>5

-----------------------------------------------------------------------------
(***************************************************************************)
(* Where an evaluation is.                                                 *)
(***************************************************************************)
CalledBy(f) == IF Kind[f.n] = "block" THEN f.stage - 1 ELSE f.stage

Place(f) == IF Acting(f) \/ f.stage = 0 \/ CalledBy(f) = 0 THEN f.n
            ELSE LastIn[Kids[f.n][CalledBy(f)]] + 1

LEMMA PlaceIs ==
  /\ phase = "eval" => \A f : (IF Acting(f) THEN f.n ELSE Reached(f)) = Place(f)
  /\ phase' = "eval" => \A f : (IF Acting(f) THEN f.n ELSE Reached(f)') = Place(f)
<1>1. phase = "eval" => \A f : Called(f) = CalledBy(f)
  BY DEF Called, CalledBy
<1>2. phase' = "eval" => \A f : Called(f)' = CalledBy(f)
  BY DEF Called, CalledBy
<1>3. \A f : Reached(f)' = IF f.stage = 0 \/ Called(f)' = 0 THEN f.n ELSE LastIn[Kids[f.n][Called(f)']] + 1
  BY DEF Reached
<1> QED BY <1>1, <1>2, <1>3 DEF Place, Reached

LEMMA DoerIs ==
  ASSUME NEW frames \in Seq(Frames), NEW i, IsDoer(frames, i)
  PROVE  Doer(frames) = i
<1>1. Len(frames) \in Nat /\ i \in 1..Len(frames)
  BY DEF IsDoer
<1>2. ASSUME NEW j \in 1..Len(frames), IsDoer(frames, j), j # i PROVE FALSE
  <2>1. i \in (j + 1)..Len(frames) \/ j \in (i + 1)..Len(frames)
    BY <1>1, <1>2
  <2> QED BY <1>2, <2>1 DEF IsDoer
<1> QED BY <1>1, <1>2 DEF Doer

LEMMA SpotIs ==
  /\ \A i : stk \in Seq(Frames) /\ phase = "eval" /\ IsDoer(stk, i) => Spot = Place(stk[i])
  /\ \A i : stk' \in Seq(Frames) /\ phase' = "eval" /\ IsDoer(stk', i) => Spot' = Place(stk'[i])
<1>1. ASSUME NEW i, stk \in Seq(Frames), phase = "eval", IsDoer(stk, i) PROVE Spot = Place(stk[i])
  <2>1. Doer(stk) = i /\ stk # << >>
    BY <1>1, DoerIs DEF IsDoer
  <2>2. Spot = IF Acting(stk[i]) THEN stk[i].n ELSE Reached(stk[i])
    BY <2>1 DEF Spot
  <2>3. \A f : (IF Acting(f) THEN f.n ELSE Reached(f)) = Place(f)
    BY <1>1, PlaceIs
  <2> QED BY <2>2, <2>3
<1>2. ASSUME NEW i, stk' \in Seq(Frames), phase' = "eval", IsDoer(stk', i) PROVE Spot' = Place(stk'[i])
  <2>1. Doer(stk') = i /\ stk' # << >>
    BY <1>2, DoerIs DEF IsDoer
  <2>2. PICK f : f = stk'[i]
    OBVIOUS
  <2>3. Spot' = IF Acting(f) THEN f.n ELSE Reached(f)'
    BY <2>1, <2>2 DEF Spot, Reached, Called
  <2>4. (IF Acting(f) THEN f.n ELSE Reached(f)') = Place(f)
    BY <1>2, PlaceIs
  <2> QED BY <2>2, <2>3, <2>4
<1> QED BY <1>1, <1>2

LEMMA DoerExists ==
  ASSUME stk \in Seq(Frames), stk # << >>, PathOK, root \in Root
  PROVE  \E i \in 1..Len(stk) : IsDoer(stk, i)
<1> DEFINE S == {i \in 1..Len(stk) : Kind[stk[i].n] \notin PureKinds}
<1>1. Len(stk) \in Nat /\ 1 \in 1..Len(stk)
  BY TopFacts
<1>2. 1 \in S
  <2>1. Kind[stk[1].n] = "block"
    BY RootFacts DEF PathOK
  <2> QED BY <1>1, <2>1 DEF PureKinds, ExprKinds, LeafKinds, UnaryKinds, BinaryKinds
<1>3. PICK i \in S : \A j \in S : j <= i
  <2>1. S \subseteq 1..Len(stk) /\ S # {}
    BY <1>2
  <2> HIDE DEF S
  <2> QED BY <1>1, <2>1, LastPosition
<1>4. ASSUME NEW j \in (i + 1)..Len(stk) PROVE Kind[stk[j].n] \in PureKinds
  <2>1. j \in 1..Len(stk) /\ ~(j <= i)
    BY <1>1, <1>3
  <2> QED BY <1>3, <2>1
<1> QED BY <1>3, <1>4 DEF IsDoer

\* The interpreter's own top call.
LEMMA TopDoes ==
  ASSUME stk \in Seq(Frames), stk # << >>, phase = "eval", Kind[N] \notin PureKinds
  PROVE  IsDoer(stk, Len(stk)) /\ Spot = Place(Top)
<1>1. Len(stk) \in Nat /\ Len(stk) \in 1..Len(stk) /\ \A j \in (Len(stk) + 1)..Len(stk) : FALSE
  BY TopFacts
<1>2. IsDoer(stk, Len(stk))
  BY <1>1 DEF IsDoer, N, Top
<1> QED BY <1>2, SpotIs DEF Top

LEMMA CallSpot ==
  ASSUME MachineOK, phase = "eval", phase' = "eval", stk # << >>,
         NEW k \in DOMAIN Kids[N], NEW v \in Int, NEW typed \in BOOLEAN, Call(k, v, typed)
  PROVE  /\ Kind[Kids[N][k]] \notin PureKinds => Spot' = Kids[N][k]
         /\ Kind[Kids[N][k]] \in PureKinds /\ Kind[N] \in PureKinds => Spot' = Spot
         /\ Kind[Kids[N][k]] \in PureKinds /\ Kind[N] \notin PureKinds =>
              Spot' = Place(Later(Top.stage + 1, v))
<1> DEFINE L == Len(stk)
<1>1. /\ stk \in Seq(Frames) /\ nested \in Seq(Node) /\ PathOK /\ root \in Root
      /\ L \in Nat /\ L > 0
  BY TopInTree, TopFacts
<1>2. /\ stk' \in Seq(Frames) /\ Len(stk') = L + 1 /\ \A i \in 1..(L - 1) : stk'[i] = stk[i]
      /\ stk'[L] = Later(Top.stage + 1, v) /\ stk'[L + 1] = Frame(Kids[N][k], typed, nested)
  BY <1>1, CallFacts
<1>3. stk'[L].n = N /\ stk'[L + 1].n = Kids[N][k] /\ stk'[L + 1].stage = 0
  BY <1>2, LaterFacts, FrameFacts
<1> HIDE DEF L
<1>4. ASSUME Kind[Kids[N][k]] \notin PureKinds PROVE Spot' = Kids[N][k]
  <2>1. IsDoer(stk', L + 1)
    BY <1>1, <1>2, <1>3, <1>4 DEF IsDoer
  <2>2. Spot' = Place(stk'[L + 1])
    BY <1>2, <2>1, SpotIs
  <2> QED BY <1>3, <2>2 DEF Place
<1>5. ASSUME Kind[Kids[N][k]] \in PureKinds, Kind[N] \in PureKinds PROVE Spot' = Spot
  <2>1. PICK i \in 1..Len(stk) : IsDoer(stk, i)
    BY <1>1, DoerExists
  <2>2. i # L
    BY <1>5, <2>1 DEF IsDoer, L, N, Top
  <2>3. i \in 1..(L - 1) /\ i \in 1..Len(stk')
    BY <1>1, <1>2, <2>1, <2>2 DEF L
  <2>4. ASSUME NEW j \in (i + 1)..Len(stk') PROVE Kind[stk'[j].n] \in PureKinds
    <3>1. CASE j \in 1..(L - 1)
      <4>1. j \in (i + 1)..Len(stk)
        BY <1>1, <1>2, <2>3, <3>1 DEF L
      <4> QED BY <1>2, <2>1, <3>1, <4>1 DEF IsDoer
    <3>2. CASE j \notin 1..(L - 1)
      <4>1. j = L \/ j = L + 1
        BY <1>1, <1>2, <2>3, <3>2
      <4> QED BY <1>3, <1>5, <4>1
    <3> QED BY <3>1, <3>2
  <2>5. IsDoer(stk', i) /\ stk'[i] = stk[i]
    BY <1>2, <2>1, <2>3, <2>4 DEF IsDoer
  <2>6. Spot = Place(stk[i]) /\ Spot' = Place(stk'[i])
    BY <1>1, <1>2, <2>1, <2>5, SpotIs
  <2> QED BY <2>5, <2>6
<1>6. ASSUME Kind[Kids[N][k]] \in PureKinds, Kind[N] \notin PureKinds
      PROVE  Spot' = Place(Later(Top.stage + 1, v))
  <2>1. L \in 1..Len(stk') /\ \A j \in (L + 1)..Len(stk') : j = L + 1
    BY <1>1, <1>2
  <2>2. IsDoer(stk', L)
    BY <1>3, <1>6, <2>1 DEF IsDoer
  <2>3. Spot' = Place(stk'[L])
    BY <1>2, <2>2, SpotIs
  <2> QED BY <1>2, <2>3
<1> QED BY <1>4, <1>5, <1>6

LEMMA EnterSpot ==
  ASSUME MachineOK, phase = "eval", phase' = "eval", stk # << >>, NEW v \in Int, EnterScope(v)
  PROVE  Spot = N /\ Spot' = N
<1>1. stk \in Seq(Frames) /\ Kind[N] = "block" /\ Kind[N] \notin PureKinds /\ Top.stage = 0
  BY TopInTree DEF EnterScope, Running, PureKinds, ExprKinds, LeafKinds, UnaryKinds, BinaryKinds
<1>2. Spot = N
  BY <1>1, TopDoes DEF Place, N
<1>3. stk' \in Seq(Frames) /\ Len(stk') = Len(stk) /\ stk'[Len(stk)] = Later(1, v) /\ stk' # << >>
      /\ Len(stk) \in Nat /\ Len(stk) > 0
  BY <1>1, GotoFacts, TopFacts DEF EnterScope
<1>4. Later(1, v).n = N /\ Later(1, v).stage = 1
  BY LaterFacts
<1>5. IsDoer(stk', Len(stk))
  BY <1>1, <1>3, <1>4 DEF IsDoer
<1>6. Spot' = Place(Later(1, v))
  BY <1>3, <1>5, SpotIs
<1> QED BY <1>1, <1>2, <1>4, <1>6 DEF Place, CalledBy

\* A call that is of no expression was made by one that is of none.
LEMMA CallerOf ==
  ASSUME MachineOK, phase = "eval", stk # << >>, Len(stk) > 1, NEW f, f = stk[Len(stk) - 1]
  PROVE  /\ Len(stk) - 1 \in 1..Len(stk) /\ f \in Frames /\ f.n \in Node /\ f.stage \in Nat /\ f.stage > 0
         /\ CalledBy(f) \in DOMAIN Kids[f.n] /\ N = Kids[f.n][CalledBy(f)] /\ InTree(root, f.n)
<1>1. stk \in Seq(Frames) /\ PathOK /\ Len(stk) \in Nat
  BY TopInTree, TopFacts
<1>2. Len(stk) - 1 \in 1..Len(stk) /\ Len(stk) \in 2..Len(stk)
  BY <1>1
<1>3. Calls(stk[Len(stk) - 1], stk[Len(stk)])
  BY <1>1, <1>2 DEF PathOK
<1>4. Called(f) = CalledBy(f)
  BY DEF Called, CalledBy
<1>5. f \in Frames /\ f.n \in Node /\ f.stage \in Nat /\ InTree(root, f.n)
  BY <1>2, CallInTree
<1> QED BY <1>2, <1>3, <1>4, <1>5 DEF Calls, N, Top

LEMMA CallerDoes ==
  ASSUME MachineOK, PureOK, phase = "eval", stk # << >>, Kind[N] \notin PureKinds, Len(stk) > 1,
         NEW f, f = stk[Len(stk) - 1]
  PROVE  Kind[f.n] \notin PureKinds /\ ~Acting(f)
<1>1. stk \in Seq(Frames) /\ Len(stk) \in Nat
  BY TopInTree, TopFacts
<1>2. /\ Len(stk) - 1 \in 1..Len(stk) /\ f.n \in Node
      /\ CalledBy(f) \in DOMAIN Kids[f.n] /\ N = Kids[f.n][CalledBy(f)]
  BY CallerOf
<1>3. Kind[f.n] \notin PureKinds
  <2>1. Len(stk) \in (Len(stk) - 1)..Len(stk)
    BY <1>1
  <2> QED BY <1>2, <2>1 DEF PureOK, N, Top
<1>4. ~Acting(f)
  <2> SUFFICES ASSUME Acting(f) PROVE FALSE
    OBVIOUS
  <2>1. Acts(f.n) /\ CalledBy(f) = 1 /\ Kind[f.n] # "block"
    BY DEF Acting, Acts, CalledBy
  <2>2. Kind[Kids[f.n][1]] \in PureKinds
    BY <1>2, <2>1, PureKids
  <2> QED BY <1>2, <2>1, <2>2
<1> QED BY <1>3, <1>4

LEMMA ReturnSpot ==
  ASSUME MachineOK, PureOK, phase = "eval", phase' = "eval", UNCHANGED root, stk # << >>, Return
  PROVE  /\ Kind[N] \notin PureKinds => Spot' = LastIn[N] + 1
         /\ Kind[N] \in PureKinds => Spot' = Spot
<1> DEFINE L == Len(stk)
<1>1. stk \in Seq(Frames) /\ L \in Nat /\ L > 0 /\ PathOK /\ root \in Root
  BY TopInTree, TopFacts
<1>2. stk' \in Seq(Frames) /\ Len(stk') = L - 1 /\ \A i \in 1..(L - 1) : stk'[i] = stk[i]
  BY <1>1, ReturnFacts
<1>3. ASSUME Kind[N] \notin PureKinds PROVE Spot' = LastIn[N] + 1
  <2>1. CASE L = 1
    <3>1. stk' = << >> /\ N = root
      BY <1>1, <1>2, <2>1 DEF PathOK, N, Top
    <3> QED BY <3>1 DEF Spot
  <2>2. CASE L # 1
    <3>1. L > 1 /\ Len(stk') \in 1..(L - 1) /\ Len(stk') \in 1..Len(stk')
      BY <1>1, <1>2, <2>2
    <3>2. PICK f : f = stk[L - 1]
      OBVIOUS
    <3>3. /\ Kind[f.n] \notin PureKinds /\ ~Acting(f) /\ f.stage > 0 /\ f.stage \in Nat
          /\ CalledBy(f) \in DOMAIN Kids[f.n] /\ N = Kids[f.n][CalledBy(f)] /\ f.n \in Node
      BY <1>3, <3>1, <3>2, CallerOf, CallerDoes
    <3>4. stk'[Len(stk')] = f
      BY <1>2, <3>1, <3>2
    <3>5. IsDoer(stk', Len(stk'))
      BY <1>1, <1>2, <3>1, <3>3, <3>4 DEF IsDoer
    <3>6. Spot' = Place(f)
      BY <1>2, <3>4, <3>5, SpotIs
    <3>7. CalledBy(f) # 0 /\ f.stage # 0
      BY <3>3, NodeFacts
    <3> QED BY <3>3, <3>6, <3>7 DEF Place
  <2> QED BY <2>1, <2>2
<1>4. ASSUME Kind[N] \in PureKinds PROVE Spot' = Spot
  <2>1. PICK i \in 1..Len(stk) : IsDoer(stk, i)
    BY <1>1, DoerExists
  <2>2. i # L
    BY <1>4, <2>1 DEF IsDoer, N, Top
  <2>3. i \in 1..(L - 1) /\ i \in 1..Len(stk')
    BY <1>1, <1>2, <2>1, <2>2
  <2>4. ASSUME NEW j \in (i + 1)..Len(stk') PROVE Kind[stk'[j].n] \in PureKinds
    <3>1. j \in (i + 1)..Len(stk) /\ j \in 1..(L - 1)
      BY <1>1, <1>2, <2>3
    <3> QED BY <1>2, <2>1, <3>1 DEF IsDoer
  <2>5. IsDoer(stk', i) /\ stk'[i] = stk[i]
    BY <1>2, <2>1, <2>3, <2>4 DEF IsDoer
  <2>6. Spot = Place(stk[i]) /\ Spot' = Place(stk'[i])
    BY <1>1, <1>2, <2>1, <2>5, SpotIs
  <2> QED BY <2>5, <2>6
<1> QED BY <1>3, <1>4

-----------------------------------------------------------------------------
(***************************************************************************)
(* The types that the calls compute at.                                    *)
(***************************************************************************)
OwnersOf(frames) == {i \in 1..Len(frames) : Owns(frames[i])}
RankOf(frames, i) == Cardinality({j \in OwnersOf(frames) : j <= i})

LEMMA RankAs ==
  /\ Owners = OwnersOf(stk) /\ Owners' = OwnersOf(stk')
  /\ \A i : VisitType(i) = vis[RankOf(stk, i)].ty /\ VisitType(i)' = vis'[RankOf(stk', i)].ty
<1>1. Owners = OwnersOf(stk) /\ Owners' = OwnersOf(stk')
  BY DEF Owners, OwnersOf
<1>2. \A i : Rank(i) = RankOf(stk, i) /\ Rank(i)' = RankOf(stk', i)
  BY <1>1 DEF Rank, RankOf
<1> QED BY <1>1, <1>2 DEF VisitType

LEMMA RankStep ==
  ASSUME NEW frames \in Seq(Frames), NEW i \in 1..Len(frames)
  PROVE  /\ RankOf(frames, i - 1) \in Nat /\ RankOf(frames, i) \in Nat
         /\ RankOf(frames, i) = RankOf(frames, i - 1) + One(Owns(frames[i]))
<1> DEFINE O == OwnersOf(frames)
           S == {j \in O : j <= i - 1}
           T == {j \in O : j <= i}
<1>1. Len(frames) \in Nat /\ O \subseteq 1..Len(frames) /\ i \in Nat
  BY DEF OwnersOf
<1>2. IsFiniteSet(1..Len(frames))
  BY <1>1, FS_Interval
<1>3. IsFiniteSet(O)
  BY <1>1, <1>2, FS_Subset
<1>4. i \in O <=> Owns(frames[i])
  BY DEF OwnersOf
<1> HIDE DEF O
<1>5. S \in SUBSET O
  OBVIOUS
<1>6. IsFiniteSet(S)
  BY <1>3, <1>5, FS_Subset
<1>7. \A j \in O : j \in Int
  BY <1>1
<1>8. S \ {i} = T \ {i} /\ i \notin S /\ (i \in T <=> i \in O)
  <2>1. i \in Int
    BY <1>1
  <2>2. \A j \in O : j <= i <=> j <= i - 1 \/ j = i
    BY <1>7, <2>1
  <2>3. i \notin S /\ (i \in T <=> i \in O)
    BY <2>1
  <2>4. \A j : j \in S \ {i} <=> j \in T \ {i}
    BY <2>2
  <2> QED BY <2>3, <2>4
<1> HIDE DEF S, T
<1>9. /\ Cardinality(S) \in Nat /\ Cardinality(T) \in Nat
      /\ Cardinality(T) = Cardinality(S) + One(i \in T) - One(i \in S)
  BY <1>6, <1>8, Recount
<1>10. Cardinality(T) = Cardinality(S) + One(Owns(frames[i]))
  BY <1>4, <1>8, <1>9 DEF One
<1> QED BY <1>9, <1>10 DEF RankOf, S, T, O

LEMMA RankSame ==
  ASSUME NEW frames \in Seq(Frames), NEW rest \in Seq(Frames), NEW i \in Nat, i <= Len(frames), i <= Len(rest),
         \A j \in 1..i : rest[j] = frames[j]
  PROVE  RankOf(rest, i) = RankOf(frames, i)
<1>1. \A j : (j \in OwnersOf(frames) /\ j <= i) <=> (j \in OwnersOf(rest) /\ j <= i)
  <2> TAKE j
  <2>1. Len(frames) \in Nat /\ Len(rest) \in Nat
    OBVIOUS
  <2>2. j \in 1..Len(frames) /\ j <= i <=> j \in 1..i
    BY <2>1
  <2>3. j \in 1..Len(rest) /\ j <= i <=> j \in 1..i
    BY <2>1
  <2> QED BY <2>2, <2>3 DEF OwnersOf
<1>2. {j \in OwnersOf(frames) : j <= i} = {j \in OwnersOf(rest) : j <= i}
  BY <1>1
<1> QED BY <1>2 DEF RankOf

LEMMA RankWhole ==
  ASSUME NEW frames \in Seq(Frames)
  PROVE  /\ RankOf(frames, Len(frames)) = Cardinality(OwnersOf(frames))
         /\ \A i \in 1..Len(frames) : /\ RankOf(frames, i) \in Nat
                                      /\ RankOf(frames, i) <= Cardinality(OwnersOf(frames))
                                      /\ Owns(frames[1]) => RankOf(frames, i) >= 1
         /\ Len(frames) > 1 /\ Owns(frames[1]) => RankOf(frames, Len(frames) - 1) >= 1
<1> DEFINE O == OwnersOf(frames)
           S(i) == {j \in O : j <= i}
<1>1. Len(frames) \in Nat /\ O \subseteq 1..Len(frames)
  BY DEF OwnersOf
<1>2. IsFiniteSet(1..Len(frames))
  BY <1>1, FS_Interval
<1>3. IsFiniteSet(O) /\ (Owns(frames[1]) /\ Len(frames) >= 1 => 1 \in O)
  BY <1>1, <1>2, FS_Subset DEF OwnersOf
<1> HIDE DEF O
<1>4. S(Len(frames)) = O
  <2>1. \A j \in O : j <= Len(frames)
    BY <1>1
  <2> QED BY <2>1
<1>5. ASSUME NEW i \in 1..Len(frames)
      PROVE  /\ Cardinality(S(i)) \in Nat /\ Cardinality(S(i)) <= Cardinality(O)
             /\ Owns(frames[1]) => Cardinality(S(i)) >= 1
  <2>1. S(i) \in SUBSET O
    OBVIOUS
  <2>2. IsFiniteSet(S(i)) /\ Cardinality(S(i)) <= Cardinality(O)
    BY <1>3, <2>1, FS_Subset
  <2>3. Cardinality(S(i)) \in Nat
    BY <2>2, FS_CardinalityType
  <2>4. ASSUME Owns(frames[1]) PROVE Cardinality(S(i)) >= 1
    <3>1. 1 \in S(i)
      BY <1>1, <1>3, <2>4
    <3>2. {1} \in SUBSET S(i)
      BY <3>1
    <3> HIDE DEF S
    <3>3. Cardinality({1}) = 1 /\ Cardinality({1}) <= Cardinality(S(i))
      BY <2>2, <3>2, FS_Subset, FS_Singleton
    <3> QED BY <2>3, <3>3
  <2> HIDE DEF S
  <2> QED BY <2>2, <2>3, <2>4
<1>6. \A i : RankOf(frames, i) = Cardinality(S(i))
  BY DEF RankOf, O
<1>7. Len(frames) > 1 => Len(frames) - 1 \in 1..Len(frames)
  BY <1>1
<1> HIDE DEF S
<1>8. RankOf(frames, Len(frames)) = Cardinality(O)
  BY <1>4, <1>6
<1> QED BY <1>5, <1>6, <1>7, <1>8 DEF O

\* The visitor of the top call is the last.
LEMMA TopTypes ==
  ASSUME MachineOK, phase = "eval", stk # << >>
  PROVE  /\ Len(stk) \in 1..Len(stk) /\ VisitType(Len(stk)) = Visiting.ty
         /\ Len(stk) > 1 /\ ~Owns(Top) => AskedFor(Len(stk)) = Visiting.ty
         /\ Len(stk) > 1 => Owns(stk[1]) /\ Len(stk) - 1 \in 1..Len(stk)
         /\ \A i \in 1..Len(stk) : Len(stk) > 1 \/ Owns(stk[i]) => VisitType(i) \in ValueTypes \cup {Undet}
<1>1. /\ stk \in Seq(Frames) /\ Len(stk) \in Nat /\ Len(stk) > 0 /\ EvaluatorOK
      /\ vis \in Seq(Visitors) /\ Len(vis) = Cardinality(Owners) /\ root \in Root /\ PathOK
      /\ Len(vis) \in Nat
  <2>1. EvaluatorOK
    BY EvaluatorHolds
  <2> QED BY <2>1, TopInTree, TopFacts DEF EvaluatorOK
<1>2. VisitType(Len(stk)) = Visiting.ty
  BY <1>1, RankAs, RankWhole DEF Visiting
<1>3. ASSUME Len(stk) > 1 PROVE Owns(stk[1]) /\ Len(stk) - 1 \in 1..Len(stk)
  <2>1. 2 \in 2..Len(stk) /\ 2 - 1 = 1 /\ Len(stk) - 1 \in 1..Len(stk)
    BY <1>1, <1>3
  <2>2. Calls(stk[1], stk[2])
    BY <1>1, <2>1 DEF PathOK
  <2>3. Kind[stk[1].n] = "block" /\ stk[1].stage > 0
    BY <1>1, <2>2, RootFacts DEF PathOK, Calls
  <2> QED BY <2>1, <2>3 DEF Owns
<1>4. ASSUME Len(stk) > 1, ~Owns(Top) PROVE AskedFor(Len(stk)) = Visiting.ty
  <2>1. Len(stk) \in 1..Len(stk) /\ ~Owns(stk[Len(stk)])
    BY <1>1, <1>4 DEF Top
  <2>2. RankOf(stk, Len(stk)) = RankOf(stk, Len(stk) - 1) /\ RankOf(stk, Len(stk) - 1) \in Nat
    BY <1>1, <2>1, RankStep DEF One
  <2> QED BY <1>2, <2>2, RankAs DEF AskedFor
<1>5. ASSUME NEW i \in 1..Len(stk), Len(stk) > 1 \/ Owns(stk[i])
      PROVE  VisitType(i) \in ValueTypes \cup {Undet}
  <2>1. Owns(stk[1])
    <3>1. CASE Len(stk) > 1
      BY <1>3, <3>1
    <3>2. CASE ~(Len(stk) > 1)
      <4>1. i = 1
        BY <1>1, <3>2
      <4> QED BY <1>5, <3>2, <4>1
    <3> QED BY <3>1, <3>2
  <2>2. RankOf(stk, i) \in 1..Len(vis)
    BY <1>1, <2>1, RankWhole, RankAs
  <2>3. vis[RankOf(stk, i)] \in Visitors
    BY <1>1, <2>2
  <2> QED BY <2>3, RankAs DEF Visitors
<1> QED BY <1>1, <1>2, <1>3, <1>4, <1>5

\* A step of the top call leaves the types of the others.
LEMMA TypesBelow ==
  ASSUME MachineOK, Eval, phase' = "eval", stk # << >>, stk' \in Seq(Frames),
         \A j \in 1..(Len(stk) - 1) : stk'[j] = stk[j], Len(stk) - 1 <= Len(stk'),
         NEW i \in 1..(Len(stk) - 1)
  PROVE  VisitType(i)' = VisitType(i)
<1> DEFINE L == Len(stk)
           O == Owners
<1>1. /\ stk \in Seq(Frames) /\ L \in Nat /\ L > 1 /\ EvaluatorOK /\ phase = "eval" /\ VisitShape
      /\ vis \in Seq(Visitors) /\ Len(vis) = Cardinality(Owners) /\ i \in 1..L /\ i \in Nat
      /\ Len(vis) \in Nat
  <2>1. EvaluatorOK /\ VisitShape /\ phase = "eval"
    BY EvalVisitors
  <2>2. L \in Nat /\ stk \in Seq(Frames)
    BY TopInTree, TopFacts
  <2> QED BY <2>1, <2>2 DEF EvaluatorOK
<1>2. RankOf(stk', i) = RankOf(stk, i)
  <2>1. i <= Len(stk) /\ i <= Len(stk') /\ \A j \in 1..i : j \in 1..(L - 1)
    BY <1>1
  <2> QED BY <1>1, <2>1, RankSame
<1>3. RankOf(stk, i) \in Nat /\ RankOf(stk, i) >= 1 /\ RankOf(stk, i) <= Len(vis)
  <2>1. Owns(stk[1])
    BY <1>1, TopTypes
  <2> QED BY <1>1, <2>1, RankWhole, RankAs
<1>4. ASSUME L \in Owners PROVE RankOf(stk, i) <= Len(vis) - 1
  <2>2. Owns(stk[L])
    BY <1>4 DEF Owners
  <2>3. L \in 1..L /\ RankOf(stk, L) = RankOf(stk, L - 1) + One(Owns(stk[L])) /\ RankOf(stk, L) = Len(vis)
        /\ RankOf(stk, L - 1) \in Nat
    BY <1>1, RankStep, RankWhole, RankAs
  <2>4. RankOf(stk, L - 1) = Len(vis) - 1
    BY <1>1, <2>2, <2>3 DEF One
  <2>5. RankOf(stk, i) <= RankOf(stk, L - 1)
    <3> DEFINE S == {j \in OwnersOf(stk) : j <= i}
               T == {j \in OwnersOf(stk) : j <= L - 1}
    <3>1. \A j \in OwnersOf(stk) : j \in Nat
      BY <1>1 DEF OwnersOf
    <3>2. S \in SUBSET T
      BY <1>1, <3>1
    <3>3. IsFiniteSet(OwnersOf(stk)) /\ T \in SUBSET OwnersOf(stk)
      BY <1>1, OwnersFinite, RankAs
    <3>4. IsFiniteSet(T)
      BY <3>3, FS_Subset
    <3> HIDE DEF S, T
    <3>5. Cardinality(S) <= Cardinality(T)
      BY <3>2, <3>4, FS_Subset
    <3> QED BY <3>5 DEF RankOf, S, T
  <2> QED BY <2>4, <2>5
<1>5. vis'[RankOf(stk, i)].ty = vis[RankOf(stk, i)].ty
  <2>1. PICK r : r = RankOf(stk, i)
    OBVIOUS
  <2>2. CASE KeepsVisitors
    BY <1>1, <1>3, <2>1, <2>2 DEF KeepsVisitors
  <2>3. ASSUME NEW v \in Visitors, Adds(v) PROVE vis'[r] = vis[r]
    <3>1. vis' = Append(vis, v) /\ r \in 1..Len(vis)
      BY <1>1, <1>3, <2>1, <2>3 DEF Adds
    <3> QED BY <1>1, <3>1
  <2>4. CASE DropsVisitor
    <3>1. L \in Owners /\ r \in 1..(Len(vis) - 1)
      BY <1>1, <1>3, <1>4, <2>1, <2>4 DEF DropsVisitor
    <3> QED BY <2>1, <2>4, <3>1 DEF DropsVisitor
  <2> QED BY <1>1, <2>1, <2>2, <2>3, <2>4 DEF VisitShape
<1> QED BY <1>2, <1>5, RankAs

\* The visitors that the next state has.
LEMMA TypesNext ==
  ASSUME MachineOK', phase' = "eval", stk' # << >>, NEW i, i = Len(stk')
  PROVE  /\ VisitType(i)' = Visiting.ty'
         /\ i > 1 /\ ~Owns(stk'[i]) => VisitType(i - 1)' = Visiting.ty'
<1>1. stk' \in Seq(Frames) /\ Len(vis') = Cardinality(OwnersOf(stk')) /\ i \in Nat
  BY RankAs DEF MachineOK, TypeOK, VisitorsOK
<1>2. RankOf(stk', i) = Len(vis')
  BY <1>1, RankWhole
<1>3. VisitType(i)' = Visiting.ty'
  BY <1>2, RankAs DEF Visiting
<1>4. ASSUME i > 1, ~Owns(stk'[i]) PROVE VisitType(i - 1)' = Visiting.ty'
  <2>1. i \in 1..Len(stk')
    BY <1>1, <1>4
  <2>2. RankOf(stk', i - 1) = RankOf(stk', i)
    BY <1>1, <1>4, <2>1, RankStep DEF One
  <2> QED BY <1>2, <2>2, RankAs DEF Visiting
<1> QED BY <1>3, <1>4

LEMMA CallTypes ==
  ASSUME MachineOK, MachineOK', Eval, phase' = "eval", stk # << >>,
         NEW k \in DOMAIN Kids[N], NEW v \in Int, NEW typed \in BOOLEAN, Call(k, v, typed),
         NEW l, l = Len(stk)
  PROVE  /\ stk' \in Seq(Frames) /\ Len(stk') = l + 1 /\ l \in Nat /\ l > 0
         /\ \A i \in 1..(l - 1) : stk'[i] = stk[i]
         /\ stk'[l] = Later(Top.stage + 1, v) /\ stk'[l + 1] = Frame(Kids[N][k], typed, nested)
         /\ VisitType(l)' = Visiting.ty' /\ VisitType(l + 1)' = Visiting.ty'
         /\ \A i \in 1..(l - 1) : VisitType(i)' = VisitType(i)
<1>1. stk \in Seq(Frames) /\ nested \in Seq(Node) /\ l \in Nat /\ l > 0
  BY TopInTree, TopFacts
<1>2. /\ stk' \in Seq(Frames) /\ Len(stk') = l + 1
      /\ \A i \in 1..(l - 1) : stk'[i] = stk[i]
      /\ stk'[l] = Later(Top.stage + 1, v) /\ stk'[l + 1] = Frame(Kids[N][k], typed, nested)
  BY <1>1, CallFacts
<1>3. ~Owns(stk'[l + 1])
  <2>1. stk'[l + 1].stage = 0
    BY <1>2, FrameFacts
  <2> QED BY <2>1 DEF Owns
<1>4. stk' # << >> /\ l + 1 = Len(stk') /\ l + 1 > 1 /\ (l + 1) - 1 = l
  BY <1>1, <1>2
<1>5. PICK i : i = l + 1
  OBVIOUS
<1>6. VisitType(i)' = Visiting.ty' /\ VisitType(i - 1)' = Visiting.ty'
  BY <1>3, <1>4, <1>5, TypesNext
<1>7. \A j \in 1..(l - 1) : VisitType(j)' = VisitType(j)
  BY <1>1, <1>2, TypesBelow
<1>8. VisitType(l)' = Visiting.ty' /\ VisitType(l + 1)' = Visiting.ty'
  BY <1>4, <1>5, <1>6
<1> QED BY <1>1, <1>2, <1>7, <1>8

LEMMA ReturnTypes ==
  ASSUME MachineOK, MachineOK', Eval, phase' = "eval", stk # << >>, Return, NEW l, l = Len(stk)
  PROVE  /\ stk' \in Seq(Frames) /\ Len(stk') = l - 1 /\ l \in Nat /\ l > 0
         /\ \A i \in 1..(l - 1) : stk'[i] = stk[i] /\ VisitType(i)' = VisitType(i)
         /\ l > 1 => VisitType(l - 1)' = Visiting.ty' /\ VisitType(l - 1) = Visiting.ty'
                     /\ l - 1 \in 1..(l - 1)
<1>1. stk \in Seq(Frames) /\ l \in Nat /\ l > 0
  BY TopInTree, TopFacts
<1>2. /\ stk' \in Seq(Frames) /\ Len(stk') = l - 1
      /\ \A i \in 1..(l - 1) : stk'[i] = stk[i]
  BY <1>1, ReturnFacts
<1>3. \A i \in 1..(l - 1) : VisitType(i)' = VisitType(i)
  BY <1>1, <1>2, TypesBelow
<1>4. ASSUME l > 1 PROVE VisitType(l - 1)' = Visiting.ty' /\ l - 1 \in 1..(l - 1)
  <2>1. stk' # << >> /\ l - 1 \in 1..(l - 1)
    BY <1>1, <1>2, <1>4
  <2>2. PICK i : i = l - 1
    OBVIOUS
  <2>3. VisitType(i)' = Visiting.ty'
    BY <1>2, <2>1, <2>2, TypesNext
  <2> QED BY <2>1, <2>2, <2>3
<1> QED BY <1>1, <1>2, <1>3, <1>4

-----------------------------------------------------------------------------
(***************************************************************************)
(* What a step of the evaluation leaves as it is.                          *)
(***************************************************************************)
Followed == MemoryOK /\ ValuesOK /\ SharingOK

Evaluates == IInv /\ PlainOK /\ DeclaredOK /\ TypingOK /\ phase = "eval" /\ Followed
Evaluating == Evaluates /\ IInv'

Continues == UNCHANGED <<root, anntype, runs>> /\ SameNames /\ Program' = Program

LEMMA EvalContinues ==
  ASSUME Evaluating, Eval
  PROVE  Continues
<1>1. UNCHANGED <<root, anntype, runs>> /\ EvalShape
  <2>1. UNCHANGED <<root, anntype, runs>>
    BY DEF Eval, EvalStep
  <2>2. EvalShape
    BY EvaluatorHolds, EvalShapes DEF Evaluating, Evaluates, IInv
  <2> QED BY <2>1, <2>2
<1>2. Advances \/ UNCHANGED vars
  <2>1. [Next]_vars
    BY DEF Next
  <2> QED BY <2>1, TablesInductive DEF Evaluating, Evaluates, IInv
<1>3. DOMAIN table' = DOMAIN table
  BY <1>2 DEF Advances, vars, Evaluating, Evaluates
<1>4. KeepsTypes
  BY EvalKeepsTypes DEF Evaluating, Evaluates
<1>5. \A k \in DOMAIN table : table'[k].type = table[k].type
  <2>1. CASE UNCHANGED table
    BY <2>1
  <2>2. CASE table' # table
    <3>1. EndTypedAssign \/ (EndAssign /\ phase' = "eval")
      BY <1>1, <2>2 DEF EvalShape
    <3>2. ~EndTypedAssign
      BY NoTypedAssign DEF Evaluating, Evaluates, PlainOK, IInv, MachineOK, TypeOK
    <3>3. EndAssign /\ phase' = "eval"
      BY <3>1, <3>2
    <3>4. /\ Set(Var[N], Entry(NewValue, TypeIn(Top.scope, Var[N]), TRUE))
          /\ Lookup(Var[N], FALSE).type = TypeIn(Top.scope, Var[N])
      BY <3>3, EndAssignFacts DEF Evaluating, Evaluates
    <3>5. nested \in Seq(Node)
      BY DEF Evaluating, Evaluates, IInv, MachineOK, TypeOK
    <3>6. PICK entry : entry = Entry(NewValue, TypeIn(Top.scope, Var[N]), TRUE)
      OBVIOUS
    <3>7. entry.type = Lookup(Var[N], FALSE).type
      BY <3>4, <3>6 DEF Entry
    <3>8. PICK k : Replaces(k, entry) /\ table[k] = Lookup(Var[N], FALSE)
      BY <2>2, <3>4, <3>5, <3>6, SetFacts
    <3> QED BY <3>7, <3>8 DEF Replaces
  <2> QED BY <2>1, <2>2
<1>6. Program' = Program
  <2>1. root' = root /\ anntype' = anntype
    BY <1>1
  <2>2. [k \in DOMAIN table' |-> table'[k].type] = [k \in DOMAIN table |-> table[k].type]
    BY <1>3, <1>5
  <2> QED BY <2>1, <2>2 DEF Program
<1> QED BY <1>1, <1>3, <1>4, <1>6 DEF Continues, SameNames

LEMMA ValuedStays ==
  ASSUME Continues, NEW f \in Frames, InTree(root, f.n), NEW ty, NEW asked, CallValued(f, ty, asked),
         Kind[f.n] \in PureKinds => Spot' = Spot
  PROVE  CallValued(f, ty, asked)'
<1>1. Annotation(f.n)' = Annotation(f.n)
  BY DEF Continues, Annotation
<1>2. ASSUME Kind[f.n] \in PureKinds PROVE Computes(f, ty, asked)'
  <2>1. Spot' = Spot /\ Program' = Program /\ Computes(f, ty, asked)
    BY <1>2 DEF Continues, CallValued
  <2>2. Now' = Now /\ End' = End
    BY <2>1 DEF Now, End
  <2>3. \A n, t : ValueOf(n, t)' = ValueOf(n, t)
    BY <2>1, <2>2 DEF ValueOf
  <2>4. Doomed' <=> Doomed
    BY <2>2 DEF Doomed
  <2>5. Fits(f.n, asked) => Fits(f.n, asked)'
    BY FitsStays DEF Continues
  <2>6. /\ ValueOf(f.n, asked)' = ValueOf(f.n, asked)
        /\ ValueOf(Kids[f.n][1], ty)' = ValueOf(Kids[f.n][1], ty)
    BY <2>3
  <2> QED BY <1>1, <2>1, <2>4, <2>5, <2>6 DEF Computes
<1> QED BY <1>1, <1>2 DEF CallValued

LEMMA ValuesNext ==
  ASSUME \A i \in 1..Len(stk') : \A f, ty, asked :
           f = stk'[i] /\ ty = VisitType(i)' /\ asked = VisitType(i - 1)' => CallValued(f, ty, asked)',
         LastValued'
  PROVE  ValuesOK'
<1>1. ASSUME NEW i \in 1..Len(stk') PROVE CallValued(stk[i], VisitType(i), AskedFor(i))'
  <2>1. PICK f, ty, asked : f = stk'[i] /\ ty = VisitType(i)' /\ asked = VisitType(i - 1)'
    OBVIOUS
  <2>2. CallValued(f, ty, asked)'
    BY <2>1
  <2>3. asked = AskedFor(i)'
    BY <2>1 DEF AskedFor
  <2> QED BY <2>1, <2>2, <2>3
<1> QED BY <1>1 DEF ValuesOK

LEMMA LastNext ==
  ASSUME stk' # << >> => \A f, ty, v :
           f = stk'[Len(stk')] /\ ty = Visiting.ty' /\ v = Value' /\ f.stage > 0
           /\ (Kind[f.n] \in PureKinds \/ Acting(f)) => ValueOf(Kids[f.n][f.stage], ty)' = <<v>>
  PROVE  LastValued'
<1> SUFFICES ASSUME stk' # << >>, Top.stage' > 0, (Kind[N] \in PureKinds \/ Acting(Top))'
             PROVE  (ValueOf(Kid(Top.stage), Visiting.ty) = <<Value>>)'
  BY DEF LastValued
<1>1. PICK f, ty, v : f = stk'[Len(stk')] /\ ty = Visiting.ty' /\ v = Value'
  OBVIOUS
<1>2. Top' = f /\ N' = f.n /\ Kid(Top.stage)' = Kids[f.n][f.stage]
  BY <1>1 DEF Top, N, Kid
<1>3. Acting(Top)' <=> Acting(f)
  BY <1>2 DEF Acting
<1>4. ValueOf(Kids[f.n][f.stage], ty)' = <<v>>
  BY <1>1, <1>2, <1>3
<1> QED BY <1>1, <1>2, <1>4

LEMMA NotWaiting ==
  /\ stk # << >> /\ ~Waits(Top) => Pending = {}
  /\ stk' = << >> \/ ~Waits(stk'[Len(stk')]) => Pending' = {}
<1>1. stk # << >> /\ ~Waits(Top) => Pending = {}
  BY DEF Pending
<1>2. ASSUME stk' = << >> \/ ~Waits(stk'[Len(stk')]) PROVE Pending' = {}
  <2>1. stk' = << >> \/ ~Waits(Top)'
    BY <1>2 DEF Top, Waits
  <2> QED BY <2>1 DEF Pending
<1> QED BY <1>1, <1>2

LEMMA MemoryStays ==
  ASSUME Evaluating, Continues, UNCHANGED <<table, last>>, Pending = {}, Pending' = {},
         NEW s, s = Spot', NEW st, st = Course(Program)[s],
         st.mem = Now.mem, st.ok, st.next <= s
  PROVE  MemoryOK'
<1>1. Now' = st /\ End' = End
  BY DEF Continues, Now, End
<1>2. MemoryOK
  BY DEF Evaluating, Evaluates, Followed
<1>3. \A k \in DOMAIN Now.mem : table[k].evaluated /\ table[k].ptr = Now.mem[k]
  BY <1>2 DEF MemoryOK
<1>4. Now.mem' = Now.mem
  BY <1>1
<1>5. \A k \in DOMAIN table :
        IF runs = 1 THEN table[k].evaluated => k \in DOMAIN Now.mem
        ELSE table[k].evaluated <=> k \in DOMAIN End.mem
  BY <1>2 DEF MemoryOK
<1>6. runs' = runs /\ table' = table
  BY DEF Continues
<1>7. Now'.ok /\ Now'.next <= Spot'
  BY <1>1
<1> QED BY <1>1, <1>3, <1>4, <1>5, <1>6, <1>7 DEF MemoryOK

LEMMA SpotStays ==
  ASSUME Evaluating, Continues, UNCHANGED <<table, last>>, Pending = {}, Pending' = {}, Spot' = Spot
  PROVE  MemoryOK'
<1>1. PICK s, st : s = Spot' /\ st = Course(Program)[s]
  OBVIOUS
<1>2. st = Now
  BY <1>1 DEF Now
<1>3. st.ok /\ st.next <= s
  BY <1>1, <1>2 DEF Evaluating, Evaluates, Followed, MemoryOK
<1> QED BY <1>1, <1>2, <1>3, MemoryStays

\* The assignments that wait see the last identity grow.
LEMMA SharingCall ==
  ASSUME Evaluating, UNCHANGED last, stk # << >>,
         NEW k \in DOMAIN Kids[N], NEW v \in Int, NEW typed \in BOOLEAN, Call(k, v, typed),
         Kind[N] = "assign" => v = last.id
  PROVE  SharingOK'
<1> DEFINE L == Len(stk)
<1>1. stk \in Seq(Frames) /\ nested \in Seq(Node) /\ L \in Nat /\ L > 0
  BY TopInTree, TopFacts DEF Evaluating, Evaluates, IInv
<1>2. /\ stk' \in Seq(Frames) /\ Len(stk') = L + 1
      /\ \A i \in 1..(L - 1) : stk'[i] = stk[i]
      /\ stk'[L] = Later(Top.stage + 1, v) /\ stk'[L + 1] = Frame(Kids[N][k], typed, nested)
  BY <1>1, CallFacts
<1>3. stk'[L].n = N /\ stk'[L].local = v /\ stk'[L + 1].stage = 0
  BY <1>2, LaterFacts, FrameFacts
<1>4. SharingOK
  BY DEF Evaluating, Evaluates, Followed
<1>5. ASSUME NEW i \in 1..(Len(stk') - 1), Waits(stk'[i]), stk'[i + 1].stage = 1
      PROVE  stk'[i].local <= stk'[i + 1].local
  <2>1. i \in 1..L /\ i # L
    BY <1>1, <1>2, <1>3, <1>5
  <2>2. i \in 1..(L - 1) /\ i \in 1..(Len(stk) - 1) /\ stk'[i] = stk[i]
    BY <1>1, <1>2, <2>1
  <2>3. CASE i + 1 # L
    <3>1. i + 1 \in 1..(L - 1)
      BY <1>1, <2>2, <2>3
    <3>2. stk'[i + 1] = stk[i + 1]
      BY <1>2, <3>1
    <3> QED BY <1>4, <1>5, <2>2, <3>2 DEF SharingOK
  <2>4. CASE i + 1 = L
    <3>1. PICK f : f = stk[i]
      OBVIOUS
    <3>2. Waits(f) /\ i = L - 1 /\ L > 1
      BY <1>1, <1>5, <2>2, <2>4, <3>1
    <3>3. N = Kids[f.n][CalledBy(f)] /\ f.n \in Node /\ Kind[f.n] = "assign" /\ CalledBy(f) = 1
      <4>1. Kind[f.n] = "assign" /\ f.stage = 1
        BY <3>2 DEF Waits
      <4>2. N = Kids[f.n][CalledBy(f)] /\ f.n \in Node
        BY <1>1, <3>1, <3>2, CallerOf DEF Evaluating, Evaluates, IInv
      <4> QED BY <4>1, <4>2 DEF CalledBy
    <3>4. Kind[N] = "assign"
      BY <3>2, <3>3 DEF Waits, Acts
    <3>5. ~f.typed /\ f.local \in 0..last.id
      <4>1. i \in 1..Len(stk) /\ stk[i] = f
        BY <1>1, <2>2, <3>1
      <4>2. ~f.typed
        BY <3>3, <4>1 DEF Evaluating, Evaluates, PlainOK, PureOK
      <4> QED BY <3>3, <4>1, <4>2 DEF Evaluating, Evaluates, IInv, TablesOK, LastOK
    <3>6. last.id \in Nat
      BY DEF Evaluating, Evaluates, IInv, MachineOK, TypeOK
    <3> QED BY <1>3, <2>2, <2>4, <3>1, <3>4, <3>5, <3>6
  <2> QED BY <2>3, <2>4
<1>6. ~(stk' # << >> /\ Waits(Top)')
  <2>1. Top' = stk'[L + 1]
    BY <1>2 DEF Top
  <2> QED BY <1>3, <2>1 DEF Waits
<1> QED BY <1>5, <1>6 DEF SharingOK, Waits

\* A call that returns to one that waits is an assignment.
LEMMA WaitsFor ==
  ASSUME MachineOK, phase = "eval", stk # << >>, Len(stk) > 1, NEW f, f = stk[Len(stk) - 1], Waits(f)
  PROVE  /\ Kind[N] = "assign" /\ N = Kids[f.n][1] /\ N = f.n + 1 /\ f.n \in Node /\ f.n \in Nat
         /\ Kind[f.n] = "assign" /\ InTree(root, f.n) /\ f.stage = 1
<1>1. Kind[f.n] = "assign" /\ f.stage = 1 /\ ~Acts(f.n)
  BY DEF Waits
<1>2. N = Kids[f.n][CalledBy(f)] /\ f.n \in Node /\ CalledBy(f) = 1 /\ InTree(root, f.n)
  BY <1>1, CallerOf DEF CalledBy
<1>3. Kind[N] = "assign"
  BY <1>1, <1>2 DEF Acts
<1> QED BY <1>1, <1>2, <1>3, AssignKid, NodeFacts

LEMMA SharingReturn ==
  ASSUME Evaluating, UNCHANGED last, stk # << >>, Return, Kind[N] # "assign"
  PROVE  SharingOK' /\ Pending' = {}
<1> DEFINE L == Len(stk)
<1>1. stk \in Seq(Frames) /\ L \in Nat /\ L > 0
  BY TopInTree, TopFacts DEF Evaluating, Evaluates, IInv
<1>2. Len(stk') = L - 1 /\ \A i \in 1..(L - 1) : stk'[i] = stk[i]
  BY <1>1, ReturnFacts
<1>3. stk' = << >> \/ ~Waits(stk'[Len(stk')])
  <2> SUFFICES ASSUME stk' # << >>, Waits(stk'[Len(stk')]) PROVE FALSE
    OBVIOUS
  <2>1. stk' \in Seq(Frames)
    BY <1>1, ReturnFacts
  <2>2. L > 1 /\ L - 1 \in 1..(L - 1)
    BY <1>1, <1>2, <2>1
  <2>3. PICK f : f = stk[L - 1]
    OBVIOUS
  <2>4. Waits(f)
    BY <1>2, <2>2, <2>3
  <2> QED BY <2>2, <2>3, <2>4, WaitsFor DEF Evaluating, Evaluates, IInv
<1>4. SharingOK
  BY DEF Evaluating, Evaluates, Followed
<1>5. ASSUME NEW i \in 1..(Len(stk') - 1), Waits(stk'[i]), stk'[i + 1].stage = 1
      PROVE  stk'[i].local <= stk'[i + 1].local
  <2>1. i \in 1..(L - 1) /\ i + 1 \in 1..(L - 1) /\ i \in 1..(Len(stk) - 1)
    BY <1>1, <1>2
  <2>2. stk'[i] = stk[i] /\ stk'[i + 1] = stk[i + 1]
    BY <1>2, <2>1
  <2> QED BY <1>4, <1>5, <2>1, <2>2 DEF SharingOK
<1>6. ~(stk' # << >> /\ Waits(Top)')
  BY <1>3 DEF Top, Waits
<1> QED BY <1>3, <1>5, <1>6, NotWaiting DEF SharingOK, Waits

-----------------------------------------------------------------------------
(***************************************************************************)
(* Calls and returns.                                                      *)
(***************************************************************************)
LEMMA SameType ==
  ASSUME MachineOK, phase = "eval", NEW i \in 2..Len(stk), ~Owns(stk[i])
  PROVE  VisitType(i) = VisitType(i - 1)
<1>1. stk \in Seq(Frames) /\ Len(stk) \in Nat
  BY DEF MachineOK, TypeOK
<1>2. i \in 1..Len(stk)
  BY <1>1
<1>3. RankOf(stk, i) = RankOf(stk, i - 1)
  BY <1>1, <1>2, RankStep DEF One
<1> QED BY <1>3, RankAs

LEMMA OwnerType ==
  ASSUME VisitsOK, phase = "eval", NEW i \in 1..Len(stk), Owns(stk[i])
  PROVE  VisitType(i) \in TypesOf(stk[i])
BY DEF VisitsOK, VisitType, Owners

\* An expression's call that is waiting for an operand computes a value.
LEMMA ComputesAValue ==
  ASSUME Evaluating, NEW i \in 2..Len(stk), NEW f, f = stk[i], f.stage > 0,
         Kind[f.n] \in PureKinds \/ Acting(f)
  PROVE  /\ VisitType(i) \in ValueTypes
         /\ Kind[f.n] \in PureKinds => AskedFor(i) \in ValueTypes
<1>1. /\ MachineOK /\ VisitsOK /\ phase = "eval" /\ stk \in Seq(Frames) /\ Len(stk) \in Nat
      /\ Len(stk) > 1 /\ i \in 1..Len(stk) /\ i - 1 \in 1..Len(stk) /\ stk # << >>
  <2>1. MachineOK /\ VisitsOK /\ phase = "eval" /\ stk \in Seq(Frames)
    BY DEF Evaluating, Evaluates, IInv, TablesOK, MachineOK, TypeOK
  <2> QED BY <2>1
<1>2. VisitType(i) \in ValueTypes \cup {Undet} /\ VisitType(i - 1) \in ValueTypes \cup {Undet}
  BY <1>1, TopTypes
<1>3. CallValued(f, VisitType(i), AskedFor(i))
  BY <1>1 DEF Evaluating, Evaluates, Followed, ValuesOK
<1>4. ASSUME Kind[f.n] \in PureKinds PROVE AskedFor(i) \in ValueTypes
  BY <1>2, <1>3, <1>4 DEF CallValued, Computes, AskedFor
<1>5. CASE Owns(f)
  <2>1. Kind[f.n] # "block"
    BY DEF Acting, Acts, PureKinds, ExprKinds, LeafKinds, UnaryKinds, BinaryKinds
  <2>2. VisitType(i) \in ValueTypes
    BY <1>1, <1>5, <2>1, OwnerType DEF TypesOf
  <2> QED BY <1>4, <2>2
<1>6. CASE ~Owns(f)
  <2>1. Kind[f.n] \in PureKinds
    <3>1. ASSUME Acting(f) PROVE FALSE
      <4>1. f.stage = 1 /\ (Kind[f.n] = "assign" \/ Kind[f.n] = "if_stmt")
        BY <3>1 DEF Acting, Acts
      <4>2. Kind[f.n] = "assign" => ~f.typed
        BY <1>1 DEF Evaluating, Evaluates, PlainOK, PureOK
      <4> QED BY <1>6, <4>1, <4>2 DEF Owns
    <3> QED BY <3>1
  <2>2. VisitType(i) = AskedFor(i)
    BY <1>1, <1>6, SameType DEF AskedFor
  <2> QED BY <1>4, <2>1, <2>2
<1> QED BY <1>5, <1>6

LEMMA BelowValued ==
  ASSUME Evaluating, Continues, stk # << >>, NEW i \in 1..(Len(stk) - 1), NEW f, f = stk[i], NEW ty, NEW asked,
         Kind[N] \in PureKinds => Spot' = Spot,
         i > 1 => ty = VisitType(i) /\ asked = VisitType(i - 1)
  PROVE  CallValued(f, ty, asked)'
<1>1. MachineOK /\ stk \in Seq(Frames) /\ Len(stk) \in Nat /\ PureOK /\ phase = "eval" /\ ValuesOK
  BY TopInTree DEF Evaluating, Evaluates, IInv, PlainOK, Followed
<1>2. i \in 1..Len(stk) /\ Len(stk) \in i..Len(stk)
  BY <1>1
<1>3. f \in Frames /\ InTree(root, f.n)
  BY <1>1, <1>2, CallInTree
<1>4. Kind[f.n] \in PureKinds => Kind[N] \in PureKinds
  BY <1>1, <1>2 DEF PureOK, N, Top
<1>5. CASE i > 1
  <2>1. CallValued(f, ty, asked)
    BY <1>1, <1>2, <1>5 DEF ValuesOK, AskedFor
  <2> QED BY <1>3, <1>4, <2>1, ValuedStays
<1>6. CASE ~(i > 1)
  <2>1. i = 1
    BY <1>1, <1>6
  <2>2. Kind[f.n] = "block"
    BY <1>1, <2>1, RootFacts DEF MachineOK, PathOK, TypeOK
  <2> QED BY <2>2 DEF CallValued, PureKinds, ExprKinds, LeafKinds, UnaryKinds, BinaryKinds
<1> QED BY <1>5, <1>6

LEMMA ValuedCall ==
  ASSUME Evaluating, Continues, Eval, phase' = "eval", stk # << >>,
         NEW k \in DOMAIN Kids[N], NEW v \in Int, NEW typed \in BOOLEAN, Call(k, v, typed),
         Kind[N] \in PureKinds => Spot' = Spot,
         NEW l, l = Len(stk), NEW ty, ty = Visiting.ty', NEW kid, kid = Kids[N][k],
         NEW later, later = Later(Top.stage + 1, v),
         \A asked : (l > 1 => asked = AskedFor(l)) => CallValued(later, ty, asked)',
         Kind[kid] \in PureKinds /\ ty # Undet =>
           Spot' <= kid /\ Fits(kid, ty)' /\ (ValueOf(kid, ty)' = << >> => Doomed'),
         Kind[kid] = "if_stmt" => ty = Undet
  PROVE  ValuesOK'
<1>1. /\ Len(stk') = l + 1 /\ l \in Nat /\ l > 0
      /\ \A i \in 1..(l - 1) : stk'[i] = stk[i] /\ VisitType(i)' = VisitType(i)
      /\ stk'[l] = later /\ stk'[l + 1] = Frame(kid, typed, nested)
      /\ VisitType(l)' = ty /\ VisitType(l + 1)' = ty
  BY CallTypes DEF Evaluating, Evaluates, IInv
<1>2. stk'[l + 1].n = kid /\ stk'[l + 1].stage = 0
  BY <1>1, FrameFacts
<1>3. ASSUME NEW i \in 1..Len(stk'), NEW f, NEW t, NEW asked,
             f = stk'[i], t = VisitType(i)', asked = VisitType(i - 1)'
      PROVE  CallValued(f, t, asked)'
  <2>1. CASE i \in 1..(l - 1)
    <3>1. f = stk[i] /\ t = VisitType(i)
      BY <1>1, <1>3, <2>1
    <3>2. i > 1 => asked = VisitType(i - 1)
      <4>1. i > 1 => i - 1 \in 1..(l - 1)
        BY <1>1, <2>1
      <4> QED BY <1>1, <1>3, <4>1
    <3> QED BY <2>1, <3>1, <3>2, BelowValued
  <2>2. CASE i = l
    <3>1. f = later /\ t = ty
      BY <1>1, <1>3, <2>2
    <3>2. l > 1 => asked = AskedFor(l)
      <4>1. l > 1 => l - 1 \in 1..(l - 1)
        BY <1>1
      <4> QED BY <1>1, <1>3, <2>2, <4>1 DEF AskedFor
    <3> QED BY <3>1, <3>2
  <2>3. CASE i = l + 1
    <3>1. f.n = kid /\ f.stage = 0 /\ t = ty /\ asked = ty
      <4>1. i - 1 = l
        BY <1>1, <2>3
      <4> QED BY <1>1, <1>2, <1>3, <2>3, <4>1
    <3> QED BY <3>1 DEF CallValued, Computes
  <2> QED BY <1>1, <2>1, <2>2, <2>3
<1>4. LastValued'
  <2>1. stk'[Len(stk')].stage = 0
    BY <1>1, <1>2
  <2> QED BY <2>1, LastNext
<1> QED BY <1>3, <1>4, ValuesNext

LEMMA ValuedReturn ==
  ASSUME Evaluating, Continues, Eval, phase' = "eval", stk # << >>, Return,
         NEW l, l = Len(stk), NEW n, n = N, NEW asked, asked = AskedFor(l), NEW v, v = Value',
         Kind[n] \in PureKinds => Spot' = Spot /\ (asked # Undet => ValueOf(n, asked)' = <<v>>)
  PROVE  ValuesOK'
<1>1. /\ Len(stk') = l - 1 /\ l \in Nat /\ l > 0 /\ stk' \in Seq(Frames)
      /\ \A i \in 1..(l - 1) : stk'[i] = stk[i] /\ VisitType(i)' = VisitType(i)
      /\ l > 1 => VisitType(l - 1) = Visiting.ty'
  BY ReturnTypes DEF Evaluating, Evaluates, IInv
<1>2. ASSUME NEW i \in 1..Len(stk'), NEW f, NEW t, NEW a,
             f = stk'[i], t = VisitType(i)', a = VisitType(i - 1)'
      PROVE  CallValued(f, t, a)'
  <2>1. i \in 1..(l - 1) /\ (i > 1 => i - 1 \in 1..(l - 1))
    BY <1>1
  <2>2. f = stk[i] /\ t = VisitType(i) /\ (i > 1 => a = VisitType(i - 1))
    BY <1>1, <1>2, <2>1
  <2> QED BY <2>1, <2>2, BelowValued
<1>3. ASSUME stk' # << >>, NEW f, NEW ty, NEW w, f = stk'[Len(stk')], ty = Visiting.ty', w = Value',
             f.stage > 0, Kind[f.n] \in PureKinds \/ Acting(f)
      PROVE  ValueOf(Kids[f.n][f.stage], ty)' = <<w>>
  <2>1. l > 1 /\ l - 1 \in 1..(l - 1)
    BY <1>1, <1>3
  <2>2. f = stk[l - 1] /\ ty = VisitType(l - 1) /\ ty = asked
    BY <1>1, <1>3, <2>1 DEF AskedFor
  <2>3. MachineOK /\ PureOK /\ phase = "eval"
    BY DEF Evaluating, Evaluates, IInv, PlainOK
  <2>4. Kind[n] \in PureKinds
    BY <1>3, <2>1, <2>2, <2>3, CallerDoes
  <2>5. n = Kids[f.n][CalledBy(f)] /\ CalledBy(f) = f.stage
    <3>1. Kind[f.n] # "block"
      BY <1>3 DEF Acting, Acts, PureKinds, ExprKinds, LeafKinds, UnaryKinds, BinaryKinds
    <3> QED BY <2>1, <2>2, <2>3, <3>1, CallerOf DEF CalledBy
  <2>6. ty # Undet
    <3>1. CASE l - 1 \in 2..Len(stk)
      BY <1>3, <2>2, <3>1, ComputesAValue DEF ValueTypes, IntType, FloatType, StringType, Undet
    <3>2. CASE l - 1 \notin 2..Len(stk)
      <4>1. l - 1 = 1
        BY <1>1, <2>1, <3>2
      <4>2. Kind[f.n] = "block"
        BY <2>2, <2>3, <4>1, RootFacts DEF MachineOK, PathOK, TypeOK
      <4> QED BY <1>3, <4>2 DEF Acting, Acts, PureKinds, ExprKinds, LeafKinds, UnaryKinds, BinaryKinds
    <3> QED BY <3>1, <3>2
  <2> QED BY <1>3, <2>2, <2>4, <2>5, <2>6
<1>4. LastValued'
  BY <1>3, LastNext
<1> QED BY <1>2, <1>4, ValuesNext

-----------------------------------------------------------------------------
(***************************************************************************)
(* The expressions.                                                        *)
(***************************************************************************)
LEMMA EvalTop ==
  ASSUME Evaluates, stk # << >>, NEW n, n = N
  PROVE  /\ MachineOK /\ CheckedOK /\ EntriesOK /\ PureOK /\ EvaluatorOK /\ phase = "eval"
         /\ IsProgram(Program) /\ Program.root = root /\ DOMAIN Program.types = DOMAIN table
         /\ root \in Root /\ root \in Node /\ InTree(root, n) /\ n \in Node /\ n \in Nat
         /\ stk \in Seq(Frames) /\ nested \in Seq(Node) /\ Top \in Frames /\ Top.stage \in Nat
         /\ Len(stk) \in Nat /\ Len(stk) > 0 /\ Top.n = n /\ Top.local \in Int
         /\ Sound(n)
         /\ Kind[n] = "assign" => ~Top.typed
         /\ Kind[n] # "block" => nested = Top.scope /\ Len(stk) > 1
<1>1. MachineOK /\ CheckedOK /\ EntriesOK /\ PureOK /\ phase = "eval" /\ DeclaredOK /\ TypingOK
  BY DEF Evaluates, IInv, TablesOK, PassesOK, PlainOK
<1>2. EvaluatorOK
  BY <1>1, EvaluatorHolds
<1>3. /\ IsProgram(Program) /\ Program.root = root /\ DOMAIN Program.types = DOMAIN table
      /\ root \in Root /\ root \in Node
  BY <1>1, ProgramOK
<1>4. /\ stk \in Seq(Frames) /\ nested \in Seq(Node) /\ InTree(root, n) /\ n \in Node /\ Top.stage \in Nat
      /\ PathOK
  BY <1>1, TopInTree
<1>5. Top \in Frames /\ Len(stk) \in Nat /\ Len(stk) > 0 /\ Top.n = n
  BY <1>4, TopFacts DEF N
<1>6. n \in Nat
  BY <1>4, NodeFacts
<1>7. Sound(n)
  BY <1>1, <1>4, AllSound
<1>8. Kind[n] = "assign" => ~Top.typed
  <2>1. Len(stk) \in 1..Len(stk)
    BY <1>5
  <2> QED BY <1>1, <2>1 DEF PureOK, N, Top
<1>9. Top.local \in Int
  BY <1>5 DEF Frames
<1>10. Kind[n] # "block" => nested = Top.scope /\ Len(stk) > 1
  BY <1>4, ScopeFacts
<1> QED BY <1>1, <1>2, <1>3, <1>4, <1>5, <1>6, <1>7, <1>8, <1>9, <1>10

LEMMA PureTop ==
  ASSUME Evaluates, stk # << >>, NEW n, n = N, Kind[n] \in PureKinds, NEW asked, asked = AskedFor(Len(stk))
  PROVE  /\ Len(stk) > 1 /\ Computes(Top, Visiting.ty, asked) /\ asked \in ValueTypes \cup {Undet}
         /\ ~Owns(Top) => asked = Visiting.ty
         /\ Pending = {} /\ Kind[n] # "block" /\ Kind[n] # "assign" /\ Kind[n] # "if_stmt"
<1>1. Kind[n] # "block" /\ Kind[n] # "assign" /\ Kind[n] # "if_stmt"
  BY DEF PureKinds, ExprKinds, LeafKinds, UnaryKinds, BinaryKinds
<1>2. MachineOK /\ phase = "eval" /\ stk \in Seq(Frames) /\ Len(stk) > 1 /\ Len(stk) \in Nat
  BY <1>1, EvalTop
<1>3. Len(stk) \in 1..Len(stk) /\ VisitType(Len(stk)) = Visiting.ty
  BY <1>2, TopTypes
<1>4. asked \in ValueTypes \cup {Undet}
  <2>1. Len(stk) - 1 \in 1..Len(stk)
    BY <1>2
  <2> QED BY <1>2, <2>1, TopTypes DEF AskedFor
<1>5. CallValued(Top, Visiting.ty, asked)
  <2>1. CallValued(stk[Len(stk)], VisitType(Len(stk)), AskedFor(Len(stk)))
    BY <1>2, <1>3 DEF Evaluates, Followed, ValuesOK
  <2> QED BY <1>2, <2>1, TopTypes DEF Top
<1>6. Computes(Top, Visiting.ty, asked)
  BY <1>5 DEF CallValued, N
<1>7. Pending = {}
  BY <1>1, NotWaiting DEF Waits, N
<1> QED BY <1>1, <1>2, <1>3, <1>4, <1>6, <1>7, TopTypes

LEMMA SpotUpto ==
  ASSUME MachineOK, phase = "eval", stk # << >>, Kind[N] \in PureKinds
  PROVE  UptoIn(root, Spot) /\ Spot \in Nat
<1>1. stk \in Seq(Frames) /\ PathOK /\ root \in Root
  BY DEF MachineOK, TypeOK
<1>2. PICK i \in 1..Len(stk) : IsDoer(stk, i)
  BY <1>1, DoerExists
<1>3. Spot = Place(stk[i])
  BY <1>1, <1>2, SpotIs
<1>4. stk[i] \in Frames /\ stk[i].n \in Node /\ InTree(root, stk[i].n)
  BY <1>2, CallInTree
<1>5. UptoIn(root, Spot)
  <2>1. CASE Acting(stk[i]) \/ stk[i].stage = 0 \/ CalledBy(stk[i]) = 0
    BY <1>1, <1>3, <1>4, <2>1, UptoOf DEF Place
  <2>2. CASE ~(Acting(stk[i]) \/ stk[i].stage = 0 \/ CalledBy(stk[i]) = 0)
    <3>1. Spot = LastIn[Kids[stk[i].n][CalledBy(stk[i])]] + 1
      BY <1>3, <2>2 DEF Place
    <3>2. Len(stk) \in Nat /\ i # Len(stk)
      BY <1>1, <1>2 DEF IsDoer, N, Top
    <3>3. i + 1 \in 2..Len(stk) /\ i = (i + 1) - 1
      BY <3>2
    <3>4. Calls(stk[i], stk[i + 1])
      BY <1>1, <3>3 DEF PathOK
    <3>5. CalledBy(stk[i]) \in DOMAIN Kids[stk[i].n]
      BY <3>4 DEF Calls, Called, CalledBy
    <3> QED BY <1>1, <1>4, <3>1, <3>5, AroundKid, UptoOf
  <2> QED BY <2>1, <2>2
<1> QED BY <1>5, UptoFacts

LEMMA PureReturns ==
  ASSUME Evaluating, Continues, Eval, phase' = "eval", stk # << >>, Return, UNCHANGED <<table, last>>,
         NEW n, n = N, Kind[n] \in PureKinds, NEW asked, asked = AskedFor(Len(stk)), NEW v, v = Value',
         asked # Undet => ValueOf(n, asked) = <<v>>
  PROVE  Followed'
<1>1. MachineOK /\ PureOK /\ phase = "eval" /\ UNCHANGED root
  BY EvalTop DEF Evaluating, Continues
<1>2. Spot' = Spot
  BY <1>1, ReturnSpot
<1>3. Now' = Now /\ Program' = Program
  BY <1>2 DEF Now, Continues
<1>4. ValueOf(n, asked)' = ValueOf(n, asked)
  BY <1>3 DEF ValueOf
<1>5. ValuesOK'
  BY <1>2, <1>4, ValuedReturn
<1>6. SharingOK' /\ Pending' = {}
  BY PureTop, SharingReturn DEF Evaluating
<1>7. MemoryOK'
  BY <1>2, <1>6, PureTop, SpotStays DEF Evaluating
<1> QED BY <1>5, <1>6, <1>7 DEF Followed

LEMMA PureCalls ==
  ASSUME Evaluating, Continues, Eval, phase' = "eval", stk # << >>, UNCHANGED <<table, last>>,
         NEW n, n = N, Kind[n] \in PureKinds, NEW k \in DOMAIN Kids[n],
         NEW v \in Int, NEW typed \in BOOLEAN, Call(k, v, typed),
         NEW ty, ty = Visiting.ty', NEW later, later = Later(Top.stage + 1, v),
         NEW asked, asked = AskedFor(Len(stk)), Computes(later, ty, asked), asked # Undet,
         Fits(Kids[n][k], ty), ValueOf(Kids[n][k], ty) = << >> => Doomed
  PROVE  Followed'
<1> DEFINE kid == Kids[n][k]
<1>1. /\ MachineOK /\ phase = "eval" /\ InTree(root, n) /\ n \in Node /\ n \in Nat
      /\ stk \in Seq(Frames) /\ nested \in Seq(Node) /\ Top.n = n
  BY EvalTop DEF Evaluating
<1>2. Kind[kid] \in PureKinds
  BY <1>1, PureKids
<1>3. Spot' = Spot
  BY <1>1, <1>2, CallSpot
<1>4. Now' = Now /\ End' = End /\ Program' = Program
  BY <1>3 DEF Now, End, Continues
<1>5. ValueOf(kid, ty)' = ValueOf(kid, ty) /\ (Doomed' <=> Doomed)
  BY <1>4 DEF ValueOf, Doomed
<1>6. InTree(root, kid) /\ n < kid /\ kid \in Nat
  BY <1>1, AroundKid, KidRange
<1>7. Fits(kid, ty)'
  BY <1>6, FitsStays DEF Continues
<1>8. Spot <= n /\ Spot \in Nat
  <2>1. Spot <= later.n
    BY DEF Computes
  <2>2. later.n = n
    BY LaterFacts
  <2>3. Spot \in Nat
    BY <1>1, SpotUpto
  <2> QED BY <2>1, <2>2, <2>3
<1>9. Spot' <= kid
  BY <1>1, <1>3, <1>6, <1>8
<1>10. \A a : (Len(stk) > 1 => a = AskedFor(Len(stk))) => CallValued(later, ty, a)'
  <2>1. Len(stk) > 1
    BY PureTop DEF Evaluating
  <2>2. later \in Frames /\ later.n = n
    <3>1. /\ stk' \in Seq(Frames) /\ stk'[Len(stk)] = later /\ Len(stk') = Len(stk) + 1
      BY <1>1, CallFacts
    <3>2. Len(stk) \in 1..Len(stk')
      BY <1>1, <2>1, <3>1
    <3> QED BY <3>1, <3>2, LaterFacts
  <2>3. CallValued(later, ty, asked)
    BY <2>2, PureTop DEF Evaluating, CallValued
  <2>4. CallValued(later, ty, asked)'
    BY <1>1, <1>3, <2>2, <2>3, ValuedStays
  <2> QED BY <2>1, <2>4
<1>11. Kind[kid] # "if_stmt"
  BY <1>2 DEF PureKinds, ExprKinds, LeafKinds, UnaryKinds, BinaryKinds
<1>12. ValuesOK'
  <2> HIDE DEF kid
  <2>1. PICK m, c, l : m = kid /\ c = k /\ l = Len(stk)
    OBVIOUS
  <2>2. c \in DOMAIN Kids[N] /\ Call(c, v, typed) /\ m = Kids[N][c] /\ v \in Int
    BY <2>1 DEF kid
  <2>3. /\ Kind[m] \in PureKinds /\ ty # Undet =>
             Spot' <= m /\ Fits(m, ty)' /\ (ValueOf(m, ty)' = << >> => Doomed')
        /\ Kind[m] = "if_stmt" => ty = Undet
    BY <1>4, <1>5, <1>7, <1>9, <1>11, <2>1 DEF kid
  <2>4. \A a : (l > 1 => a = AskedFor(l)) => CallValued(later, ty, a)'
    BY <1>10, <2>1
  <2>5. Kind[N] \in PureKinds => Spot' = Spot
    BY <1>3
  <2> QED BY <2>1, <2>2, <2>3, <2>4, <2>5, ValuedCall
<1>13. SharingOK'
  BY PureTop, SharingCall DEF Evaluating
<1>14. Pending' = {}
  <2>1. /\ Len(stk') = Len(stk) + 1 /\ stk'[Len(stk) + 1] = Frame(kid, typed, nested)
    BY <1>1, CallFacts
  <2>2. stk'[Len(stk')].stage = 0
    <3>1. Frame(kid, typed, nested).stage = 0
      BY FrameFacts
    <3> QED BY <2>1, <3>1
  <2>3. ~Waits(stk'[Len(stk')])
    BY <2>2 DEF Waits
  <2> QED BY <2>3, NotWaiting
<1>15. MemoryOK'
  BY <1>3, <1>14, PureTop, SpotStays DEF Evaluating
<1> QED BY <1>12, <1>13, <1>15 DEF Followed

\* What a step of an evaluation comes to.
Meant ==
  \/ phase' = "eval" /\ Followed'
  \/ phase' = "stopped"
  \/ /\ phase' = "ready" /\ result' # "evaluated" /\ UNCHANGED table
     /\ Doomed /\ Pending = {}

LEMMA SkipMeant ==
  ASSUME Evaluating, Continues, Eval, SkipExpression
  PROVE  Meant
<1>1. /\ stk # << >> /\ Kind[N] \in PureKinds /\ Top.stage = 0 /\ Visiting.ty = Undet
      /\ Return /\ Going /\ UNCHANGED <<table, last>>
  BY DEF SkipExpression, Running, PureKinds
<1>2. PICK n, asked, v : n = N /\ asked = AskedFor(Len(stk)) /\ v = Value'
  OBVIOUS
<1>3. ~Owns(Top)
  BY <1>1 DEF Owns, N, PureKinds, ExprKinds, LeafKinds, UnaryKinds, BinaryKinds
<1>4. asked = Undet
  BY <1>1, <1>2, <1>3, PureTop DEF Evaluating
<1>5. phase' = "eval"
  BY <1>1 DEF Going, Evaluating, Evaluates
<1>6. Followed'
  BY <1>1, <1>2, <1>4, <1>5, PureReturns
<1> QED BY <1>5, <1>6 DEF Meant

\* A visit of a leaf or of an operator, under the visitor that asked for it.
LEMMA TypedTop ==
  ASSUME Evaluates, stk # << >>, NEW n, n = N, Kind[n] \in PureKinds, ~Owns(Top), Typed
  PROVE  /\ Visiting.ty \in ValueTypes /\ AskedFor(Len(stk)) = Visiting.ty /\ Visiting.ty # Undet
         /\ Spot <= n /\ Fits(n, Visiting.ty) /\ (ValueOf(n, Visiting.ty) = << >> => Doomed)
         /\ Computes(Top, Visiting.ty, Visiting.ty)
         /\ ExpressionOf(Program, n, Visiting.ty) /\ n \in Node
<1>1. PICK asked : asked = AskedFor(Len(stk))
  OBVIOUS
<1>2. Visiting.ty # Undet
  BY DEF Typed
<1>3. asked = Visiting.ty /\ asked \in ValueTypes /\ Computes(Top, Visiting.ty, asked)
  BY <1>1, <1>2, PureTop
<1>4. Top.n = n /\ IsProgram(Program) /\ Program.root = root /\ InTree(root, n) /\ n \in Node
  BY EvalTop
<1>5. Spot <= n /\ Fits(n, asked) /\ (ValueOf(n, asked) = << >> => Doomed)
  BY <1>2, <1>3, <1>4 DEF Computes
<1> QED BY <1>1, <1>2, <1>3, <1>4, <1>5 DEF ExpressionOf

LEMMA SetValueIs ==
  ASSUME Evaluates, stk # << >>, Kind[N] # "block", NEW v \in Int, SetValue(v)
  PROVE  Value' = v /\ Visiting.ty' = Visiting.ty
<1>1. Len(vis) \in Nat /\ OuterVis \in Seq(Visitors) /\ Len(OuterVis) = Len(vis) - 1 /\ Visiting \in Visitors
  BY EvalTop, VisFacts
<1>2. PICK w : w = [Visiting EXCEPT !.val = v]
  OBVIOUS
<1>3. w.val = v /\ w.ty = Visiting.ty
  BY <1>1, <1>2 DEF Visitors
<1>4. vis' = Append(OuterVis, w)
  BY <1>2 DEF SetValue
<1>5. Len(vis') = Len(vis) /\ vis'[Len(vis')] = w
  BY <1>1, <1>4
<1> QED BY <1>3, <1>5 DEF Value, Visiting

LEMMA LoadFits ==
  ASSUME NEW ty \in ValueTypes, NEW c, NEW old,
         IF ty = StringType THEN c.kind = "string_constant" ELSE c.kind \in {"int_constant", "float_constant"}
  PROVE  Load(ty, c, old) = Load(ty, c, Initial(ty))
BY DEF Load, ValueTypes, IntType, FloatType, StringType

LEMMA ConstantMeant ==
  ASSUME Evaluating, Continues, Eval, EvalConstant
  PROVE  Meant
<1>1. /\ stk # << >> /\ Kind[N] \in ConstantKinds /\ Top.stage = 0 /\ Typed
      /\ Return /\ Going /\ UNCHANGED <<table, last>>
  BY DEF EvalConstant, Running
<1>2. PICK n, asked, v, c : /\ n = N /\ asked = Visiting.ty /\ c = Const(Kind[n], Lit[n])
                            /\ v = Load(asked, c, Value)
  OBVIOUS
<1>3. Kind[n] \in PureKinds /\ ~Owns(Top) /\ Kind[n] # "block"
  BY <1>1, <1>2 DEF Owns, N, ConstantKinds, PureKinds, ExprKinds, LeafKinds
<1>4. /\ asked \in ValueTypes /\ AskedFor(Len(stk)) = asked /\ Fits(n, asked)
      /\ ExpressionOf(Program, n, asked)
  BY <1>1, <1>2, <1>3, TypedTop DEF Evaluating
<1>5. v = Load(asked, c, Initial(asked))
  <2>1. c.kind = Kind[n]
    BY <1>2 DEF Const
  <2>2. IF asked = StringType THEN c.kind = "string_constant" ELSE c.kind \in {"int_constant", "float_constant"}
    BY <1>1, <1>2, <1>4, <2>1
    DEF Fits, IsString, IsNumber, ConstantKinds, UnaryKinds, BinaryKinds
  <2> QED BY <1>2, <1>4, <2>2, LoadFits
<1>6. ValueOf(n, asked) = <<v>>
  <2>1. PICK mem, p : mem = Now.mem /\ p = Program
    OBVIOUS
  <2>2. Values(p, mem)[n][asked] = Loaded(asked, c)
    BY <1>1, <1>2, <1>4, <2>1, LeafValue
  <2> QED BY <1>5, <2>1, <2>2 DEF ValueOf, Loaded
<1>7. v \in Int
  <2>1. Value \in Int
    BY <1>1, <1>2, <1>3, EvalTop, VisFacts DEF Evaluating
  <2>2. c.val \in Int
    BY <1>1, <1>2, EvalTop, KidFacts DEF Const, Evaluating
  <2> QED BY <1>2, <2>1, <2>2, LoadTypes
<1>8. SetValue(v)
  BY <1>2 DEF EvalConstant
<1>9. Value' = v
  BY <1>1, <1>2, <1>3, <1>7, <1>8, SetValueIs DEF Evaluating
<1>10. phase' = "eval"
  BY <1>1 DEF Going, Evaluating, Evaluates
<1>11. Followed'
  BY <1>1, <1>2, <1>3, <1>4, <1>6, <1>9, <1>10, PureReturns
<1> QED BY <1>10, <1>11 DEF Meant

\* Without an inner assignment to wait for, the tables are those of the course.
LEMMA MemoryIs ==
  ASSUME Evaluates, Pending = {}
  PROVE  /\ \A k \in DOMAIN Now.mem : table[k].evaluated /\ table[k].ptr = Now.mem[k]
         /\ Doomed => \A k \in DOMAIN table : table[k].evaluated => k \in DOMAIN Now.mem
         /\ Now.ok /\ Now.next <= Spot /\ runs \in Nat
<1>1. MemoryOK
  BY DEF Evaluates, Followed
<1>2. \A k \in DOMAIN table :
        IF runs = 1 THEN table[k].evaluated => k \in DOMAIN Now.mem
        ELSE table[k].evaluated <=> k \in DOMAIN End.mem
  BY <1>1 DEF MemoryOK
<1>3. Doomed => End.mem = Now.mem
  BY DEF Doomed
<1>4. runs \in Nat
  BY MaxRunsAssumption DEF Evaluates, IInv, MachineOK, TypeOK
<1> QED BY <1>1, <1>2, <1>3, <1>4 DEF MemoryOK

Evaluated == {k \in DOMAIN table : table[k].evaluated}

LEMMA NearestDone ==
  ASSUME EntriesOK, NEW r, NEW n, InTree(r, n), NEW scope, ScopeIs(scope, r, n), NEW x
  PROVE  /\ Nearest(scope, x, TRUE) = 0 <=> Having(r, n, x, Evaluated) = {}
         /\ Nearest(scope, x, TRUE) # 0 => Nearest(scope, x, TRUE) \in DOMAIN scope
         /\ Nearest(scope, x, TRUE) # 0 =>
              scope[Nearest(scope, x, TRUE)] = Innermost(Having(r, n, x, Evaluated))
         /\ Nearest(scope, x, TRUE) # 0 => LookupIn(scope, x, TRUE) = table[Owner(r, n, x, Evaluated)]
<1> DEFINE decls == {k \in DOMAIN table : TRUE => table[k].evaluated}
<1>1. decls = Evaluated
  BY DEF Evaluated
<1>2. TRUE \in BOOLEAN /\ decls = {k \in DOMAIN table : TRUE => table[k].evaluated}
  OBVIOUS
<1>3. /\ Nearest(scope, x, TRUE) = 0 <=> Having(r, n, x, decls) = {}
      /\ Nearest(scope, x, TRUE) # 0 =>
           /\ Nearest(scope, x, TRUE) \in DOMAIN scope
           /\ scope[Nearest(scope, x, TRUE)] = Innermost(Having(r, n, x, decls))
           /\ LookupIn(scope, x, TRUE) = table[Owner(r, n, x, decls)]
           /\ Owner(r, n, x, decls) \in decls
  BY <1>2, NearestIs
<1> HIDE DEF decls
<1> QED BY <1>1, <1>3, Zenon

\* A variable that is read: the nearest evaluated entry is the pair that it
\* means, if that has a value by now, and there is none otherwise.
LEMMA VariableIs ==
  ASSUME Evaluates, stk # << >>, NEW n, n = N, Kind[n] = "variable", Typed,
         NEW k, k = PairOf(Program, n), NEW known,
         known = (Having(root, n, Var[n], DOMAIN table) # {} /\ k \in DOMAIN Now.mem)
  PROVE  /\ known => /\ Lookup(Var[n], TRUE) = table[k] /\ k \in DOMAIN table /\ table[k].evaluated
                     /\ TypeAt(n) = table[k].type
                     /\ Nearest(nested, Var[n], TRUE) = Nearest(nested, Var[n], FALSE)
         /\ ~known => Nearest(nested, Var[n], TRUE) = 0 /\ ~Lookup(Var[n], TRUE).evaluated /\ Doomed
<1>a. PICK x, all, done : x = Var[n] /\ all = DOMAIN table /\ done = Evaluated
  OBVIOUS
<1>b. PICK at, of : at = Nearest(nested, x, TRUE) /\ of = Nearest(nested, x, FALSE)
  OBVIOUS
<1>1. /\ Kind[n] \in PureKinds /\ ~Owns(Top) /\ Kind[n] # "block"
  BY DEF Owns, N, PureKinds, ExprKinds, LeafKinds
<1>2. /\ EntriesOK /\ IsProgram(Program) /\ Program.root = root /\ DOMAIN Program.types = DOMAIN table
      /\ root \in Root /\ InTree(root, n) /\ n \in Node /\ n \in Nat /\ nested = Top.scope
      /\ MachineOK /\ phase = "eval" /\ DeclaredOK
  BY <1>1, EvalTop DEF Evaluates
<1>3. ScopeIs(nested, root, n)
  BY <1>2, TopInTree
<1>4. Pending = {}
  BY <1>1, PureTop
<1>5. /\ \A j \in DOMAIN Now.mem : table[j].evaluated /\ table[j].ptr = Now.mem[j]
      /\ Doomed => \A j \in DOMAIN table : table[j].evaluated => j \in DOMAIN Now.mem
  BY <1>4, MemoryIs
<1>6. k = Owner(root, n, x, all)
  BY <1>a, ProgramIs
<1>8. /\ of = 0 <=> Having(root, n, x, all) = {}
      /\ of # 0 => of \in DOMAIN nested
      /\ of # 0 => nested[of] = Innermost(Having(root, n, x, all))
  <2>1. /\ Nearest(nested, x, FALSE) = 0 <=> Having(root, n, x, DOMAIN table) = {}
        /\ Nearest(nested, x, FALSE) # 0 => Nearest(nested, x, FALSE) \in DOMAIN nested
        /\ Nearest(nested, x, FALSE) # 0 =>
             nested[Nearest(nested, x, FALSE)] = Innermost(Having(root, n, x, DOMAIN table))
    <3>1. PICK r, scope : r = root /\ scope = nested
      OBVIOUS
    <3>2. EntriesOK /\ InTree(r, n) /\ ScopeIs(scope, r, n)
      BY <1>2, <1>3, <3>1
    <3>3. /\ Nearest(scope, x, FALSE) = 0 <=> Having(r, n, x, DOMAIN table) = {}
          /\ Nearest(scope, x, FALSE) # 0 => Nearest(scope, x, FALSE) \in DOMAIN scope
          /\ Nearest(scope, x, FALSE) # 0 =>
               scope[Nearest(scope, x, FALSE)] = Innermost(Having(r, n, x, DOMAIN table))
      BY <3>2, NearestEntry
    <3> QED BY <3>1, <3>3
  <2> QED BY <1>a, <1>b, <2>1, Zenon
<1>9. /\ at = 0 <=> Having(root, n, x, done) = {}
      /\ at # 0 => at \in DOMAIN nested
      /\ at # 0 => nested[at] = Innermost(Having(root, n, x, done))
      /\ at # 0 => LookupIn(nested, x, TRUE) = table[Owner(root, n, x, done)]
  <2>1. /\ Nearest(nested, x, TRUE) = 0 <=> Having(root, n, x, done) = {}
        /\ Nearest(nested, x, TRUE) # 0 => Nearest(nested, x, TRUE) \in DOMAIN nested
        /\ Nearest(nested, x, TRUE) # 0 =>
             nested[Nearest(nested, x, TRUE)] = Innermost(Having(root, n, x, done))
        /\ Nearest(nested, x, TRUE) # 0 => LookupIn(nested, x, TRUE) = table[Owner(root, n, x, done)]
    <3>1. PICK r, scope : r = root /\ scope = nested
      OBVIOUS
    <3>2. EntriesOK /\ InTree(r, n) /\ ScopeIs(scope, r, n)
      BY <1>2, <1>3, <3>1
    <3>3. /\ Nearest(scope, x, TRUE) = 0 <=> Having(r, n, x, Evaluated) = {}
          /\ Nearest(scope, x, TRUE) # 0 => Nearest(scope, x, TRUE) \in DOMAIN scope
          /\ Nearest(scope, x, TRUE) # 0 =>
               scope[Nearest(scope, x, TRUE)] = Innermost(Having(r, n, x, Evaluated))
          /\ Nearest(scope, x, TRUE) # 0 => LookupIn(scope, x, TRUE) = table[Owner(r, n, x, Evaluated)]
      BY <3>2, NearestDone
    <3>4. done = Evaluated
      BY <1>a
    <3> QED BY <3>1, <3>3, <3>4, Zenon
  <2> QED BY <1>b, <2>1, Zenon
<1>10. Having(root, n, x, done) \subseteq Having(root, n, x, all)
  BY <1>a DEF Having, Evaluated
<1>11. Spot <= n /\ (ValueOf(n, Visiting.ty) = << >> => Doomed) /\ ExpressionOf(Program, n, Visiting.ty)
  BY <1>1, TypedTop
<1>12. DOMAIN Now.mem \subseteq Declared(root, Spot) /\ UptoIn(root, Spot) /\ Spot \in Nat
  <2>1. UptoIn(root, Spot) /\ Spot \in Nat
    BY <1>1, <1>2, SpotUpto
  <2>2. PICK p, s : p = Program /\ s = Spot
    OBVIOUS
  <2>3. DOMAIN Course(p)[s].mem \subseteq Declared(p.root, s)
    BY <1>2, <2>1, <2>2, MemoryDeclared
  <2> QED BY <1>2, <2>1, <2>2, <2>3 DEF Now
<1>13. Declared(root, Spot) \subseteq all /\ all = Declarations(root)
  <2>1. DOMAIN table = Declarations(root)
    BY <1>2, DeclaresAll
  <2>2. UptoIn(root, LastIn[root] + 1) /\ Spot <= LastIn[root] + 1
    BY <1>2, <1>12, AroundRoot, UptoOf, UptoFacts DEF UptoIn
  <2> QED BY <1>a, <1>12, <2>1, <2>2, DeclaredGrows
<1>14. \A j : j \in done <=> j \in DOMAIN table /\ table[j].evaluated
  BY <1>a DEF Evaluated
<1>15. ASSUME known
       PROVE  /\ Lookup(x, TRUE) = table[k] /\ k \in DOMAIN table /\ table[k].evaluated
              /\ TypeAt(n) = table[k].type /\ Nearest(nested, x, TRUE) = Nearest(nested, x, FALSE)
  <2>1. PICK b, B, D : b = Innermost(B) /\ B = Having(root, n, x, all) /\ D = Having(root, n, x, done)
    OBVIOUS
  <2>2. B # {} /\ k \in DOMAIN Now.mem /\ k = <<b, x>> /\ b \in B /\ b \in Around(root, n)
        /\ \A c \in B : c <= b
    <3>1. B # {} /\ k \in DOMAIN Now.mem
      BY <1>15, <1>a, <2>1
    <3>2. /\ k = <<b, x>> /\ b \in Around(root, n) /\ k \in all /\ \A c \in B : c <= b
      BY <1>2, <1>6, <2>1, <3>1, OwnerIn
    <3> QED BY <2>1, <3>1, <3>2 DEF Having
  <2>3. k \in done /\ k \in DOMAIN table /\ table[k].evaluated
    BY <1>a, <1>5, <1>12, <1>13, <1>14, <2>2
  <2>4. b \in D
    BY <2>1, <2>2, <2>3 DEF Having
  <2>5. D \subseteq Around(root, n) /\ D # {}
    BY <2>1, <2>4 DEF Having
  <2>6. Innermost(D) = b
    <3>1. Innermost(D) \in D /\ b <= Innermost(D)
      BY <1>2, <2>4, <2>5, InnermostAround
    <3>2. Innermost(D) <= b
      BY <1>10, <2>1, <2>2, <3>1
    <3>3. b \in Nat /\ Innermost(D) \in Nat
      BY <1>2, <2>2, <2>5, <3>1, AroundFacts
    <3> QED BY <3>1, <3>2, <3>3
  <2>7. Owner(root, n, x, done) = k
    BY <2>1, <2>2, <2>6 DEF Owner
  <2>8. /\ at # 0 /\ of # 0 /\ Lookup(x, TRUE) = table[k]
        /\ at \in DOMAIN nested /\ of \in DOMAIN nested /\ nested[at] = nested[of]
    BY <1>8, <1>9, <2>1, <2>2, <2>5, <2>6, <2>7 DEF Lookup
  <2>9. at = of
    <3>1. at \in Nat /\ of \in Nat /\ nested[at] \in Nat
      <4>1. nested \in Seq(Node) /\ nested[at] \in Node
        BY <1>3, <2>8 DEF ScopeIs
      <4> QED BY <2>8, <4>1, NodeFacts
    <3>2. ~(at < of) /\ ~(of < at)
      BY <1>3, <2>8, <3>1 DEF ScopeIs
    <3> QED BY <3>1, <3>2
  <2>10. TypeAt(n) = table[k].type
    BY <1>a, <1>6, <2>1, <2>2 DEF TypeAt
  <2> QED BY <1>b, <2>3, <2>8, <2>9, <2>10
<1>16. ASSUME ~known
       PROVE  Nearest(nested, x, TRUE) = 0 /\ ~Lookup(x, TRUE).evaluated /\ Doomed
  <2>1. ValueOf(n, Visiting.ty) = << >>
    <3>1. PICK mem, p, ty : mem = Now.mem /\ p = Program /\ ty = Visiting.ty
      OBVIOUS
    <3>2. ~(Having(p.root, n, x, DOMAIN p.types) # {} /\ PairOf(p, n) \in DOMAIN mem)
      BY <1>a, <1>2, <1>16, <3>1
    <3>3. Values(p, mem)[n][ty] = << >>
      BY <1>a, <1>11, <3>1, <3>2, LeafValue
    <3> QED BY <3>1, <3>3 DEF ValueOf
  <2>2. Doomed /\ \A j \in done : j \in DOMAIN Now.mem
    BY <1>5, <1>11, <1>14, <2>1
  <2>3. Having(root, n, x, done) = {}
    <3> SUFFICES ASSUME NEW c \in Having(root, n, x, done) PROVE FALSE
      OBVIOUS
    <3>1. c \in Around(root, n) /\ <<c, x>> \in done /\ c \in Having(root, n, x, all)
      BY <1>10 DEF Having
    <3>2. <<c, x>> \in Declared(root, Spot) /\ <<c, x>> \in DOMAIN Now.mem
      BY <1>12, <2>2, <3>1
    <3>3. PICK b : b = Innermost(Having(root, n, x, all))
      OBVIOUS
    <3>4. k = <<b, x>> /\ b \in Around(root, n) /\ <<b, x>> \in all /\ c <= b
      BY <1>2, <1>6, <3>1, <3>3, OwnerIn
    <3>5. k \notin DOMAIN Now.mem
      BY <1>a, <1>16, <3>1
    <3>6. b # c
      BY <3>2, <3>4, <3>5
    <3>7. b \in Nat /\ c \in Nat /\ LastIn[b] \in Nat /\ n <= LastIn[b]
      BY <1>2, <3>1, <3>4, AroundFacts
    <3>8. c < b /\ Spot <= LastIn[b] + 1
      BY <1>2, <1>11, <1>12, <3>4, <3>6, <3>7
    <3>9. <<b, x>> \notin Declarations(root)
      BY <1>2, <1>12, <3>1, <3>2, <3>4, <3>8, Single
    <3> QED BY <1>a, <1>13, <3>4, <3>9
  <2>4. Nearest(nested, x, TRUE) = 0
    BY <1>9, <1>b, <2>3
  <2>5. ~Lookup(x, TRUE).evaluated
    BY <2>4 DEF Lookup, LookupIn, Absent, Entry
  <2> QED BY <2>2, <2>4, <2>5
<1> QED BY <1>a, <1>15, <1>16

LEMMA VariableMeant ==
  ASSUME Evaluating, Continues, Eval, EvalVariable
  PROVE  Meant
<1>1. stk # << >> /\ Kind[N] = "variable" /\ Top.stage = 0 /\ Typed
  BY DEF EvalVariable, Running
<1>2. PICK n, asked, k, known, res :
        /\ n = N /\ asked = Visiting.ty /\ k = PairOf(Program, n) /\ res = Lookup(Var[n], TRUE)
        /\ known = (Having(root, n, Var[n], DOMAIN table) # {} /\ k \in DOMAIN Now.mem)
  OBVIOUS
<1>3. Kind[n] \in PureKinds /\ ~Owns(Top) /\ Kind[n] # "block"
  BY <1>1, <1>2 DEF Owns, N, PureKinds, ExprKinds, LeafKinds
<1>4. Evaluates /\ Pending = {}
  BY <1>1, <1>2, <1>3, PureTop DEF Evaluating
<1>5. /\ known => /\ res = table[k] /\ k \in DOMAIN table /\ res.evaluated
                  /\ TypeAt(n) = res.type
      /\ ~known => ~res.evaluated /\ Doomed
  BY <1>1, <1>2, <1>4, VariableIs
<1>6. CASE ~known
  <2>1. Throw("used before assigned")
    BY <1>2, <1>5, <1>6 DEF EvalVariable
  <2>2. phase' = "ready" /\ result' # "evaluated" /\ UNCHANGED table
    BY <2>1 DEF Throw, Unwind
  <2> QED BY <1>4, <1>5, <1>6, <2>2 DEF Meant
<1>7. CASE known
  <2>1. PICK v : v = Load(asked, res.ptr, Value)
    OBVIOUS
  <2>2. SetValue(v) /\ Return /\ Going /\ UNCHANGED <<table, last>>
    BY <1>2, <1>5, <1>7, <2>1 DEF EvalVariable
  <2>3. /\ asked \in ValueTypes /\ AskedFor(Len(stk)) = asked /\ Fits(n, asked)
        /\ ExpressionOf(Program, n, asked)
    BY <1>1, <1>2, <1>3, <1>4, TypedTop
  <2>4. v = Load(asked, res.ptr, Initial(asked))
    <3>1. res.ptr.kind = ClassOf(res.type)
      BY <1>5, <1>7, <1>4 DEF Evaluates, PlainOK, KindMatchesType
    <3>2. IF asked = StringType THEN res.type = StringType ELSE res.type \in {IntType, FloatType}
      BY <1>1, <1>2, <1>5, <1>7, <2>3 DEF Fits, IsString, IsNumber, UnaryKinds, BinaryKinds
    <3>3. /\ res.type = IntType => res.ptr.kind = "int_constant"
          /\ res.type = FloatType => res.ptr.kind = "float_constant"
          /\ res.type = StringType => res.ptr.kind = "string_constant"
      BY <3>1 DEF ClassOf, IntType, FloatType, StringType
    <3> QED BY <2>1, <2>3, <3>2, <3>3, LoadFits
  <2>5. ValueOf(n, asked) = <<v>>
    <3>1. PICK mem, p : mem = Now.mem /\ p = Program
      OBVIOUS
    <3>2. Having(p.root, n, Var[n], DOMAIN p.types) # {} /\ PairOf(p, n) \in DOMAIN mem
      BY <1>1, <1>2, <1>4, <1>7, <3>1, EvalTop
    <3>3. Values(p, mem)[n][asked] = Loaded(asked, mem[k])
      BY <1>1, <1>2, <2>3, <3>1, <3>2, LeafValue
    <3>4. mem[k] = res.ptr
      BY <1>2, <1>4, <1>5, <1>7, <3>1, MemoryIs
    <3> QED BY <2>4, <3>1, <3>3, <3>4 DEF ValueOf, Loaded
  <2>6. v \in Int
    <3>1. Value \in Int
      BY <1>1, <1>2, <1>3, <1>4, EvalTop, VisFacts
    <3>2. res.ptr.val \in Int
      BY <1>4, <1>5, <1>7 DEF Evaluates, IInv, MachineOK, TypeOK, Entries, Pointers
    <3> QED BY <2>1, <3>1, <3>2, LoadTypes
  <2>7. Value' = v
    BY <1>1, <1>2, <1>3, <1>4, <2>2, <2>6, SetValueIs
  <2>8. phase' = "eval"
    BY <1>4, <2>2 DEF Going, Evaluates
  <2>9. Followed'
    BY <1>1, <1>2, <1>3, <2>2, <2>3, <2>5, <2>7, <2>8, PureReturns
  <2> QED BY <2>8, <2>9 DEF Meant
<1> QED BY <1>6, <1>7

\* The value that the last visitor has of the child that returned last.
LEMMA LastIs ==
  ASSUME Evaluates, stk # << >>, NEW n, n = N, Kind[n] \in PureKinds \/ Acting(Top), NEW s, s = Top.stage, s > 0
  PROVE  ValueOf(Kids[n][s], Visiting.ty) = <<Value>>
BY DEF Evaluates, Followed, ValuesOK, LastValued, Kid

\* An operator under the visitor that asked for it.
LEMMA OperatorTop ==
  ASSUME Evaluates, stk # << >>, NEW n, n = N, Kind[n] \in UnaryKinds \cup BinaryKinds, Typed,
         NEW ty, ty = Visiting.ty
  PROVE  /\ ty \in ValueTypes /\ ty # StringType /\ ty # Undet /\ AskedFor(Len(stk)) = ty /\ ~Owns(Top)
         /\ Kind[n] \in PureKinds /\ Kind[n] # "block" /\ Kind[n] # "comp_equals" /\ Kind[n] # "assign"
         /\ Computes(Top, ty, ty)
         /\ DOMAIN Kids[n] = IF Kind[n] \in UnaryKinds THEN {1} ELSE {1, 2}
         /\ \A k \in DOMAIN Kids[n] : Fits(Kids[n][k], ty) /\ (ValueOf(Kids[n][k], ty) = << >> => Doomed)
         /\ \A k, v, w : /\ k = (IF Kind[n] \in UnaryKinds THEN 1 ELSE 2)
                         /\ ValueOf(Kids[n][1], ty) = <<v>> /\ ValueOf(Kids[n][k], ty) = <<w>>
                         /\ Exact(Kind[n], ty, v, w)
                         => ValueOf(n, ty) = <<Compute(Kind[n], ty, v, w)>>
<1>1. /\ Kind[n] \in PureKinds /\ ~Owns(Top) /\ Kind[n] # "block" /\ Kind[n] # "comp_equals"
      /\ Kind[n] # "assign" /\ Kind[n] # "variable" /\ Kind[n] # "string_constant"
  BY DEF Owns, N, PureKinds, ExprKinds, LeafKinds, UnaryKinds, BinaryKinds
<1>2. /\ ty \in ValueTypes /\ AskedFor(Len(stk)) = ty /\ Fits(n, ty) /\ (ValueOf(n, ty) = << >> => Doomed)
      /\ Computes(Top, ty, ty) /\ ExpressionOf(Program, n, ty) /\ ty # Undet
  BY <1>1, TypedTop
<1>3. ty # StringType
  BY <1>1, <1>2 DEF Fits, IsString
<1>4. DOMAIN Kids[n] = IF Kind[n] \in UnaryKinds THEN {1} ELSE {1, 2}
  <2>1. n \in Node
    BY EvalTop
  <2>2. /\ DOMAIN Kids[n] = 1..Len(Kids[n]) /\ Len(Kids[n]) = Arity(Kind[n])
    BY <1>1, <2>1, TreeAssumption
  <2>3. Arity(Kind[n]) = IF Kind[n] \in UnaryKinds THEN 1 ELSE 2
    BY DEF Arity, LeafKinds, UnaryKinds, BinaryKinds
  <2>4. Len(Kids[n]) = 1 => DOMAIN Kids[n] = {1}
    BY <2>2
  <2>5. Len(Kids[n]) = 2 => DOMAIN Kids[n] = {1, 2}
    BY <2>2
  <2> QED BY <2>2, <2>3, <2>4, <2>5
<1>5. \A k \in DOMAIN Kids[n] : Fits(Kids[n][k], ty)
  <2>1. Sound(n)
    BY EvalTop
  <2> QED BY <1>3, <2>1 DEF Sound, Fits
<1>6. PICK a, b, k, mem, p : /\ k = (IF Kind[n] \in UnaryKinds THEN 1 ELSE 2)
                             /\ mem = Now.mem /\ p = Program
                             /\ a = Values(p, mem)[Kids[n][1]][ty] /\ b = Values(p, mem)[Kids[n][k]][ty]
  OBVIOUS
<1>7. b = IF Kind[n] \in UnaryKinds THEN a ELSE Values(p, mem)[Kids[n][2]][ty]
  BY <1>6
<1>8. /\ a = << >> \/ b = << >> => Values(p, mem)[n][ty] = << >>
      /\ \A v, w : a = <<v>> /\ b = <<w>> /\ Exact(Kind[n], ty, v, w) =>
           Values(p, mem)[n][ty] = <<Compute(Kind[n], ty, v, w)>>
  <2>1. ExpressionOf(p, n, ty)
    BY <1>2, <1>6
  <2>2. a = Values(p, mem)[Kids[n][1]][ty]
    BY <1>6
  <2>3. Kind[n] \in UnaryKinds \cup BinaryKinds
    OBVIOUS
  <2>4. Values(p, mem)[n][ty] = Computed(Kind[n], ty, a, b)
    BY <1>7, <2>1, <2>2, <2>3, OperatorValue
  <2> QED BY <2>4 DEF Computed
<1>9. /\ ValueOf(n, ty) = Values(p, mem)[n][ty]
      /\ \A j : ValueOf(Kids[n][j], ty) = Values(p, mem)[Kids[n][j]][ty]
  BY <1>6 DEF ValueOf
<1>10. ASSUME NEW j \in DOMAIN Kids[n], ValueOf(Kids[n][j], ty) = << >>
       PROVE  Doomed
  <2>1. j = 1 \/ j = k
    BY <1>4, <1>6
  <2>2. a = << >> \/ b = << >>
    BY <1>6, <1>9, <1>10, <2>1
  <2> QED BY <1>2, <1>8, <1>9, <2>2
<1>11. ASSUME NEW v, NEW w, ValueOf(Kids[n][1], ty) = <<v>>, ValueOf(Kids[n][k], ty) = <<w>>,
              Exact(Kind[n], ty, v, w)
       PROVE  ValueOf(n, ty) = <<Compute(Kind[n], ty, v, w)>>
  BY <1>6, <1>8, <1>9, <1>11
<1> QED BY <1>1, <1>2, <1>3, <1>4, <1>5, <1>6, <1>10, <1>11

\* It calls an operand.
LEMMA OperandMeant ==
  ASSUME Evaluating, Continues, Eval, stk # << >>, NEW n, n = N, Kind[n] \in UnaryKinds \cup BinaryKinds,
         Typed, NEW k \in DOMAIN Kids[n], k = Top.stage + 1, NEW v \in Int, EvalChild(k, v),
         k = 2 => v = Value
  PROVE  Meant
<1>1. PICK ty, typed, later, asked : /\ ty = Visiting.ty /\ typed = TRUE /\ later = Later(Top.stage + 1, v)
                                     /\ asked = AskedFor(Len(stk))
  OBVIOUS
<1>2. Evaluates
  BY DEF Evaluating
<1>3. /\ ty # Undet /\ asked = ty /\ Kind[n] \in PureKinds /\ Kind[n] # "comp_equals"
      /\ Computes(Top, ty, ty) /\ k \in {1, 2}
      /\ Fits(Kids[n][k], ty) /\ (ValueOf(Kids[n][k], ty) = << >> => Doomed)
  BY <1>1, <1>2, OperatorTop
<1>4. later.n = n /\ later.stage = k /\ later.local = v /\ Top.n = n /\ Top.stage \in Nat
  BY <1>1, <1>2, LaterFacts, EvalTop
<1>5. Computes(later, ty, ty)
  <2>1. Spot <= n /\ Fits(n, ty) /\ (ValueOf(n, ty) = << >> => Doomed)
    BY <1>3, <1>4 DEF Computes
  <2>2. k = 2 => ValueOf(Kids[n][1], ty) = <<v>>
    <3>1. k = 2 => Top.stage = 1
      BY <1>4
    <3>2. Top.stage = 1 => ValueOf(Kids[n][1], ty) = <<Value>>
      BY <1>1, <1>2, <1>3, LastIs
    <3> QED BY <3>1, <3>2
  <2> QED BY <1>3, <1>4, <2>1, <2>2 DEF Computes
<1>6. Call(k, v, typed) /\ typed \in BOOLEAN /\ Going /\ UNCHANGED <<table, vis, last>>
  BY <1>1 DEF EvalChild
<1>7. phase' = "eval" /\ ty = Visiting.ty'
  BY <1>1, <1>2, <1>6 DEF Going, Evaluates, Visiting
<1>8. Followed'
  BY <1>1, <1>3, <1>5, <1>6, <1>7, PureCalls
<1> QED BY <1>7, <1>8 DEF Meant

\* It ends with its result.
LEMMA FinishMeant ==
  ASSUME Evaluating, Continues, Eval, stk # << >>, NEW n, n = N, Kind[n] \in UnaryKinds \cup BinaryKinds,
         Typed, Top.stage = (IF Kind[n] \in UnaryKinds THEN 1 ELSE 2),
         NEW v \in Int, v = (IF Kind[n] \in UnaryKinds THEN Value ELSE Top.local),
         NEW w \in Int, w = Value, Finish(Kind[n], v, w)
  PROVE  Meant
<1>1. PICK ty, k, res : /\ ty = Visiting.ty /\ k = (IF Kind[n] \in UnaryKinds THEN 1 ELSE 2)
                        /\ res = Compute(Kind[n], ty, v, w)
  OBVIOUS
<1>2. Evaluates
  BY DEF Evaluating
<1>3. /\ ty # StringType /\ ty # Undet /\ AskedFor(Len(stk)) = ty
      /\ Kind[n] \in PureKinds /\ Kind[n] # "block"
      /\ Computes(Top, ty, ty) /\ Top.n = n
  BY <1>1, <1>2, OperatorTop, EvalTop
<1>4. CASE ~Exact(Kind[n], ty, v, w)
  <2>1. phase' = "stopped"
    BY <1>1, <1>4 DEF Finish, Inexact, Undefined, Unwind
  <2> QED BY <2>1 DEF Meant
<1>5. CASE Exact(Kind[n], ty, v, w)
  <2>1. SetValue(res) /\ Return /\ Going /\ UNCHANGED <<table, last>>
    BY <1>1, <1>5 DEF Finish
  <2>2. ValueOf(Kids[n][k], ty) = <<w>>
    <3>1. k = Top.stage /\ k > 0
      BY <1>1
    <3> QED BY <1>1, <1>2, <1>3, <3>1, LastIs
  <2>3. ValueOf(Kids[n][1], ty) = <<v>>
    <3>1. CASE Kind[n] \in UnaryKinds
      BY <1>1, <2>2, <3>1
    <3>2. CASE Kind[n] \notin UnaryKinds
      BY <1>3, <3>2 DEF Computes
    <3> QED BY <3>1, <3>2
  <2>4. ValueOf(n, ty) = <<res>>
    BY <1>1, <1>2, <1>5, <2>2, <2>3, OperatorTop
  <2>5. res \in Int
    BY <1>1, <1>5, ExactTypes
  <2>6. Value' = res
    BY <1>2, <1>3, <2>1, <2>5, SetValueIs
  <2>7. phase' = "eval"
    BY <1>2, <2>1 DEF Going, Evaluates
  <2>8. Followed'
    BY <1>1, <1>3, <2>1, <2>4, <2>6, <2>7, PureReturns
  <2> QED BY <2>7, <2>8 DEF Meant
<1> QED BY <1>4, <1>5

LEMMA UnaryMeant ==
  ASSUME Evaluating, Continues, Eval, EvalUnary
  PROVE  Meant
<1>1. PICK n, v : n = N /\ v = Value
  OBVIOUS
<1>2. /\ stk # << >> /\ Kind[n] \in UnaryKinds /\ Typed /\ Evaluates
  BY <1>1 DEF EvalUnary, Running, Evaluating
<1>3. Visiting.ty # StringType /\ Kind[n] # "block" /\ 1 \in DOMAIN Kids[n]
  BY <1>1, <1>2, OperatorTop
<1>4. v \in Int
  BY <1>1, <1>2, <1>3, EvalTop, VisFacts
<1>5. CASE Top.stage = 0
  <2>1. EvalChild(1, 0)
    BY <1>5 DEF EvalUnary, Running
  <2>2. PICK k, u : k = 1 /\ u = 0
    OBVIOUS
  <2>3. k \in DOMAIN Kids[n] /\ k = Top.stage + 1 /\ u \in Int /\ EvalChild(k, u) /\ k # 2
    BY <1>3, <1>5, <2>1, <2>2
  <2>4. Kind[n] \in UnaryKinds \cup BinaryKinds
    BY <1>2
  <2> QED BY <1>1, <1>2, <2>3, <2>4, OperandMeant
<1>6. CASE Top.stage # 0
  <2>1. Top.stage = 1 /\ Finish(Kind[n], v, v)
    BY <1>1, <1>3, <1>6 DEF EvalUnary, Running
  <2>2. Kind[n] \in UnaryKinds \cup BinaryKinds
    BY <1>2
  <2> QED BY <1>1, <1>2, <1>4, <2>1, <2>2, FinishMeant
<1> QED BY <1>5, <1>6

LEMMA BinaryMeant ==
  ASSUME Evaluating, Continues, Eval, EvalBinary
  PROVE  Meant
<1>1. PICK n, v, u : n = N /\ v = Value /\ u = Top.local
  OBVIOUS
<1>2. /\ stk # << >> /\ Kind[n] \in BinaryKinds /\ Kind[n] \notin UnaryKinds /\ Typed /\ Evaluates
      /\ Kind[n] \in UnaryKinds \cup BinaryKinds
  BY <1>1 DEF EvalBinary, Running, Evaluating, UnaryKinds, BinaryKinds
<1>3. Visiting.ty # StringType /\ Kind[n] # "block" /\ DOMAIN Kids[n] = {1, 2}
  BY <1>1, <1>2, OperatorTop
<1>4. v \in Int /\ u \in Int
  BY <1>1, <1>2, <1>3, EvalTop, VisFacts
<1>5. CASE Top.stage = 0
  <2>1. EvalChild(1, 0)
    BY <1>5 DEF EvalBinary, Running
  <2>2. PICK k, w : k = 1 /\ w = 0
    OBVIOUS
  <2>3. k \in DOMAIN Kids[n] /\ k = Top.stage + 1 /\ w \in Int /\ EvalChild(k, w) /\ k # 2
    BY <1>3, <1>5, <2>1, <2>2
  <2> QED BY <1>1, <1>2, <2>3, OperandMeant
<1>6. CASE Top.stage = 1
  <2>1. EvalChild(2, v)
    BY <1>1, <1>6 DEF EvalBinary, Running
  <2>2. PICK k : k = 2
    OBVIOUS
  <2>3. k \in DOMAIN Kids[n] /\ k = Top.stage + 1 /\ EvalChild(k, v)
    BY <1>3, <1>6, <2>1, <2>2
  <2> QED BY <1>1, <1>2, <1>4, <2>3, OperandMeant
<1>7. CASE Top.stage \notin {0, 1}
  <2>1. Top.stage = 2 /\ Finish(Kind[n], u, v)
    BY <1>1, <1>3, <1>7 DEF EvalBinary, Running
  <2> QED BY <1>1, <1>2, <1>4, <2>1, FinishMeant
<1> QED BY <1>5, <1>6, <1>7

\* A comparison whose value is asked for.
LEMMA EqualsTop ==
  ASSUME Evaluates, stk # << >>, NEW n, n = N, Kind[n] = "comp_equals",
         NEW asked, asked = AskedFor(Len(stk)), asked # Undet, NEW as, as = ComparedAs(Annotation(n))
  PROVE  /\ as # Undet /\ Annotation(n) \in ValueTypes /\ Kind[n] \in PureKinds /\ Kind[n] # "block"
         /\ Computes(Top, Visiting.ty, asked) /\ Pending = {}
         /\ DOMAIN Kids[n] = {1, 2} /\ asked \in ValueTypes
         /\ asked # IntType => Doomed
         /\ \A k \in DOMAIN Kids[n] :
              Fits(Kids[n][k], as) /\ (ValueOf(Kids[n][k], as) = << >> => Doomed)
         /\ \A v, w : asked = IntType /\ ValueOf(Kids[n][1], as) = <<v>> /\ ValueOf(Kids[n][2], as) = <<w>> =>
              ValueOf(n, asked) = << IF v = w THEN 1 ELSE 0 >>
<1>1. Kind[n] \in PureKinds /\ Kind[n] # "block"
  BY DEF PureKinds, ExprKinds, LeafKinds, UnaryKinds, BinaryKinds
<1>2. /\ Computes(Top, Visiting.ty, asked) /\ asked \in ValueTypes \cup {Undet} /\ Pending = {}
      /\ Top.n = n /\ Sound(n) /\ IsProgram(Program) /\ Program.root = root /\ InTree(root, n) /\ n \in Node
  BY <1>1, PureTop, EvalTop
<1>3. Annotation(n) \in ValueTypes /\ \A k \in DOMAIN Kids[n] : Fits(Kids[n][k], as)
  BY <1>2 DEF Sound
<1>4. as # Undet
  BY <1>3 DEF ComparedAs, ValueTypes, IntType, FloatType, StringType, Undet
<1>5. DOMAIN Kids[n] = {1, 2}
  <2>1. /\ DOMAIN Kids[n] = 1..Len(Kids[n]) /\ Len(Kids[n]) = Arity(Kind[n])
    BY <1>1, <1>2, TreeAssumption
  <2>2. Arity(Kind[n]) = 2
    BY DEF Arity, LeafKinds, UnaryKinds, BinaryKinds
  <2> QED BY <2>1, <2>2
<1>6. asked \in ValueTypes /\ (ValueOf(n, asked) = << >> => Doomed)
  BY <1>2 DEF Computes
<1>7. PICK a, b, mem, p : /\ mem = Now.mem /\ p = Program
                          /\ a = Values(p, mem)[Kids[n][1]][as] /\ b = Values(p, mem)[Kids[n][2]][as]
  OBVIOUS
<1>8. CondType(p, n) = Annotation(n)
  BY <1>7, ProgramIs
<1>9. /\ asked # IntType \/ a = << >> \/ b = << >> => Values(p, mem)[n][asked] = << >>
      /\ \A v, w : asked = IntType /\ a = <<v>> /\ b = <<w>> =>
           Values(p, mem)[n][asked] = << IF v = w THEN 1 ELSE 0 >>
  <2>1. ExpressionOf(p, n, asked)
    BY <1>2, <1>6, <1>7 DEF ExpressionOf
  <2>2. as = ComparedAs(CondType(p, n)) /\ CondType(p, n) \in ValueTypes
    BY <1>3, <1>8
  <2>3. a = Values(p, mem)[Kids[n][1]][as]
    BY <1>7
  <2>4. b = Values(p, mem)[Kids[n][2]][as]
    BY <1>7
  <2>5. Values(p, mem)[n][asked] = IF asked = IntType THEN Compared(a, b) ELSE << >>
    BY <2>1, <2>2, <2>3, <2>4, EqualsValue
  <2>6. a = << >> \/ b = << >> => Compared(a, b) = << >>
    BY DEF Compared
  <2>7. ASSUME NEW v, NEW w, a = <<v>>, b = <<w>>
        PROVE  Compared(a, b) = << IF v = w THEN 1 ELSE 0 >>
    <3>1. a # << >> /\ b # << >> /\ a[1] = v /\ b[1] = w
      BY <2>7
    <3> QED BY <2>7, <3>1 DEF Compared
  <2> QED BY <2>5, <2>6, <2>7
<1>10. /\ ValueOf(n, asked) = Values(p, mem)[n][asked]
       /\ ValueOf(Kids[n][1], as) = a /\ ValueOf(Kids[n][2], as) = b
  BY <1>7 DEF ValueOf
<1>11. asked # IntType => Doomed
  BY <1>6, <1>9, <1>10
<1>12. ASSUME NEW k \in DOMAIN Kids[n], ValueOf(Kids[n][k], as) = << >>
       PROVE  Doomed
  <2>1. k = 1 \/ k = 2
    BY <1>5
  <2> QED BY <1>6, <1>9, <1>10, <1>12, <2>1
<1>13. ASSUME NEW v, NEW w, asked = IntType, ValueOf(Kids[n][1], as) = <<v>>, ValueOf(Kids[n][2], as) = <<w>>
       PROVE  ValueOf(n, asked) = << IF v = w THEN 1 ELSE 0 >>
  BY <1>9, <1>10, <1>13
<1> QED BY <1>1, <1>2, <1>3, <1>4, <1>5, <1>6, <1>11, <1>12, <1>13

LEMMA NewVisitorIs ==
  ASSUME vis \in Seq(Visitors), NEW ty, NewVisitor(ty)
  PROVE  Visiting.ty' = ty /\ Value' = Initial(ty)
<1>1. PICK w : w = [ty |-> ty, val |-> Initial(ty)]
  OBVIOUS
<1>2. vis' = Append(vis, w)
  BY <1>1 DEF NewVisitor
<1>3. Len(vis') = Len(vis) + 1 /\ vis'[Len(vis')] = w
  BY <1>2
<1> QED BY <1>1, <1>3 DEF Visiting, Value

LEMMA BeginEqualsMeant ==
  ASSUME Evaluating, Continues, Eval, BeginEquals
  PROVE  Meant
<1>1. PICK n, asked, as, typed, k, v, later :
        /\ n = N /\ asked = AskedFor(Len(stk)) /\ as = ComparedAs(Annotation(n)) /\ typed = TRUE
        /\ k = 1 /\ v = 0 /\ later = Later(Top.stage + 1, v)
  OBVIOUS
<1>2. stk # << >> /\ Kind[n] = "comp_equals" /\ Top.stage = 0 /\ Typed /\ Evaluates
  BY <1>1 DEF BeginEquals, Running, Evaluating
<1>3. ~Owns(Top) /\ Kind[n] \in PureKinds
  BY <1>1, <1>2 DEF Owns, N, PureKinds, ExprKinds
<1>4. asked = Visiting.ty /\ asked # Undet /\ Spot <= n /\ Fits(n, asked) /\ (ValueOf(n, asked) = << >> => Doomed)
  BY <1>1, <1>2, <1>3, TypedTop
<1>5. /\ Annotation(n) \in ValueTypes /\ as # Undet /\ Pending = {} /\ k \in DOMAIN Kids[n]
      /\ asked # IntType => Doomed
      /\ Fits(Kids[n][k], as) /\ (ValueOf(Kids[n][k], as) = << >> => Doomed)
  BY <1>1, <1>2, <1>4, EqualsTop
<1>6. CASE asked # IntType
  <2>1. Throw("invalid use of ==")
    BY <1>4, <1>6 DEF BeginEquals
  <2>2. phase' = "ready" /\ result' # "evaluated" /\ UNCHANGED table
    BY <2>1 DEF Throw, Unwind
  <2> QED BY <1>5, <1>6, <2>2 DEF Meant
<1>7. CASE asked = IntType
  <2>1. NewVisitor(as) /\ Call(k, v, typed) /\ Going /\ UNCHANGED <<table, last>>
    BY <1>1, <1>4, <1>5, <1>7 DEF BeginEquals
  <2>2. later.n = n /\ later.stage = 1
    BY <1>1, <1>2, LaterFacts
  <2>3. Computes(later, as, asked)
    BY <1>1, <1>4, <1>7, <2>2 DEF Computes
  <2>4. vis \in Seq(Visitors)
    BY <1>2, EvalTop DEF EvaluatorOK
  <2>5. as = Visiting.ty'
    BY <2>1, <2>4, NewVisitorIs
  <2>6. phase' = "eval"
    BY <1>2, <2>1 DEF Going, Evaluates
  <2>7. typed \in BOOLEAN /\ v \in Int
    BY <1>1
  <2>8. Followed'
    BY <1>1, <1>2, <1>3, <1>4, <1>5, <2>1, <2>3, <2>5, <2>6, <2>7, PureCalls
  <2> QED BY <2>6, <2>8 DEF Meant
<1> QED BY <1>6, <1>7

\* One that is under way compares at the type that was annotated.
LEMMA EqualsRuns ==
  ASSUME Evaluates, stk # << >>, NEW n, n = N, Kind[n] = "comp_equals", Top.stage > 0,
         NEW asked, asked = AskedFor(Len(stk)), NEW as, as = ComparedAs(Annotation(n))
  PROVE  /\ asked = IntType /\ Visiting.ty = as /\ asked # Undet /\ Owns(Top) /\ Kind[n] # "block"
         /\ Spot <= n /\ Fits(n, asked) /\ (ValueOf(n, asked) = << >> => Doomed)
         /\ ValueOf(Kids[n][Top.stage], as) = <<Value>>
         /\ Top.stage = 2 => ValueOf(Kids[n][1], as) = <<Top.local>>
<1>1. Kind[n] \in PureKinds /\ Owns(Top) /\ Kind[n] # "block"
  BY DEF Owns, N, PureKinds, ExprKinds
<1>2. Computes(Top, Visiting.ty, asked) /\ Top.n = n /\ IntType # Undet
  BY <1>1, PureTop, EvalTop DEF IntType, Undet
<1>3. asked = IntType /\ Visiting.ty = as
  BY <1>2 DEF Computes
<1>4. /\ Spot <= n /\ Fits(n, asked) /\ (ValueOf(n, asked) = << >> => Doomed)
      /\ Top.stage = 2 => ValueOf(Kids[n][1], as) = <<Top.local>>
  BY <1>2, <1>3 DEF Computes
<1>5. PICK s : s = Top.stage
  OBVIOUS
<1>6. ValueOf(Kids[n][s], as) = <<Value>>
  BY <1>1, <1>3, <1>5, LastIs
<1> QED BY <1>1, <1>2, <1>3, <1>4, <1>5, <1>6

LEMMA EndEqualsMeant ==
  ASSUME Evaluating, Continues, Eval, EndEquals
  PROVE  Meant
<1>1. PICK n, asked, as, v, w, res :
        /\ n = N /\ asked = AskedFor(Len(stk)) /\ as = ComparedAs(Annotation(n))
        /\ v = Top.local /\ w = Value /\ res = IF v = w THEN 1 ELSE 0
  OBVIOUS
<1>2. stk # << >> /\ Kind[n] = "comp_equals" /\ Top.stage = 2 /\ Evaluates
  BY <1>1 DEF EndEquals, Running, Evaluating
<1>3. /\ asked = IntType /\ asked # Undet /\ Owns(Top) /\ Kind[n] # "block"
      /\ ValueOf(Kids[n][2], as) = <<w>> /\ ValueOf(Kids[n][1], as) = <<v>>
  BY <1>1, <1>2, EqualsRuns
<1>4. ValueOf(n, asked) = <<res>> /\ Kind[n] \in PureKinds
  BY <1>1, <1>2, <1>3, EqualsTop
<1>5. CASE Visiting.ty = StringType /\ NullStr \in {v, w}
  <2>1. phase' = "stopped"
    BY <1>1, <1>5 DEF EndEquals, Undefined, Unwind
  <2> QED BY <2>1 DEF Meant
<1>6. CASE ~(Visiting.ty = StringType /\ NullStr \in {v, w})
  <2>1. /\ vis' = Append(SubSeq(vis, 1, Len(vis) - 2), [vis[Len(vis) - 1] EXCEPT !.val = res])
        /\ Return /\ Going /\ UNCHANGED <<table, last>>
    BY <1>1, <1>6 DEF EndEquals
  <2>2. Value' = res
    <3>1. vis \in Seq(Visitors) /\ Len(vis) >= 2 /\ Len(vis) \in Nat
      BY <1>1, <1>2, <1>3, EvalTop, VisFacts DEF EvaluatorOK
    <3>2. PICK x : x = [vis[Len(vis) - 1] EXCEPT !.val = res]
      OBVIOUS
    <3>3. vis[Len(vis) - 1] \in Visitors
      BY <3>1
    <3>4. x.val = res
      BY <3>2, <3>3 DEF Visitors
    <3>5. PICK outer : outer = SubSeq(vis, 1, Len(vis) - 2)
      OBVIOUS
    <3>6. outer \in Seq(Visitors) /\ vis' = Append(outer, x)
      BY <2>1, <3>1, <3>2, <3>5
    <3>7. vis'[Len(vis')] = x
      BY <3>6
    <3> QED BY <3>4, <3>7 DEF Value, Visiting
  <2>3. phase' = "eval"
    BY <1>2, <2>1 DEF Going, Evaluates
  <2>4. Followed'
    BY <1>1, <1>2, <1>4, <2>1, <2>2, <2>3, PureReturns
  <2> QED BY <2>3, <2>4 DEF Meant
<1> QED BY <1>5, <1>6

LEMMA EqualsMeant ==
  ASSUME Evaluating, Continues, Eval, EvalEquals
  PROVE  Meant
<1>1. CASE BeginEquals
  BY <1>1, BeginEqualsMeant
<1>2. CASE EndEquals
  BY <1>2, EndEqualsMeant
<1>3. CASE Running({"comp_equals"}, 1) /\ EvalChild(2, Value)
  <2>1. PICK n, asked, as, typed, k, v, later :
          /\ n = N /\ asked = AskedFor(Len(stk)) /\ as = ComparedAs(Annotation(n)) /\ typed = TRUE
          /\ k = 2 /\ v = Value /\ later = Later(Top.stage + 1, v)
    OBVIOUS
  <2>2. stk # << >> /\ Kind[n] = "comp_equals" /\ Top.stage = 1 /\ Evaluates
    BY <1>3, <2>1 DEF Running, Evaluating
  <2>3. /\ asked = IntType /\ asked # Undet /\ Visiting.ty = as /\ Kind[n] # "block"
        /\ Spot <= n /\ Fits(n, asked) /\ (ValueOf(n, asked) = << >> => Doomed)
        /\ ValueOf(Kids[n][1], as) = <<v>>
    BY <2>1, <2>2, EqualsRuns
  <2>4. /\ Kind[n] \in PureKinds /\ k \in DOMAIN Kids[n]
        /\ Fits(Kids[n][k], as) /\ (ValueOf(Kids[n][k], as) = << >> => Doomed)
    BY <2>1, <2>2, <2>3, EqualsTop
  <2>5. later.n = n /\ later.stage = 2 /\ later.local = v
    BY <2>1, <2>2, LaterFacts
  <2>6. Computes(later, as, asked)
    BY <2>1, <2>3, <2>5 DEF Computes
  <2>7. Call(k, v, typed) /\ Going /\ UNCHANGED <<table, vis, last>>
    BY <1>3, <2>1 DEF EvalChild
  <2>8. phase' = "eval" /\ as = Visiting.ty'
    BY <2>2, <2>3, <2>7 DEF Going, Evaluates, Visiting
  <2>9. typed \in BOOLEAN /\ v \in Int
    BY <2>1, <2>2, <2>3, EvalTop, VisFacts
  <2>10. Followed'
    BY <2>1, <2>2, <2>3, <2>4, <2>6, <2>7, <2>8, <2>9, PureCalls
  <2> QED BY <2>8, <2>10 DEF Meant
<1> QED BY <1>1, <1>2, <1>3 DEF EvalEquals

-----------------------------------------------------------------------------
(***************************************************************************)
(* The statements.                                                         *)
(***************************************************************************)
LEMMA CourseSame ==
  ASSUME NEW p, IsProgram(p), NEW n, InTree(p.root, n), ~Acts(n)
  PROVE  Course(p)[n + 1] = Course(p)[n]
<1>1. n \in p.root..LastIn[p.root]
  BY ProgramFacts DEF InTree
<1>2. Course(p)[n + 1] = Pass(p, Course(p)[n], n)
  BY <1>1, CourseIs
<1> QED BY <1>2 DEF Pass

LEMMA NextNat ==
  ASSUME NEW p, IsProgram(p), NEW b, UptoIn(p.root, b)
  PROVE  Course(p)[b].next \in Nat
<1> DEFINE S == {m \in p.root..b : Course(p)[m].next \notin Nat}
<1>1. p.root \in Nat /\ b \in Nat /\ p.root <= b /\ LastIn[p.root] \in Nat /\ p.root \in Root
  BY ProgramFacts DEF UptoIn
<1> SUFFICES ASSUME S # {} PROVE FALSE
  <2>1. b \in p.root..b
    BY <1>1
  <2> QED BY <2>1
<1>2. PICK m \in S : \A n \in S : m <= n
  <2>1. S \subseteq Nat
    <3>1. ASSUME NEW k \in S PROVE k \in Nat
      <4>1. k \in p.root..b
        OBVIOUS
      <4> HIDE DEF S
      <4> QED BY <1>1, <4>1
    <3> HIDE DEF S
    <3> QED BY <3>1
  <2> HIDE DEF S
  <2> QED BY <2>1, LeastNumber
<1>3. m \in p.root..b /\ m # p.root
  <2>1. Course(p)[p.root].next = p.root
    <3>1. Course(p)[p.root] = State(<< >>, p.root, TRUE)
      BY CourseIs
    <3>2. State(<< >>, p.root, TRUE).next = p.root
      BY DEF State
    <3> QED BY <3>1, <3>2
  <2> QED BY <1>1, <1>2, <2>1
<1>4. PICK n, st : n = m - 1 /\ st = Course(p)[n]
  OBVIOUS
<1>5. n \in p.root..(b - 1) /\ n \in p.root..b /\ n + 1 = m /\ ~(m <= n) /\ UptoIn(p.root, p.root)
  BY <1>1, <1>3, <1>4 DEF UptoIn
<1>6. st.next \in Nat
  BY <1>2, <1>4, <1>5
<1>7. InTree(p.root, n)
  BY <1>5, CourseRange
<1>8. n \in Node /\ LastIn[n] \in Nat
  BY <1>7, AroundFacts
<1>9. CASE Acts(n) /\ st.ok /\ ~(n < st.next)
  <2>1. PICK ty, value, then : /\ ty = Wanted(p, n) /\ value = Values(p, st.mem)[Kids[n][1]][ty]
                               /\ then = Course(p)[n + 1]
    OBVIOUS
  <2>2. Kind[n] = "assign" \/ Kind[n] = "if_stmt"
    BY <1>9 DEF Acts
  <2>3. then.next = st.next \/ then.next = LastIn[n] + 1
    BY <1>4, <1>7, <1>9, <2>1, <2>2, ActingPass
  <2>4. then.next \in Nat
    BY <1>6, <1>8, <2>3
  <2> QED BY <1>2, <1>5, <2>1, <2>4
<1>10. CASE ~(Acts(n) /\ st.ok /\ ~(n < st.next))
  <2>1. Course(p)[n + 1] = Pass(p, st, n)
    BY <1>4, <1>7, CourseIs DEF InTree
  <2>2. Course(p)[n + 1] = st
    BY <1>10, <2>1 DEF Pass
  <2> QED BY <1>2, <1>5, <1>6, <2>2
<1> QED BY <1>9, <1>10

LEMMA BlockIs ==
  ASSUME NEW n \in Node, Kind[n] = "block"
  PROVE  /\ ~Acts(n) /\ Kind[n] \notin PureKinds
         /\ \A f : f.n = n => ~Acting(f) /\ ~Waits(f) /\ CalledBy(f) = f.stage - 1
         /\ Kids[n] \in Seq(Node) /\ DOMAIN Kids[n] = 1..Len(Kids[n]) /\ Len(Kids[n]) \in Nat
         /\ Kids[n] = << >> => LastIn[n] = n
         /\ Kids[n] # << >> => Kids[n][1] = n + 1 /\ LastIn[n] = LastIn[Kids[n][Len(Kids[n])]]
         /\ \A k \in 2..Len(Kids[n]) : Kids[n][k] = LastIn[Kids[n][k - 1]] + 1
<1>1. ~Acts(n) /\ Kind[n] \notin PureKinds
  BY DEF Acts, PureKinds, ExprKinds, LeafKinds, UnaryKinds, BinaryKinds
<1>2. \A f : f.n = n => ~Acting(f) /\ ~Waits(f) /\ CalledBy(f) = f.stage - 1
  BY <1>1 DEF Acting, Waits, CalledBy
<1>3. Kids[n] \in Seq(Node)
  BY TreeAssumption
<1> QED BY <1>1, <1>2, <1>3, OrderAssumption

\* What a statement that runs finds.
LEMMA StatementTop ==
  ASSUME Evaluates, stk # << >>, NEW n, n = N, Kind[n] \notin PureKinds
  PROVE  /\ Spot = Place(Top) /\ Now.ok /\ Now.next <= Spot /\ Now = Course(Program)[Spot]
         /\ ~Waits(Top) => Pending = {}
         /\ vis \in Seq(Visitors)
<1>1. Spot = Place(Top) /\ vis \in Seq(Visitors)
  BY EvalTop, TopDoes DEF EvaluatorOK
<1>2. Now.ok /\ Now.next <= Spot
  BY DEF Evaluates, Followed, MemoryOK
<1> QED BY <1>1, <1>2, NotWaiting DEF Now

\* The type of a block's visitor.
LEMMA BlockVisits ==
  ASSUME Evaluates, stk # << >>, Kind[N] = "block", Top.stage > 0
  PROVE  Visiting.ty = Undet
<1>1. MachineOK /\ VisitsOK /\ phase = "eval"
  BY DEF Evaluates, IInv, TablesOK
<1>2. Len(stk) \in 1..Len(stk) /\ VisitType(Len(stk)) = Visiting.ty
  BY <1>1, TopTypes
<1>3. PICK i, f : i = Len(stk) /\ f = stk[i]
  OBVIOUS
<1>4. Owns(f) /\ Kind[f.n] = "block"
  BY <1>3 DEF Owns, Top, N
<1>5. VisitType(i) \in TypesOf(f)
  BY <1>1, <1>2, <1>3, <1>4, OwnerType
<1> QED BY <1>2, <1>3, <1>4, <1>5 DEF TypesOf

LEMMA NowNext ==
  ASSUME Evaluates, stk # << >>, UptoIn(root, Spot)
  PROVE  Now.next \in Nat
<1>1. PICK p, s : p = Program /\ s = Spot
  OBVIOUS
<1>2. IsProgram(p) /\ p.root = root
  BY <1>1, EvalTop
<1>3. Course(p)[s].next \in Nat
  BY <1>1, <1>2, NextNat
<1> QED BY <1>1, <1>3 DEF Now

LEMMA EnterMeant ==
  ASSUME Evaluating, Continues, Eval, EnterScope(0), vis' = Append(vis, VoidVisitor), Going,
         UNCHANGED <<table, last>>
  PROVE  Meant
<1>1. Evaluates /\ stk # << >> /\ Kind[N] = "block" /\ Top.stage = 0 /\ Goto(1, 0)
  BY DEF Evaluating, EnterScope, Running
<1>2. phase' = "eval"
  BY <1>1 DEF Going, Evaluates
<1>3. PICK n, l, later, z : n = N /\ l = Len(stk) /\ later = Later(1, z) /\ z = 0
  OBVIOUS
<1>4. /\ MachineOK /\ n \in Node /\ stk \in Seq(Frames) /\ l \in Nat /\ l > 0 /\ Top.n = n
      /\ InTree(root, n) /\ phase = "eval"
  BY <1>1, <1>3, EvalTop
<1>5. /\ stk' \in Seq(Frames) /\ Len(stk') = l /\ stk'[l] = later
      /\ \A i \in 1..(l - 1) : stk'[i] = stk[i]
  <2>1. z \in Int /\ 1 \in Nat /\ Goto(1, z)
    BY <1>1, <1>3
  <2> QED BY <1>1, <1>3, <1>4, <2>1, GotoFacts
<1>6. later.n = n /\ later.stage = 1
  BY <1>3, LaterFacts
<1>7. ~Acting(later) /\ ~Waits(later) /\ Kind[n] \notin PureKinds /\ ~Waits(Top)
  BY <1>1, <1>3, <1>4, <1>6, BlockIs
<1>8. Spot' = Spot
  <2>1. z \in Int /\ EnterScope(z)
    BY <1>3
  <2> QED BY <1>1, <1>2, <1>4, <2>1, EnterSpot
<1>9. Pending = {} /\ Pending' = {}
  BY <1>1, <1>5, <1>7, NotWaiting
<1>10. MemoryOK'
  BY <1>8, <1>9, SpotStays
<1>11. SharingOK'
  <2>1. SharingOK
    BY <1>1 DEF Evaluates, Followed
  <2>2. ASSUME NEW i \in 1..(Len(stk') - 1), Waits(stk'[i]), stk'[i + 1].stage = 1
        PROVE  stk'[i].local <= stk'[i + 1].local
    <3>1. i \in 1..(l - 1) /\ stk'[i] = stk[i] /\ i + 1 \in 1..l
      BY <1>4, <1>5
    <3>2. CASE i + 1 = l
      <4>1. l > 1 /\ i = l - 1
        BY <1>4, <3>1, <3>2
      <4>2. PICK f : f = stk[l - 1]
        OBVIOUS
      <4>3. Waits(f)
        BY <2>2, <3>1, <4>1, <4>2
      <4> QED BY <1>1, <1>3, <1>4, <4>1, <4>2, <4>3, WaitsFor
    <3>3. CASE i + 1 # l
      <4>1. i + 1 \in 1..(l - 1) /\ i \in 1..(Len(stk) - 1)
        BY <1>3, <1>4, <3>1, <3>3
      <4> QED BY <1>5, <2>1, <2>2, <3>1, <4>1 DEF SharingOK
    <3> QED BY <3>2, <3>3
  <2>3. ~(stk' # << >> /\ Waits(Top)')
    BY <1>5, <1>7 DEF Top, Waits
  <2> QED BY <2>2, <2>3 DEF SharingOK, Waits
<1>12. ValuesOK'
  <2>1. ASSUME NEW i \in 1..Len(stk'), NEW f, NEW t, NEW asked,
               f = stk'[i], t = VisitType(i)', asked = VisitType(i - 1)'
        PROVE  CallValued(f, t, asked)'
    <3>1. CASE i \in 1..(l - 1)
      <4>1. f = stk[i] /\ i \in 1..(Len(stk) - 1)
        BY <1>3, <1>5, <2>1, <3>1
      <4>2. VisitType(i)' = VisitType(i) /\ (i > 1 => VisitType(i - 1)' = VisitType(i - 1))
        <5>1. \A j \in 1..(l - 1) : VisitType(j)' = VisitType(j)
          <6> SUFFICES ASSUME NEW j \in 1..(l - 1) PROVE VisitType(j)' = VisitType(j)
            OBVIOUS
          <6>1. j \in 1..(Len(stk) - 1) /\ Len(stk) - 1 <= Len(stk')
            BY <1>3, <1>4, <1>5
          <6> QED BY <1>1, <1>2, <1>3, <1>4, <1>5, <6>1, TypesBelow
        <5>2. i > 1 => i - 1 \in 1..(l - 1)
          BY <1>4, <3>1
        <5> QED BY <3>1, <5>1, <5>2
      <4>3. i > 1 => t = VisitType(i) /\ asked = VisitType(i - 1)
        BY <2>1, <4>2
      <4> QED BY <1>1, <1>3, <1>7, <4>1, <4>3, BelowValued
    <3>2. CASE i = l
      <4>1. Kind[f.n] = "block"
        BY <1>1, <1>3, <1>5, <1>6, <2>1, <3>2
      <4> QED BY <4>1 DEF CallValued, PureKinds, ExprKinds, LeafKinds, UnaryKinds, BinaryKinds
    <3> QED BY <1>4, <1>5, <3>1, <3>2
  <2>2. LastValued'
    <3>1. Kind[stk'[Len(stk')].n] \notin PureKinds /\ ~Acting(stk'[Len(stk')])
      BY <1>5, <1>6, <1>7
    <3> QED BY <3>1, LastNext
  <2> QED BY <2>1, <2>2, ValuesNext
<1> QED BY <1>2, <1>10, <1>11, <1>12 DEF Meant, Followed

LEMMA NextMeant ==
  ASSUME Evaluating, Continues, Eval, NextStatement, Going, UNCHANGED <<vis, table, last>>
  PROVE  Meant
<1>1. PICK n, l, k, v, typed, kid, later, ty, p :
        /\ n = N /\ l = Len(stk) /\ k = Top.stage /\ v = Top.local /\ typed = FALSE /\ kid = Kids[n][k]
        /\ later = Later(Top.stage + 1, v) /\ ty = Visiting.ty' /\ p = Program
  OBVIOUS
<1>2. /\ Evaluates /\ stk # << >> /\ Kind[n] = "block" /\ k \in 1..Len(Kids[n]) /\ Call(k, v, typed)
  BY <1>1 DEF Evaluating, NextStatement
<1>3. phase' = "eval"
  BY <1>2 DEF Going, Evaluates
<1>4. /\ MachineOK /\ n \in Node /\ n \in Nat /\ l \in Nat /\ l > 0 /\ Top.n = n /\ v \in Int
      /\ InTree(root, n) /\ phase = "eval" /\ IsProgram(p) /\ p.root = root
  BY <1>1, <1>2, EvalTop
<1>5. /\ ~Acts(n) /\ Kind[n] \notin PureKinds /\ DOMAIN Kids[n] = 1..Len(Kids[n]) /\ Len(Kids[n]) \in Nat
      /\ \A f : f.n = n => ~Acting(f) /\ ~Waits(f) /\ CalledBy(f) = f.stage - 1
      /\ k = 1 => kid = n + 1
      /\ k # 1 => kid = LastIn[Kids[n][k - 1]] + 1
  <2>1. k # 1 => k \in 2..Len(Kids[n])
    BY <1>2
  <2>2. Kids[n] # << >>
    BY <1>2
  <2> QED BY <1>1, <1>2, <1>4, <2>1, <2>2, BlockIs
<1>6. k \in DOMAIN Kids[n] /\ k \in Nat /\ k > 0
  BY <1>2, <1>5
<1>7. /\ Spot = Place(Top) /\ Now.ok /\ Now.next <= Spot /\ Now = Course(p)[Spot] /\ Pending = {}
  BY <1>1, <1>2, <1>4, <1>5, StatementTop
<1>8. Spot = IF k = 1 THEN n ELSE kid
  BY <1>1, <1>4, <1>5, <1>6, <1>7 DEF Place
<1>9. InTree(root, kid) /\ kid \in Node /\ kid \in Nat /\ LastIn[kid] \in Nat /\ n < kid /\ kid <= LastIn[kid]
  BY <1>1, <1>4, <1>6, AroundKid, KidRange
<1>10. Course(p)[kid] = Now
  BY <1>4, <1>5, <1>7, <1>8, CourseSame
<1>11. /\ later.n = n /\ later.stage = k + 1
  BY <1>1, LaterFacts
<1>12. /\ Kind[kid] \notin PureKinds => Spot' = kid
       /\ Kind[kid] \in PureKinds => Spot' = LastIn[kid] + 1
  <2>1. k \in DOMAIN Kids[N] /\ typed \in BOOLEAN /\ Call(k, v, typed)
    BY <1>1, <1>2, <1>6
  <2>2. /\ Kind[Kids[N][k]] \notin PureKinds => Spot' = Kids[N][k]
        /\ Kind[Kids[N][k]] \in PureKinds /\ Kind[N] \notin PureKinds =>
             Spot' = Place(Later(Top.stage + 1, v))
    BY <1>2, <1>3, <1>4, <2>1, CallSpot
  <2>3. Place(later) = LastIn[kid] + 1
    <3>1. ~Acting(later) /\ CalledBy(later) = later.stage - 1
      BY <1>5, <1>11
    <3>2. CalledBy(later) = k /\ later.stage # 0
      BY <1>6, <1>11, <3>1
    <3> QED BY <1>1, <1>6, <1>11, <3>1, <3>2 DEF Place
  <2> QED BY <1>1, <1>5, <2>2, <2>3
<1>13. Course(p)[Spot'] = Now /\ Now.next <= Spot'
  <2>1. Kind[kid] \in PureKinds => Course(p)[LastIn[kid] + 1] = Course(p)[kid]
    BY <1>4, <1>9, QuietTree
  <2>3. Course(p)[Spot'] = Now
    BY <1>10, <1>12, <2>1
  <2>4. Spot <= Spot' /\ Spot \in Nat /\ Spot' \in Nat
    BY <1>4, <1>8, <1>9, <1>12
  <2>5. Now.next \in Nat
    <3>1. UptoIn(root, n) /\ UptoIn(root, kid) /\ root \in Root
      BY <1>1, <1>2, <1>4, <1>9, EvalTop, UptoOf
    <3> QED BY <1>2, <1>8, <3>1, NowNext
  <2> QED BY <1>7, <2>3, <2>4, <2>5
<1>14. MemoryOK' /\ Pending' = {}
  <2>1. /\ Len(stk') = l + 1 /\ stk'[l + 1] = Frame(kid, typed, nested)
    <3>1. stk \in Seq(Frames) /\ nested \in Seq(Node)
      BY <1>1, <1>2, EvalTop
    <3>2. k \in DOMAIN Kids[N] /\ typed \in BOOLEAN /\ Call(k, v, typed)
      BY <1>1, <1>2, <1>6
    <3> QED BY <1>1, <1>2, <1>4, <3>1, <3>2, CallFacts
  <2>2. ~Waits(stk'[Len(stk')])
    BY <2>1, FrameFacts DEF Waits
  <2>3. Pending' = {}
    BY <2>2, NotWaiting
  <2>4. PICK s, st : s = Spot' /\ st = Course(Program)[s]
    OBVIOUS
  <2>5. st.mem = Now.mem /\ st.ok /\ st.next <= s
    BY <1>1, <1>7, <1>13, <2>4
  <2> QED BY <1>7, <2>3, <2>4, <2>5, MemoryStays
<1>15. SharingOK'
  <2>1. k \in DOMAIN Kids[N] /\ typed \in BOOLEAN /\ Kind[N] # "assign"
    BY <1>1, <1>2, <1>6
  <2> QED BY <1>2, <1>4, <2>1, SharingCall
<1>16. ty = Undet
  BY <1>1, <1>2, <1>6, BlockVisits DEF Visiting
<1>17. ValuesOK'
  <2>1. k \in DOMAIN Kids[N] /\ typed \in BOOLEAN /\ kid = Kids[N][k] /\ Kind[N] \notin PureKinds
    BY <1>1, <1>2, <1>5, <1>6
  <2>2. \A asked : (l > 1 => asked = AskedFor(l)) => CallValued(later, ty, asked)'
    BY <1>2, <1>11 DEF CallValued, PureKinds, ExprKinds, LeafKinds, UnaryKinds, BinaryKinds
  <2> QED BY <1>1, <1>2, <1>3, <1>4, <1>16, <2>1, <2>2, ValuedCall
<1> QED BY <1>3, <1>14, <1>15, <1>17 DEF Meant, Followed

\* A statement that has run.
LEMMA StatementReturns ==
  ASSUME Evaluating, Continues, Eval, Going, stk # << >>, Return, UNCHANGED <<table, last>>,
         NEW n, n = N, Kind[n] \notin PureKinds, Kind[n] # "assign",
         NEW s, s = LastIn[n] + 1, NEW st, st = Course(Program)[s], st.mem = Now.mem, st.ok, st.next <= s
  PROVE  Meant
<1>1. Evaluates /\ phase' = "eval"
  BY DEF Going, Evaluating, Evaluates
<1>2. MachineOK /\ PureOK /\ phase = "eval" /\ UNCHANGED root
  BY <1>1, EvalTop DEF Continues
<1>3. Spot' = s
  BY <1>1, <1>2, ReturnSpot
<1>4. Pending = {}
  BY <1>1, <1>2, StatementTop, EvalTop DEF Waits
<1>5. SharingOK' /\ Pending' = {}
  BY SharingReturn
<1>6. MemoryOK'
  BY <1>3, <1>4, <1>5, MemoryStays
<1>7. ValuesOK'
  <2>1. PICK asked, v, l : asked = AskedFor(Len(stk)) /\ v = Value' /\ l = Len(stk)
    OBVIOUS
  <2> QED BY <1>1, <2>1, ValuedReturn
<1> QED BY <1>1, <1>5, <1>6, <1>7 DEF Meant, Followed

LEMMA LeaveMeant ==
  ASSUME Evaluating, Continues, Eval, LeaveScope, Going, UNCHANGED <<table, last>>
  PROVE  Meant
<1>1. PICK n, p, k, s, st : /\ n = N /\ p = Program /\ k = Len(Kids[n])
                            /\ s = LastIn[n] + 1 /\ st = Course(Program)[s]
  OBVIOUS
<1>2. /\ Evaluates /\ stk # << >> /\ Kind[n] = "block" /\ Top.stage = k + 1 /\ Return
  BY <1>1 DEF Evaluating, LeaveScope, Running
<1>3. /\ n \in Node /\ n \in Nat /\ Top.n = n /\ InTree(root, n) /\ IsProgram(p) /\ p.root = root
      /\ root \in Root
  BY <1>1, <1>2, EvalTop
<1>4. /\ ~Acts(n) /\ Kind[n] \notin PureKinds /\ ~Acting(Top) /\ ~Waits(Top) /\ CalledBy(Top) = k
      /\ k \in Nat /\ Kids[n] \in Seq(Node)
      /\ Kids[n] = << >> => LastIn[n] = n
      /\ Kids[n] # << >> => LastIn[n] = LastIn[Kids[n][k]]
  <2>1. ~Acting(Top) /\ ~Waits(Top) /\ CalledBy(Top) = Top.stage - 1
    BY <1>2, <1>3, BlockIs
  <2>2. k \in Nat
    BY <1>1, <1>2, <1>3, BlockIs
  <2> QED BY <1>1, <1>2, <1>3, <2>1, <2>2, BlockIs
<1>5. /\ Spot = Place(Top) /\ Now.ok /\ Now.next <= Spot /\ Now = Course(p)[Spot]
  BY <1>1, <1>2, <1>4, StatementTop
<1>6. Spot = IF k = 0 THEN n ELSE s
  BY <1>1, <1>2, <1>3, <1>4, <1>5 DEF Place
<1>7. st = Now /\ st.next <= s
  <2>1. CASE k = 0
    <3>1. LastIn[n] = n
      <4>1. Len(Kids[n]) = 0
        BY <1>1, <2>1
      <4>2. Kids[n] = << >>
        BY <1>4, <4>1
      <4> QED BY <1>4, <4>2
    <3>2. st = Now
      BY <1>1, <1>3, <1>4, <1>5, <1>6, <2>1, <3>1, CourseSame
    <3>3. Now.next \in Nat
      BY <1>2, <1>3, <1>6, <2>1, UptoOf, NowNext
    <3> QED BY <1>1, <1>3, <1>5, <1>6, <2>1, <3>1, <3>2, <3>3
  <2>2. CASE k # 0
    BY <1>1, <1>5, <1>6, <2>2
  <2> QED BY <2>1, <2>2
<1>8. Kind[n] # "assign"
  BY <1>2
<1> QED BY <1>1, <1>2, <1>4, <1>5, <1>7, <1>8, StatementReturns

LEMMA EndIfMeant ==
  ASSUME Evaluating, Continues, Eval, EndIf
  PROVE  Meant
<1>1. PICK n, s, st : n = N /\ s = LastIn[n] + 1 /\ st = Course(Program)[s]
  OBVIOUS
<1>2. /\ Evaluates /\ stk # << >> /\ Kind[n] = "if_stmt" /\ Top.stage = 2 /\ Return /\ Going
      /\ UNCHANGED <<table, last>>
  BY <1>1 DEF Evaluating, EndIf, Statement, Running
<1>3. n \in Node /\ Top.n = n
  BY <1>1, <1>2, EvalTop
<1>4. Kind[n] \notin PureKinds /\ Kind[n] # "assign"
  BY <1>2 DEF PureKinds, ExprKinds, LeafKinds, UnaryKinds, BinaryKinds
<1>5. Spot = Place(Top) /\ Now.ok /\ Now.next <= Spot /\ Now = Course(Program)[Spot]
  BY <1>1, <1>2, <1>4, StatementTop
<1>6. Spot = s
  <2>1. ~Acting(Top) /\ CalledBy(Top) = 2
    BY <1>2, <1>3 DEF Acting, CalledBy
  <2>2. LastIn[n] = LastIn[Kids[n][2]]
    BY <1>2, <1>3, IfKids
  <2> QED BY <1>1, <1>2, <1>3, <1>5, <2>1, <2>2 DEF Place
<1> QED BY <1>1, <1>2, <1>4, <1>5, <1>6, StatementReturns

\* A statement that visits a child.
LEMMA StatementCalls ==
  ASSUME Evaluating, Continues, Eval, phase' = "eval", stk # << >>, UNCHANGED <<table, last>>, Pending = {},
         NEW n, n = N, Kind[n] \notin PureKinds, NEW k \in DOMAIN Kids[n],
         NEW v \in Int, NEW typed \in BOOLEAN, Call(k, v, typed), Kind[n] = "assign" => v = last.id,
         NEW kid, kid = Kids[n][k], NEW ty, ty = Visiting.ty',
         NEW s, s = Spot', NEW st, st = Course(Program)[s], st.mem = Now.mem, st.ok, st.next <= s,
         Kind[n] = "if_stmt" => ty = IF Top.stage = 0 THEN Annotation(n) ELSE Undet,
         Kind[kid] \in PureKinds /\ ty # Undet =>
           s <= kid /\ Fits(kid, ty) /\ (ValueOf(kid, ty) = << >> => Doomed),
         Kind[kid] = "if_stmt" => ty = Undet
  PROVE  Meant
<1>1. /\ MachineOK /\ phase = "eval" /\ InTree(root, n) /\ n \in Node
      /\ stk \in Seq(Frames) /\ nested \in Seq(Node) /\ Top.n = n /\ Top.stage \in Nat
  BY EvalTop DEF Evaluating
<1>2. InTree(root, kid)
  BY <1>1, AroundKid
<1>3. Now'.mem = Now.mem /\ End' = End /\ Program' = Program
  BY DEF Now, End, Continues
<1>4. ValueOf(kid, ty)' = ValueOf(kid, ty) /\ (Doomed' <=> Doomed)
  BY <1>3 DEF ValueOf, Doomed
<1>5. Fits(kid, ty) => Fits(kid, ty)'
  BY <1>2, FitsStays DEF Continues
<1>6. PICK later, l : later = Later(Top.stage + 1, v) /\ l = Len(stk)
  OBVIOUS
<1>7. \A asked : (l > 1 => asked = AskedFor(l)) => CallValued(later, ty, asked)'
  <2>1. later.n = n /\ later.stage = Top.stage + 1
    BY <1>6, LaterFacts
  <2>2. Annotation(n)' = Annotation(n)
    BY DEF Continues, Annotation
  <2>3. Kind[n] = "if_stmt" => ty = IF later.stage = 1 THEN Annotation(n)' ELSE Undet
    BY <1>1, <2>1, <2>2
  <2> QED BY <2>1, <2>3 DEF CallValued
<1>8. ValuesOK'
  <2>1. Kind[kid] \in PureKinds /\ ty # Undet =>
           Spot' <= kid /\ Fits(kid, ty)' /\ (ValueOf(kid, ty)' = << >> => Doomed')
    BY <1>4, <1>5
  <2>2. k \in DOMAIN Kids[N] /\ kid = Kids[N][k] /\ Kind[N] \notin PureKinds
    OBVIOUS
  <2> QED BY <1>6, <1>7, <2>1, <2>2, ValuedCall
<1>9. SharingOK'
  <2>1. k \in DOMAIN Kids[N] /\ (Kind[N] = "assign" => v = last.id)
    OBVIOUS
  <2> QED BY <2>1, SharingCall
<1>10. Pending' = {}
  <2>1. /\ Len(stk') = Len(stk) + 1 /\ stk'[Len(stk) + 1] = Frame(kid, typed, nested)
    BY <1>1, CallFacts
  <2>2. stk'[Len(stk')].stage = 0
    <3>1. Frame(kid, typed, nested).stage = 0
      BY FrameFacts
    <3> QED BY <2>1, <3>1
  <2>3. ~Waits(stk'[Len(stk')])
    BY <2>2 DEF Waits
  <2> QED BY <2>3, NotWaiting
<1>11. MemoryOK'
  BY <1>10, MemoryStays
<1> QED BY <1>8, <1>9, <1>11 DEF Meant, Followed

\* Before the expression of an assignment or an if that does something.
LEMMA ActingFits ==
  ASSUME Evaluates, stk # << >>, NEW n, n = N, Acts(n), Spot = n,
         NEW ty, ty = Wanted(Program, n), ty \in ValueTypes, NEW kid, kid = Kids[n][1]
  PROVE  /\ Kind[kid] \in PureKinds /\ kid = n + 1 /\ n \in Nat /\ Fits(kid, ty)
         /\ ValueOf(kid, ty) = << >> => Doomed
         /\ 1 \in DOMAIN Kids[n] /\ Kind[n] \notin PureKinds
<1>1. /\ IsProgram(Program) /\ Program.root = root /\ InTree(root, n) /\ n \in Node /\ n \in Nat
      /\ Sound(n) /\ root \in Root
  BY EvalTop
<1>2. Kind[n] \in {"assign", "if_stmt"} /\ Kind[n] \notin PureKinds
  BY DEF Acts, PureKinds, ExprKinds, LeafKinds, UnaryKinds, BinaryKinds
<1>3. 1 \in DOMAIN Kids[n] /\ kid = n + 1
  BY <1>1, <1>2, AssignKid, IfKids
<1>4. Kind[kid] \in PureKinds
  BY <1>1, <1>3, PureKids
<1>5. Fits(kid, ty)
  <2>1. CASE Kind[n] = "assign"
    <3>1. Fits(kid, TypeAt(n)) /\ TypeAt(n) # Undet
      BY <1>1, <2>1 DEF Sound, ValueTypes, Undet, IntType, FloatType, StringType
    <3>2. ty = Program.types[PairOf(Program, n)]
      BY <2>1 DEF Wanted
    <3>3. PairOf(Program, n) = Owner(root, n, Var[n], DOMAIN table)
      BY ProgramIs
    <3>4. Having(root, n, Var[n], DOMAIN table) # {}
      BY <3>1 DEF TypeAt
    <3>5. Owner(root, n, Var[n], DOMAIN table) \in DOMAIN table
      BY <1>1, <3>4, OwnerIn
    <3>6. ty = table[Owner(root, n, Var[n], DOMAIN table)].type
      BY <3>2, <3>3, <3>5, ProgramIs
    <3>7. TypeAt(n) = ty
      BY <3>4, <3>6 DEF TypeAt
    <3> QED BY <3>1, <3>7
  <2>2. CASE Kind[n] = "if_stmt"
    <3>1. ty = Annotation(n)
      BY <2>2, ProgramIs DEF Wanted
    <3> QED BY <1>1, <2>2, <3>1 DEF Sound
  <2> QED BY <1>2, <2>1, <2>2
<1>6. ValueOf(kid, ty) = << >> => Doomed
  <2>1. PICK st, p : st = Now /\ p = Program
    OBVIOUS
  <2>2. st.ok /\ st.next <= n /\ st = Course(p)[n]
    BY <1>2, <2>1, StatementTop
  <2>3. st.next \in Nat
    BY <1>1, <2>1, UptoOf, NowNext
  <2>4. ~(n < st.next)
    BY <1>1, <2>2, <2>3
  <2>5. ASSUME ValueOf(kid, ty) = << >> PROVE Doomed
    <3>1. Values(p, st.mem)[Kids[n][1]][ty] = << >>
      BY <2>1, <2>5 DEF ValueOf
    <3>2. ~Meaning(p).ok /\ Meaning(p).mem = st.mem
      BY <1>1, <2>1, <2>2, <2>4, <3>1, Fails
    <3> QED BY <2>1, <3>2 DEF Doomed, End
  <2> QED BY <2>5
<1> QED BY <1>1, <1>2, <1>3, <1>4, <1>5, <1>6

LEMMA BeginIfMeant ==
  ASSUME Evaluating, Continues, Eval, BeginIf
  PROVE  Meant
<1>1. PICK n, ty, k, v, typed, p, st, kid, s, next, then :
        /\ n = N /\ ty = Annotation(n) /\ k = 1 /\ v = 0 /\ typed = TRUE /\ p = Program /\ st = Now
        /\ kid = Kids[n][k] /\ s = LastIn[n] + 1 /\ then = Course(p)[n + 1] /\ next = Course(p)[s]
  OBVIOUS
<1>2. /\ Evaluates /\ stk # << >> /\ Kind[n] = "if_stmt" /\ Top.stage = 0 /\ phase = "eval"
  BY <1>1 DEF Evaluating, Evaluates, BeginIf, Statement, Running
<1>3. /\ n \in Node /\ n \in Nat /\ Top.n = n /\ InTree(root, n) /\ IsProgram(p) /\ p.root = root
      /\ root \in Root /\ MachineOK
  BY <1>1, <1>2, EvalTop
<1>4. /\ Kind[n] \notin PureKinds /\ Kind[n] # "assign"
  BY <1>2 DEF PureKinds, ExprKinds, LeafKinds, UnaryKinds, BinaryKinds
<1>5. Acts(n) /\ k \in DOMAIN Kids[n] /\ Kind[kid] \in PureKinds
  <2>1. Kind[Kids[n][1]] \in PureKinds /\ 1 \in DOMAIN Kids[n]
    BY <1>2, <1>3, IfKids
  <2> QED BY <1>1, <1>2, <2>1 DEF Acts, PureKinds
<1>6. ~Waits(Top)
  BY <1>3, <1>4 DEF Waits
<1>7. Spot = n /\ st.ok /\ st.next <= n /\ st = Course(p)[n] /\ Pending = {} /\ vis \in Seq(Visitors)
  <2>1. /\ Spot = Place(Top) /\ Now.ok /\ Now.next <= Spot /\ Now = Course(Program)[Spot]
        /\ Pending = {} /\ vis \in Seq(Visitors)
    BY <1>1, <1>2, <1>4, <1>6, StatementTop
  <2>2. Place(Top) = n
    BY <1>2, <1>3 DEF Place
  <2> QED BY <1>1, <2>1, <2>2
<1>8. Wanted(p, n) = ty
  BY <1>1, <1>2, ProgramIs DEF Wanted
<1>9. ~(n < st.next)
  <2>1. st.next \in Nat
    BY <1>1, <1>2, <1>3, <1>7, UptoOf, NowNext
  <2> QED BY <1>3, <1>7, <2>1
<1>10. CASE ty \in ValueTypes
  <2>1. NewVisitor(ty) /\ Call(k, v, typed) /\ Going /\ UNCHANGED <<table, last>>
    BY <1>1, <1>10 DEF BeginIf
  <2>2. Visiting.ty' = ty
    BY <1>7, <2>1, NewVisitorIs
  <2>3. phase' = "eval"
    BY <1>2, <2>1 DEF Going
  <2>4. PICK later : later = Later(Top.stage + 1, v)
    OBVIOUS
  <2>5. typed \in BOOLEAN /\ v \in Int
    BY <1>1
  <2>6. Spot' = n
    <3>1. later.n = n /\ later.stage = 1
      BY <1>1, <1>2, <2>4, LaterFacts
    <3>2. Place(later) = n
      BY <1>5, <3>1 DEF Place, Acting
    <3>3. k \in DOMAIN Kids[N] /\ Kind[Kids[N][k]] \in PureKinds /\ Kind[N] \notin PureKinds
      BY <1>1, <1>4, <1>5
    <3>4. Spot' = Place(Later(Top.stage + 1, v))
      BY <1>2, <1>3, <2>1, <2>3, <2>5, <3>3, CallSpot
    <3> QED BY <2>4, <3>2, <3>4
  <2>7. kid = n + 1 /\ Fits(kid, ty) /\ (ValueOf(kid, ty) = << >> => Doomed)
    BY <1>1, <1>2, <1>5, <1>7, <1>8, <1>10, ActingFits
  <2>8. Kind[kid] # "if_stmt"
    BY <1>5 DEF PureKinds, ExprKinds, LeafKinds, UnaryKinds, BinaryKinds
  <2>9. n <= kid
    BY <1>3, <2>7
  <2>10. PICK typ, spot, state : typ = Visiting.ty' /\ spot = Spot' /\ state = Course(Program)[spot]
    OBVIOUS
  <2>11. typ = ty /\ spot = n /\ state = st /\ state.mem = Now.mem
    BY <1>1, <1>7, <2>2, <2>6, <2>10
  <2>12. Kind[n] = "if_stmt" => typ = IF Top.stage = 0 THEN Annotation(n) ELSE Undet
    BY <1>1, <1>2, <2>11
  <2>13. /\ Kind[kid] \in PureKinds /\ typ # Undet =>
              spot <= kid /\ Fits(kid, typ) /\ (ValueOf(kid, typ) = << >> => Doomed)
         /\ state.ok /\ state.next <= spot
    BY <1>7, <2>7, <2>9, <2>11
  <2> QED BY <1>1, <1>2, <1>4, <1>5, <1>7, <2>1, <2>3, <2>5, <2>8, <2>10, <2>11, <2>12, <2>13, StatementCalls, ZenonT(30)
<1>11. CASE ty \notin ValueTypes /\ NDEBUG
  <2>1. Return /\ Going /\ UNCHANGED <<table, last>>
    BY <1>1, <1>11 DEF BeginIf
  <2>2. then.mem = st.mem /\ then.next = s /\ then.ok
    <3>1. PICK value : value = Values(p, st.mem)[Kids[n][1]][ty]
      OBVIOUS
    <3>2. ty \notin ValueTypes /\ ty = Wanted(p, n) /\ InTree(p.root, n)
      BY <1>3, <1>8, <1>11
    <3> QED BY <1>1, <1>3, <1>5, <1>7, <1>9, <1>11, <3>1, <3>2, ActingPass
  <2>3. next = then
    BY <1>1, <1>3, <2>2, IfSkips
  <2>4. s \in Nat
    BY <1>1, <1>3, OrderAssumption
  <2>5. next.mem = Now.mem /\ next.ok /\ next.next <= s
    BY <1>1, <2>2, <2>3, <2>4
  <2> QED BY <1>1, <1>2, <1>4, <2>1, <2>5, StatementReturns
<1>12. CASE ty \notin ValueTypes /\ ~NDEBUG
  <2>1. Die
    BY <1>1, <1>12 DEF BeginIf
  <2> QED BY <2>1 DEF Die, Unwind, Meant
<1> QED BY <1>10, <1>11, <1>12

\* An if runs under the visitor of a block.
LEMMA OuterIsVoid ==
  ASSUME Evaluates, stk # << >>, NEW n, n = N, Kind[n] = "if_stmt", NEW l, l = Len(stk)
  PROVE  l > 1 /\ l \in Nat /\ VisitType(l - 1) = Undet
<1>1. /\ MachineOK /\ PureOK /\ phase = "eval" /\ l \in Nat /\ l > 1 /\ n \in Node
  BY EvalTop
<1>2. Kind[n] \notin PureKinds
  BY DEF PureKinds, ExprKinds, LeafKinds, UnaryKinds, BinaryKinds
<1>3. PICK i, f : i = l - 1 /\ f = stk[i]
  OBVIOUS
<1>4. /\ i \in 1..Len(stk) /\ f \in Frames /\ f.n \in Node /\ f.stage \in Nat /\ f.stage > 0
      /\ CalledBy(f) \in DOMAIN Kids[f.n] /\ n = Kids[f.n][CalledBy(f)]
  BY <1>1, <1>3, CallerOf
<1>5. Kind[f.n] \notin PureKinds /\ ~Acting(f)
  BY <1>1, <1>2, <1>3, CallerDoes
<1>6. CASE Kind[f.n] = "block"
  <2>1. Owns(f)
    BY <1>4, <1>6 DEF Owns
  <2>2. VisitsOK
    BY DEF Evaluates, IInv, TablesOK
  <2> QED BY <1>1, <1>3, <1>4, <1>6, <2>1, <2>2, OwnerType DEF TypesOf
<1>7. CASE Kind[f.n] = "if_stmt"
  <2>1. Acts(f.n)
    <3>1. Kind[Kids[f.n][1]] \in PureKinds
      BY <1>4, <1>7, IfKids
    <3> QED BY <1>7, <3>1 DEF Acts, PureKinds
  <2>2. f.stage # 1
    BY <1>5, <2>1 DEF Acting
  <2>3. CallValued(f, VisitType(i), AskedFor(i))
    BY <1>3, <1>4 DEF Evaluates, Followed, ValuesOK
  <2> QED BY <1>1, <1>3, <1>7, <2>2, <2>3 DEF CallValued
<1>8. CASE Kind[f.n] = "assign"
  <2>1. f.stage = 1 /\ n = Kids[f.n][1]
    BY <1>4, <1>8, AssignKid DEF CalledBy
  <2>2. Acts(f.n)
    BY <1>8, <2>1 DEF Acts
  <2> QED BY <1>5, <2>1, <2>2 DEF Acting
<1> QED BY <1>1, <1>4, <1>5, <1>6, <1>7, <1>8, TreeAssumption DEF NodeKinds, PureKinds

\* A call that has got the value of its condition or right side.
LEMMA ActingTop ==
  ASSUME Evaluates, stk # << >>, NEW n, n = N, Acting(Top), NEW ty, ty = Visiting.ty
  PROVE  /\ ty \in ValueTypes /\ ValueOf(Kids[n][1], ty) = <<Value>> /\ Owns(Top)
         /\ Kind[n] = "if_stmt" => ty = Annotation(n)
<1>1. /\ MachineOK /\ phase = "eval" /\ Top.n = n /\ Top.stage = 1 /\ n \in Node
      /\ Len(stk) \in Nat /\ Len(stk) > 0 /\ Kind[n] \in {"assign", "if_stmt"}
      /\ Kind[n] = "assign" => ~Top.typed
  BY EvalTop DEF Acting, Acts
<1>2. Len(stk) > 1
  BY <1>1, EvalTop
<1>3. Len(stk) \in 2..Len(stk) /\ Len(stk) \in 1..Len(stk) /\ VisitType(Len(stk)) = ty
  BY <1>1, <1>2, TopTypes
<1>4. ty \in ValueTypes
  <2>1. Owns(Top) /\ VisitsOK
    BY <1>1 DEF Owns, Evaluates, IInv, TablesOK
  <2>2. VisitType(Len(stk)) \in TypesOf(Top)
    BY <1>1, <1>3, <2>1, OwnerType DEF Top
  <2> QED BY <1>1, <1>3, <2>2 DEF TypesOf
<1>5. ValueOf(Kids[n][1], ty) = <<Value>>
  <2>1. PICK s : s = Top.stage
    OBVIOUS
  <2>2. s > 0 /\ s = 1
    BY <1>1, <2>1
  <2>3. ValueOf(Kids[n][s], ty) = <<Value>>
    BY <2>1, <2>2, LastIs
  <2> QED BY <2>2, <2>3
<1>6. Owns(Top)
  BY <1>1 DEF Owns
<1>7. ASSUME Kind[n] = "if_stmt" PROVE ty = Annotation(n)
  <2>1. PICK i, asked : i = Len(stk) /\ asked = AskedFor(i)
    OBVIOUS
  <2>2. CallValued(Top, ty, asked)
    BY <1>3, <2>1 DEF Evaluates, Followed, ValuesOK, Top
  <2> QED BY <1>1, <1>7, <2>2 DEF CallValued
<1> QED BY <1>4, <1>5, <1>6, <1>7

LEMMA DecideIfMeant ==
  ASSUME Evaluating, Continues, Eval, DecideIf
  PROVE  Meant
<1>1. PICK n, l, ty, k, v, typed, p, st, kid, s, next, then, value :
        /\ n = N /\ l = Len(stk) /\ ty = Visiting.ty /\ k = 2 /\ v = 0 /\ typed = FALSE /\ p = Program
        /\ st = Now /\ kid = Kids[n][k] /\ s = LastIn[n] + 1 /\ then = Course(p)[n + 1]
        /\ next = Course(p)[s] /\ value = Value
  OBVIOUS
<1>2. /\ Evaluates /\ stk # << >> /\ Kind[n] = "if_stmt" /\ Top.stage = 1 /\ phase = "eval"
  BY <1>1 DEF Evaluating, Evaluates, DecideIf, Statement, Running
<1>3. /\ n \in Node /\ n \in Nat /\ Top.n = n /\ InTree(root, n) /\ IsProgram(p) /\ p.root = root
      /\ root \in Root /\ MachineOK /\ stk \in Seq(Frames) /\ nested \in Seq(Node)
  BY <1>1, <1>2, EvalTop
<1>4. /\ Kind[n] \notin PureKinds /\ Kind[n] # "assign"
  BY <1>2 DEF PureKinds, ExprKinds, LeafKinds, UnaryKinds, BinaryKinds
<1>5. /\ Acts(n) /\ Acting(Top) /\ k \in DOMAIN Kids[n] /\ Kind[Kids[n][1]] \in PureKinds
      /\ Kids[n][1] = n + 1 /\ kid = LastIn[n + 1] + 1 /\ LastIn[n] = LastIn[kid] /\ InTree(root, n + 1)
  <2>1. /\ Kind[Kids[n][1]] \in PureKinds /\ DOMAIN Kids[n] = {1, 2} /\ Kids[n][1] = n + 1
        /\ Kids[n][2] = LastIn[Kids[n][1]] + 1 /\ LastIn[n] = LastIn[Kids[n][2]]
    BY <1>2, <1>3, IfKids
  <2>2. Acts(n)
    BY <1>2, <2>1 DEF Acts, PureKinds
  <2>3. InTree(root, Kids[n][1])
    BY <1>3, <2>1, AroundKid
  <2> QED BY <1>1, <1>2, <1>3, <2>1, <2>2, <2>3 DEF Acting
<1>6. ~Waits(Top)
  BY <1>3, <1>4 DEF Waits
<1>7. Spot = n /\ st.ok /\ st.next <= n /\ st = Course(p)[n] /\ Pending = {} /\ vis \in Seq(Visitors)
  <2>1. /\ Spot = Place(Top) /\ Now.ok /\ Now.next <= Spot /\ Now = Course(Program)[Spot]
        /\ Pending = {} /\ vis \in Seq(Visitors)
    BY <1>1, <1>2, <1>4, <1>6, StatementTop
  <2>2. Place(Top) = n
    BY <1>3, <1>5 DEF Place
  <2> QED BY <1>1, <2>1, <2>2
<1>8. ty \in ValueTypes /\ Wanted(p, n) = ty /\ ValueOf(Kids[n][1], ty) = <<value>> /\ Owns(Top)
  <2>1. ty \in ValueTypes /\ ValueOf(Kids[n][1], ty) = <<Value>> /\ Owns(Top) /\ ty = Annotation(n)
    BY <1>1, <1>2, <1>5, ActingTop
  <2> QED BY <1>1, <1>2, <2>1, ProgramIs DEF Wanted
<1>9. ~(n < st.next) /\ st.next \in Nat
  <2>1. st.next \in Nat
    BY <1>1, <1>2, <1>3, <1>7, UptoOf, NowNext
  <2> QED BY <1>3, <1>7, <2>1
<1>10. then.mem = st.mem /\ then.next = (IF value = 0 THEN s ELSE st.next) /\ then.ok
  <2>1. PICK values : values = Values(p, st.mem)[Kids[n][1]][ty]
    OBVIOUS
  <2>2. values = <<value>> /\ values # << >> /\ values[1] = value
    <3>1. values = ValueOf(Kids[n][1], ty)
      BY <1>1, <2>1 DEF ValueOf
    <3>2. values = <<value>>
      BY <1>8, <3>1
    <3> QED BY <3>2
  <2>3. ty \in ValueTypes /\ ty = Wanted(p, n) /\ InTree(p.root, n)
    BY <1>3, <1>8
  <2>4. then.mem = st.mem /\ then.next = (IF values[1] = 0 THEN LastIn[n] + 1 ELSE st.next) /\ then.ok
    <3>1. ty \in ValueTypes /\ values # << >> /\ Kind[n] = "if_stmt" =>
            /\ then.mem = st.mem /\ then.next = (IF values[1] = 0 THEN LastIn[n] + 1 ELSE st.next)
            /\ then.ok
      <4>1. /\ IsProgram(p) /\ InTree(p.root, n) /\ Acts(n) /\ st = Course(p)[n] /\ st.ok /\ ~(n < st.next)
            /\ ty = Wanted(p, n) /\ values = Values(p, st.mem)[Kids[n][1]][ty] /\ then = Course(p)[n + 1]
        BY <1>1, <1>3, <1>5, <1>7, <1>9, <2>1, <2>3
      <4> QED BY <4>1, ActingPass
    <3>2. ty \in ValueTypes /\ values # << >> /\ Kind[n] = "if_stmt"
      BY <1>2, <2>2, <2>3
    <3> QED BY <3>1, <3>2
  <2> QED BY <1>1, <2>2, <2>4
<1>11. CASE Visiting.ty = StringType /\ Value = NullStr
  <2>1. Undefined
    BY <1>11 DEF DecideIf
  <2> QED BY <2>1 DEF Undefined, Unwind, Meant
<1>12. CASE ~(Visiting.ty = StringType /\ Value = NullStr) /\ value = 0
  <2>1. Return /\ Going /\ UNCHANGED <<table, last>>
    BY <1>1, <1>12 DEF DecideIf
  <2>3. next = then
    BY <1>1, <1>3, <1>10, <1>12, IfSkips
  <2>4. s \in Nat
    BY <1>1, <1>3, OrderAssumption
  <2>5. next.mem = Now.mem /\ next.ok /\ next.next <= s
    BY <1>1, <1>10, <1>12, <2>3, <2>4
  <2> QED BY <1>1, <1>2, <1>4, <2>1, <2>5, StatementReturns
<1>13. CASE ~(Visiting.ty = StringType /\ Value = NullStr) /\ value # 0
  <2>1. vis' = OuterVis /\ Call(k, v, typed) /\ Going /\ UNCHANGED <<table, last>>
    BY <1>1, <1>13 DEF DecideIf
  <2>2. phase' = "eval" /\ typed \in BOOLEAN /\ v \in Int
    <3>1. phase' = "eval"
      BY <1>2, <2>1 DEF Going
    <3>2. v \in Int
      BY <1>1
    <3>3. typed \in BOOLEAN
      BY <1>1
    <3> QED BY <3>1, <3>2, <3>3
  <2>3. PICK later, typ, spot, state :
          later = Later(Top.stage + 1, v) /\ typ = Visiting.ty' /\ spot = Spot' /\ state = Course(Program)[spot]
    OBVIOUS
  <2>4. later.n = n /\ later.stage = 2
    BY <1>1, <1>2, <2>3, LaterFacts
  <2>5. InTree(root, kid) /\ kid \in Node /\ kid \in Nat /\ LastIn[kid] \in Nat /\ n < kid /\ kid <= LastIn[kid]
    BY <1>1, <1>3, <1>5, AroundKid, KidRange
  <2>6. spot = IF Kind[kid] \in PureKinds THEN LastIn[kid] + 1 ELSE kid
    <3>1. ~Acting(later) /\ CalledBy(later) = 2
      BY <1>2, <2>4 DEF Acting, CalledBy
    <3>2. Place(later) = LastIn[kid] + 1
      BY <1>1, <2>4, <3>1 DEF Place
    <3>3. k \in DOMAIN Kids[N] /\ Kind[N] \notin PureKinds /\ Kids[N][k] = kid
      BY <1>1, <1>4, <1>5
    <3>4. /\ Kind[kid] \notin PureKinds => Spot' = kid
          /\ Kind[kid] \in PureKinds => Spot' = Place(Later(Top.stage + 1, v))
      BY <1>2, <1>3, <2>1, <2>2, <3>3, CallSpot
    <3> QED BY <2>3, <3>2, <3>4
  <2>7. state = then
    <3>1. Course(p)[kid] = Course(p)[n + 1]
      BY <1>3, <1>5, QuietTree
    <3>2. Kind[kid] \in PureKinds => Course(p)[LastIn[kid] + 1] = Course(p)[kid]
      BY <1>3, <2>5, QuietTree
    <3> QED BY <1>1, <2>3, <2>6, <3>1, <3>2
  <2>8. state.mem = Now.mem /\ state.ok /\ state.next <= spot
    <3>1. state.mem = st.mem /\ state.ok /\ state.next = st.next
      BY <1>10, <1>13, <2>7
    <3>2. spot \in Nat /\ n <= spot
      BY <1>3, <2>5, <2>6
    <3> QED BY <1>1, <1>3, <1>7, <1>9, <3>1, <3>2
  <2>9. typ = Undet
    <3>1. /\ stk' \in Seq(Frames) /\ Len(stk') = l + 1 /\ l \in Nat /\ l > 0
          /\ stk'[l] = later /\ VisitType(l)' = Visiting.ty'
          /\ \A i \in 1..(l - 1) : VisitType(i)' = VisitType(i)
      <4>1. /\ MachineOK /\ MachineOK' /\ k \in DOMAIN Kids[N] /\ l = Len(stk) /\ stk # << >> /\ v \in Int
            /\ typed \in BOOLEAN
        BY <1>1, <1>2, <1>3, <1>5, <2>2 DEF Evaluating, IInv
      <4>2. /\ stk' \in Seq(Frames) /\ Len(stk') = l + 1 /\ l \in Nat /\ l > 0
            /\ stk'[l] = Later(Top.stage + 1, v) /\ VisitType(l)' = Visiting.ty'
            /\ \A i \in 1..(l - 1) : VisitType(i)' = VisitType(i)
        BY <2>1, <2>2, <4>1, CallTypes, Zenon
      <4> QED BY <2>3, <4>2
    <3>2. l > 1 /\ VisitType(l - 1) = Undet
      BY <1>1, <1>2, OuterIsVoid
    <3>3. ~Owns(stk'[l])
      BY <1>2, <2>4, <3>1 DEF Owns
    <3>4. RankOf(stk', l) = RankOf(stk', l - 1)
      <4>1. l \in 1..Len(stk')
        BY <3>1
      <4> QED BY <3>1, <3>3, <4>1, RankStep DEF One
    <3>5. VisitType(l)' = VisitType(l - 1)'
      BY <3>4, RankAs
    <3>6. VisitType(l - 1)' = VisitType(l - 1)
      BY <3>1, <3>2
    <3> QED BY <2>3, <3>1, <3>2, <3>5, <3>6
  <2>10. Kind[n] = "if_stmt" => typ = IF Top.stage = 0 THEN Annotation(n) ELSE Undet
    BY <1>2, <2>9
  <2>11. Kind[kid] \in PureKinds /\ typ # Undet =>
           spot <= kid /\ Fits(kid, typ) /\ (ValueOf(kid, typ) = << >> => Doomed)
    BY <2>9
  <2> QED BY <1>1, <1>2, <1>4, <1>5, <1>7, <2>1, <2>2, <2>3, <2>8, <2>9, <2>10, <2>11, StatementCalls
<1> QED BY <1>11, <1>12, <1>13

\* The entry that an assignment is about is the one that the reference has.
LEMMA AssignTop ==
  ASSUME Evaluates, stk # << >>, NEW n, n = N, Kind[n] = "assign", NEW x, x = Var[n], NEW pair, pair = PairOf(Program, n)
  PROVE  /\ pair \in DOMAIN table /\ pair \in DOMAIN Program.types
         /\ Wanted(Program, n) = table[pair].type /\ Lookup(x, FALSE).type = table[pair].type
         /\ Nearest(nested, x, FALSE) # 0 /\ pair = <<nested[Nearest(nested, x, FALSE)], x>>
<1>1. /\ MachineOK /\ EntriesOK /\ InTree(root, n) /\ root \in Root /\ nested = Top.scope
      /\ DOMAIN Program.types = DOMAIN table /\ phase = "eval" /\ nested \in Seq(Node)
  BY EvalTop
<1>2. ScopeIs(nested, root, n)
  BY <1>1, TopInTree
<1>3. DOMAIN table = Declarations(root)
  BY <1>1, DeclaresAll DEF Evaluates
<1>4. Having(root, n, x, DOMAIN table) # {}
  BY <1>1, <1>3, OwnerDeclared
<1>5. pair = Owner(root, n, x, DOMAIN table)
  BY ProgramIs
<1>6. PICK i : i = Nearest(nested, x, FALSE)
  OBVIOUS
<1>7. /\ i # 0 /\ i \in DOMAIN nested /\ nested[i] = Innermost(Having(root, n, x, DOMAIN table))
      /\ LookupIn(nested, x, FALSE) = table[pair] /\ pair \in DOMAIN table
  BY <1>1, <1>2, <1>4, <1>5, <1>6, NearestEntry
<1>8. pair = <<nested[i], x>>
  BY <1>5, <1>7 DEF Owner
<1>9. Wanted(Program, n) = table[pair].type
  BY <1>7, ProgramIs DEF Wanted
<1> QED BY <1>1, <1>6, <1>7, <1>8, <1>9 DEF Lookup

LEMMA BeginAssignMeant ==
  ASSUME Evaluating, Continues, Eval, BeginAssign
  PROVE  Meant
<1>1. PICK n, ty, k, v, typed, p, st, kid :
        /\ n = N /\ ty = Lookup(Var[n], FALSE).type /\ k = 1 /\ v = last.id /\ typed = FALSE
        /\ p = Program /\ st = Now /\ kid = Kids[n][k]
  OBVIOUS
<1>2. /\ Evaluates /\ stk # << >> /\ Kind[n] = "assign" /\ Top.stage = 0 /\ phase = "eval"
  BY <1>1 DEF Evaluating, Evaluates, BeginAssign, Statement, Running
<1>3. /\ n \in Node /\ n \in Nat /\ Top.n = n /\ InTree(root, n) /\ IsProgram(p) /\ p.root = root
      /\ root \in Root /\ MachineOK
  BY <1>1, <1>2, EvalTop
<1>4. /\ Kind[n] \notin PureKinds /\ Kind[n] # "if_stmt" /\ k \in DOMAIN Kids[n] /\ kid = n + 1
  BY <1>1, <1>2, <1>3, AssignKid DEF PureKinds
<1>5. Spot = n /\ st.ok /\ st.next <= n /\ st = Course(p)[n] /\ Pending = {} /\ vis \in Seq(Visitors)
  <2>1. ~Waits(Top)
    BY <1>2 DEF Waits
  <2>2. /\ Spot = Place(Top) /\ Now.ok /\ Now.next <= Spot /\ Now = Course(Program)[Spot]
        /\ Pending = {} /\ vis \in Seq(Visitors)
    BY <1>1, <1>2, <1>4, <2>1, StatementTop
  <2>3. Place(Top) = n
    BY <1>2, <1>3 DEF Place
  <2> QED BY <1>1, <2>2, <2>3
<1>6. Wanted(p, n) = ty
  <2>1. PICK pair, x : pair = PairOf(Program, n) /\ x = Var[n]
    OBVIOUS
  <2>2. Wanted(Program, n) = table[pair].type /\ Lookup(x, FALSE).type = table[pair].type
    BY <1>1, <1>2, <2>1, AssignTop
  <2> QED BY <1>1, <2>1, <2>2
<1>7. CASE ty \notin ValueTypes
  <2>1. Die
    BY <1>1, <1>7 DEF BeginAssign
  <2> QED BY <2>1 DEF Die, Unwind, Meant
<1>8. CASE ty \in ValueTypes
  <2>1. NewVisitor(ty) /\ Call(k, v, typed) /\ Going /\ UNCHANGED <<table, last>>
    BY <1>1, <1>8 DEF BeginAssign
  <2>2. Visiting.ty' = ty
    BY <1>5, <2>1, NewVisitorIs
  <2>3. phase' = "eval"
    BY <1>2, <2>1 DEF Going
  <2>4. typed \in BOOLEAN
    BY <1>1
  <2>5. v \in Int
    BY <1>1, <1>3 DEF MachineOK, TypeOK
  <2>6. PICK later, typ, spot, state :
          later = Later(Top.stage + 1, v) /\ typ = Visiting.ty' /\ spot = Spot' /\ state = Course(Program)[spot]
    OBVIOUS
  <2>7. later.n = n /\ later.stage = 1
    BY <1>1, <1>2, <2>6, LaterFacts
  <2>8. /\ Kind[kid] \notin PureKinds => Spot' = kid
        /\ Kind[kid] \in PureKinds => Spot' = Place(Later(Top.stage + 1, v))
    <3>1. k \in DOMAIN Kids[N] /\ Kind[N] \notin PureKinds /\ Kids[N][k] = kid
      BY <1>1, <1>4
    <3> QED BY <1>2, <1>3, <2>1, <2>3, <2>4, <2>5, <3>1, CallSpot
  <2>9. CASE Acts(n)
    <3>1. Kind[kid] \in PureKinds /\ Fits(kid, ty) /\ (ValueOf(kid, ty) = << >> => Doomed)
      BY <1>1, <1>2, <1>5, <1>6, <1>8, <2>9, ActingFits
    <3>2. spot = n
      BY <2>6, <2>7, <2>8, <2>9, <3>1 DEF Place, Acting
    <3>3. n <= kid /\ Kind[kid] # "if_stmt"
      BY <1>3, <1>4, <3>1 DEF PureKinds, ExprKinds, LeafKinds, UnaryKinds, BinaryKinds
    <3>4. state = st /\ state.mem = Now.mem /\ state.ok /\ state.next <= spot
      BY <1>1, <1>5, <2>6, <3>2
    <3>5. Kind[kid] \in PureKinds /\ typ # Undet =>
             spot <= kid /\ Fits(kid, typ) /\ (ValueOf(kid, typ) = << >> => Doomed)
      BY <2>2, <2>6, <3>1, <3>2, <3>3
    <3>6. Kind[n] = "assign" => v = last.id
      BY <1>1
    <3> QED BY <1>1, <1>2, <1>4, <1>5, <2>1, <2>3, <2>4, <2>5, <2>6, <3>3, <3>4, <3>5, <3>6, StatementCalls, ZenonT(30)
  <2>10. CASE ~Acts(n)
    <3>1. Kind[kid] = "assign" /\ Kind[kid] \notin PureKinds /\ Kind[kid] # "if_stmt"
      BY <1>1, <1>2, <2>10 DEF Acts, PureKinds
    <3>2. spot = n + 1
      BY <1>4, <2>6, <2>8, <3>1
    <3>3. state = st
      BY <1>1, <1>3, <1>5, <2>6, <2>10, <3>2, CourseSame
    <3>4. st.next \in Nat
      BY <1>1, <1>2, <1>3, <1>5, UptoOf, NowNext
    <3>5. state.mem = Now.mem /\ state.ok /\ state.next <= spot
      BY <1>1, <1>3, <1>5, <3>2, <3>3, <3>4
    <3>6. Kind[n] = "assign" => v = last.id
      BY <1>1
    <3> QED BY <1>1, <1>2, <1>4, <1>5, <2>1, <2>3, <2>4, <2>5, <2>6, <3>1, <3>5, <3>6, StatementCalls
  <2> QED BY <2>9, <2>10
<1> QED BY <1>7, <1>8

\* The entries that n and the assignments around it assign to.
PairsOf(p, r, n) == {PairOf(p, a) : a \in Cascaded(r, n)}

\* The assignments of a cascade return one after the other, the last one first.
LEMMA CascadeReturn ==
  ASSUME Evaluates, Continues, stk # << >>, Return, NEW n, n = N, Kind[n] = "assign",
         NEW p, p = Program, NEW pair, pair = PairOf(p, n),
         NEW pairs, pairs = PairsOf(p, root, n)
  PROVE  pairs = Pending' \cup {pair}
<1>1. PICK l, f : l = Len(stk) /\ f = stk[l - 1]
  OBVIOUS
<1>2. /\ MachineOK /\ PureOK /\ phase = "eval" /\ l \in Nat /\ l > 1 /\ n \in Node /\ n \in Nat
      /\ stk \in Seq(Frames) /\ InTree(root, n) /\ root \in Node /\ root \in Nat
  BY <1>1, EvalTop, NodeFacts
<1>3. /\ f.n \in Node /\ f.n \in Nat /\ CalledBy(f) \in DOMAIN Kids[f.n] /\ n = Kids[f.n][CalledBy(f)]
      /\ InTree(root, f.n)
  BY <1>1, <1>2, CallerOf, NodeFacts
<1>4. stk' # << >> /\ stk'[Len(stk')] = f
  <2>1. stk' \in Seq(Frames) /\ Len(stk') = l - 1 /\ \A i \in 1..(l - 1) : stk'[i] = stk[i]
    BY <1>1, <1>2, ReturnFacts
  <2>2. l - 1 \in 1..(l - 1)
    BY <1>2
  <2> QED BY <1>1, <1>2, <2>1, <2>2
<1>5. CASE Waits(f)
  <2>1. n = f.n + 1 /\ Kind[f.n] = "assign"
    BY <1>1, <1>2, <1>5, WaitsFor
  <2>2. root <= n - 1 /\ n - 1 = f.n
    BY <1>2, <1>3, <2>1 DEF InTree
  <2>3. Cascaded(root, n) = Cascaded(root, f.n) \cup {n}
    <3>1. IF root <= n - 1 /\ Kind[n - 1] = "assign" THEN Cascaded(root, n) = Cascaded(root, n - 1) \cup {n}
            ELSE Cascaded(root, n) = {n}
      BY <1>2, CascadedNext
    <3> QED BY <2>1, <2>2, <3>1
  <2>4. Pending' = {PairOf(p, a) : a \in Cascaded(root, f.n)}
    <3>1. Waits(Top)' /\ N' = f.n
      BY <1>4, <1>5 DEF Waits, N, Top
    <3>2. Program' = p /\ root' = root
      BY DEF Continues
    <3> QED BY <1>4, <3>1, <3>2 DEF Pending
  <2> QED BY <2>3, <2>4 DEF PairsOf
<1>6. CASE ~Waits(f)
  <2>1. Pending' = {}
    BY <1>4, <1>6, NotWaiting
  <2>2. ~(root <= n - 1 /\ Kind[n - 1] = "assign")
    <3> SUFFICES ASSUME root <= n - 1, Kind[n - 1] = "assign" PROVE FALSE
      OBVIOUS
    <3>1. PICK m, k : m = n - 1 /\ k = CalledBy(f)
      OBVIOUS
    <3>2. m \in Node /\ m \in Nat
      BY <1>2, <3>1, OrderAssumption DEF InTree
    <3>3. 1 \in DOMAIN Kids[m] /\ Kids[m][1] = n
      BY <1>2, <3>1, <3>2, AssignKid
    <3>4. ~(m < f.n) /\ ~(f.n < m)
      BY <1>3, <3>1, <3>2, <3>3, OneParent
    <3>5. f.n = m
      BY <1>3, <3>2, <3>4
    <3>6. k = 1 /\ f.stage = 1 /\ Kind[f.n] = "assign"
      <4>1. DOMAIN Kids[f.n] = {1} /\ Kind[f.n] = "assign"
        BY <1>3, <3>1, <3>5, AssignKid
      <4> QED BY <1>3, <3>1, <4>1 DEF CalledBy
    <3>7. ~Acts(f.n)
      BY <3>3, <3>5 DEF Acts
    <3> QED BY <1>6, <3>6, <3>7 DEF Waits
  <2>3. Cascaded(root, n) = {n}
    BY <1>2, <2>2, CascadedNext
  <2> QED BY <2>1, <2>3 DEF PairsOf
<1> QED BY <1>5, <1>6

\* An outer assignment sees a later last_assign_ than the one it kept.
LEMMA SharingAssign ==
  ASSUME Evaluating, stk # << >>, Return, Kind[N] = "assign", Top.stage = 1,
         NEW old \in Int, old = last.id, NEW new \in Int, new = last'.id, Top.local < new
  PROVE  SharingOK'
<1>1. PICK l : l = Len(stk)
  OBVIOUS
<1>2. /\ stk \in Seq(Frames) /\ l \in Nat /\ l > 1 /\ Top.local \in Int /\ SharingOK /\ MachineOK
      /\ phase = "eval"
  BY <1>1, EvalTop DEF Evaluating, Evaluates, Followed
<1>3. Len(stk') = l - 1 /\ (\A i \in 1..(l - 1) : stk'[i] = stk[i]) /\ stk' \in Seq(Frames)
  BY <1>1, <1>2, ReturnFacts
<1>4. ASSUME NEW i \in 1..(Len(stk') - 1), Waits(stk'[i]), stk'[i + 1].stage = 1
      PROVE  stk'[i].local <= stk'[i + 1].local
  <2>1. i \in 1..(l - 1) /\ i + 1 \in 1..(l - 1)
    BY <1>2, <1>3
  <2>2. stk'[i] = stk[i] /\ stk'[i + 1] = stk[i + 1]
    BY <1>3, <2>1
  <2> QED BY <1>1, <1>2, <1>4, <2>1, <2>2 DEF SharingOK
<1>5. ASSUME stk' # << >>, Waits(Top)' PROVE Top'.local < last'.id
  <2>1. PICK f : f = stk[l - 1]
    OBVIOUS
  <2>2. Top' = f /\ l - 1 \in 1..(l - 1)
    BY <1>2, <1>3, <2>1 DEF Top
  <2>3. Waits(f) /\ f \in Frames
    BY <1>1, <1>2, <1>5, <2>1, <2>2, CallerOf DEF Waits
  <2>4. stk[l - 1 + 1] = Top
    BY <1>1, <1>2 DEF Top
  <2>5. f.local <= Top.local
    BY <1>1, <1>2, <2>1, <2>2, <2>3, <2>4 DEF SharingOK
  <2>6. f.local \in Int
    BY <2>3 DEF Frames
  <2> QED BY <1>2, <2>2, <2>5, <2>6
<1> QED BY <1>4, <1>5 DEF SharingOK, Waits

\* An assignment gives its entry the constant, that the outer ones of the same
\* cascade will share.
LEMMA AssignMemory ==
  ASSUME Evaluating, Continues, NEW pair \in DOMAIN table, NEW c,
         DOMAIN table' = DOMAIN table, table'[pair].evaluated, table'[pair].ptr = c,
         \A k \in DOMAIN table : k # pair => table'[k] = table[k],
         last'.ptr = c,
         NEW s, s = Spot', UptoIn(root, s), NEW st, st = Course(Program)[s], st.ok, st.next <= s,
         NEW pairs, pairs = Pending' \cup {pair}, pairs \subseteq DOMAIN st.mem,
         DOMAIN Now.mem \subseteq DOMAIN st.mem,
         \A k \in DOMAIN st.mem :
           IF k \in pairs THEN st.mem[k] = c
           ELSE k \in DOMAIN Now.mem /\ k \notin Pending /\ st.mem[k] = Now.mem[k]
  PROVE  MemoryOK'
<1>1. Now' = st /\ End' = End /\ runs' = runs
  BY DEF Continues, Now, End
<1>2. MemoryOK /\ MachineOK /\ DeclaredOK /\ phase = "eval"
  BY DEF Evaluating, Evaluates, Followed, IInv
<1>3. IsProgram(Program) /\ Program.root = root /\ root \in Root /\ LastIn[root] \in Nat /\ InTree(root, root)
  BY <1>2, ProgramOK
<1>4. UptoIn(root, LastIn[root] + 1) /\ s <= LastIn[root] + 1
  BY <1>3, UptoFacts DEF UptoIn
<1>5. DOMAIN st.mem \subseteq DOMAIN table
  <2>1. DOMAIN table = Declarations(root)
    BY <1>2, DeclaresAll
  <2>2. DOMAIN st.mem \subseteq Declared(root, s)
    BY <1>3, MemoryDeclared
  <2>3. Declared(root, s) \subseteq Declarations(root)
    BY <1>3, <1>4, DeclaredGrows
  <2> QED BY <2>1, <2>2, <2>3
<1>6. pair \in DOMAIN End.mem
  <2>1. DOMAIN st.mem \subseteq DOMAIN End.mem
    BY <1>3, <1>4, MemoryGrows DEF End, Meaning
  <2> QED BY <2>1
<1>7. ASSUME NEW k \in DOMAIN st.mem
      PROVE  IF k \in Pending' THEN st.mem[k] = last'.ptr
             ELSE table'[k].evaluated /\ table'[k].ptr = st.mem[k]
  <2>1. CASE k \in Pending'
    BY <2>1
  <2>2. CASE k \notin Pending' /\ k = pair
    BY <2>2
  <2>3. CASE k \notin Pending' /\ k # pair
    <3>1. k \in DOMAIN Now.mem /\ k \notin Pending /\ st.mem[k] = Now.mem[k]
      BY <2>3
    <3>2. table'[k] = table[k]
      BY <1>5, <2>3
    <3>3. table[k].evaluated /\ table[k].ptr = Now.mem[k]
      BY <1>2, <3>1 DEF MemoryOK
    <3> QED BY <2>3, <3>1, <3>2, <3>3
  <2> QED BY <2>1, <2>2, <2>3
<1>8. ASSUME NEW k \in DOMAIN table
      PROVE  IF runs = 1 THEN table'[k].evaluated => k \in DOMAIN st.mem
             ELSE table'[k].evaluated <=> k \in DOMAIN End.mem
  <2>1. CASE k = pair
    BY <1>6, <2>1
  <2>2. CASE k # pair
    <3>1. table'[k] = table[k]
      BY <2>2
    <3>2. IF runs = 1 THEN table[k].evaluated => k \in DOMAIN Now.mem
          ELSE table[k].evaluated <=> k \in DOMAIN End.mem
      BY <1>2 DEF MemoryOK
    <3> QED BY <3>1, <3>2
  <2> QED BY <2>1, <2>2
<1>9. Pending' \subseteq DOMAIN st.mem
  OBVIOUS
<1> QED BY <1>1, <1>7, <1>8, <1>9 DEF MemoryOK

\* An assignment of an expression.
LEMMA AssignsExpression ==
  ASSUME Evaluating, Continues, Eval, EndAssign, phase' = "eval", NEW n, n = N, Acts(n),
         NEW p, p = Program, NEW pairs, pairs = PairsOf(p, root, n),
         NEW c, c = NewValue, NEW s, s = LastIn[n] + 1, NEW next, next = Course(p)[s]
  PROVE  /\ next.ok /\ next.next <= s /\ Top.local < last'.id /\ Pending = {}
         /\ next.mem = [k \in DOMAIN Now.mem \cup pairs |-> IF k \in pairs THEN c ELSE Now.mem[k]]
<1>1. PICK ty, st, then, x, pair :
        /\ ty = Visiting.ty /\ st = Now /\ then = Course(p)[n + 1] /\ x = Var[n] /\ pair = PairOf(p, n)
  OBVIOUS
<1>2. /\ Evaluates /\ stk # << >> /\ Kind[n] = "assign" /\ Top.stage = 1 /\ phase = "eval"
      /\ IInv /\ PlainOK
  BY DEF Evaluating, Evaluates, EndAssign, Statement, Running
<1>3. /\ n \in Node /\ n \in Nat /\ Top.n = n /\ InTree(root, n) /\ IsProgram(p) /\ p.root = root
      /\ root \in Root /\ MachineOK /\ last.id \in Nat /\ stk \in Seq(Frames) /\ Len(stk) \in Nat /\ Len(stk) > 0
  <2>1. last.id \in Nat
    BY <1>2, EvalTop DEF MachineOK, TypeOK
  <2> QED BY <1>2, <2>1, EvalTop
<1>4. /\ Kind[n] \notin PureKinds /\ Kind[Kids[n][1]] # "assign" /\ Acting(Top) /\ ~Waits(Top)
  BY <1>2, <1>3 DEF PureKinds, Acts, Acting, Waits
<1>5. last.id = Top.local
  <2>1. SharedOK /\ Len(stk) \in 1..Len(stk)
    BY <1>2, <1>3 DEF PlainOK
  <2> QED BY <1>2, <1>3, <1>4, <2>1 DEF SharedOK, Top
<1>6. Spot = n /\ st.ok /\ st.next <= n /\ st = Course(p)[n] /\ Pending = {}
  <2>1. /\ Spot = Place(Top) /\ Now.ok /\ Now.next <= Spot /\ Now = Course(Program)[Spot]
        /\ Pending = {} /\ vis \in Seq(Visitors)
    BY <1>2, <1>4, StatementTop
  <2>2. Place(Top) = n
    BY <1>3, <1>4 DEF Place
  <2> QED BY <1>1, <2>1, <2>2
<1>7. ~(n < st.next) /\ st.next \in Nat
  <2>1. st.next \in Nat
    BY <1>1, <1>2, <1>3, <1>6, UptoOf, NowNext
  <2> QED BY <1>3, <1>6, <2>1
<1>8. PICK value : value = Value
  OBVIOUS
<1>9. ty \in ValueTypes /\ ValueOf(Kids[n][1], ty) = <<value>>
  BY <1>1, <1>2, <1>4, <1>8, ActingTop
<1>10. ~Cascading /\ c = NewConstant(ty, value) /\ last'.id = last.id + 1
  <2>1. ~Cascading
    BY <1>5 DEF Cascading
  <2>2. c = NewConstant(Visiting.ty, Value)
    BY <2>1 DEF NewValue
  <2>3. last'.id = IF Cascading THEN last.id ELSE last.id + 1
    BY <1>2, EndAssignFacts
  <2> QED BY <1>1, <1>8, <2>1, <2>2, <2>3
<1>11. Wanted(p, n) = ty
  <2>1. Visiting.ty = TypeIn(Top.scope, Var[N])
    BY <1>2, TopAssign
  <2>2. Lookup(Var[N], FALSE).type = TypeIn(Top.scope, Var[N])
    BY <1>2, EndAssignFacts
  <2>3. PICK q, y : q = PairOf(Program, n) /\ y = Var[n]
    OBVIOUS
  <2>4. Evaluates /\ stk # << >> /\ Kind[n] = "assign"
    BY <1>2
  <2>5. Wanted(Program, n) = table[q].type /\ Lookup(y, FALSE).type = table[q].type
    BY <2>3, <2>4, AssignTop
  <2> QED BY <1>1, <2>1, <2>2, <2>3, <2>5
<1>12. then.mem = Assigned(p, st.mem, Cascaded(root, n), c) /\ then.next = st.next /\ then.ok
  <2>1. PICK values : values = Values(p, st.mem)[Kids[n][1]][ty]
    OBVIOUS
  <2>2. values = <<value>> /\ values # << >> /\ values[1] = value
    <3>1. values = ValueOf(Kids[n][1], ty)
      BY <1>1, <2>1 DEF ValueOf
    <3>2. values = <<value>>
      BY <1>9, <3>1
    <3> QED BY <3>2
  <2>3. ty \in ValueTypes /\ ty = Wanted(p, n) /\ InTree(p.root, n)
    BY <1>3, <1>9, <1>11
  <2>4. ty \in ValueTypes /\ values # << >> /\ Kind[n] = "assign" =>
           /\ then.mem = Assigned(p, st.mem, Cascaded(p.root, n), NewConstant(ty, values[1]))
           /\ then.next = st.next /\ then.ok
    BY <1>1, <1>3, <1>6, <1>7, <2>1, <2>3, ActingPass
  <2> QED BY <1>2, <1>3, <1>10, <2>2, <2>3, <2>4
<1>13. next = then
  BY <1>1, <1>2, <1>3, AssignPasses
<1>14. next.mem = [k \in DOMAIN Now.mem \cup pairs |-> IF k \in pairs THEN c ELSE Now.mem[k]]
  BY <1>1, <1>12, <1>13 DEF Assigned, PairsOf
<1>15. next.next <= s
  <2>1. s \in Nat /\ n <= s
    BY <1>3, OrderAssumption
  <2> QED BY <1>3, <1>6, <1>7, <1>12, <1>13, <2>1
<1>16. Top.local < last'.id
  BY <1>3, <1>5, <1>10
<1> QED BY <1>6, <1>12, <1>13, <1>14, <1>15, <1>16

\* An assignment of an assignment.
LEMMA AssignsCascade ==
  ASSUME Evaluating, Continues, Eval, EndAssign, phase' = "eval", NEW n, n = N, ~Acts(n),
         NEW p, p = Program, NEW pairs, pairs = PairsOf(p, root, n),
         NEW c, c = NewValue, NEW s, s = LastIn[n] + 1, NEW next, next = Course(p)[s]
  PROVE  /\ next = Now /\ next.ok /\ next.next <= s /\ Top.local < last'.id /\ Pending = pairs
         /\ Pending \subseteq DOMAIN Now.mem /\ \A k \in Pending : Now.mem[k] = c
<1>1. /\ Evaluates /\ stk # << >> /\ Kind[n] = "assign" /\ Top.stage = 1 /\ phase = "eval"
      /\ IInv /\ PlainOK
  BY DEF Evaluating, Evaluates, EndAssign, Statement, Running
<1>2. n \in Node /\ Top.n = n /\ MachineOK
  BY <1>1, EvalTop
<1>3. Kind[n] \notin PureKinds /\ ~Acting(Top) /\ Waits(Top)
  BY <1>1, <1>2 DEF PureKinds, Acting, Waits
<1>4. Top.local < last.id /\ MemoryOK
  BY <1>1, <1>3 DEF Evaluates, Followed, SharingOK
<1>5. Cascading /\ c = last.ptr /\ last'.id = last.id
  <2>1. last.id \in Nat /\ Top.local \in Int
    BY <1>1, <1>2, EvalTop DEF MachineOK, TypeOK
  <2>2. Cascading
    BY <1>4, <2>1 DEF Cascading
  <2>3. last'.id = IF Cascading THEN last.id ELSE last.id + 1
    BY <1>1, EndAssignFacts
  <2> QED BY <2>2, <2>3 DEF NewValue
<1>6. Spot = s /\ Now = Course(p)[s] /\ Now.ok /\ Now.next <= s
  <2>1. Spot = Place(Top) /\ Now.ok /\ Now.next <= Spot /\ Now = Course(Program)[Spot]
    BY <1>1, <1>3, StatementTop
  <2>2. CalledBy(Top) = 1 /\ LastIn[n] = LastIn[Kids[n][1]]
    BY <1>1, <1>2, AssignKid DEF CalledBy
  <2>3. Place(Top) = s
    BY <1>1, <1>2, <1>3, <2>2 DEF Place
  <2> QED BY <2>1, <2>3
<1>7. Pending = pairs
  BY <1>1, <1>3 DEF Pending, PairsOf
<1>8. Pending \subseteq DOMAIN Now.mem /\ \A k \in Pending : Now.mem[k] = last.ptr
  BY <1>4 DEF MemoryOK
<1> QED BY <1>4, <1>5, <1>6, <1>7, <1>8

LEMMA EndAssignMeant ==
  ASSUME Evaluating, Continues, Eval, EndAssign
  PROVE  Meant
<1>1. PICK n, p, x, pair, pairs, c, s, next, entry :
        /\ n = N /\ p = Program /\ x = Var[n] /\ pair = PairOf(p, n)
        /\ pairs = PairsOf(p, root, n)
        /\ c = NewValue /\ s = LastIn[n] + 1 /\ next = Course(p)[s]
        /\ entry = Entry(NewValue, TypeIn(Top.scope, Var[N]), TRUE)
  OBVIOUS
<1>2. /\ Evaluates /\ stk # << >> /\ Kind[n] = "assign" /\ Top.stage = 1 /\ phase = "eval"
      /\ IInv /\ PlainOK
  BY <1>1 DEF Evaluating, Evaluates, EndAssign, Statement, Running
<1>3. CASE ~Cascading /\ Visiting.ty = StringType /\ Value = NullStr
  <2>1. Undefined
    BY <1>3 DEF EndAssign
  <2> QED BY <2>1 DEF Undefined, Unwind, Meant
<1>4. CASE ~(~Cascading /\ Visiting.ty = StringType /\ Value = NullStr)
  <2>1. Return /\ Going
    BY <1>4 DEF EndAssign
  <2>2. phase' = "eval"
    BY <1>2, <2>1 DEF Going
  <2>3. /\ MachineOK /\ PureOK /\ InTree(root, n) /\ n \in Node /\ root \in Root /\ Kind[n] \notin PureKinds
        /\ UNCHANGED root
    BY <1>1, <1>2, EvalTop DEF PureKinds, Continues
  <2>4. Set(x, entry) /\ last'.ptr = c
    BY <1>1, <1>2, <2>2, EndAssignFacts
  <2>5. /\ pair \in DOMAIN table /\ DOMAIN table' = DOMAIN table /\ table'[pair] = entry
        /\ \A k \in DOMAIN table : k # pair => table'[k] = table[k]
    <3>1. PICK q, y, i : q = PairOf(Program, n) /\ y = Var[n] /\ i = Nearest(nested, y, FALSE)
      OBVIOUS
    <3>2. q = pair /\ y = x /\ n = N
      BY <1>1, <3>1
    <3>3. Evaluates /\ stk # << >> /\ Kind[n] = "assign"
      BY <1>2
    <3>4. q \in DOMAIN table /\ i # 0 /\ q = <<nested[i], y>>
      BY <3>1, <3>2, <3>3, AssignTop
    <3>5. Put(nested[i], x, entry)
      BY <2>4, <3>1, <3>2, <3>4 DEF Set
    <3>6. table' = [k \in DOMAIN table \cup {pair} |-> IF k = pair THEN entry ELSE table[k]]
      BY <3>2, <3>4, <3>5 DEF Put
    <3>7. DOMAIN table \cup {pair} = DOMAIN table
      BY <3>2, <3>4
    <3> QED BY <3>2, <3>4, <3>6, <3>7
  <2>6. table'[pair].evaluated /\ table'[pair].ptr = c
    BY <1>1, <2>5 DEF Entry
  <2>7. Spot' = s
    BY <1>1, <1>2, <2>1, <2>2, <2>3, ReturnSpot
  <2>8. UptoIn(root, s)
    BY <1>1, <2>3, UptoOf
  <2>9. pairs = Pending' \cup {pair}
    BY <1>1, <1>2, <2>1, CascadeReturn
  <2>10. /\ next.ok /\ next.next <= s /\ Top.local < last'.id
         /\ pairs \subseteq DOMAIN next.mem /\ DOMAIN Now.mem \subseteq DOMAIN next.mem
         /\ \A k \in DOMAIN next.mem :
              IF k \in pairs THEN next.mem[k] = c
              ELSE k \in DOMAIN Now.mem /\ k \notin Pending /\ next.mem[k] = Now.mem[k]
    <3>1. CASE Acts(n)
      <4>1. /\ next.ok /\ next.next <= s /\ Top.local < last'.id /\ Pending = {}
            /\ next.mem = [k \in DOMAIN Now.mem \cup pairs |-> IF k \in pairs THEN c ELSE Now.mem[k]]
        BY <1>1, <2>2, <3>1, AssignsExpression
      <4> QED BY <4>1
    <3>2. CASE ~Acts(n)
      <4>1. /\ next = Now /\ next.ok /\ next.next <= s /\ Top.local < last'.id /\ Pending = pairs
            /\ Pending \subseteq DOMAIN Now.mem /\ \A k \in Pending : Now.mem[k] = c
        BY <1>1, <2>2, <3>2, AssignsCascade
      <4> QED BY <4>1
    <3> QED BY <3>1, <3>2
  <2>11. MemoryOK'
    <3>1. PICK st : st = Course(Program)[s]
      OBVIOUS
    <3>2. st = next /\ s = Spot'
      BY <1>1, <2>7, <3>1
    <3>3. /\ st.ok /\ st.next <= s /\ pairs \subseteq DOMAIN st.mem /\ DOMAIN Now.mem \subseteq DOMAIN st.mem
          /\ \A k \in DOMAIN st.mem :
               IF k \in pairs THEN st.mem[k] = c
               ELSE k \in DOMAIN Now.mem /\ k \notin Pending /\ st.mem[k] = Now.mem[k]
      BY <2>10, <3>2
    <3>4. pair \in DOMAIN table /\ DOMAIN table' = DOMAIN table
      BY <2>5
    <3>5. \A k \in DOMAIN table : k # pair => table'[k] = table[k]
      BY <2>5
    <3>6. last'.ptr = c
      BY <2>4
    <3>7. s = Spot' /\ st = Course(Program)[s]
      BY <3>1, <3>2
    <3> HIDE <1>1
    <3> QED BY <2>6, <2>8, <2>9, <3>3, <3>4, <3>5, <3>6, <3>7, AssignMemory
  <2>12. SharingOK'
    <3>1. PICK old, new : old = last.id /\ new = last'.id
      OBVIOUS
    <3>2. old \in Int /\ new \in Int
      BY <2>3, <3>1 DEF Evaluating, IInv, MachineOK, TypeOK
    <3> QED BY <1>1, <1>2, <2>1, <2>10, <3>1, <3>2, SharingAssign
  <2>13. ValuesOK'
    <3>1. PICK asked, v, l : asked = AskedFor(Len(stk)) /\ v = Value' /\ l = Len(stk)
      OBVIOUS
    <3> QED BY <1>1, <1>2, <2>1, <2>2, <2>3, <3>1, ValuedReturn
  <2> QED BY <2>2, <2>11, <2>12, <2>13 DEF Meant, Followed
<1> QED BY <1>3, <1>4

-----------------------------------------------------------------------------
(***************************************************************************)
(* The invariant.                                                          *)
(***************************************************************************)
LEMMA EvalMeant ==
  ASSUME Evaluating, Eval
  PROVE  Meant
<1>1. Continues
  BY EvalContinues
<1>2. Evaluates
  BY DEF Evaluating
<1>3. ASSUME BeginTypedAssign \/ EndTypedAssign PROVE FALSE
  <2>1. stk # << >> /\ Kind[N] = "assign" /\ Top.typed
    BY <1>3 DEF BeginTypedAssign, EndTypedAssign, Running, Typed
  <2> QED BY <1>2, <2>1, EvalTop
<1>4. CASE SkipExpression
  BY <1>1, <1>4, SkipMeant
<1>5. CASE EvalConstant
  BY <1>1, <1>5, ConstantMeant
<1>6. CASE EvalVariable
  BY <1>1, <1>6, VariableMeant
<1>7. CASE EvalUnary
  BY <1>1, <1>7, UnaryMeant
<1>8. CASE EvalBinary
  BY <1>1, <1>8, BinaryMeant
<1>9. CASE EvalEquals
  BY <1>1, <1>9, EqualsMeant
<1>10. CASE EvalBlock
  <2>1. Going /\ UNCHANGED <<table, last>>
    BY <1>10 DEF EvalBlock
  <2>2. CASE EnterScope(0) /\ vis' = Append(vis, VoidVisitor)
    BY <1>1, <2>1, <2>2, EnterMeant
  <2>3. CASE NextStatement /\ UNCHANGED vis
    BY <1>1, <2>1, <2>3, NextMeant
  <2>4. CASE LeaveScope /\ vis' = OuterVis
    BY <1>1, <2>1, <2>4, LeaveMeant
  <2> QED BY <1>10, <2>2, <2>3, <2>4 DEF EvalBlock
<1>11. CASE BeginAssign
  BY <1>1, <1>11, BeginAssignMeant
<1>12. CASE EndAssign
  BY <1>1, <1>12, EndAssignMeant
<1>13. CASE BeginIf
  BY <1>1, <1>13, BeginIfMeant
<1>14. CASE DecideIf
  BY <1>1, <1>14, DecideIfMeant
<1>15. CASE EndIf
  BY <1>1, <1>15, EndIfMeant
<1> QED BY <1>3, <1>4, <1>5, <1>6, <1>7, <1>8, <1>9, <1>10, <1>11, <1>12, <1>13, <1>14, <1>15 DEF Eval, EvalStep

\* The memory at the end, and the entries that can have a value then.
LEMMA EndIs ==
  ASSUME MachineOK, DeclaredOK, phase # "populate"
  PROVE  DOMAIN End.mem \subseteq DOMAIN table
<1>1. IsProgram(Program) /\ Program.root = root /\ root \in Root /\ InTree(root, root)
  BY ProgramOK
<1>2. UptoIn(root, LastIn[root] + 1)
  BY <1>1, UptoOf
<1>3. DOMAIN End.mem \subseteq Declared(root, LastIn[root] + 1)
  BY <1>1, <1>2, MemoryDeclared DEF End, Meaning
<1>4. DOMAIN table = Declarations(root)
  BY DeclaresAll
<1> QED BY <1>3, <1>4 DEF Declarations

\* An evaluation that throws.
LEMMA ThrowsAsMeant ==
  ASSUME Evaluates, Continues, phase' = "ready", result' # "evaluated", UNCHANGED table, Doomed, Pending = {}
  PROVE  EndsAsMeant'
<1>1. Meaning(Program)' = End
  BY DEF Continues, End
<1>2. ~End.ok /\ End.mem = Now.mem
  BY DEF Doomed
<1>3. DOMAIN End.mem \subseteq DOMAIN table
  BY EndIs DEF Evaluates, IInv
<1>4. /\ \A k \in DOMAIN End.mem : table[k].evaluated /\ table[k].ptr = End.mem[k]
      /\ \A k \in DOMAIN table : table[k].evaluated => k \in DOMAIN End.mem
  BY <1>2, MemoryIs
<1>5. DOMAIN End.mem = {k \in DOMAIN table : table[k].evaluated}
  BY <1>3, <1>4
<1> QED BY <1>1, <1>2, <1>4, <1>5 DEF EndsAsMeant

LEMMA ReturnsAsMeant ==
  ASSUME Evaluates, EndEvaluate
  PROVE  EndsAsMeant'
<1>1. stk = << >> /\ phase' = "ready" /\ result' = "evaluated" /\ UNCHANGED <<table, root, anntype>>
  BY DEF EndEvaluate
<1>2. Program' = Program
  BY <1>1 DEF Program
<1>3. Meaning(Program)' = End
  BY <1>2 DEF End
<1>4. Now = End /\ Pending = {}
  <2>1. Program.root = root
    BY DEF Program
  <2> QED BY <1>1, <2>1 DEF Now, End, Spot, Meaning, Pending
<1>5. DOMAIN End.mem \subseteq DOMAIN table
  BY EndIs DEF Evaluates, IInv
<1>6. MemoryOK
  BY DEF Evaluates, Followed
<1>7. /\ End.ok /\ \A k \in DOMAIN End.mem : table[k].evaluated /\ table[k].ptr = End.mem[k]
      /\ \A k \in DOMAIN table : table[k].evaluated => k \in DOMAIN End.mem
  BY <1>4, <1>6 DEF MemoryOK
<1>8. DOMAIN End.mem = {k \in DOMAIN table : table[k].evaluated}
  BY <1>5, <1>7
<1> QED BY <1>1, <1>3, <1>7, <1>8 DEF EndsAsMeant

LEMMA EvaluateMeant ==
  ASSUME IInv, DeclaredOK, MeaningOK, Evaluate, IInv'
  PROVE  Followed'
<1>1. /\ phase = "ready" /\ phase' = "eval" /\ runs' = runs + 1 /\ stk' = <<Frame(root, FALSE, << >>)>>
      /\ UNCHANGED <<table, root, anntype>>
  BY DEF Evaluate
<1>2. MachineOK /\ runs \in Nat
  BY DEF IInv, MachineOK, TypeOK
<1>3. /\ IsProgram(Program) /\ Program.root = root /\ Kind[root] = "block" /\ root \in Root /\ root \in Nat
      /\ Program' = Program
  <2>1. Program' = Program
    BY <1>1 DEF Program
  <2> QED BY <1>1, <1>2, <2>1, ProgramOK
<1>4. PICK f : f = Frame(root, FALSE, << >>)
  OBVIOUS
<1>5. stk' \in Seq(Frames) /\ stk' = <<f>> /\ f.n = root /\ f.stage = 0
  <2>1. stk' \in Seq(Frames)
    BY DEF IInv, MachineOK, TypeOK
  <2> QED BY <1>1, <1>4, <2>1 DEF Frame
<1>6. Len(stk') = 1 /\ stk'[1] = f /\ stk'[Len(stk')] = f /\ stk' # << >>
  BY <1>5
<1>7. ~Acting(f) /\ ~Waits(f) /\ Kind[f.n] \notin PureKinds /\ Kind[f.n] # "if_stmt" /\ Place(f) = root
  BY <1>3, <1>5 DEF Acting, Waits, Place, PureKinds, ExprKinds, LeafKinds, UnaryKinds, BinaryKinds
<1>8. Spot' = root
  <2>1. IsDoer(stk', 1)
    BY <1>6, <1>7 DEF IsDoer
  <2>2. Spot' = Place(stk'[1])
    BY <1>1, <1>5, <2>1, SpotIs
  <2> QED BY <1>6, <1>7, <2>2
<1>9. PICK st : st = State(<< >>, root, TRUE)
  OBVIOUS
<1>10. Now' = st /\ End' = End /\ st.ok /\ st.next = root /\ st.mem = << >>
  <2>1. Now' = st
    BY <1>3, <1>8, <1>9, CourseIs DEF Now
  <2> QED BY <1>3, <1>9, <2>1 DEF State, End
<1>11. Pending' = {}
  BY <1>6, <1>7, NotWaiting
<1>12. MemoryOK'
  <2>1. \A k \in DOMAIN table :
          IF runs' = 1 THEN table[k].evaluated => k \in DOMAIN st.mem
          ELSE table[k].evaluated <=> k \in DOMAIN End.mem
    <3>1. CASE runs = 0
      <4>1. \A k \in DOMAIN table : ~table[k].evaluated
        BY <1>1, <3>1 DEF MeaningOK
      <4> QED BY <1>1, <3>1, <4>1
    <3>2. CASE runs # 0
      <4>1. DOMAIN End.mem = {k \in DOMAIN table : table[k].evaluated}
        BY <1>1, <1>2, <3>2 DEF MeaningOK, EndsAsMeant, End
      <4> QED BY <1>1, <1>2, <3>2, <4>1
    <3> QED BY <3>1, <3>2
  <2>2. \A k \in DOMAIN st.mem : FALSE
    BY <1>10
  <2>3. Now'.ok /\ Now'.next <= Spot'
    BY <1>3, <1>8, <1>10
  <2> QED BY <1>1, <1>10, <1>11, <2>1, <2>2, <2>3 DEF MemoryOK
<1>13. ValuesOK'
  <2>1. \A i \in 1..Len(stk') : \A g, ty, asked :
           g = stk'[i] /\ ty = VisitType(i)' /\ asked = VisitType(i - 1)' => CallValued(g, ty, asked)'
    BY <1>6, <1>7 DEF CallValued
  <2>2. LastValued'
    <3>1. stk'[Len(stk')].stage = 0
      BY <1>5, <1>6
    <3> QED BY <3>1, LastNext
  <2> QED BY <2>1, <2>2, ValuesNext
<1>14. SharingOK'
  <2>1. ~Waits(Top)'
    BY <1>6, <1>7 DEF Top, Waits
  <2> QED BY <1>6, <2>1 DEF SharingOK
<1> QED BY <1>12, <1>13, <1>14 DEF Followed

LEMMA CheckPhase ==
  ASSUME Check
  PROVE  phase' \in {"check", "stopped"}
<1>1. /\ Reject => phase' = "stopped"
      /\ Checked => phase' = phase
      /\ \A k, v : CheckChild(k, v) => phase' = phase
      /\ \A ty : Conclude(ty) => phase' \in {phase, "stopped"}
  BY DEF Reject, Checked, CheckChild, Conclude
<1> QED BY <1>1 DEF Check, CheckStep, CheckLeaf, CheckUnary, CheckBinary, CheckEquals,
                    CheckAssign, CheckIf, CheckBlock

LEMMA MeaningStays ==
  ASSUME MeaningOK, UNCHANGED vars
  PROVE  MeaningOK'
<1>1. UNCHANGED <<phase, runs, result, table, root, anntype, stk, vis, last>>
  BY DEF vars
<1>2. Program' = Program
  BY <1>1 DEF Program
<1>3. EndsAsMeant' = EndsAsMeant
  BY <1>1, <1>2 DEF EndsAsMeant
<1>4. ASSUME phase = "eval" PROVE Followed'
  <2>1. Top' = Top /\ N' = N /\ Value' = Value /\ Visiting' = Visiting
    BY <1>1 DEF Top, N, Value, Visiting
  <2>2. Spot' = Spot
    <3>1. \A f : Reached(f)' = Reached(f)
      BY <1>1 DEF Reached, Called
    <3> QED BY <1>1, <3>1 DEF Spot
  <2>3. Now' = Now /\ End' = End
    BY <1>2, <2>2 DEF Now, End
  <2>4. Pending' = Pending
    <3>1. Waits(Top)' = Waits(Top)
      BY <2>1 DEF Waits
    <3> QED BY <1>1, <1>2, <2>1, <3>1 DEF Pending
  <2>5. MemoryOK' = MemoryOK
    BY <1>1, <2>2, <2>3, <2>4 DEF MemoryOK
  <2>6. \A e, ty : ValueOf(e, ty)' = ValueOf(e, ty)
    BY <1>2, <2>3 DEF ValueOf
  <2>7. Doomed' = Doomed
    BY <2>3 DEF Doomed
  <2>8. \A e, ty : Fits(e, ty)' = Fits(e, ty)
    BY <1>1 DEF Fits, IsNumber, IsString, TypeAt
  <2>9. \A e : Annotation(e)' = Annotation(e)
    BY <1>1 DEF Annotation
  <2>10. \A f, ty, asked : CallValued(f, ty, asked)' = CallValued(f, ty, asked)
    BY <2>2, <2>6, <2>7, <2>8, <2>9 DEF CallValued, Computes
  <2>11. \A i : VisitType(i)' = VisitType(i) /\ AskedFor(i)' = AskedFor(i)
    BY <1>1 DEF VisitType, AskedFor, Rank, Owners
  <2>12. LastValued' = LastValued
    <3>1. Acting(Top)' = Acting(Top) /\ \A k : Kid(k)' = Kid(k)
      BY <2>1 DEF Acting, Kid
    <3> QED BY <1>1, <2>1, <2>6, <3>1 DEF LastValued
  <2>13. ValuesOK' = ValuesOK
    BY <1>1, <2>10, <2>11, <2>12 DEF ValuesOK
  <2>14. SharingOK' = SharingOK
    BY <1>1, <2>1 DEF SharingOK, Waits
  <2> QED BY <1>4, <2>5, <2>13, <2>14 DEF Followed, MeaningOK
<1> QED BY <1>1, <1>3, <1>4 DEF MeaningOK, Followed

LEMMA MeaningInductive ==
  ASSUME IInv, IInv', PlainOK, DeclaredOK, TypingOK, MeaningOK, [Next]_vars
  PROVE  MeaningOK'
<1>1. MachineOK /\ EntriesOK /\ runs \in Nat
  BY DEF IInv, TablesOK, MachineOK, TypeOK
<1>2. CASE UNCHANGED vars
  BY <1>2, MeaningStays
<1>3. CASE Populate \/ StartCheck \/ Check
  <2>1. phase \in {"populate", "check"} /\ UNCHANGED runs
    BY <1>3 DEF Populate, PopulateStep, StartCheck, Check, CheckStep
  <2>2. runs = 0
    BY <2>1 DEF MeaningOK
  <2>3. phase' \notin {"ready", "eval"}
    <3>1. CASE Populate
      BY <1>1, <3>1, PopulateShapes
    <3>2. CASE Check
      BY <1>1, <3>2, CheckPhase
    <3>3. CASE StartCheck
      BY <3>3 DEF StartCheck
    <3> QED BY <1>3, <3>1, <3>2, <3>3
  <2> QED BY <2>1, <2>2, <2>3 DEF MeaningOK, EndsAsMeant
<1>4. CASE EndCheck
  <2>1. phase = "check" /\ phase' = "ready" /\ UNCHANGED <<table, runs>>
    BY <1>4 DEF EndCheck
  <2>2. runs = 0 /\ \A k \in DOMAIN table : ~table[k].evaluated
    BY <1>1, <2>1 DEF MeaningOK, EntriesOK
  <2> QED BY <2>1, <2>2 DEF MeaningOK, EndsAsMeant
<1>5. CASE Evaluate
  <2>1. phase' = "eval" /\ runs' = runs + 1
    BY <1>5 DEF Evaluate
  <2>2. Followed'
    BY <1>5, EvaluateMeant
  <2>3. runs' > 0
    BY <1>1, <2>1
  <2> QED BY <2>1, <2>2, <2>3 DEF MeaningOK, EndsAsMeant, Followed
<1>6. CASE Eval
  <2>1. phase = "eval" /\ UNCHANGED runs
    BY <1>6 DEF Eval, EvalStep
  <2>2. runs > 0 /\ Followed
    BY <2>1 DEF MeaningOK, Followed
  <2>3. Evaluating /\ Evaluates
    BY <2>1, <2>2 DEF Evaluating, Evaluates
  <2>4. Meant /\ Continues
    BY <1>6, <2>3, EvalMeant, EvalContinues
  <2>5. CASE phase' = "eval" /\ Followed'
    BY <2>1, <2>2, <2>5 DEF MeaningOK, EndsAsMeant, Followed
  <2>6. CASE phase' = "stopped"
    BY <2>6 DEF MeaningOK, EndsAsMeant
  <2>7. CASE phase' = "ready" /\ result' # "evaluated" /\ UNCHANGED table /\ Doomed /\ Pending = {}
    <3>1. EndsAsMeant'
      BY <2>3, <2>4, <2>7, ThrowsAsMeant
    <3> QED BY <1>1, <2>1, <2>2, <2>7, <3>1 DEF MeaningOK
  <2> QED BY <2>4, <2>5, <2>6, <2>7 DEF Meant
<1>7. CASE EndEvaluate
  <2>1. phase = "eval" /\ phase' = "ready" /\ UNCHANGED runs
    BY <1>7 DEF EndEvaluate
  <2>2. runs > 0 /\ Followed
    BY <2>1 DEF MeaningOK, Followed
  <2>3. Evaluates
    BY <2>1, <2>2 DEF Evaluates
  <2>4. EndsAsMeant'
    BY <1>7, <2>3, ReturnsAsMeant
  <2> QED BY <1>1, <2>1, <2>2, <2>4 DEF MeaningOK
<1> QED BY <1>2, <1>3, <1>4, <1>5, <1>6, <1>7 DEF Next

(***************************************************************************)
(* The invariant of an evaluation.                                         *)
(***************************************************************************)
THEOREM FollowsTheCourse == Spec => []MeaningOK
<1>1. Init => MeaningOK
  BY DEF Init, MeaningOK, EndsAsMeant
<1>2. IInv /\ IInv' /\ PlainOK /\ DeclaredOK /\ TypingOK /\ MeaningOK /\ [Next]_vars => MeaningOK'
  BY MeaningInductive
<1>3. PlainInv => PlainOK
  BY DEF PlainInv
<1> QED BY <1>1, <1>2, <1>3, Inductive, Plain, DeclaresAsWritten, WellTyped, PTL DEF Spec

(***************************************************************************)
(* A run of the interpreter ends with what its program means: it throws    *)
(* where the reading in the order of the text throws, and returns          *)
(* otherwise, with the variables evaluated that this reading gives a       *)
(* value.                                                                  *)
(***************************************************************************)
THEOREM EndedAsMeant == Spec => []EndsAsMeant
<1>1. MeaningOK => EndsAsMeant
  BY DEF MeaningOK
<1> QED BY <1>1, FollowsTheCourse, PTL

(***************************************************************************)
(* The evaluator reads the variable the checker checked: when the          *)
(* accessor's search of the interpreter answers with a value, no entry     *)
(* without one lies nearer.                                                *)
(***************************************************************************)
THEOREM ReadTheChecked == Spec => []ReadsTheChecked
<1>1. ASSUME IInv, PlainOK, DeclaredOK, TypingOK, MeaningOK, phase = "eval"
      PROVE  ReadsTheChecked
  <2>1. Evaluates
    BY <1>1 DEF Evaluates, MeaningOK, Followed
  <2> SUFFICES ASSUME Running({"variable"}, 0), Typed, Lookup(Var[N], TRUE).evaluated
               PROVE  Nearest(nested, Var[N], TRUE) = Nearest(nested, Var[N], FALSE)
    BY DEF ReadsTheChecked
  <2>2. PICK n, k, known : /\ n = N /\ k = PairOf(Program, n)
                           /\ known = (Having(root, n, Var[n], DOMAIN table) # {} /\ k \in DOMAIN Now.mem)
    OBVIOUS
  <2>3. stk # << >> /\ Kind[n] = "variable"
    BY <2>2 DEF Running
  <2>4. /\ known => Nearest(nested, Var[n], TRUE) = Nearest(nested, Var[n], FALSE)
        /\ ~known => ~Lookup(Var[n], TRUE).evaluated
    BY <2>1, <2>2, <2>3, VariableIs
  <2> QED BY <2>2, <2>4
<1>2. IInv /\ PlainOK /\ DeclaredOK /\ TypingOK /\ MeaningOK => ReadsTheChecked
  <2>1. phase # "eval" => ReadsTheChecked
    BY DEF ReadsTheChecked
  <2> QED BY <1>1, <2>1
<1>3. PlainInv => PlainOK
  BY DEF PlainInv
<1> QED BY <1>2, <1>3, FollowsTheCourse, Inductive, Plain, DeclaresAsWritten, WellTyped, PTL

-----------------------------------------------------------------------------
(***************************************************************************)
(* The query.  An evaluated entry has a type that query knows.             *)
(***************************************************************************)
EvaluatedTyped == \A k \in DOMAIN table : table[k].evaluated => table[k].type \in ValueTypes

LEMMA EvaluatedInductive ==
  ASSUME IInv, IInv', PlainOK, EvaluatedTyped, [Next]_vars
  PROVE  EvaluatedTyped'
<1>1. CASE UNCHANGED table
  BY <1>1 DEF EvaluatedTyped
<1>2. CASE phase' \in {"populate", "check"}
  BY <1>2 DEF IInv, TablesOK, EntriesOK, EvaluatedTyped
<1>3. CASE UNCHANGED vars \/ StartCheck \/ EndCheck \/ Evaluate \/ EndEvaluate
  BY <1>1, <1>3 DEF vars, StartCheck, EndCheck, Evaluate, EndEvaluate
<1>4. CASE Populate
  BY <1>2, <1>4, PopulateShapes DEF IInv, TablesOK
<1>5. CASE Check
  BY <1>1, <1>2, <1>5, RejectKeeps
<1>6. CASE Eval
  <2>1. phase = "eval" /\ EvalShape /\ stk \in Seq(Frames) /\ nested \in Seq(Node)
    BY <1>6, EvaluatorHolds, EvalShapes DEF Eval, EvalStep, IInv, MachineOK, TypeOK
  <2>2. CASE EndTypedAssign
    BY <2>1, <2>2, NoTypedAssign DEF PlainOK
  <2>3. CASE EndAssign /\ phase' = "eval"
    <3>1. PICK ty, e, x : /\ ty = TypeIn(Top.scope, Var[N]) /\ x = Var[N]
                          /\ e = Entry(NewValue, ty, TRUE)
      OBVIOUS
    <3>2. Set(x, e) /\ stk # << >> /\ Kind[N] = "assign" /\ Top.stage = 1
      BY <2>1, <2>3, <3>1, EndAssignFacts
    <3>3. e.type \in ValueTypes
      <4>1. Top.stage > 0
        BY <3>2
      <4>2. ty \in ValueTypes
        BY <2>1, <3>1, <3>2, <4>1, TopAssign
      <4> QED BY <3>1, <4>2 DEF Entry
    <3>4. UNCHANGED table \/ \E k : Replaces(k, e)
      BY <2>1, <3>2, SetFacts
    <3>5. ASSUME NEW k, Replaces(k, e) PROVE EvaluatedTyped'
      BY <3>3, <3>5 DEF Replaces, EvaluatedTyped
    <3> QED BY <1>1, <3>4, <3>5
  <2> QED BY <1>1, <2>1, <2>2, <2>3 DEF EvalShape
<1> QED BY <1>3, <1>4, <1>5, <1>6 DEF Next

-----------------------------------------------------------------------------
(***************************************************************************)
(* The list of its accessor: all blocks, in the order of the text.         *)
(***************************************************************************)
Extended(list, n) ==
  LET before == IF n = root THEN << >> ELSE list[n - 1]
  IN  IF Kind[n] = "block" THEN Append(before, n) ELSE before

LEMMA ListExists ==
  ASSUME root \in Root
  PROVE  \E list : list = [n \in root..LastIn[root] |-> Extended(list, n)]
<1> DEFINE to == LastIn[root]
           Good == {k \in root..to : \E list : list = [n \in root..k |-> Extended(list, n)]}
<1>1. root \in Nat /\ to \in Nat /\ root <= to
  BY TreeAssumption, NodeFacts
<1>2. root \in Good
  <2> DEFINE list == [n \in root..root |-> IF Kind[n] = "block" THEN << n >> ELSE << >>]
  <2>1. \A n \in root..root : n = root
    BY <1>1
  <2>2. \A n \in root..root : Extended(list, n) = IF Kind[n] = "block" THEN << n >> ELSE << >>
    <3>1. \A f : Extended(f, root) = IF Kind[root] = "block" THEN << root >> ELSE << >>
      BY DEF Extended
    <3> HIDE DEF list
    <3> QED BY <2>1, <3>1
  <2>3. list = [n \in root..root |-> Extended(list, n)]
    BY <2>2
  <2>4. root \in root..to
    BY <1>1
  <2> QED BY <2>3, <2>4
<1>3. PICK k \in Good : \A q \in Good : q <= k
  <2>1. Good \subseteq 0..to /\ Good # {}
    <3>1. ASSUME NEW k \in Good PROVE k \in 0..to
      <4>1. k \in root..to
        OBVIOUS
      <4> HIDE DEF Good
      <4> QED BY <1>1, <4>1
    <3> HIDE DEF Good
    <3> QED BY <1>2, <3>1
  <2> HIDE DEF Good
  <2> QED BY <1>1, <2>1, GreatestNumber
<1>4. CASE k = to
  BY <1>3, <1>4
<1>5. CASE k # to
  <2>1. k \in root..to /\ k + 1 \in root..to /\ k \in Nat /\ k + 1 \notin Good
    <3>1. k \in root..to
      BY <1>3
    <3>2. k \in Nat /\ k + 1 \in root..to
      BY <1>1, <1>5, <3>1
    <3>3. ~(k + 1 <= k)
      BY <3>2
    <3> HIDE DEF Good
    <3> QED BY <1>3, <3>1, <3>2, <3>3
  <2>2. PICK f : f = [n \in root..k |-> Extended(f, n)]
    BY <1>3
  <2> DEFINE g == [n \in root..(k + 1) |-> Extended(f, n)]
  <2>3. ASSUME NEW n \in root..(k + 1) PROVE Extended(g, n) = Extended(f, n)
    <3>1. CASE n = root
      BY <3>1 DEF Extended
    <3>2. CASE n # root
      <4>1. n - 1 \in root..k /\ n - 1 \in root..(k + 1)
        BY <1>1, <2>1, <3>2
      <4>2. g[n - 1] = f[n - 1]
        BY <2>2, <4>1
      <4> HIDE DEF g
      <4> QED BY <4>2 DEF Extended
    <3> QED BY <3>1, <3>2
  <2>4. g = [n \in root..(k + 1) |-> Extended(g, n)]
    BY <2>3, Zenon
  <2>5. k + 1 \in Good
    <3> HIDE DEF g
    <3> QED BY <2>1, <2>4
  <2> QED BY <2>1, <2>5
<1> QED BY <1>4, <1>5

\* The blocks up to n, each once and in order.
Lists(list, n) ==
  /\ list \in Seq(Node)
  /\ \A i, j \in DOMAIN list : i < j => list[i] < list[j]
  /\ \A b : (\E i \in DOMAIN list : list[i] = b) <=> (b \in root..n /\ Kind[b] = "block")

LEMMA ListsNext ==
  ASSUME root \in Nat, NEW n \in Node, n \in Nat, root < n, NEW before, Lists(before, n - 1)
  PROVE  Lists(IF Kind[n] = "block" THEN Append(before, n) ELSE before, n)
<1>1. \A b : b \in root..n <=> b \in root..(n - 1) \/ b = n
  OBVIOUS
<1>2. CASE Kind[n] # "block"
  BY <1>1, <1>2 DEF Lists
<1>3. CASE Kind[n] = "block"
  <2> DEFINE list == Append(before, n)
  <2>1. PICK l \in Nat : l = Len(before) /\ DOMAIN before = 1..l
    BY DEF Lists
  <2>2. /\ list \in Seq(Node) /\ DOMAIN list = 1..(l + 1) /\ list[l + 1] = n
        /\ \A i \in 1..l : list[i] = before[i]
    BY <2>1 DEF Lists
  <2> HIDE DEF list
  <2>3. \A i \in 1..l : before[i] \in Nat /\ before[i] < n
    <3>1. ASSUME NEW i \in 1..l PROVE before[i] \in root..(n - 1)
      BY <2>1 DEF Lists
    <3> QED BY <3>1
  <2>4. ASSUME NEW i \in DOMAIN list, NEW j \in DOMAIN list, i < j PROVE list[i] < list[j]
    <3>1. i \in 1..l /\ (j \in 1..l \/ j = l + 1)
      BY <2>2, <2>4
    <3>2. CASE j \in 1..l
      BY <2>1, <2>2, <2>4, <3>1, <3>2 DEF Lists
    <3>3. CASE j = l + 1
      BY <2>2, <2>3, <3>1, <3>3
    <3> QED BY <3>1, <3>2, <3>3
  <2>5. ASSUME NEW b PROVE (\E i \in DOMAIN list : list[i] = b) <=> (b \in root..n /\ Kind[b] = "block")
    <3>1. (\E i \in DOMAIN list : list[i] = b) <=> (\E i \in 1..l : before[i] = b) \/ b = n
      <4>1. \A i \in DOMAIN list : i \in 1..l \/ i = l + 1
        BY <2>2
      <4>2. l + 1 \in DOMAIN list /\ \A i \in 1..l : i \in DOMAIN list
        BY <2>2
      <4> QED BY <2>2, <4>1, <4>2
    <3>2. (\E i \in 1..l : before[i] = b) <=> (b \in root..(n - 1) /\ Kind[b] = "block")
      BY <2>1 DEF Lists
    <3> QED BY <1>1, <1>3, <3>1, <3>2
  <2> QED BY <1>3, <2>2, <2>4, <2>5 DEF Lists, list
<1> QED BY <1>2, <1>3

LEMMA BlocksAre ==
  ASSUME root \in Root
  PROVE  Lists(Blocks, LastIn[root])
<1> DEFINE list == CHOOSE f : f = [n \in root..LastIn[root] |-> Extended(f, n)]
           to == LastIn[root]
           Good == {k \in root..to : Lists(list[k], k)}
<1>1. list = [n \in root..to |-> Extended(list, n)]
  BY ListExists
<1>2. Blocks = list[to]
  BY Zenon DEF Blocks, Extended
<1> HIDE DEF list
<1>3. root \in Nat /\ to \in Nat /\ root <= to /\ root \in Node /\ Kind[root] = "block" /\ root..to \subseteq Node
  BY TreeAssumption, NodeFacts
<1>4. root \in Good
  <2>1. root \in root..to /\ \A b : b \in root..root <=> b = root
    BY <1>3
  <2>2. list[root] = << root >>
    BY <1>1, <1>3, <2>1 DEF Extended
  <2>3. << root >> \in Seq(Node) /\ DOMAIN << root >> = {1} /\ << root >>[1] = root
    BY <1>3
  <2>4. PICK one : one = << root >>
    OBVIOUS
  <2>5. Lists(one, root)
    <3>1. \A i, j \in DOMAIN one : i < j => one[i] < one[j]
      BY <2>3, <2>4
    <3> QED BY <1>3, <2>1, <2>3, <2>4, <3>1 DEF Lists
  <2> QED BY <2>1, <2>2, <2>4, <2>5
<1>5. PICK k \in Good : \A q \in Good : q <= k
  <2>1. Good \subseteq 0..to /\ Good # {}
    <3>1. ASSUME NEW k \in Good PROVE k \in 0..to
      <4>1. k \in root..to
        OBVIOUS
      <4> HIDE DEF Good
      <4> QED BY <1>3, <4>1
    <3> HIDE DEF Good
    <3> QED BY <1>4, <3>1
  <2> HIDE DEF Good
  <2> QED BY <1>3, <2>1, GreatestNumber
<1>6. CASE k = to
  BY <1>2, <1>5, <1>6
<1>7. CASE k # to
  <2>1. PICK n : n = k + 1
    OBVIOUS
  <2>2. k \in root..to /\ Lists(list[k], k)
    BY <1>5
  <2>3. n \in root..to /\ n \in Nat /\ root < n /\ n - 1 = k /\ n # root /\ ~(n <= k)
    BY <1>3, <1>7, <2>1, <2>2
  <2>4. list[n] = IF Kind[n] = "block" THEN Append(list[k], n) ELSE list[k]
    BY <1>1, <2>3 DEF Extended
  <2>5. Lists(list[n], n)
    BY <1>3, <2>2, <2>3, <2>4, ListsNext
  <2>6. n \in Good
    BY <2>3, <2>5
  <2> HIDE DEF Good
  <2> QED BY <1>5, <2>3, <2>6
<1> QED BY <1>6, <1>7

\* What the search of query finds.
LEMMA DeclaringIs ==
  ASSUME root \in Root, NEW x
  PROVE  \A b : b \in Declaring(x) <=> <<b, x>> \in Declarations(root)
<1>1. ASSUME NEW d \in Declarations(root), d[2] = x PROVE d = <<d[1], x>>
  BY <1>1 DEF Declarations, Declared
<1>2. ASSUME NEW b, <<b, x>> \in Declarations(root) PROVE b \in Declaring(x)
  <2>1. PICK d \in Declarations(root) : d = <<b, x>>
    BY <1>2
  <2> QED BY <2>1 DEF Declaring
<1>3. ASSUME NEW b \in Declaring(x) PROVE <<b, x>> \in Declarations(root)
  <2>1. PICK d \in Declarations(root) : d[2] = x /\ b = d[1]
    BY DEF Declaring
  <2> QED BY <1>1, <2>1
<1> QED BY <1>2, <1>3

LEMMA DeclaringBlocks ==
  ASSUME root \in Root, NEW x, NEW b \in Declaring(x)
  PROVE  b \in root..LastIn[root] /\ Kind[b] = "block"
<1>1. UptoIn(root, LastIn[root] + 1) /\ root \in Nat /\ LastIn[root] \in Nat /\ Kind[root] = "block"
  BY TreeAssumption, UptoOf, AroundRoot, UptoFacts
<1>2. PICK a \in root..((LastIn[root] + 1) - 1) : Declares(root, a) /\ b = Home(root, a)
  <2>1. <<b, x>> \in Declared(root, LastIn[root] + 1)
    BY DeclaringIs DEF Declarations
  <2> QED BY <2>1, DeclaredAs
<1>3. InTree(root, a) /\ a # root
  BY <1>1, <1>2, UptoFacts DEF Declares
<1>4. b \in Around(root, a)
  BY <1>1, <1>2, <1>3, HomeIs
<1> QED BY <1>1, <1>3, <1>4, AroundFacts DEF InTree

LEMMA QueryFinds ==
  ASSUME MachineOK, EntriesOK, DeclaredOK, phase = "ready", NEW x,
         NEW res, res = LookupIn(Blocks, x, FALSE), NEW pair, pair = <<LastDeclaring(x), x>>
  PROVE  IF Declaring(x) = {} THEN res = Absent ELSE pair \in DOMAIN table /\ res = table[pair]
<1> DEFINE D == Declaring(x)
<1>1. root \in Root /\ DOMAIN table = Declarations(root)
  BY DeclaresAll DEF MachineOK, TypeOK
<1>2. PICK list : list = Blocks
  OBVIOUS
<1>3. Lists(list, LastIn[root])
  BY <1>1, <1>2, BlocksAre
<1>4. list \in Seq(Node) /\ DOMAIN list = 1..Len(list) /\ Len(list) \in Nat
  BY <1>3 DEF Lists
<1>5. PICK S : S = Stops(list, x, FALSE)
  OBVIOUS
<1>6. \A j : j \in S <=> j \in DOMAIN list /\ list[j] \in D
  <2>1. \A b : Bound(b, x) <=> b \in D
    BY <1>1, BoundFacts, DeclaringIs
  <2> QED BY <1>5, <2>1 DEF Stops
<1>7. \A b \in D : \E j \in S : list[j] = b
  <2>1. ASSUME NEW b \in D PROVE \E j \in DOMAIN list : list[j] = b
    BY <1>1, <1>3, DeclaringBlocks DEF Lists
  <2> QED BY <1>6, <2>1
<1>8. CASE D = {}
  <2>1. S = {}
    BY <1>6, <1>8
  <2>2. Nearest(list, x, FALSE) = 0
    BY <1>4, <1>5, <2>1, NearestStops
  <2> QED BY <1>2, <1>8, <2>2 DEF LookupIn
<1>9. CASE D # {}
  <2>1. S # {} /\ S \subseteq DOMAIN list
    BY <1>6, <1>7, <1>9
  <2>2. \E j \in S : \A m \in S : m <= j
    BY <1>4, <2>1, LastPosition
  <2>3. PICK p : p = Nearest(list, x, FALSE) /\ p \in S /\ \A m \in S : m <= p
    BY <1>5, <2>1, <2>2 DEF Nearest
  <2>4. p \in DOMAIN list /\ p # 0 /\ list[p] \in D
    <3>1. p \in DOMAIN list /\ list[p] \in D
      BY <1>6, <2>3
    <3>2. ~(0 \in DOMAIN list)
      BY <1>4
    <3> QED BY <3>1, <3>2
  <2>5. ASSUME NEW c \in D PROVE c <= list[p]
    <3>1. PICK m \in S : list[m] = c
      BY <1>7
    <3>2. m \in DOMAIN list /\ m <= p
      BY <1>6, <2>3
    <3>3. m \in 1..Len(list) /\ p \in 1..Len(list)
      BY <1>4, <2>4, <3>2
    <3>4. m = p \/ m < p
      BY <3>2, <3>3
    <3>5. list[m] \in Nat /\ list[p] \in Nat
      BY <1>4, <2>4, <3>2, NodeFacts
    <3>6. m < p => list[m] < list[p]
      BY <1>3, <2>4, <3>2 DEF Lists
    <3> QED BY <3>1, <3>4, <3>5, <3>6
  <2>6. LastDeclaring(x) = list[p]
    <3>1. list[p] \in D /\ \A c \in D : c <= list[p]
      BY <2>4, <2>5
    <3>2. \A b \in D : b \in Nat
      BY <1>6, <1>7, <1>4, NodeFacts
    <3>3. \A b \in D : (\A c \in D : c <= b) => b = list[p]
      <4>1. ASSUME NEW b \in D, \A c \in D : c <= b PROVE b = list[p]
        <5>1. b <= list[p] /\ list[p] <= b /\ b \in Nat /\ list[p] \in Nat
          BY <3>1, <3>2, <4>1
        <5> QED BY <5>1
      <4> QED BY <4>1
    <3> HIDE DEF D
    <3>4. LastDeclaring(x) = CHOOSE b \in D : \A c \in D : c <= b
      BY DEF LastDeclaring, D
    <3> QED BY <3>1, <3>3, <3>4
  <2>7. pair = <<list[p], x>> /\ pair \in DOMAIN table
    BY <1>1, <2>4, <2>6, DeclaringIs
  <2>8. res = table[pair]
    BY <1>2, <2>3, <2>4, <2>7 DEF LookupIn, At
  <2> QED BY <1>9, <2>7, <2>8
<1> QED BY <1>8, <1>9

(***************************************************************************)
(* query answers what the script means, whatever was evaluated before: the *)
(* variable of the last block in the text that declares the name, with the *)
(* value and the class of its constant, or FAILED.                         *)
(***************************************************************************)
THEOREM QueriedAsMeant == Spec => []QueryAsMeant
<1>1. ASSUME IInv, PlainOK, DeclaredOK, MeaningOK, EvaluatedTyped, phase = "ready"
      PROVE  QueryAsMeant
  <2>1. MachineOK /\ EntriesOK /\ KindMatchesType /\ runs \in Nat
    BY <1>1 DEF IInv, TablesOK, MachineOK, TypeOK, PlainOK
  <2>2. PICK mem : mem = (IF runs = 0 THEN [mem |-> << >>] ELSE Meaning(Program)).mem
    OBVIOUS
  <2>3. /\ DOMAIN mem = {k \in DOMAIN table : table[k].evaluated}
        /\ \A k \in DOMAIN mem : table[k].ptr = mem[k]
    <3>1. CASE runs = 0
      <4>1. mem = << >> /\ DOMAIN mem = {} /\ \A k \in DOMAIN table : ~table[k].evaluated
        BY <1>1, <2>2, <3>1 DEF MeaningOK
      <4> QED BY <4>1
    <3>2. CASE runs # 0
      BY <1>1, <2>1, <2>2, <3>2 DEF MeaningOK, EndsAsMeant
    <3> QED BY <3>1, <3>2
  <2> SUFFICES ASSUME NEW x \in Name
               PROVE  IF Declaring(x) = {} \/ <<LastDeclaring(x), x>> \notin DOMAIN mem
                        THEN Query(x).type = Failed
                        ELSE /\ ClassOf(Query(x).type) = mem[<<LastDeclaring(x), x>>].kind
                             /\ Query(x).val = mem[<<LastDeclaring(x), x>>].val
    BY <2>2 DEF QueryAsMeant
  <2>4. PICK res, pair : res = LookupIn(Blocks, x, FALSE) /\ pair = <<LastDeclaring(x), x>>
    OBVIOUS
  <2>5. IF Declaring(x) = {} THEN res = Absent ELSE pair \in DOMAIN table /\ res = table[pair]
    BY <1>1, <2>1, <2>4, QueryFinds
  <2>6. Query(x) = IF res.ptr # Null /\ res.evaluated /\ res.type \in ValueTypes
                     THEN [type |-> res.type, val |-> res.ptr.val]
                     ELSE [type |-> Failed, val |-> 0]
    BY <2>4 DEF Query
  <2>7. CASE Declaring(x) = {}
    <3>1. res.evaluated = FALSE
      BY <2>5, <2>7 DEF Absent, Entry
    <3> QED BY <2>6, <2>7, <3>1
  <2>8. CASE Declaring(x) # {} /\ pair \notin DOMAIN mem
    <3>1. ~res.evaluated
      BY <2>3, <2>5, <2>8
    <3> QED BY <2>4, <2>6, <2>8, <3>1
  <2>9. CASE Declaring(x) # {} /\ pair \in DOMAIN mem
    <3>1. pair \in DOMAIN table /\ res = table[pair] /\ res.evaluated /\ res.ptr = mem[pair]
      BY <2>3, <2>5, <2>9
    <3>2. res.ptr.kind \in ConstantKinds /\ res.type \in ValueTypes /\ res.ptr.kind = ClassOf(res.type)
      BY <1>1, <2>1, <3>1 DEF EntriesOK, EvaluatedTyped, KindMatchesType
    <3>3. res.ptr # Null
      BY <3>2 DEF Null, ConstantKinds
    <3>4. Query(x) = [type |-> res.type, val |-> res.ptr.val]
      BY <2>6, <3>1, <3>2, <3>3
    <3>5. Query(x).type = res.type /\ Query(x).val = res.ptr.val
      BY <3>4
    <3> QED BY <2>4, <2>9, <3>1, <3>2, <3>5
  <2> QED BY <2>4, <2>7, <2>8, <2>9
<1>2. IInv /\ PlainOK /\ DeclaredOK /\ MeaningOK /\ EvaluatedTyped => QueryAsMeant
  <2>1. phase # "ready" => QueryAsMeant
    BY DEF QueryAsMeant
  <2> QED BY <1>1, <2>1
<1>3. Init => EvaluatedTyped
  BY DEF Init, EvaluatedTyped
<1>4. IInv /\ IInv' /\ PlainOK /\ EvaluatedTyped /\ [Next]_vars => EvaluatedTyped'
  BY EvaluatedInductive
<1>5. PlainInv => PlainOK
  BY DEF PlainInv
<1> QED BY <1>2, <1>3, <1>4, <1>5, FollowsTheCourse, Inductive, Plain, DeclaresAsWritten, PTL DEF Spec

=============================================================================
