---------------------------- MODULE TokenProofs ----------------------------
(***************************************************************************)
(* The tokenizer at its stream, for texts of every length over every       *)
(* alphabet, and every INIT_SIZE.                                          *)
(***************************************************************************)
EXTENDS Tokenizer, FiniteSetTheorems, SequenceTheorems, WellFoundedInduction, TLAPS

-----------------------------------------------------------------------------
(***************************************************************************)
(* Sets of positions.                                                      *)
(***************************************************************************)
LEMMA Least ==
  ASSUME NEW Places, Places \subseteq Nat, Places # {}
  PROVE  Min(Places) \in Places /\ \A q \in Places : Min(Places) <= q
<1>1. PICK t \in Places : \A u \in Places : ~ (<<u, t>> \in OpToRel(<, Nat))
  BY NatLessThanWellFounded, WFMin
<1>2. ASSUME NEW u \in Places PROVE t <= u
  <2>1. ~(u < t)
    BY <1>1 DEF OpToRel
  <2> QED BY <2>1
<1>3. \E x \in Places : \A u \in Places : x <= u
  BY <1>2
<1> QED BY <1>3 DEF Min

LEMMA Greatest ==
  ASSUME NEW n \in Nat, NEW Places, Places \subseteq 0..n, Places # {}
  PROVE  Max(Places) \in Places /\ \A q \in Places : q <= Max(Places)
<1> DEFINE T == {n - q : q \in Places}
<1>1. T \subseteq Nat /\ T # {}
  <2>1. \A q \in Places : n - q \in Nat
    OBVIOUS
  <2>2. PICK q \in Places : TRUE
    OBVIOUS
  <2> QED BY <2>1, <2>2
<1>2. PICK t \in T : \A u \in T : t <= u
  <2> HIDE DEF T
  <2> QED BY <1>1, Least
<1>3. PICK x \in Places : t = n - x
  OBVIOUS
<1>4. ASSUME NEW q \in Places PROVE x >= q
  <2>1. n - q \in T
    OBVIOUS
  <2>2. n - x <= n - q
    BY <1>2, <1>3, <2>1
  <2> QED BY <2>2
<1>5. \E y \in Places : \A q \in Places : y >= q
  BY <1>4
<1>6. Max(Places) \in Places /\ \A q \in Places : Max(Places) >= q
  BY <1>5 DEF Max
<1> QED BY <1>6

-----------------------------------------------------------------------------
(***************************************************************************)
(* The scanners.                                                           *)
(***************************************************************************)
LEMMA Classes ==
  /\ "EOS" \notin Char /\ "EOS" \notin Whitespace /\ "EOS" \notin Digit /\ "EOS" \notin SymbolChar
  /\ "EOS" \notin Char \ Newline
  /\ Whitespace \cap Digit = {} /\ Whitespace \cap SymbolChar = {} /\ Whitespace \cap Mark = {}
  /\ Newline \subseteq Whitespace
  /\ "#" \notin Whitespace /\ "quote" \notin Whitespace /\ "=" \notin Whitespace
BY DEF Char, Whitespace, Newline, SymbolChar, Digit, Mark

\* A loop over characters of a class ends before the first other one.
LEMMA EndFacts ==
  ASSUME NEW w, Len(w) \in Nat, NEW p \in 0..Len(w), NEW chars, "EOS" \notin chars
  PROVE  /\ EndOf(w, p, chars) \in p..Len(w)
         /\ Ch(w, EndOf(w, p, chars)) \notin chars
         /\ \A q \in p..(EndOf(w, p, chars) - 1) : Ch(w, q) \in chars
<1> DEFINE Places == {q \in p..Len(w) : Ch(w, q) \notin chars}
<1>1. Len(w) \in Places
  BY DEF Ch
<1>2. Places \subseteq Nat /\ Places # {}
  BY <1>1
<1>3. EndOf(w, p, chars) = Min(Places)
  BY DEF EndOf
<1>4. Min(Places) \in Places /\ \A q \in Places : Min(Places) <= q
  <2> HIDE DEF Places
  <2> QED BY <1>2, Least
<1>5. ASSUME NEW q \in p..(Min(Places) - 1) PROVE Ch(w, q) \in chars
  <2>1. Min(Places) \in p..Len(w)
    BY <1>4
  <2>2. q \in p..Len(w) /\ ~(Min(Places) <= q)
    BY <2>1
  <2> QED BY <1>4, <2>2
<1> QED BY <1>3, <1>4, <1>5

\* The position that find_first_non_whitespace goes on from, behind a comment.
Behind(w, p) == SkipTillLineEnd(w, EndOf(w, p, Whitespace) + 1)

LEMMA BehindFacts ==
  ASSUME NEW w, Len(w) \in Nat, NEW p \in 0..Len(w)
  PROVE  /\ EndOf(w, p, Whitespace) \in p..Len(w)
         /\ Ch(w, EndOf(w, p, Whitespace)) \notin Whitespace
         /\ Ch(w, EndOf(w, p, Whitespace)) = "#" => Behind(w, p) \in (p + 1)..Len(w)
<1>1. /\ EndOf(w, p, Whitespace) \in p..Len(w)
      /\ Ch(w, EndOf(w, p, Whitespace)) \notin Whitespace
  BY EndFacts, Classes
<1>2. ASSUME Ch(w, EndOf(w, p, Whitespace)) = "#" PROVE Behind(w, p) \in (p + 1)..Len(w)
  <2>1. PICK e : e = EndOf(w, p, Whitespace) + 1
    OBVIOUS
  <2>2. e \in 0..Len(w) /\ e >= p + 1
    BY <1>1, <1>2, <2>1 DEF Ch
  <2>3. EndOf(w, e, Char \ Newline) \in e..Len(w)
    BY <2>2, EndFacts, Classes
  <2> QED BY <2>1, <2>2, <2>3 DEF Behind, SkipTillLineEnd
<1> QED BY <1>1, <1>2

Finding(w, f, k) ==
  [p \in k..Len(w) |-> IF Ch(w, EndOf(w, p, Whitespace)) = "#" THEN f[Behind(w, p)]
                       ELSE EndOf(w, p, Whitespace)]

LEMMA FindExists ==
  ASSUME NEW w, Len(w) \in Nat
  PROVE  \E f : f = Finding(w, f, 0)
<1> DEFINE Good == {k \in 0..Len(w) : \E f : f = Finding(w, f, k)}
<1>1. Len(w) \in Good
  <2> DEFINE f == [p \in Len(w)..Len(w) |-> EndOf(w, p, Whitespace)]
  <2>1. ASSUME NEW p \in Len(w)..Len(w) PROVE Ch(w, EndOf(w, p, Whitespace)) # "#"
    BY BehindFacts
  <2>2. f = Finding(w, f, Len(w))
    BY <2>1 DEF Finding
  <2> QED BY <2>2
<1>2. Min(Good) \in Good /\ \A q \in Good : Min(Good) <= q
  <2>1. Good \subseteq Nat /\ Good # {}
    BY <1>1
  <2> HIDE DEF Good
  <2> QED BY <2>1, Least
<1>3. CASE Min(Good) # 0
  <2>1. PICK k : k = Min(Good)
    OBVIOUS
  <2>2. k \in 1..Len(w) /\ k - 1 \notin Good /\ k - 1 \in 0..Len(w)
    BY <1>2, <1>3, <2>1
  <2>3. PICK f : f = Finding(w, f, k)
    BY <1>2, <2>1
  <2> DEFINE g == [p \in (k - 1)..Len(w) |->
                     IF p \in k..Len(w) THEN f[p]
                     ELSE IF Ch(w, EndOf(w, p, Whitespace)) = "#" THEN f[Behind(w, p)]
                     ELSE EndOf(w, p, Whitespace)]
  <2>4. \A p \in (k - 1)..Len(w) : Ch(w, EndOf(w, p, Whitespace)) = "#" => Behind(w, p) \in k..Len(w)
    <3> SUFFICES ASSUME NEW p \in (k - 1)..Len(w), Ch(w, EndOf(w, p, Whitespace)) = "#"
                 PROVE  Behind(w, p) \in k..Len(w)
      OBVIOUS
    <3>1. p \in 0..Len(w)
      BY <2>2
    <3>2. Behind(w, p) \in (p + 1)..Len(w)
      BY <3>1, BehindFacts
    <3> QED BY <2>2, <3>2
  <2>5. \A q \in k..Len(w) : q \in (k - 1)..Len(w) /\ g[q] = f[q]
    BY <2>2
  <2>6. \A p \in k..Len(w) : f[p] = IF Ch(w, EndOf(w, p, Whitespace)) = "#" THEN f[Behind(w, p)]
                                    ELSE EndOf(w, p, Whitespace)
    BY <2>3 DEF Finding
  <2>7. \A p \in (k - 1)..Len(w) :
           g[p] = IF Ch(w, EndOf(w, p, Whitespace)) = "#" THEN f[Behind(w, p)]
                  ELSE EndOf(w, p, Whitespace)
    BY <2>6
  <2>8. \A p \in (k - 1)..Len(w) :
           g[p] = IF Ch(w, EndOf(w, p, Whitespace)) = "#" THEN g[Behind(w, p)]
                  ELSE EndOf(w, p, Whitespace)
    BY <2>4, <2>5, <2>7
  <2>9. g = [p \in (k - 1)..Len(w) |-> g[p]]
    OBVIOUS
  <2> HIDE DEF g
  <2>10. g = Finding(w, g, k - 1)
    BY <2>8, <2>9 DEF Finding
  <2>11. k - 1 \in Good
    BY <2>2, <2>10
  <2> QED BY <2>2, <2>11
<1>4. CASE Min(Good) = 0
  BY <1>2, <1>4
<1> QED BY <1>3, <1>4

\* Blanks and comments are skipped up to the first other character.
LEMMA FindFacts ==
  ASSUME NEW w, Len(w) \in Nat
  PROVE  /\ FindFirstNonWhitespace(w, 0) \in 0..Len(w)
         /\ Ch(w, FindFirstNonWhitespace(w, 0)) \notin Whitespace
<1> DEFINE F == CHOOSE f : f = Finding(w, f, 0)
<1>1. F = Finding(w, F, 0)
  BY FindExists
<1>2. FindFirstNonWhitespace(w, 0) = F[0]
  BY DEF FindFirstNonWhitespace, Finding, Behind
<1> HIDE DEF F
<1> DEFINE Bad == {p \in 0..Len(w) : ~(F[p] \in 0..Len(w) /\ Ch(w, F[p]) \notin Whitespace)}
<1>3. CASE Bad # {}
  <2>1. Max(Bad) \in Bad /\ \A q \in Bad : q <= Max(Bad)
    <3>1. Bad \subseteq 0..Len(w)
      OBVIOUS
    <3> HIDE DEF Bad
    <3> QED BY <1>3, <3>1, Greatest
  <2>2. PICK p : p = Max(Bad)
    OBVIOUS
  <2>3. p \in 0..Len(w) /\ p \in Bad
    BY <2>1, <2>2
  <2>4. /\ EndOf(w, p, Whitespace) \in 0..Len(w)
        /\ Ch(w, EndOf(w, p, Whitespace)) \notin Whitespace
        /\ Ch(w, EndOf(w, p, Whitespace)) = "#" => Behind(w, p) \in (p + 1)..Len(w)
    BY <2>3, BehindFacts
  <2>5. F[p] = IF Ch(w, EndOf(w, p, Whitespace)) = "#" THEN F[Behind(w, p)]
               ELSE EndOf(w, p, Whitespace)
    BY <1>1, <2>3 DEF Finding
  <2>6. \A q \in (p + 1)..Len(w) : q \in 0..Len(w) /\ q \notin Bad
    BY <2>1, <2>2, <2>3
  <2> QED BY <2>3, <2>4, <2>5, <2>6
<1>4. CASE Bad = {}
  <2>1. 0 \in 0..Len(w) /\ 0 \notin Bad
    BY <1>4
  <2> QED BY <1>2, <2>1
<1> QED BY <1>3, <1>4

LEMMA FindsHere ==
  ASSUME NEW w, Len(w) \in Nat, Ch(w, 0) \notin Whitespace, Ch(w, 0) # "#"
  PROVE  FindFirstNonWhitespace(w, 0) = 0
<1> DEFINE F == CHOOSE f : f = Finding(w, f, 0)
<1>1. F = Finding(w, F, 0)
  BY FindExists
<1>2. FindFirstNonWhitespace(w, 0) = F[0]
  BY DEF FindFirstNonWhitespace, Finding, Behind
<1> HIDE DEF F
<1>3. EndOf(w, 0, Whitespace) = 0
  <2>1. PICK e : e = EndOf(w, 0, Whitespace)
    OBVIOUS
  <2>2. e \in 0..Len(w) /\ \A q \in 0..(e - 1) : Ch(w, q) \in Whitespace
    BY <2>1, EndFacts, Classes
  <2>3. e = 0
    BY <2>2
  <2> QED BY <2>1, <2>3
<1> QED BY <1>1, <1>2, <1>3 DEF Finding

Put(c, read) == [read EXCEPT !.chars = <<c>> \o @]

Reading(w, f, k) ==
  [p \in k..(Len(w) + 1) |->
     CASE Ch(w, p) = "EOS"    -> [closed |-> FALSE, at |-> p, chars |-> << >>]
       [] Ch(w, p) = "quote"  -> [closed |-> TRUE, at |-> p, chars |-> << >>]
       [] Ch(w, p) = "bslash" -> Put(Unescaped(Ch(w, p + 1)), f[p + 2])
       [] OTHER               -> Put(Ch(w, p), f[p + 1])]

\* One round of the loop, given what the rounds behind it read.
Round(w, p, f) ==
  IF Ch(w, p) = "EOS" THEN [closed |-> FALSE, at |-> p, chars |-> << >>]
  ELSE IF Ch(w, p) = "quote" THEN [closed |-> TRUE, at |-> p, chars |-> << >>]
  ELSE IF Ch(w, p) = "bslash" THEN Put(Unescaped(Ch(w, p + 1)), f[p + 2])
  ELSE Put(Ch(w, p), f[p + 1])

LEMMA ReadingByRounds ==
  ASSUME NEW w, Len(w) \in Nat, NEW f, NEW k \in Nat
  PROVE  Reading(w, f, k) = [p \in k..(Len(w) + 1) |-> Round(w, p, f)]
<1>1. \A p \in k..(Len(w) + 1) : Reading(w, f, k)[p] = Round(w, p, f)
  BY DEF Reading, Round
<1> QED BY <1>1 DEF Reading

LEMMA ReadExists ==
  ASSUME NEW w, Len(w) \in Nat
  PROVE  \E f : f = Reading(w, f, 0)
<1> DEFINE Good == {k \in 0..(Len(w) + 1) : \E f : f = Reading(w, f, k)}
<1>1. Len(w) + 1 \in Good
  <2> DEFINE f == [p \in (Len(w) + 1)..(Len(w) + 1) |-> [closed |-> FALSE, at |-> p, chars |-> << >>]]
  <2>1. \A p \in (Len(w) + 1)..(Len(w) + 1) : Ch(w, p) = "EOS"
    BY DEF Ch
  <2>2. f = Reading(w, f, Len(w) + 1)
    BY <2>1 DEF Reading
  <2> QED BY <2>2
<1>2. Min(Good) \in Good /\ \A q \in Good : Min(Good) <= q
  <2>1. Good \subseteq Nat /\ Good # {}
    BY <1>1
  <2> HIDE DEF Good
  <2> QED BY <2>1, Least
<1>3. CASE Min(Good) # 0
  <2>1. PICK k : k = Min(Good)
    OBVIOUS
  <2>2. k \in 0..(Len(w) + 1) /\ k # 0
    BY <1>2, <1>3, <2>1
  <2>3. PICK f : f = Reading(w, f, k)
    BY <1>2, <2>1
  <2> HIDE DEF Good
  <2>0. k - 1 \notin Good /\ k - 1 \in 0..(Len(w) + 1)
    BY <1>2, <2>1, <2>2
  <2>4. f = [p \in k..(Len(w) + 1) |-> Round(w, p, f)]
    BY <2>2, <2>3, ReadingByRounds
  <2> DEFINE g == [p \in (k - 1)..(Len(w) + 1) |-> Round(w, p, f)]
  <2>5. ASSUME NEW p \in (k - 1)..(Len(w) + 1) PROVE Round(w, p, g) = Round(w, p, f)
    <3>1. CASE p < Len(w)
      <4>1. p + 1 \in k..(Len(w) + 1) /\ p + 2 \in k..(Len(w) + 1)
        BY <2>2, <3>1
      <4>2. \A q \in k..(Len(w) + 1) : q \in (k - 1)..(Len(w) + 1) /\ f[q] = Round(w, q, f)
        BY <2>2, <2>4
      <4>3. \A q \in k..(Len(w) + 1) : f[q] = g[q]
        BY <4>2
      <4>4. g[p + 1] = f[p + 1] /\ g[p + 2] = f[p + 2]
        BY <4>1, <4>3
      <4> HIDE DEF g
      <4> QED BY <4>4 DEF Round
    <3>2. CASE ~(p < Len(w))
      <4> HIDE DEF g
      <4> QED BY <3>2 DEF Round, Ch
    <3> QED BY <3>1, <3>2
  <2>6. g = [p \in (k - 1)..(Len(w) + 1) |-> Round(w, p, g)]
    BY <2>5, Zenon
  <2> HIDE DEF g
  <2>7. g = Reading(w, g, k - 1)
    BY <2>2, <2>6, ReadingByRounds
  <2>8. k - 1 \in Good
    BY <2>0, <2>7 DEF Good
  <2> QED BY <2>0, <2>8
<1>4. CASE Min(Good) = 0
  BY <1>2, <1>4
<1> QED BY <1>3, <1>4

LEMMA PutFacts ==
  ASSUME NEW c, NEW closed, NEW at, NEW chars
  PROVE  Put(c, [closed |-> closed, at |-> at, chars |-> chars])
           = [closed |-> closed, at |-> at, chars |-> <<c>> \o chars]
<1>1. PICK read : read = [closed |-> closed, at |-> at, chars |-> chars]
  OBVIOUS
<1>2. read.chars = chars
  BY <1>1
<1>3. PICK x : x = <<c>> \o chars
  OBVIOUS
<1>4. [read EXCEPT !.chars = x] = [closed |-> closed, at |-> at, chars |-> x]
  BY <1>1
<1> QED BY <1>1, <1>2, <1>3, <1>4, Zenon DEF Put

\* What the loop read from q on, if it began there: where it ended, and why.
Right(w, read, q) ==
  \E closed, at, chars :
    /\ closed \in BOOLEAN /\ at \in q..(Len(w) + 1)
    /\ read = [closed |-> closed, at |-> at, chars |-> chars]
    /\ closed => Ch(w, at) = "quote"
    /\ closed /\ w \in Seq(Char) => chars \in Seq(Char)

LEMMA PutRight ==
  ASSUME NEW w, Len(w) \in Nat, NEW q \in Nat, NEW r \in Nat, q <= r, NEW c, NEW read,
         Right(w, read, r), w \in Seq(Char) /\ r < Len(w) => c \in Char
  PROVE  Right(w, Put(c, read), q)
<1>1. PICK closed, at, chars :
        /\ closed \in BOOLEAN /\ at \in r..(Len(w) + 1)
        /\ read = [closed |-> closed, at |-> at, chars |-> chars]
        /\ closed => Ch(w, at) = "quote"
        /\ closed /\ w \in Seq(Char) => chars \in Seq(Char)
  BY Zenon DEF Right
<1>2. Put(c, read) = [closed |-> closed, at |-> at, chars |-> <<c>> \o chars]
  BY <1>1, PutFacts, Zenon
<1>3. at \in q..(Len(w) + 1)
  BY <1>1
<1>4. closed /\ w \in Seq(Char) => <<c>> \o chars \in Seq(Char)
  <2> SUFFICES ASSUME closed, w \in Seq(Char) PROVE <<c>> \o chars \in Seq(Char)
    OBVIOUS
  <2>1. r < Len(w)
    BY <1>1 DEF Ch
  <2>2. c \in Char /\ chars \in Seq(Char)
    BY <1>1, <2>1
  <2> QED BY <2>2
<1> QED BY <1>1, <1>2, <1>3, <1>4, Zenon DEF Right

LEMMA CharFacts ==
  /\ \A c \in Char : Unescaped(c) \in Char
  /\ \A w \in Seq(Char), p \in Nat : p < Len(w) => Ch(w, p) \in Char
<1>1. ASSUME NEW c \in Char PROVE Unescaped(c) \in Char
  <2>1. "LF" \in Char /\ "CR" \in Char
    BY DEF Char, Whitespace, Newline
  <2> QED BY <2>1 DEF Unescaped
<1>2. ASSUME NEW w \in Seq(Char), NEW p \in Nat, p < Len(w) PROVE Ch(w, p) \in Char
  BY <1>2 DEF Ch
<1> QED BY <1>1, <1>2

LEMMA ReadRounds ==
  ASSUME NEW w, Len(w) \in Nat
  PROVE  \E R : \A p \in 0..(Len(w) + 1) : R[p] = Round(w, p, R) /\ ReadChars(w, p) = R[p]
<1> DEFINE R == CHOOSE f : f = Reading(w, f, 0)
<1>1. R = Reading(w, R, 0)
  BY ReadExists
<1>2. \A p : ReadChars(w, p) = R[p]
  BY DEF ReadChars, Reading, Put
<1> HIDE DEF R
<1>3. R = [q \in 0..(Len(w) + 1) |-> Round(w, q, R)]
  BY <1>1, ReadingByRounds
<1>4. \A p \in 0..(Len(w) + 1) : R[p] = Round(w, p, R)
  BY <1>3
<1> QED BY <1>2, <1>4

\* The loop of read_string ends at a quote, or at the end of the text or, after
\* a backslash, one behind it.
LEMMA ReadCharsFacts ==
  ASSUME NEW w, Len(w) \in Nat, NEW p \in 0..(Len(w) + 1)
  PROVE  /\ ReadChars(w, p).at \in p..(Len(w) + 1)
         /\ ReadChars(w, p).closed => Ch(w, ReadChars(w, p).at) = "quote"
         /\ ReadChars(w, p).closed \in BOOLEAN
         /\ ReadChars(w, p).closed /\ w \in Seq(Char) => ReadChars(w, p).chars \in Seq(Char)
<1>1. PICK R : \A q \in 0..(Len(w) + 1) : R[q] = Round(w, q, R) /\ ReadChars(w, q) = R[q]
  BY ReadRounds
<1>2. ReadChars(w, p) = R[p]
  BY <1>1
<1>3. \A q \in 0..(Len(w) + 1) : R[q] = Round(w, q, R)
  BY <1>1
<1> DEFINE Bad == {q \in 0..(Len(w) + 1) : ~Right(w, R[q], q)}
<1>4. CASE Bad # {}
  <2>1. Max(Bad) \in Bad /\ \A q \in Bad : q <= Max(Bad)
    <3>1. Bad \subseteq 0..(Len(w) + 1) /\ Len(w) + 1 \in Nat
      OBVIOUS
    <3> HIDE DEF Bad
    <3> QED BY <1>4, <3>1, Greatest
  <2>2. PICK q : q = Max(Bad)
    OBVIOUS
  <2>3. q \in 0..(Len(w) + 1) /\ q \in Bad
    BY <2>1, <2>2
  <2>4. \A r \in (q + 1)..(Len(w) + 1) : r \in 0..(Len(w) + 1) /\ r \notin Bad
    BY <2>1, <2>2, <2>3
  <2>5. \A r \in (q + 1)..(Len(w) + 1) : Right(w, R[r], r)
    BY <2>4
  <2>6. ~Right(w, R[q], q)
    BY <2>3
  <2> HIDE DEF Bad
  <2>7. R[q] = Round(w, q, R)
    BY <1>3, <2>3
  <2>8. CASE Ch(w, q) = "EOS"
    <3>1. R[q] = [closed |-> FALSE, at |-> q, chars |-> << >>] /\ q \in q..(Len(w) + 1)
      BY <2>3, <2>7, <2>8 DEF Round
    <3>2. Right(w, R[q], q)
      BY <3>1, Zenon DEF Right
    <3> QED BY <2>6, <3>2
  <2>9. CASE Ch(w, q) = "quote"
    <3>1. R[q] = [closed |-> TRUE, at |-> q, chars |-> << >>] /\ q \in q..(Len(w) + 1) /\ << >> \in Seq(Char)
      BY <2>3, <2>7, <2>9 DEF Round
    <3>2. Right(w, R[q], q)
      BY <2>9, <3>1, Zenon DEF Right
    <3> QED BY <2>6, <3>2
  <2>10. CASE Ch(w, q) \notin {"EOS", "quote"}
    <3>1. q + 1 \in (q + 1)..(Len(w) + 1) /\ q + 2 \in (q + 1)..(Len(w) + 1) /\ q \in Nat
      BY <2>3, <2>10 DEF Ch
    <3>2. Right(w, R[q + 1], q + 1) /\ Right(w, R[q + 2], q + 2)
      BY <2>5, <3>1
    <3>3. /\ Right(w, Put(Ch(w, q), R[q + 1]), q)
          /\ Right(w, Put(Unescaped(Ch(w, q + 1)), R[q + 2]), q)
      <4>1. /\ w \in Seq(Char) /\ q + 1 < Len(w) => Ch(w, q) \in Char
            /\ w \in Seq(Char) /\ q + 2 < Len(w) => Unescaped(Ch(w, q + 1)) \in Char
        BY <3>1, CharFacts
      <4> QED BY <3>1, <3>2, <4>1, PutRight
    <3>4. \/ R[q] = Put(Unescaped(Ch(w, q + 1)), R[q + 2])
          \/ R[q] = Put(Ch(w, q), R[q + 1])
      BY <2>7, <2>10 DEF Round
    <3> QED BY <2>6, <3>3, <3>4
  <2> QED BY <2>8, <2>9, <2>10
<1>5. CASE Bad = {}
  <2>1. Right(w, R[p], p)
    BY <1>5
  <2>2. PICK closed, at, chars :
          /\ closed \in BOOLEAN /\ at \in p..(Len(w) + 1)
          /\ R[p] = [closed |-> closed, at |-> at, chars |-> chars]
          /\ closed => Ch(w, at) = "quote"
          /\ closed /\ w \in Seq(Char) => chars \in Seq(Char)
    BY <2>1, Zenon DEF Right
  <2> QED BY <1>2, <2>2
<1> QED BY <1>4, <1>5

\* How many characters of w the token t is given up with.
Uses(t) == IF t.type = "QUOTE" THEN t.start + t.len + 2 ELSE t.start + t.len

\* A token of w: what is skipped before it, how far it goes, and that it was
\* peeked at.
IsToken(w, t) ==
  /\ t.start \in 0..Len(w) /\ Ch(w, t.start) \notin Whitespace
  /\ t.reach \in t.start..(Len(w) + 1) /\ t.len \in Nat
  /\ t.type # "FAIL" => /\ Uses(t) \in (t.start + 1)..(t.reach + 1)
                        /\ Ch(w, Uses(t) - 1) \notin Newline
  /\ t.type \in {"SYMBOL", "IF", "INTEGER", "FLOATING"} =>
       t.start + t.len <= t.reach /\ t.start + t.len <= Len(w)

\* A token that is a scanned stretch of w, or none.
LEMMA StretchIsToken ==
  ASSUME NEW w, Len(w) \in Nat, NEW p \in 0..Len(w), Ch(w, p) \notin Whitespace,
         NEW type, type # "QUOTE", NEW e \in p..Len(w), NEW reach \in e..(Len(w) + 1),
         type # "FAIL" => e > p /\ Ch(w, e - 1) \notin Newline
  PROVE  IsToken(w, Token(type, p, e - p, reach))
<1>1. PICK t : t = Token(type, p, e - p, reach)
  OBVIOUS
<1>2. t.type = type /\ t.start = p /\ t.len = e - p /\ t.reach = reach
  BY <1>1 DEF Token
<1>3. Uses(t) = e
  BY <1>2 DEF Uses
<1> QED BY <1>1, <1>2, <1>3 DEF IsToken

LEMMA NameIsToken ==
  ASSUME NEW w, Len(w) \in Nat, NEW p \in 0..Len(w), Ch(w, p) \notin Whitespace
  PROVE  IsToken(w, ReadName(w, p))
<1>1. PICK e : e = EndOf(w, p, SymbolChar)
  OBVIOUS
<1>2. e \in p..Len(w) /\ \A q \in p..(e - 1) : Ch(w, q) \in SymbolChar
  BY <1>1, EndFacts, Classes
<1>3. e > p => Ch(w, e - 1) \notin Newline
  BY <1>2, Classes
<1>4. \/ ReadName(w, p) \in {Token(type, p, e - p, e) : type \in {"IF", "SYMBOL"}} /\ e > p
      \/ ReadName(w, p) = Token("FAIL", p, e - p, e)
  <2>1. CASE e = p
    BY <1>1, <2>1 DEF ReadName
  <2>2. CASE e > p /\ EqualsIf(SubSeq(w, p + 1, e))
    BY <1>1, <1>2, <2>2 DEF ReadName
  <2>3. CASE e > p /\ ~EqualsIf(SubSeq(w, p + 1, e))
    BY <1>1, <1>2, <2>3 DEF ReadName
  <2> QED BY <1>2, <2>1, <2>2, <2>3
<1>5. e \in e..(Len(w) + 1)
  BY <1>2
<1> QED BY <1>2, <1>3, <1>4, <1>5, StretchIsToken

LEMMA NumberIsToken ==
  ASSUME NEW w, Len(w) \in Nat, NEW p \in 0..Len(w), Ch(w, p) \in Digit
  PROVE  IsToken(w, ReadNumber(w, p))
<1>1. PICK d : d = EndOf(w, p, Digit)
  OBVIOUS
<1>2. d \in p..Len(w) /\ (\A q \in p..(d - 1) : Ch(w, q) \in Digit) /\ Ch(w, d) \notin Digit
  BY <1>1, EndFacts, Classes
<1>3. d > p /\ Ch(w, d - 1) \notin Newline
  <2>1. d # p
    BY <1>2
  <2>2. Ch(w, d - 1) \in Digit
    BY <1>2, <2>1
  <2> QED BY <1>2, <2>1, <2>2, Classes
<1>4. PICK b : b = IF Ch(w, d) = "." THEN d + 1 ELSE d
  OBVIOUS
<1>5. b \in d..Len(w)
  BY <1>2, <1>4 DEF Ch
<1>6. PICK e : e = EndOf(w, b, Digit)
  OBVIOUS
<1>7. e \in b..Len(w) /\ \A q \in b..(e - 1) : Ch(w, q) \in Digit
  <2>1. b \in 0..Len(w)
    BY <1>2, <1>5
  <2> QED BY <1>6, <2>1, EndFacts, Classes
<1>8. Ch(w, d) = "." /\ e # d + 1 => e > p /\ Ch(w, e - 1) \notin Newline
  <2> SUFFICES ASSUME Ch(w, d) = ".", e # d + 1 PROVE e > p /\ Ch(w, e - 1) \notin Newline
    OBVIOUS
  <2>1. e > b /\ e - 1 \in b..(e - 1)
    BY <1>4, <1>7
  <2>2. Ch(w, e - 1) \in Digit
    BY <1>7, <2>1
  <2>3. e > p
    BY <1>2, <1>5, <1>7, <2>1
  <2>4. Ch(w, e - 1) \notin Newline
    BY <2>2, Classes
  <2> QED BY <2>3, <2>4
<1>9. \/ ReadNumber(w, p) = Token("INTEGER", p, d - p, e)
      \/ ReadNumber(w, p) = Token("FLOATING", p, e - p, e) /\ Ch(w, d) = "." /\ e # d + 1
      \/ ReadNumber(w, p) = Token("FAIL", p, p - p, e)
  <2>0. p - p = 0
    OBVIOUS
  <2>1. ReadNumber(w, p) =
          LET hasfrac == Ch(w, d) = "." /\ e # d + 1
          IN  CASE ~hasfrac /\ Ch(w, d) \notin SymbolChar -> Token("INTEGER", p, d - p, e)
                [] hasfrac /\ Ch(w, e) \notin SymbolChar -> Token("FLOATING", p, e - p, e)
                [] OTHER -> Token("FAIL", p, 0, e)
    BY <1>1, <1>4, <1>6 DEF ReadNumber
  <2>2. CASE Ch(w, d) = "." /\ e # d + 1
    BY <2>0, <2>1, <2>2
  <2>3. CASE ~(Ch(w, d) = "." /\ e # d + 1)
    BY <2>0, <2>1, <2>3
  <2> QED BY <2>2, <2>3
<1>10. /\ p \in p..Len(w) /\ d \in p..Len(w) /\ e \in p..Len(w)
       /\ e \in p..(Len(w) + 1) /\ e \in d..(Len(w) + 1) /\ e \in e..(Len(w) + 1)
  BY <1>2, <1>5, <1>7
<1>11. Ch(w, p) \notin Whitespace
  BY Classes
<1>12. /\ IsToken(w, Token("INTEGER", p, d - p, e))
       /\ Ch(w, d) = "." /\ e # d + 1 => IsToken(w, Token("FLOATING", p, e - p, e))
       /\ IsToken(w, Token("FAIL", p, p - p, e))
  BY <1>3, <1>8, <1>10, <1>11, StretchIsToken
<1> QED BY <1>9, <1>12

LEMMA StringIsToken ==
  ASSUME NEW w, Len(w) \in Nat, NEW p \in 0..Len(w), Ch(w, p) = "quote"
  PROVE  IsToken(w, ReadString(w, p))
<1>1. PICK read : read = ReadChars(w, p + 1)
  OBVIOUS
<1>2. /\ read.at \in (p + 1)..(Len(w) + 1) /\ read.closed \in BOOLEAN
      /\ read.closed => Ch(w, read.at) = "quote"
  <2>1. p + 1 \in 0..(Len(w) + 1)
    OBVIOUS
  <2> QED BY <1>1, <2>1, ReadCharsFacts
<1>3. PICK t : t = ReadString(w, p)
  OBVIOUS
<1>4. /\ t.type = (IF read.closed THEN "QUOTE" ELSE "FAIL") /\ t.start = p
      /\ t.len = read.at - (p + 1) /\ t.reach = read.at
  BY <1>1, <1>3 DEF ReadString, Token
<1>5. read.closed => Uses(t) = read.at + 1
  BY <1>2, <1>4 DEF Uses
<1>6. "quote" \notin Newline
  BY Classes
<1> QED BY <1>2, <1>3, <1>4, <1>5, <1>6, Classes DEF IsToken

\* A token of one or two characters that were not scanned, or the end.
LEMMA MarkIsToken ==
  ASSUME NEW w, Len(w) \in Nat, NEW p \in 0..Len(w), Ch(w, p) \notin Whitespace,
         NEW type, type \notin {"QUOTE", "FAIL", "SYMBOL", "IF", "INTEGER", "FLOATING"},
         NEW n \in Nat \ {0}, NEW reach \in p..(Len(w) + 1), p + n <= reach + 1,
         Ch(w, p + n - 1) \notin Newline
  PROVE  IsToken(w, Token(type, p, n, reach))
<1>1. PICK t : t = Token(type, p, n, reach)
  OBVIOUS
<1>2. t.type = type /\ t.start = p /\ t.len = n /\ t.reach = reach
  BY <1>1 DEF Token
<1>3. Uses(t) = p + n
  BY <1>2 DEF Uses
<1> QED BY <1>1, <1>2, <1>3 DEF IsToken

\* Only a string is a token of type QUOTE.
LEMMA QuoteBegins ==
  ASSUME NEW w, Len(w) \in Nat, Peek(w).type = "QUOTE"
  PROVE  /\ Ch(w, Peek(w).start) = "quote"
         /\ Peek(w) = ReadString(w, Peek(w).start)
<1>1. PICK p : p = FindFirstNonWhitespace(w, 0)
  OBVIOUS
<1>2. PICK c : c = Ch(w, p)
  OBVIOUS
<1>3. Peek(w) = CASE c = "EOS"   -> Token("EOS", p, 1, p)
                  [] c \in Mark  -> Token(c, p, 1, p)
                  [] c = "="     -> ReadEqual(w, p)
                  [] c = "quote" -> ReadString(w, p)
                  [] c \in Digit -> ReadNumber(w, p)
                  [] OTHER       -> ReadName(w, p)
  BY <1>1, <1>2 DEF Peek
<1>4. "quote" \notin Mark \cup Digit /\ "QUOTE" \notin Mark
  BY DEF Mark, Digit
<1>5. CASE c = "quote"
  <2>1. Peek(w) = ReadString(w, p)
    BY <1>3, <1>4, <1>5
  <2>2. Peek(w).start = p
    BY <2>1 DEF ReadString, Token
  <2> QED BY <1>2, <1>5, <2>1, <2>2
<1>6. CASE c # "quote"
  <2>1. ReadEqual(w, p).type # "QUOTE"
    BY DEF ReadEqual, Token
  <2>2. ReadNumber(w, p).type # "QUOTE"
    BY DEF ReadNumber, Token
  <2>3. ReadName(w, p).type # "QUOTE"
    <3>1. PICK e : e = EndOf(w, p, SymbolChar)
      OBVIOUS
    <3>2. e \in p..Len(w) /\ p \in Nat
      BY <1>1, <3>1, FindFacts, EndFacts, Classes
    <3> QED BY <3>1, <3>2 DEF ReadName, Token
  <2>4. c \in Mark => Token(c, p, 1, p).type # "QUOTE"
    BY <1>4 DEF Token
  <2>5. Token("EOS", p, 1, p).type # "QUOTE"
    BY DEF Token
  <2> QED BY <1>3, <1>6, <2>1, <2>2, <2>3, <2>4, <2>5
<1> QED BY <1>5, <1>6

LEMMA QuoteChars ==
  ASSUME NEW w \in Seq(Char), Peek(w).type = "QUOTE", Peek(w).start \in 0..Len(w)
  PROVE  Peek(w).chars \in Seq(Char)
<1>1. PICK p \in 0..Len(w) : p = Peek(w).start
  OBVIOUS
<1>2. Len(w) \in Nat /\ p + 1 \in 0..(Len(w) + 1)
  OBVIOUS
<1>3. PICK read : read = ReadChars(w, p + 1)
  OBVIOUS
<1>4. read.closed /\ w \in Seq(Char) => read.chars \in Seq(Char)
  BY <1>2, <1>3, ReadCharsFacts
<1>5. Peek(w) = ReadString(w, p)
  BY <1>1, <1>2, QuoteBegins
<1>6. Peek(w).type = (IF read.closed THEN "QUOTE" ELSE "FAIL") /\ Peek(w).chars = read.chars
  BY <1>3, <1>5 DEF ReadString, Token
<1> QED BY <1>4, <1>6

\* Whatever the text, peek yields a token of it.
LEMMA PeekIsToken ==
  ASSUME NEW w, Len(w) \in Nat
  PROVE  IsToken(w, Peek(w))
<1>1. PICK p : p = FindFirstNonWhitespace(w, 0)
  OBVIOUS
<1>2. PICK c : c = Ch(w, p)
  OBVIOUS
<1>3. p \in 0..Len(w) /\ Ch(w, p) \notin Whitespace /\ Ch(w, p) \notin Newline
  BY <1>1, FindFacts, Classes
<1>4. /\ p + 1 \in p..(Len(w) + 1) /\ p \in p..(Len(w) + 1)
      /\ p + 1 - 1 = p /\ p + 1 <= p + 1 /\ p + 1 <= p + 1 + 1 /\ p + 2 <= p + 1 + 1 /\ p + 2 - 1 = p + 1
  BY <1>3
<1>5. Peek(w) = CASE c = "EOS"   -> Token("EOS", p, 1, p)
                  [] c \in Mark  -> Token(c, p, 1, p)
                  [] c = "="     -> ReadEqual(w, p)
                  [] c = "quote" -> ReadString(w, p)
                  [] c \in Digit -> ReadNumber(w, p)
                  [] OTHER       -> ReadName(w, p)
  BY <1>1, <1>2 DEF Peek
<1>6. /\ "EOS" \notin Mark \cup Digit /\ "=" \notin Mark \cup Digit /\ "quote" \notin Mark \cup Digit
      /\ Mark \cap Digit = {}
      /\ Mark \cap {"QUOTE", "FAIL", "SYMBOL", "IF", "INTEGER", "FLOATING"} = {}
      /\ "=" \notin Newline
  BY DEF Mark, Digit, Newline
<1>7. CASE c = "EOS"
  <2>1. IsToken(w, Token("EOS", p, 1, p))
    BY <1>3, <1>4, MarkIsToken
  <2> QED BY <1>5, <1>6, <1>7, <2>1
<1>8. CASE c \in Mark
  <2>1. IsToken(w, Token(c, p, 1, p))
    BY <1>3, <1>4, <1>6, <1>8, MarkIsToken
  <2> QED BY <1>5, <1>6, <1>8, <2>1
<1>9. CASE c = "="
  <2>1. IsToken(w, Token("ASSIGN", p, 1, p + 1))
    BY <1>3, <1>4, MarkIsToken
  <2>2. Ch(w, p + 1) = "=" => IsToken(w, Token("ISEQUAL", p, 2, p + 1))
    BY <1>3, <1>4, <1>6, MarkIsToken
  <2>3. Peek(w) = ReadEqual(w, p)
    BY <1>5, <1>6, <1>9
  <2> QED BY <2>1, <2>2, <2>3 DEF ReadEqual
<1>10. CASE c = "quote"
  <2>1. Peek(w) = ReadString(w, p)
    BY <1>5, <1>6, <1>10
  <2> QED BY <1>2, <1>3, <1>10, <2>1, StringIsToken
<1>11. CASE c \in Digit
  <2>1. Peek(w) = ReadNumber(w, p)
    BY <1>5, <1>6, <1>11
  <2> QED BY <1>2, <1>3, <1>11, <2>1, NumberIsToken
<1>12. CASE c \notin {"EOS", "=", "quote"} \cup Mark \cup Digit
  <2>1. Peek(w) = ReadName(w, p)
    BY <1>5, <1>12
  <2> QED BY <1>3, <2>1, NameIsToken
<1> QED BY <1>7, <1>8, <1>9, <1>10, <1>11, <1>12

-----------------------------------------------------------------------------
(***************************************************************************)
(* The stream: what StreamProofs says of BufferedStream, for the parser's. *)
(***************************************************************************)
SP == INSTANCE StreamProofs WITH Lengths <- 0..MaxLength, Reach <- MaxLength + 1

LEMMA SPAssumption == SP!StreamAssumption
BY TokenizerAssumption DEF SP!StreamAssumption

LEMMA SameOperators ==
  /\ SP!EOS = S!EOS /\ SP!Left = S!Left /\ SP!vars = S!vars
  /\ \A m, n : SP!AtLeast(m, n) = S!AtLeast(m, n) /\ SP!AtMost(m, n) = S!AtMost(m, n)
  /\ \A n : /\ SP!Target(n) = S!Target(n) /\ SP!Wanted(n) = S!Wanted(n)
            /\ SP!NewSize(n) = S!NewSize(n) /\ SP!Filled(n) = S!Filled(n)
            /\ SP!Count(n) = S!Count(n)
BY DEF SP!EOS, S!EOS, SP!Left, S!Left, SP!vars, S!vars, SP!AtLeast, S!AtLeast, SP!AtMost, S!AtMost,
       SP!Target, S!Target, SP!Wanted, S!Wanted, SP!NewSize, S!NewSize, SP!Filled, S!Filled,
       SP!Count, S!Count, SP!Kept, S!Kept, SP!Chars, S!Chars

LEMMA SameActions ==
  /\ \A p : SP!PeekAt(p) <=> S!PeekAt(p)
  /\ \A n : SP!AdvanceBuffered(n) <=> S!AdvanceBuffered(n)
  /\ \A n : SP!AdvanceBeyond(n) <=> S!AdvanceBeyond(n)
  /\ SP!Skip <=> S!Skip
  /\ SP!SyncStream <=> S!SyncStream
<1>1. \A n : SP!FillBuffer(n) <=> S!FillBuffer(n)
  BY SameOperators DEF SP!FillBuffer, S!FillBuffer
<1>2. \A p : SP!PeekAt(p) <=> S!PeekAt(p)
  BY <1>1, SameOperators DEF SP!PeekAt, S!PeekAt, SP!HasChars, S!HasChars
<1>3. \A n : SP!AdvanceBuffered(n) <=> S!AdvanceBuffered(n)
  BY SameOperators DEF SP!AdvanceBuffered, S!AdvanceBuffered
<1>4. \A n : SP!AdvanceBeyond(n) <=> S!AdvanceBeyond(n)
  BY SameOperators DEF SP!AdvanceBeyond, S!AdvanceBeyond
<1>5. SP!Skip <=> S!Skip
  BY <1>1, SameOperators DEF SP!Skip, S!Skip
<1>6. SP!SyncStream <=> S!SyncStream
  BY SameOperators DEF SP!SyncStream, S!SyncStream
<1> QED BY <1>2, <1>3, <1>4, <1>5, <1>6

StreamOK == S!StreamInv /\ S!ReadsAhead

LEMMA SameInv == (SP!Inv <=> StreamOK) /\ (SP!Inv' <=> StreamOK')
<1>1. SP!Inv <=> StreamOK
  BY DEF SP!Inv, StreamOK, SP!StreamInv, S!StreamInv, SP!ReadsAhead, S!ReadsAhead,
         SP!TypeOK, S!TypeOK, SP!BufferOK, S!BufferOK, SP!EndOK, S!EndOK,
         SP!Left, S!Left, SP!AtLeast, S!AtLeast, SP!EOS, S!EOS
<1>2. SP!Inv' <=> StreamOK'
  BY DEF SP!Inv, StreamOK, SP!StreamInv, S!StreamInv, SP!ReadsAhead, S!ReadsAhead,
         SP!TypeOK, S!TypeOK, SP!BufferOK, S!BufferOK, SP!EndOK, S!EndOK,
         SP!Left, S!Left, SP!AtLeast, S!AtLeast, SP!EOS, S!EOS
<1> QED BY <1>1, <1>2

\* What the stream's invariant says of the parser's position.
LEMMA StreamFacts ==
  ASSUME StreamOK
  PROVE  /\ MaxLength \in Nat /\ INIT_SIZE \in Nat \ {0}
         /\ length \in 0..MaxLength /\ strm \in 0..length
         /\ Len(buffer) \in Nat /\ strm = pos + Len(buffer)
         /\ \A i \in 1..Len(buffer) : buffer[i] = pos + i - 1
         /\ buffpos \in 0..Len(buffer) /\ pos \in Nat /\ skip \in Nat /\ seen \in Nat
         /\ size \in Nat /\ Len(buffer) <= size
         /\ At \in 0..length
         /\ skip = 0 => At = pos + buffpos
<1>1. /\ length \in 0..MaxLength /\ strm \in 0..length /\ buffer \in Seq(Nat) /\ size \in Nat
      /\ buffpos \in 0..Len(buffer) /\ pos \in Nat /\ skip \in Nat /\ seen \in Nat
      /\ strm = pos + Len(buffer) /\ \A i \in 1..Len(buffer) : buffer[i] = pos + i - 1
      /\ Len(buffer) <= size
  BY DEF StreamOK, S!StreamInv, S!TypeOK, S!BufferOK
<1>2. Len(buffer) \in Nat
  BY <1>1
<1>3. MaxLength \in Nat /\ INIT_SIZE \in Nat \ {0}
  BY TokenizerAssumption
<1>4. At \in 0..length /\ (skip = 0 => At = pos + buffpos)
  BY <1>1, <1>2, <1>3 DEF At, S!AtMost
<1> QED BY <1>1, <1>2, <1>3, <1>4

\* peek_at: the parser stays where it is, and has the characters in the buffer,
\* or all that there are.
LEMMA StreamPeek ==
  ASSUME StreamOK, NEW p \in 0..(MaxLength + 1), S!PeekAt(p)
  PROVE  /\ StreamOK' /\ S!Next /\ skip = 0
         /\ UNCHANGED <<length, buffpos, pos, skip, At>>
         /\ seen' >= p + 1 /\ size' >= buffpos + p + 1 /\ size' >= size
         /\ strm' = length \/ Len(buffer') >= buffpos + p + 1
<1>1. StreamOK'
  BY SPAssumption, SameInv, SameActions, SP!PeekKeepsInv
<1>2. S!Next
  BY DEF S!Next
<1>3. /\ skip = 0 /\ UNCHANGED <<length, buffpos, pos, skip>>
      /\ S!HasChars(p + 1) /\ seen' = S!AtLeast(seen, p + 1)
  BY DEF S!PeekAt
<1>4. At' = At
  BY <1>3 DEF At
<1>5. /\ MaxLength \in Nat /\ INIT_SIZE \in Nat \ {0} /\ Len(buffer) \in Nat /\ buffpos \in Nat
      /\ seen \in Nat /\ size \in Nat /\ Len(buffer) <= size /\ p \in Nat
  BY StreamFacts
<1>6. seen' >= p + 1
  BY <1>3, <1>5 DEF S!AtLeast
<1>7. size' >= buffpos + p + 1 /\ size' >= size
  BY <1>3, <1>5 DEF S!HasChars, S!FillBuffer, S!NewSize, S!Target, S!AtLeast
<1>8. strm' = length \/ Len(buffer') >= buffpos + p + 1
  <2>1. Len(buffer') \in Nat /\ buffpos' = buffpos /\ length' = length
    <3>1. buffer' \in Seq(Nat)
      BY <1>1 DEF StreamOK, S!StreamInv, S!TypeOK
    <3> QED BY <1>3, <3>1
  <2>2. seen' > Len(buffer') - buffpos' => strm' = length'
    BY <1>1 DEF StreamOK, S!StreamInv, S!EndOK, S!Left
  <2>3. seen' \in Nat
    BY <1>1 DEF StreamOK, S!StreamInv, S!TypeOK
  <2> QED BY <1>5, <1>6, <2>1, <2>2, <2>3
<1> QED BY <1>1, <1>2, <1>3, <1>4, <1>6, <1>7, <1>8

\* advance, over characters that were peeked at: the parser moves by as many, or
\* to the end of the text.
LEMMA StreamAdvance ==
  ASSUME StreamOK, NEW n \in 0..(MaxLength + 2), n <= seen,
         S!AdvanceBuffered(n) \/ S!AdvanceBeyond(n)
  PROVE  /\ StreamOK' /\ S!Next /\ skip = 0 /\ UNCHANGED <<length, size>>
         /\ At' = IF At + n <= length THEN At + n ELSE length
<1>1. S!Advance(n) /\ n \in 0..(MaxLength + 1 + 1)
  <2>1. S!Advance(n)
    BY DEF S!Advance
  <2>2. MaxLength \in Nat
    BY TokenizerAssumption
  <2> QED BY <2>1, <2>2
<1>2. SP!Advance(n)
  BY <1>1, SameActions DEF S!Advance, SP!Advance
<1>3. StreamOK'
  BY <1>1, <1>2, SPAssumption, SameInv, SP!AdvanceKeepsInv
<1>4. S!Next
  BY <1>1 DEF S!Next
<1>5. skip = 0 /\ UNCHANGED <<length, size>>
  BY DEF S!AdvanceBuffered, S!AdvanceBeyond
<1>6. SP!C!Advance(n)
  BY <1>1, <1>2, <1>3, SPAssumption, SameInv, SP!AdvanceIsAdvance
<1>7. At' = IF At + n <= length THEN At + n ELSE length
  BY <1>6 DEF SP!C!Advance, At, S!AtMost, SP!AtMost
<1> QED BY <1>3, <1>4, <1>5, <1>7

\* The loop of advance, and sync_stream: the parser stays where it is.
LEMMA StreamStays ==
  ASSUME StreamOK, S!Skip \/ S!SyncStream
  PROVE  StreamOK' /\ S!Next /\ UNCHANGED <<length, At>>
<1>1. StreamOK'
  BY SPAssumption, SameInv, SameActions, SP!SkipKeepsInv, SP!SyncKeepsInv
<1>2. UNCHANGED SP!C!vars
  BY SPAssumption, SameInv, SameActions, SP!SkipAndSyncStutter
<1>3. UNCHANGED <<length, At>>
  BY <1>2 DEF SP!C!vars, At, S!AtMost, SP!AtMost
<1> QED BY <1>1, <1>3 DEF S!Next

-----------------------------------------------------------------------------
(***************************************************************************)
(* The text that is left, and advance over n of its characters.            *)
(***************************************************************************)
LEMMA RestFacts ==
  ASSUME TypeOK, StreamOK
  PROVE  /\ Len(Rest) = length - At /\ Len(Rest) \in 0..MaxLength
         /\ \A p \in Nat : Ch(Rest, p) = Ch(text, At + p)
<1>1. /\ length \in 0..MaxLength /\ At \in 0..length /\ MaxLength \in Nat
      /\ text \in Seq(Char) /\ Len(text) = length
  BY StreamFacts DEF TypeOK
<1>2. /\ Rest \in Seq(Char) /\ Len(Rest) = length - At
      /\ \A i \in 1..(length - At) : Rest[i] = text[At + i]
  <2>1. PICK a \in Nat, n \in Nat : a = At /\ n = length
    BY <1>1
  <2>2. a <= n /\ n = Len(text)
    BY <1>1, <2>1
  <2>3. /\ SubSeq(text, a + 1, n) \in Seq(Char) /\ Len(SubSeq(text, a + 1, n)) = n - a
        /\ \A i \in 1..(n - a) : SubSeq(text, a + 1, n)[i] = text[a + i]
    BY <1>1, <2>2
  <2> QED BY <2>1, <2>3 DEF Rest
<1>3. ASSUME NEW p \in Nat PROVE Ch(Rest, p) = Ch(text, At + p)
  <2>1. p < Len(Rest) => Rest[p + 1] = text[At + p + 1]
    BY <1>1, <1>2
  <2>2. p < Len(Rest) <=> At + p < Len(text)
    BY <1>1, <1>2
  <2> QED BY <2>1, <2>2 DEF Ch
<1> QED BY <1>1, <1>2, <1>3

\* The parser's position does not come between the characters of a line break.
Parts(n) == n = 0 \/ Ch(Rest, n - 1) \notin Newline \/ Ch(Rest, n) \notin Newline

LEMMA BreaksFacts ==
  ASSUME NEW n \in Nat
  PROVE  /\ IsFiniteSet(Breaks(n)) /\ Cardinality(Breaks(n)) \in Nat
         /\ Breaks(n) # {} => Max(Breaks(n)) \in Breaks(n) /\ \A b \in Breaks(n) : b <= Max(Breaks(n))
<1>1. Breaks(n) \subseteq 0..(n - 1) /\ Breaks(n) \subseteq 0..n
  BY DEF Breaks
<1>2. IsFiniteSet(0..(n - 1))
  BY FS_Interval
<1>3. IsFiniteSet(Breaks(n))
  BY <1>1, <1>2, FS_Subset
<1> QED BY <1>1, <1>3, FS_CardinalityType, Greatest

\* A break's end, in the text, and that later breaks end later.
LEMMA AfterBreakFacts ==
  ASSUME TypeOK, StreamOK, NEW n \in Nat, NEW b \in Breaks(n)
  PROVE  /\ b \in 0..(n - 1) /\ Ch(Rest, b) \in Newline
         /\ AfterBreak(b) \in {At + b, At + b + 1}
         /\ \A c \in Breaks(n) : b < c => AfterBreak(b) < AfterBreak(c)
<1>1. At \in Nat
  BY StreamFacts
<1>2. \A c \in Breaks(n) : /\ c \in 0..(n - 1) /\ Ch(Rest, c) \in Newline
                           /\ AfterBreak(c) \in {At + c, At + c + 1}
  BY <1>1 DEF Breaks, AfterBreak
<1>3. ASSUME NEW c \in Breaks(n), b < c PROVE AfterBreak(b) < AfterBreak(c)
  <2>1. CASE AfterBreak(b) = At + b
    BY <1>1, <1>2, <1>3, <2>1
  <2>2. CASE AfterBreak(b) # At + b
    <3>1. Ch(Rest, b) = "CR" /\ Ch(Rest, b + 1) = "LF"
      BY <2>2 DEF AfterBreak
    <3>2. c # b + 1
      <4> SUFFICES ASSUME c = b + 1 PROVE FALSE
        OBVIOUS
      <4>1. c > 0 /\ c - 1 = b
        BY <1>2
      <4> QED BY <3>1, <4>1 DEF Breaks
    <3> QED BY <1>1, <1>2, <1>3, <3>2
  <2> QED BY <2>1, <2>2
<1> QED BY <1>2, <1>3

LEMMA BreaksCounted ==
  ASSUME TypeOK, StreamOK, NEW n \in Nat
  PROVE  /\ IsFiniteSet({AfterBreak(b) : b \in Breaks(n)})
         /\ Cardinality({AfterBreak(b) : b \in Breaks(n)}) = Cardinality(Breaks(n))
<1> DEFINE f == [b \in Breaks(n) |-> AfterBreak(b)]
           T == {AfterBreak(b) : b \in Breaks(n)}
<1>1. f \in [Breaks(n) -> T] /\ \A t \in T : \E b \in Breaks(n) : f[b] = t
  OBVIOUS
<1>2. f \in Surjection(Breaks(n), T)
  BY <1>1 DEF Surjection
<1>3. ASSUME NEW b \in Breaks(n), NEW c \in Breaks(n), f[b] = f[c] PROVE b = c
  <2>1. b \in 0..(n - 1) /\ c \in 0..(n - 1)
    BY AfterBreakFacts
  <2>2. b < c => AfterBreak(b) < AfterBreak(c)
    BY AfterBreakFacts
  <2>3. c < b => AfterBreak(c) < AfterBreak(b)
    BY AfterBreakFacts
  <2>4. AfterBreak(b) = AfterBreak(c) /\ AfterBreak(b) \in Int /\ AfterBreak(c) \in Int
    <3>1. At \in Nat
      BY StreamFacts
    <3> QED BY <1>3, <2>1, <3>1 DEF AfterBreak
  <2> QED BY <2>1, <2>2, <2>3, <2>4
<1>4. f \in Injection(Breaks(n), T)
  <2> HIDE DEF f, T
  <2> QED BY <1>1, <1>3 DEF Injection, IsInjective
<1>5. IsFiniteSet(Breaks(n))
  BY BreaksFacts
<1> HIDE DEF f, T
<1>6. IsFiniteSet(T) /\ Cardinality(T) = Cardinality(Breaks(n))
  BY <1>2, <1>4, <1>5, FS_Surjection
<1> QED BY <1>6 DEF T

\* What an advance finds and leaves, of the stream and of the text.
LEMMA AdvancesFacts ==
  ASSUME TypeOK, StreamOK, NEW n \in 0..(MaxLength + 2), n <= seen,
         NEW countnl \in BOOLEAN, Advances(n, countnl)
  PROVE  /\ StreamOK' /\ S!Next /\ skip = 0 /\ UNCHANGED <<text, length, mem, strings>>
         /\ n \in Nat /\ At \in 0..length /\ length \in Nat
         /\ At' = IF At + n <= length THEN At + n ELSE length
<1>1. S!AdvanceBuffered(n) \/ S!AdvanceBeyond(n)
  BY DEF Advances
<1>2. UNCHANGED <<text, mem, strings>>
  BY DEF Advances
<1>3. At \in 0..length /\ length \in Nat /\ n \in Nat
  BY StreamFacts
<1> QED BY <1>1, <1>2, <1>3, StreamAdvance

\* The line breaks that end in what is consumed are those that advance finds.
LEMMA NewEnds ==
  ASSUME TypeOK, StreamOK, NEW n \in 0..(MaxLength + 2), n <= seen,
         Advances(n, TRUE), Parts(n)
  PROVE  LineEnds' \ uncounted' = (LineEnds \ uncounted) \cup {AfterBreak(b) : b \in Breaks(n)}
<1>1. /\ UNCHANGED <<text, length>> /\ n \in Nat /\ At \in 0..length /\ length \in Nat
      /\ At' = IF At + n <= length THEN At + n ELSE length
  BY AdvancesFacts
<1>2. uncounted' = uncounted /\ uncounted \subseteq 0..(At - 1)
  BY DEF Advances, TypeOK
<1>3. PICK a \in Nat : a = At
  BY <1>1
<1>4. PICK b \in Nat : b = At'
  BY <1>1
<1>5. a <= b /\ b <= a + n /\ b <= length /\ (b < a + n => b = length) /\ length = Len(text)
  BY <1>1, <1>3, <1>4 DEF TypeOK
<1>6. \A p \in Nat : /\ Ch(Rest, p) = Ch(text, a + p)
                     /\ Ch(text, p) = IF p < length THEN text[p + 1] ELSE "EOS"
  BY <1>3, <1>5, RestFacts DEF Ch
<1> DEFINE Ends(p) == text[p + 1] = "LF" \/ (text[p + 1] = "CR" /\ Ch(text, p + 1) # "LF")
<1>7. LineEnds = {p \in 0..(a - 1) : Ends(p)} /\ LineEnds' = {p \in 0..(b - 1) : Ends(p)}
  BY <1>1, <1>3, <1>4 DEF LineEnds, Ch
<1>8. ASSUME NEW q \in a..(b - 1), Ends(q) PROVE \E c \in Breaks(n) : q = AfterBreak(c)
  <2>1. PICK p : p = q - a
    OBVIOUS
  <2>2. p \in 0..(n - 1) /\ q = a + p /\ q < length
    BY <1>5, <2>1
  <2>3. Ch(Rest, p) = text[q + 1] /\ Ch(Rest, p + 1) = Ch(text, q + 1)
    BY <1>6, <2>2
  <2>4. CASE text[q + 1] = "LF" /\ p > 0 /\ Ch(Rest, p - 1) = "CR"
    <3>1. p - 1 \in Breaks(n)
      BY <2>2, <2>4 DEF Breaks, Newline
    <3>2. p - 1 + 1 = p /\ a + (p - 1 + 1) = q
      BY <2>2
    <3>3. AfterBreak(p - 1) = q
      BY <1>3, <2>3, <2>4, <3>2 DEF AfterBreak
    <3> QED BY <3>1, <3>3
  <2>5. CASE text[q + 1] = "LF" /\ ~(p > 0 /\ Ch(Rest, p - 1) = "CR")
    <3>1. p \in Breaks(n)
      BY <2>2, <2>3, <2>5 DEF Breaks, Newline
    <3>2. AfterBreak(p) = q
      BY <1>3, <2>2, <2>3, <2>5 DEF AfterBreak
    <3> QED BY <3>1, <3>2
  <2>6. CASE text[q + 1] = "CR" /\ Ch(text, q + 1) # "LF"
    <3>1. p \in Breaks(n)
      BY <2>2, <2>3, <2>6 DEF Breaks, Newline
    <3>2. AfterBreak(p) = q
      BY <1>3, <2>2, <2>3, <2>6 DEF AfterBreak
    <3> QED BY <3>1, <3>2
  <2> QED BY <1>8, <2>4, <2>5, <2>6
<1>9. ASSUME NEW c \in Breaks(n) PROVE AfterBreak(c) \in a..(b - 1) /\ Ends(AfterBreak(c))
  <2>1. c \in 0..(n - 1) /\ Ch(Rest, c) \in Newline
    BY DEF Breaks
  <2>2. "EOS" \notin Newline /\ Newline = {"LF", "CR"}
    BY DEF Newline
  <2>3. a + c < length /\ Ch(Rest, c) = text[a + c + 1]
    BY <1>6, <2>1, <2>2
  <2>4. a + c \in a..(b - 1)
    BY <1>5, <2>1, <2>3
  <2>5. Ch(Rest, c + 1) = Ch(text, a + c + 1)
    BY <1>6, <2>1
  <2>6. CASE Ch(Rest, c) = "CR" /\ Ch(Rest, c + 1) = "LF"
    <3>1. c # n - 1
      <4> SUFFICES ASSUME c = n - 1 PROVE FALSE
        OBVIOUS
      <4>1. n = c + 1 /\ n # 0
        BY <1>1, <2>1
      <4> QED BY <2>2, <2>6, <4>1 DEF Parts
    <3>2. a + c + 1 < length /\ text[a + c + 2] = "LF"
      <4>1. a + c + 1 \in Nat /\ a + c + 1 + 1 = a + c + 2
        BY <2>1
      <4> QED BY <1>6, <2>5, <2>6, <4>1
    <3>3. AfterBreak(c) = a + c + 1 /\ a + c + 1 \in a..(b - 1) /\ a + c + 1 + 1 = a + c + 2
      BY <1>3, <1>5, <2>1, <2>6, <3>1, <3>2 DEF AfterBreak
    <3> QED BY <3>2, <3>3
  <2>7. CASE ~(Ch(Rest, c) = "CR" /\ Ch(Rest, c + 1) = "LF")
    <3>1. AfterBreak(c) = a + c
      BY <1>3, <2>7 DEF AfterBreak
    <3> QED BY <2>1, <2>2, <2>3, <2>4, <2>5, <2>7, <3>1
  <2> QED BY <2>6, <2>7
<1> HIDE DEF Ends
<1>10. LineEnds' = LineEnds \cup {AfterBreak(c) : c \in Breaks(n)}
  <2>1. \A q : q \in LineEnds' => q \in LineEnds \cup {AfterBreak(c) : c \in Breaks(n)}
    BY <1>5, <1>7, <1>8
  <2>2. \A q : q \in LineEnds => q \in LineEnds'
    BY <1>5, <1>7
  <2>3. \A c \in Breaks(n) : AfterBreak(c) \in LineEnds'
    BY <1>7, <1>9
  <2> QED BY <2>1, <2>2, <2>3
<1>11. \A c \in Breaks(n) : AfterBreak(c) \notin uncounted
  BY <1>2, <1>3, <1>9
<1> QED BY <1>2, <1>10, <1>11

\* The breaks that advance does not count are uncounted.
LEMMA SameEnds ==
  ASSUME TypeOK, StreamOK, NEW n \in 0..(MaxLength + 2), n <= seen, Advances(n, FALSE)
  PROVE  LineEnds' \ uncounted' = LineEnds \ uncounted
<1>1. /\ UNCHANGED <<text, length>> /\ n \in Nat /\ At \in 0..length /\ length \in Nat
      /\ At' = IF At + n <= length THEN At + n ELSE length
  BY AdvancesFacts
<1>2. PICK a \in Nat : a = At
  BY <1>1
<1>3. PICK b \in Nat : b = At'
  BY <1>1
<1>4. uncounted' = uncounted \cup {p \in a..(a + n - 1) : p < length}
  BY <1>2 DEF Advances
<1> DEFINE Ends(p) == text[p + 1] = "LF" \/ (text[p + 1] = "CR" /\ Ch(text, p + 1) # "LF")
<1>5. LineEnds = {p \in 0..(a - 1) : Ends(p)} /\ LineEnds' = {p \in 0..(b - 1) : Ends(p)}
  BY <1>1, <1>2, <1>3 DEF LineEnds, Ch
<1>6. a <= b /\ b <= a + n /\ b <= length
  BY <1>1, <1>2, <1>3
<1> HIDE DEF Ends
<1>7. \A q \in a..(b - 1) : q \in uncounted'
  BY <1>1, <1>4, <1>6
<1>8. \A q \in 0..(a - 1) : q \in 0..(b - 1) /\ (q \in uncounted' <=> q \in uncounted)
  BY <1>1, <1>4, <1>6
<1>9. \A q \in 0..(b - 1) : q \in a..(b - 1) \/ q \in 0..(a - 1)
  OBVIOUS
<1> QED BY <1>5, <1>7, <1>8, <1>9

LEMMA LinesAdvance ==
  ASSUME TypeOK, StreamOK, LinesOfTheText, NEW n \in 0..(MaxLength + 2), n <= seen,
         NEW countnl \in BOOLEAN, Advances(n, countnl), Parts(n)
  PROVE  LinesOfTheText'
<1> DEFINE E == LineEnds \ uncounted
           T == {AfterBreak(b) : b \in Breaks(n)}
<1>1. /\ line = 1 + Cardinality(E) /\ linestart = IF E = {} THEN 0 ELSE Max(E)
  BY DEF LinesOfTheText
<1>2. /\ At \in Nat /\ E \subseteq 0..(At - 1) /\ n \in Nat
  BY AdvancesFacts DEF LineEnds
<1>3. IsFiniteSet(E) /\ Cardinality(E) \in Nat
  <2>1. IsFiniteSet(0..(At - 1))
    BY <1>2, FS_Interval
  <2> QED BY <1>2, <2>1, FS_Subset, FS_CardinalityType
<1>4. CASE ~countnl
  <2>1. E' = E
    BY <1>4, SameEnds
  <2>2. UNCHANGED <<line, linestart>>
    BY <1>4 DEF Advances
  <2> QED BY <1>1, <2>1, <2>2 DEF LinesOfTheText
<1>5. CASE countnl /\ Breaks(n) = {}
  <2>1. E' = E
    BY <1>5, NewEnds
  <2>2. UNCHANGED <<line, linestart>>
    BY <1>5 DEF Advances
  <2> QED BY <1>1, <2>1, <2>2 DEF LinesOfTheText
<1>6. CASE countnl /\ Breaks(n) # {}
  <2>1. E' = E \cup T
    BY <1>6, NewEnds
  <2>2. line' = line + Cardinality(Breaks(n)) /\ linestart' = AfterBreak(Max(Breaks(n)))
    BY <1>6 DEF Advances
  <2>3. PICK m : m = Max(Breaks(n))
    OBVIOUS
  <2>4. m \in Breaks(n) /\ \A b \in Breaks(n) : b <= m
    BY <1>2, <1>6, <2>3, BreaksFacts
  <2>5. \A b \in Breaks(n) : b \in 0..(n - 1) /\ AfterBreak(b) \in {At + b, At + b + 1}
    BY <1>2, AfterBreakFacts
  <2>6. \A t \in T : t \in Nat /\ t >= At /\ t <= AfterBreak(m)
    <3> SUFFICES ASSUME NEW b \in Breaks(n)
                 PROVE  AfterBreak(b) \in Nat /\ AfterBreak(b) >= At /\ AfterBreak(b) <= AfterBreak(m)
      OBVIOUS
    <3>1. b < m => AfterBreak(b) < AfterBreak(m)
      BY <1>2, <2>4, AfterBreakFacts
    <3>2. b = m \/ b < m
      BY <2>4, <2>5
    <3> QED BY <1>2, <2>4, <2>5, <3>1, <3>2
  <2>7. E \cap T = {}
    BY <1>2, <2>6
  <2>8. IsFiniteSet(T) /\ Cardinality(T) = Cardinality(Breaks(n))
    BY <1>2, BreaksCounted
  <2>9. Cardinality(E \cup T) = Cardinality(E) + Cardinality(Breaks(n))
    <3>1. Cardinality(E \cup T) = Cardinality(E) + Cardinality(T) - Cardinality(E \cap T)
      <4> HIDE DEF E, T
      <4> QED BY <1>3, <2>8, FS_Union
    <3>2. Cardinality(E \cap T) = 0
      BY <2>7, FS_EmptySet
    <3>3. Cardinality(Breaks(n)) \in Nat
      BY <1>2, BreaksFacts
    <3> HIDE DEF E, T
    <3> QED BY <1>3, <2>8, <3>1, <3>2, <3>3
  <2>10. AfterBreak(m) \in T
    BY <2>4
  <2>11. Max(E \cup T) = AfterBreak(m)
    <3> HIDE DEF E, T
    <3>1. /\ E \cup T \subseteq 0..AfterBreak(m) /\ AfterBreak(m) \in E \cup T
          /\ AfterBreak(m) \in Nat
      <4>1. PICK z \in Nat : z = AfterBreak(m) /\ z >= At
        BY <2>6, <2>10
      <4>2. \A q \in E : q \in 0..z
        BY <1>2, <4>1
      <4>3. \A q \in T : q \in 0..z
        BY <2>6, <4>1
      <4> QED BY <2>10, <4>1, <4>2, <4>3
    <3>2. Max(E \cup T) \in E \cup T /\ \A q \in E \cup T : q <= Max(E \cup T)
      BY <3>1, Greatest
    <3>3. AfterBreak(m) <= Max(E \cup T) /\ Max(E \cup T) \in 0..AfterBreak(m)
      BY <3>1, <3>2
    <3> QED BY <3>1, <3>3
  <2>12. line' = 1 + Cardinality(E \cup T)
    <3>1. Cardinality(Breaks(n)) \in Nat
      BY <1>2, BreaksFacts
    <3> HIDE DEF E, T
    <3> QED BY <1>1, <1>3, <2>2, <2>9, <3>1
  <2>13. E \cup T # {}
    BY <2>10
  <2> QED BY <2>1, <2>2, <2>3, <2>11, <2>12, <2>13 DEF LinesOfTheText
<1> QED BY <1>4, <1>5, <1>6

\* advance leaves the parser between line breaks, and its counters numbers.
LEMMA AdvancesKeeps ==
  ASSUME TypeOK, StreamOK, BetweenBreaks, NEW n \in 0..(MaxLength + 2), n <= seen,
         NEW countnl \in BOOLEAN, Advances(n, countnl), Parts(n)
  PROVE  /\ BetweenBreaks' /\ line' \in Nat /\ linestart' \in Nat
         /\ uncounted' \subseteq 0..(At' - 1)
<1>1. /\ UNCHANGED <<text, length>> /\ n \in Nat /\ At \in 0..length /\ length \in Nat
      /\ At' = IF At + n <= length THEN At + n ELSE length
  BY AdvancesFacts
<1>2. line' \in Nat /\ linestart' \in Nat
  <2>1. CASE countnl /\ Breaks(n) # {}
    <3>1. line' = line + Cardinality(Breaks(n)) /\ linestart' = AfterBreak(Max(Breaks(n)))
      BY <2>1 DEF Advances
    <3>2. Cardinality(Breaks(n)) \in Nat /\ Max(Breaks(n)) \in Breaks(n)
      BY <1>1, <2>1, BreaksFacts
    <3>3. PICK m : m = Max(Breaks(n))
      OBVIOUS
    <3>4. m \in 0..(n - 1) /\ AfterBreak(m) \in {At + m, At + m + 1}
      BY <1>1, <3>2, <3>3, AfterBreakFacts
    <3>5. AfterBreak(m) \in Nat
      BY <1>1, <3>4
    <3> QED BY <3>1, <3>2, <3>3, <3>5 DEF TypeOK
  <2>2. CASE ~(countnl /\ Breaks(n) # {})
    BY <2>2 DEF Advances, TypeOK
  <2> QED BY <2>1, <2>2
<1>3. uncounted' \subseteq 0..(At' - 1)
  <2>1. uncounted' \subseteq uncounted \cup {p \in At..(At + n - 1) : p < length}
    BY DEF Advances
  <2>2. uncounted \subseteq 0..(At - 1)
    BY DEF TypeOK
  <2>3. PICK a \in Nat, b \in Nat : a = At /\ b = At'
    BY <1>1
  <2>4. \A q \in 0..(a - 1) : q \in 0..(b - 1)
    BY <1>1, <2>3
  <2>5. \A q \in a..(a + n - 1) : q < length => q \in 0..(b - 1)
    BY <1>1, <2>3
  <2> QED BY <2>1, <2>2, <2>3, <2>4, <2>5
<1>4. BetweenBreaks'
  <2> SUFFICES ASSUME At' \in 1..(length - 1), text[At'] = "CR", text[At' + 1] = "LF"
               PROVE  FALSE
    BY <1>1 DEF BetweenBreaks
  <2>1. At' = At + n /\ At + n < length
    BY <1>1
  <2>2. n # 0
    BY <1>1, <2>1 DEF BetweenBreaks
  <2>3. /\ n - 1 \in Nat /\ At + (n - 1) < length /\ At + (n - 1) + 1 = At + n
        /\ At + (n - 1) \in Nat /\ At + n \in Nat
    BY <1>1, <2>1, <2>2
  <2>4. Ch(Rest, n - 1) = "CR" /\ Ch(Rest, n) = "LF"
    <3>1. Ch(Rest, n - 1) = Ch(text, At + (n - 1)) /\ Ch(Rest, n) = Ch(text, At + n)
      BY <1>1, <2>3, RestFacts
    <3>2. Len(text) = length
      BY DEF TypeOK
    <3> QED BY <2>1, <2>3, <3>1, <3>2 DEF Ch
  <2> QED BY <2>2, <2>4 DEF Parts, Newline
<1> QED BY <1>2, <1>3, <1>4

-----------------------------------------------------------------------------
(***************************************************************************)
(* The invariant.  That line breaks are counted right needs that no token  *)
(* comes between the characters of one; that the stream is used right,     *)
(* that advance is given the token that was peeked at last.                *)
(***************************************************************************)
IInv == TokenInv /\ LinesOfTheText

LEMMA InvFacts ==
  ASSUME IInv
  PROVE  TypeOK /\ StreamOK /\ TokenIsNext /\ SeenAhead /\ BetweenBreaks /\ LinesOfTheText
BY DEF IInv, TokenInv, StreamOK

LEMMA NextTokenFacts ==
  ASSUME IInv
  PROVE  /\ Peek(Rest).start \in 0..Len(Rest) /\ Ch(Rest, Peek(Rest).start) \notin Newline
         /\ Peek(Rest).reach \in Peek(Rest).start..(MaxLength + 1) /\ Peek(Rest).len \in Nat
         /\ Peek(Rest).type # "FAIL" =>
              /\ Uses(Peek(Rest)) \in 1..(MaxLength + 2) /\ Uses(Peek(Rest)) <= Peek(Rest).reach + 1
              /\ Parts(Uses(Peek(Rest)))
         /\ Peek(Rest).type \in {"SYMBOL", "IF", "INTEGER", "FLOATING"} =>
              /\ Peek(Rest).start + Peek(Rest).len <= Peek(Rest).reach
              /\ Peek(Rest).start + Peek(Rest).len <= Len(Rest)
<1>1. PICK t : t = Peek(Rest)
  OBVIOUS
<1>2. Len(Rest) \in 0..MaxLength /\ MaxLength \in Nat
  BY InvFacts, RestFacts, TokenizerAssumption
<1>3. IsToken(Rest, t)
  BY <1>1, <1>2, PeekIsToken
<1>4. Newline \subseteq Whitespace
  BY Classes
<1>5. t.type # "FAIL" => Parts(Uses(t))
  BY <1>3 DEF IsToken, Parts
<1>6. t.type # "FAIL" => Uses(t) \in (t.start + 1)..(t.reach + 1)
  BY <1>3 DEF IsToken
<1> QED BY <1>1, <1>2, <1>3, <1>4, <1>5, <1>6 DEF IsToken

LEMMA InvInit == Init => IInv /\ S!Init
<1> SUFFICES ASSUME Init PROVE IInv /\ S!Init
  OBVIOUS
<1>1. S!Init /\ length = Len(text) /\ line = 1 /\ linestart = 0 /\ uncounted = {}
  BY DEF Init
<1>2. text \in Seq(Char)
  <2>1. PICK a \in Alphabets, n \in 0..MaxLength : text \in [1..n -> a]
    BY DEF Init
  <2>2. a \subseteq Char /\ n \in Nat
    BY TokenizerAssumption
  <2> QED BY <2>1, <2>2
<1>3. StreamOK
  <2>1. SP!Init
    BY <1>1 DEF SP!Init, S!Init, SP!EOS, S!EOS
  <2> QED BY <2>1, SPAssumption, SameInv, SP!InvInit
<1>4. At = 0
  BY <1>1, StreamFacts, <1>3 DEF S!Init
<1>5. TypeOK
  <2>1. mem = 0 /\ parsed = FALSE /\ ws = 0 /\ mode = "parsing"
    BY DEF Init
  <2>2. mem \in Nat /\ ws \in Nat /\ line \in Nat /\ linestart \in Nat /\ uncounted \subseteq 0..(At - 1)
    BY <1>1, <2>1
  <2>3. parsed \in BOOLEAN
    BY <2>1
  <2>4. mode \in {"parsing", "throwing", "locating", "quoting", "failed", "gone"}
    BY <2>1
  <2> QED BY <1>1, <1>2, <2>2, <2>3, <2>4 DEF TypeOK
<1>6. TokenIsNext /\ SeenAhead /\ BetweenBreaks
  BY <1>4 DEF Init, TokenIsNext, SeenAhead, BetweenBreaks
<1>7. LinesOfTheText
  <2>1. LineEnds = {}
    BY <1>4 DEF LineEnds
  <2>2. LineEnds \ uncounted = {} /\ Cardinality(LineEnds \ uncounted) = 0
    BY <2>1, FS_EmptySet
  <2> QED BY <1>1, <2>2 DEF LinesOfTheText
<1> QED BY <1>1, <1>3, <1>5, <1>6, <1>7 DEF IInv, TokenInv, StreamOK

\* What a step that leaves the parser where it is keeps.
LEMMA Stays ==
  ASSUME IInv, UNCHANGED <<text, length, At, line, linestart, uncounted>>
  PROVE  /\ Rest' = Rest /\ BetweenBreaks' /\ LinesOfTheText'
         /\ text' \in Seq(Char) /\ length' = Len(text')
         /\ line' \in Nat /\ linestart' \in Nat /\ uncounted' \subseteq 0..(At' - 1)
<1>1. Rest' = Rest
  BY DEF Rest
<1>2. BetweenBreaks'
  BY InvFacts DEF BetweenBreaks
<1>3. LineEnds' = LineEnds
  BY DEF LineEnds, Ch
<1>4. LinesOfTheText'
  BY <1>3, InvFacts DEF LinesOfTheText
<1> QED BY <1>1, <1>2, <1>4, InvFacts DEF TypeOK

LEMMA PeeksFacts ==
  ASSUME IInv, Peeks(Peek(Rest))
  PROVE  /\ StreamOK' /\ S!Next /\ skip = 0 /\ S!PeekAt(Peek(Rest).reach)
         /\ UNCHANGED <<text, length, buffpos, pos, skip, At, line, linestart, uncounted>>
         /\ seen' >= Peek(Rest).reach + 1 /\ seen' \in Nat /\ mem' \in Nat
         /\ ws' = Peek(Rest).start /\ ws' \in Nat /\ ws' <= seen'
         /\ Rest' = Rest /\ BetweenBreaks' /\ LinesOfTheText'
         /\ TypeOK' <=> parsed' \in BOOLEAN /\ mode' \in {"parsing", "throwing", "locating",
                                                          "quoting", "failed", "gone"}
<1>1. PICK t : t = Peek(Rest)
  OBVIOUS
<1>2. t.start \in Nat /\ t.reach \in t.start..(MaxLength + 1) /\ MaxLength \in Nat
  <2>1. Len(Rest) \in Nat /\ MaxLength \in Nat
    BY InvFacts, RestFacts, TokenizerAssumption
  <2> QED BY <1>1, <2>1, NextTokenFacts
<1>3. S!PeekAt(t.reach) /\ ws' = t.start /\ UNCHANGED <<text, line, linestart, uncounted>> /\ Memory
  BY <1>1 DEF Peeks
<1>4. t.reach \in 0..(MaxLength + 1)
  BY <1>2
<1>5. /\ StreamOK' /\ S!Next /\ skip = 0 /\ UNCHANGED <<length, buffpos, pos, skip, At>>
      /\ seen' >= t.reach + 1
  BY <1>3, <1>4, StreamPeek, InvFacts
<1>6. seen' \in Nat
  BY <1>5 DEF StreamOK, S!StreamInv, S!TypeOK
<1>7. mem' \in Nat
  BY <1>3, InvFacts DEF Memory, TypeOK
<1>8. /\ Rest' = Rest /\ BetweenBreaks' /\ LinesOfTheText'
      /\ text' \in Seq(Char) /\ length' = Len(text')
      /\ line' \in Nat /\ linestart' \in Nat /\ uncounted' \subseteq 0..(At' - 1)
  BY <1>3, <1>5, Stays
<1>9. ws' \in Nat /\ ws' <= seen'
  BY <1>2, <1>3, <1>5, <1>6
<1> QED BY <1>1, <1>3, <1>5, <1>6, <1>7, <1>8, <1>9 DEF TypeOK

LEMMA DoPeekKeeps == ASSUME IInv, DoPeek PROVE IInv' /\ S!Next
<1>1. PICK t : t = Peek(Rest)
  OBVIOUS
<1>2. /\ t.type # "FAIL" /\ Peeks(Peek(Rest)) /\ parsed' = TRUE /\ mode' = mode /\ mode = "parsing"
      /\ curr' = [type |-> t.type, len |-> t.len, mem |-> Pointer(t.start).mem, index |-> Pointer(t.start).index]
  BY <1>1 DEF DoPeek
<1>3. curr'.type = t.type /\ curr'.len = t.len
  BY <1>2
<1>4. /\ Rest' = Rest /\ ws' = t.start /\ skip' = 0 /\ seen' >= t.reach + 1 /\ seen' \in Nat
  BY <1>1, <1>2, PeeksFacts
<1>5. TokenIsNext'
  BY <1>1, <1>2, <1>3, <1>4 DEF TokenIsNext
<1>6. SeenAhead'
  <2>1. Consumed(curr)' = Uses(t)
    BY <1>3, <1>4 DEF Consumed, Uses
  <2>2. Uses(t) \in 1..(MaxLength + 2) /\ Uses(t) <= t.reach + 1 /\ t.reach \in t.start..(MaxLength + 1)
    BY <1>1, <1>2, NextTokenFacts
  <2>3. Uses(t) <= seen'
    BY <1>4, <2>2
  <2> QED BY <1>2, <1>4, <2>1, <2>3 DEF SeenAhead
<1> QED BY <1>2, <1>5, <1>6, PeeksFacts DEF IInv, TokenInv, StreamOK

LEMMA DoPeekFailsKeeps == ASSUME IInv, DoPeekFails PROVE IInv' /\ S!Next
<1>1. Peeks(Peek(Rest)) /\ mode' = "throwing" /\ parsed' = parsed
  BY DEF DoPeekFails
<1>2. TokenIsNext' /\ SeenAhead'
  BY <1>1 DEF TokenIsNext, SeenAhead
<1>3. parsed' \in BOOLEAN
  BY <1>1, InvFacts DEF TypeOK
<1> QED BY <1>1, <1>2, <1>3, PeeksFacts DEF IInv, TokenInv, StreamOK

LEMMA ThrowErrorKeeps == ASSUME IInv, ThrowError PROVE IInv' /\ S!Next
<1>1. Peeks(Peek(Rest)) /\ mode' = "locating" /\ parsed' = parsed
  BY DEF ThrowError
<1>2. TokenIsNext' /\ SeenAhead'
  BY <1>1, PeeksFacts DEF TokenIsNext, SeenAhead
<1>3. parsed' \in BOOLEAN
  BY <1>1, InvFacts DEF TypeOK
<1> QED BY <1>1, <1>2, <1>3, PeeksFacts DEF IInv, TokenInv, StreamOK

\* Everything that advance keeps, for the two steps that call it.
LEMMA AdvancesInv ==
  ASSUME IInv, NEW n \in 0..(MaxLength + 2), n <= seen, Parts(n),
         NEW countnl \in BOOLEAN, Advances(n, countnl)
  PROVE  /\ StreamOK' /\ S!Next /\ BetweenBreaks' /\ LinesOfTheText'
         /\ TypeOK' <=> /\ parsed' \in BOOLEAN /\ ws' \in Nat
                        /\ mode' \in {"parsing", "throwing", "locating", "quoting", "failed", "gone"}
<1>1. /\ StreamOK' /\ S!Next /\ UNCHANGED <<text, length, mem>>
  BY InvFacts, AdvancesFacts
<1>2. BetweenBreaks' /\ line' \in Nat /\ linestart' \in Nat /\ uncounted' \subseteq 0..(At' - 1)
  BY InvFacts, AdvancesKeeps
<1>3. LinesOfTheText'
  BY InvFacts, LinesAdvance
<1> QED BY <1>1, <1>2, <1>3, InvFacts DEF TypeOK

LEMMA AdvanceKeeps == ASSUME IInv, Advance PROVE IInv' /\ S!Next
<1>1. PICK t : t = Peek(Rest)
  OBVIOUS
<1>2. /\ mode = "parsing" /\ parsed /\ mode' = mode /\ parsed' = FALSE /\ ws' = 0
      /\ Advances(Consumed(curr), curr.type # "QUOTE")
  BY DEF Advance
<1>3. t.type # "FAIL" /\ curr.type = t.type /\ curr.len = t.len /\ ws = t.start
  BY <1>1, <1>2, InvFacts DEF TokenIsNext
<1>4. PICK n : n = Uses(t)
  OBVIOUS
<1>5. Consumed(curr) = n
  BY <1>3, <1>4 DEF Consumed, Uses
<1>6. n \in 0..(MaxLength + 2) /\ Parts(n)
  <2>1. MaxLength \in Nat
    BY TokenizerAssumption
  <2> QED BY <1>1, <1>3, <1>4, <2>1, NextTokenFacts
<1>7. n <= seen
  BY <1>2, <1>5, InvFacts DEF SeenAhead
<1>8. PICK countnl \in BOOLEAN : countnl = (curr.type # "QUOTE")
  OBVIOUS
<1>9. Advances(n, countnl)
  BY <1>2, <1>5, <1>8
<1>10. /\ StreamOK' /\ S!Next /\ BetweenBreaks' /\ LinesOfTheText'
       /\ TypeOK' <=> /\ parsed' \in BOOLEAN /\ ws' \in Nat
                      /\ mode' \in {"parsing", "throwing", "locating", "quoting", "failed", "gone"}
  BY <1>6, <1>7, <1>9, AdvancesInv
<1>11. TokenIsNext' /\ SeenAhead'
  BY <1>2 DEF TokenIsNext, SeenAhead
<1> QED BY <1>2, <1>10, <1>11 DEF IInv, TokenInv, StreamOK

LEMMA LocateKeeps == ASSUME IInv, Locate PROVE IInv' /\ S!Next
<1>1. mode = "locating" /\ mode' = "quoting" /\ UNCHANGED <<parsed, ws>> /\ Advances(ws, TRUE)
  BY DEF Locate
<1>2. ws = Peek(Rest).start /\ ws <= seen
  BY <1>1, InvFacts DEF SeenAhead
<1>3. ws \in 0..(MaxLength + 2) /\ Parts(ws)
  <2>1. Len(Rest) \in 0..MaxLength /\ MaxLength \in Nat
    BY InvFacts, RestFacts, TokenizerAssumption
  <2> QED BY <1>2, <2>1, NextTokenFacts DEF Parts
<1>4. /\ StreamOK' /\ S!Next /\ BetweenBreaks' /\ LinesOfTheText'
      /\ TypeOK' <=> /\ parsed' \in BOOLEAN /\ ws' \in Nat
                     /\ mode' \in {"parsing", "throwing", "locating", "quoting", "failed", "gone"}
  BY <1>1, <1>2, <1>3, AdvancesInv
<1>5. TokenIsNext' /\ SeenAhead'
  BY <1>1 DEF TokenIsNext, SeenAhead
<1>6. parsed' \in BOOLEAN /\ ws' \in Nat
  BY <1>1, InvFacts DEF TypeOK
<1> QED BY <1>1, <1>4, <1>5, <1>6 DEF IInv, TokenInv, StreamOK

LEMMA CopyLineKeeps == ASSUME IInv, CopyLine PROVE IInv' /\ S!Next
<1>1. /\ S!PeekAt(SkipTillLineEnd(Rest, 0)) /\ Memory /\ mode' = "failed"
      /\ UNCHANGED <<text, parsed, ws, line, linestart, uncounted>>
  BY DEF CopyLine
<1>2. SkipTillLineEnd(Rest, 0) \in 0..(MaxLength + 1)
  <2>1. Len(Rest) \in 0..MaxLength /\ Len(Rest) \in Nat /\ 0 \in 0..Len(Rest) /\ MaxLength \in Nat
    BY InvFacts, RestFacts, TokenizerAssumption
  <2>2. SkipTillLineEnd(Rest, 0) \in 0..Len(Rest)
    BY <2>1, EndFacts, Classes DEF SkipTillLineEnd
  <2> QED BY <2>1, <2>2
<1>3. StreamOK' /\ S!Next /\ UNCHANGED <<length, At>>
  BY <1>1, <1>2, InvFacts, StreamPeek
<1>4. /\ BetweenBreaks' /\ LinesOfTheText' /\ text' \in Seq(Char) /\ length' = Len(text')
      /\ line' \in Nat /\ linestart' \in Nat /\ uncounted' \subseteq 0..(At' - 1)
  BY <1>1, <1>3, Stays
<1>5. mem' \in Nat /\ parsed' \in BOOLEAN /\ ws' \in Nat
  BY <1>1, InvFacts DEF Memory, TypeOK
<1>6. TypeOK' /\ TokenIsNext' /\ SeenAhead'
  BY <1>1, <1>4, <1>5 DEF TypeOK, TokenIsNext, SeenAhead
<1> QED BY <1>3, <1>4, <1>6 DEF IInv, TokenInv, StreamOK

LEMMA SkipKeeps == ASSUME IInv, Skip PROVE IInv' /\ S!Next
<1>1. /\ S!Skip /\ Memory
      /\ UNCHANGED <<text, parsed, ws, curr, line, linestart, uncounted, mode>>
  BY DEF Skip
<1>2. StreamOK' /\ S!Next /\ UNCHANGED <<length, At>>
  BY <1>1, InvFacts, StreamStays
<1>3. /\ BetweenBreaks' /\ LinesOfTheText' /\ text' \in Seq(Char) /\ length' = Len(text')
      /\ line' \in Nat /\ linestart' \in Nat /\ uncounted' \subseteq 0..(At' - 1)
  BY <1>1, <1>2, Stays
<1>4. TypeOK'
  BY <1>1, <1>3, InvFacts DEF Memory, TypeOK
<1>5. skip # 0
  BY <1>1, InvFacts, StreamFacts DEF S!Skip
<1>6. ~(mode = "parsing" /\ parsed) /\ mode # "locating"
  BY <1>5, InvFacts DEF SeenAhead
<1>7. TokenIsNext' /\ SeenAhead'
  BY <1>1, <1>6 DEF TokenIsNext, SeenAhead
<1> QED BY <1>2, <1>3, <1>4, <1>7 DEF IInv, TokenInv, StreamOK

LEMMA DestroyKeeps == ASSUME IInv, Destroy PROVE IInv' /\ S!Next
<1>1. /\ S!SyncStream /\ mode' = "gone"
      /\ UNCHANGED <<text, mem, parsed, ws, line, linestart, uncounted>>
  BY DEF Destroy
<1>2. StreamOK' /\ S!Next /\ UNCHANGED <<length, At>>
  BY <1>1, InvFacts, StreamStays
<1>3. /\ BetweenBreaks' /\ LinesOfTheText' /\ text' \in Seq(Char) /\ length' = Len(text')
      /\ line' \in Nat /\ linestart' \in Nat /\ uncounted' \subseteq 0..(At' - 1)
  BY <1>1, <1>2, Stays
<1>4. TypeOK' /\ TokenIsNext' /\ SeenAhead'
  BY <1>1, <1>3, InvFacts DEF TypeOK, TokenIsNext, SeenAhead
<1> QED BY <1>2, <1>3, <1>4 DEF IInv, TokenInv, StreamOK

LEMMA NextKeeps == ASSUME IInv, Next PROVE IInv' /\ S!Next
BY DoPeekKeeps, DoPeekFailsKeeps, AdvanceKeeps, SkipKeeps, ThrowErrorKeeps, LocateKeeps,
   CopyLineKeeps, DestroyKeeps DEF Next

LEMMA StutterKeeps == ASSUME IInv, UNCHANGED vars PROVE IInv' /\ UNCHANGED S!vars
<1>1. /\ UNCHANGED <<text, length, strm, buffer, size, buffpos, pos, skip, seen, answer>>
      /\ UNCHANGED <<mem, strings, parsed, ws, curr, line, linestart, uncounted, mode>>
  BY DEF vars, streamVars
<1>2. UNCHANGED At
  BY <1>1 DEF At
<1>3. /\ Rest' = Rest /\ BetweenBreaks' /\ LinesOfTheText'
      /\ text' \in Seq(Char) /\ length' = Len(text')
      /\ line' \in Nat /\ linestart' \in Nat /\ uncounted' \subseteq 0..(At' - 1)
  BY <1>1, <1>2, Stays
<1>4. StreamOK'
  BY <1>1, InvFacts DEF StreamOK, S!StreamInv, S!TypeOK, S!BufferOK, S!EndOK, S!Left, S!ReadsAhead
<1>5. TypeOK' /\ TokenIsNext' /\ SeenAhead'
  BY <1>1, <1>3, InvFacts DEF TypeOK, TokenIsNext, SeenAhead, Consumed
<1> QED BY <1>1, <1>3, <1>4, <1>5 DEF IInv, TokenInv, StreamOK, S!vars

-----------------------------------------------------------------------------
LEMMA StretchOfText ==
  ASSUME NEW C, NEW w \in Seq(C), NEW a \in Nat, NEW n \in Nat, a + n <= Len(w)
  PROVE  SubSeq(w, a + 1, a + n) = [k \in 1..n |-> w[a + k]]
<1> DEFINE v == [k \in 1..n |-> w[a + k]]
<1>1. \A k \in 1..n : a + k \in 1..Len(w) /\ w[a + k] \in C
  OBVIOUS
<1>2. v \in Seq(C) /\ Len(v) = n
  BY <1>1
<1>3. /\ a + 1 \in Int /\ a + n \in Int /\ (a + n) - (a + 1) + 1 = n
      /\ \A i \in (a + 1)..(a + n) : w[i] \in C
  OBVIOUS
<1>4. /\ SubSeq(w, a + 1, a + n) \in Seq(C)
      /\ \A i \in 1..n : SubSeq(w, a + 1, a + n)[i] = w[(a + 1) + i - 1]
      /\ Len(SubSeq(w, a + 1, a + n)) = IF a + 1 <= a + n THEN n ELSE 0
  BY <1>3, SubSeqProperties
<1>5. \A i \in 1..n : SubSeq(w, a + 1, a + n)[i] = v[i]
  <2>1. \A i \in 1..n : (a + 1) + i - 1 = a + i
    OBVIOUS
  <2> QED BY <1>4, <2>1
<1>6. Len(SubSeq(w, a + 1, a + n)) = n
  BY <1>4
<1> HIDE DEF v
<1>7. SubSeq(w, a + 1, a + n) = v
  BY <1>2, <1>4, <1>5, <1>6, SeqEqual
<1> QED BY <1>7 DEF v

\* The engine's token leads to its text: it was read into the buffer, and the
\* buffer did not move since.
LEMMA DoPeekReads == ASSUME IInv, DoPeek PROVE TokenStaysReadable'
<1>1. PICK t : t = Peek(Rest)
  OBVIOUS
<1>2. /\ t.type # "FAIL" /\ Peeks(Peek(Rest)) /\ mode = "parsing" /\ mode' = mode
      /\ curr' = [type |-> t.type, len |-> t.len, mem |-> Pointer(t.start).mem, index |-> Pointer(t.start).index]
  BY <1>1 DEF DoPeek
<1>3. curr'.type = t.type /\ curr'.len = t.len /\ curr'.mem = mem' /\ curr'.index = buffpos + t.start
  BY <1>2 DEF Pointer
<1>4. /\ UNCHANGED <<text, length, buffpos, pos, skip, At>> /\ ws' = t.start /\ Rest' = Rest
      /\ StreamOK' /\ S!PeekAt(t.reach) /\ skip = 0
  BY <1>1, <1>2, PeeksFacts
<1>5. /\ MaxLength \in Nat /\ length \in Nat /\ At = pos + buffpos /\ pos \in Nat /\ buffpos \in Nat
      /\ At \in 0..length
  <2>1. Len(buffer) \in Nat
    BY InvFacts, StreamFacts
  <2> QED BY <1>4, <2>1, InvFacts, StreamFacts
<1>6. text \in Seq(Char) /\ length = Len(text) /\ Len(Rest) = length - At
  BY InvFacts, RestFacts DEF TypeOK
<1>7. PICK start \in Nat, len \in Nat, reach \in Nat : start = t.start /\ len = t.len /\ reach = t.reach
  BY <1>1, <1>5, <1>6, NextTokenFacts
<1>8. /\ start <= length - At /\ reach \in 0..(MaxLength + 1)
      /\ t.type \in {"SYMBOL", "IF", "INTEGER", "FLOATING"} =>
           start + len <= reach /\ start + len <= length - At
  BY <1>1, <1>5, <1>6, <1>7, NextTokenFacts
<1>9. /\ size' >= buffpos + reach + 1
      /\ strm' = length \/ Len(buffer') >= buffpos + reach + 1
  BY <1>4, <1>7, <1>8, InvFacts, StreamPeek
<1>10. /\ buffer' \in Seq(Nat) /\ strm' = pos + Len(buffer') /\ size' \in Nat
       /\ \A i \in 1..Len(buffer') : buffer'[i] = pos + i - 1
  BY <1>4 DEF StreamOK, S!StreamInv, S!TypeOK, S!BufferOK
<1>11. PICK held \in Nat : held = Len(buffer')
  BY <1>10
<1>12. PICK b \in Nat, p \in Nat : b = buffpos /\ p = pos
  BY <1>5
<1>13. CASE t.type \in {"SYMBOL", "IF", "INTEGER", "FLOATING"}
  <2>1. start + len <= reach /\ start + len <= length - At
    BY <1>8, <1>13
  <2>2. b + start + len <= held /\ b + start + len < size'
    <3>1. b + start + len < size'
      BY <1>9, <1>10, <1>12, <2>1
    <3>2. CASE held >= b + reach + 1
      BY <2>1, <3>1, <3>2
    <3>3. CASE strm' = length
      BY <1>5, <1>10, <1>11, <1>12, <2>1, <3>1, <3>3
    <3> QED BY <1>9, <1>11, <1>12, <3>2, <3>3
  <2>3. \A k \in 1..len : buffer'[b + start + k] + 1 = p + b + start + k
    <3> SUFFICES ASSUME NEW k \in 1..len
                 PROVE  buffer'[b + start + k] + 1 = p + b + start + k
      OBVIOUS
    <3>1. b + start + k \in 1..held
      BY <2>2
    <3>2. buffer'[b + start + k] = p + (b + start + k) - 1
      BY <1>10, <1>11, <1>12, <3>1
    <3> QED BY <3>2
  <2>4. View(curr)' = [k \in 1..len |-> text[p + b + start + k]]
    BY <1>3, <1>4, <1>7, <1>11, <1>12, <2>2, <2>3 DEF View
  <2>5. SubSeq(text, p + b + start + 1, p + b + start + len) = [k \in 1..len |-> text[p + b + start + k]]
    <3>1. PICK a \in Nat : a = p + b + start
      OBVIOUS
    <3>2. a + len <= Len(text)
      BY <1>5, <1>6, <1>12, <2>1, <3>1
    <3> QED BY <1>6, <3>1, <3>2, StretchOfText
  <2>6. (At + ws)' = p + b + start
    BY <1>4, <1>5, <1>7, <1>12
  <2>7. curr'.index + curr'.len < size'
    BY <1>3, <1>7, <1>12, <2>2
  <2>8. View(curr)' = SubSeq(text', (At + ws)' + 1, (At + ws)' + curr'.len)
    BY <1>3, <1>4, <1>7, <2>4, <2>5, <2>6
  <2> QED BY <1>3, <1>13, <2>7, <2>8 DEF TokenStaysReadable
<1>14. CASE t.type = "QUOTE"
  <2>1. strings' = IF Ch(Rest, t.start) = "quote" THEN t.chars ELSE strings
    BY <1>1, <1>2 DEF Peeks
  <2>2. Ch(Rest, t.start) = "quote"
    BY <1>1, <1>6, <1>14, QuoteBegins, <1>5
  <2> QED BY <1>1, <1>3, <1>4, <1>14, <2>1, <2>2 DEF TokenStaysReadable
<1>15. CASE t.type \notin {"SYMBOL", "IF", "INTEGER", "FLOATING", "QUOTE"}
  BY <1>3, <1>15 DEF TokenStaysReadable
<1> QED BY <1>13, <1>14, <1>15

\* A token is the engine's only until its next step.
LEMMA OthersForget ==
  ASSUME IInv, Next, ~DoPeek
  PROVE  ~(mode' = "parsing" /\ parsed')
<1>1. CASE DoPeekFails
  BY <1>1 DEF DoPeekFails
<1>2. CASE Advance
  BY <1>2 DEF Advance
<1>3. CASE Skip
  <2>1. skip # 0 /\ UNCHANGED <<parsed, mode>>
    BY <1>3, InvFacts, StreamFacts DEF Skip, S!Skip
  <2> QED BY <2>1, InvFacts DEF SeenAhead
<1>4. CASE ThrowError \/ Locate \/ CopyLine \/ Destroy
  BY <1>4 DEF ThrowError, Locate, CopyLine, Destroy
<1> QED BY <1>1, <1>2, <1>3, <1>4 DEF Next

LEMMA StaysReadable ==
  ASSUME IInv, TokenStaysReadable, [Next]_vars
  PROVE  TokenStaysReadable'
<1>1. CASE DoPeek
  BY <1>1, DoPeekReads
<1>2. CASE Next /\ ~DoPeek
  <2>1. ~(mode' = "parsing" /\ parsed')
    BY <1>2, OthersForget
  <2> QED BY <2>1 DEF TokenStaysReadable
<1>3. CASE UNCHANGED vars
  <2>1. /\ UNCHANGED <<text, length, buffer, size, buffpos, pos, skip>>
        /\ UNCHANGED <<mem, strings, parsed, ws, curr, mode>>
    BY <1>3 DEF vars, streamVars
  <2>2. UNCHANGED At
    BY <2>1 DEF At
  <2>3. UNCHANGED Rest
    BY <2>1, <2>2 DEF Rest
  <2>4. View(curr)' = View(curr)
    BY <2>1 DEF View
  <2> QED BY <2>1, <2>2, <2>3, <2>4 DEF TokenStaysReadable
<1> QED BY <1>1, <1>2, <1>3

LEMMA Invariance == Spec => []IInv
<1>1. Init => IInv
  BY InvInit
<1>2. IInv /\ [Next]_vars => IInv'
  BY NextKeeps, StutterKeeps
<1> QED BY <1>1, <1>2, PTL DEF Spec

-----------------------------------------------------------------------------
\* Whatever the text, the token that the engine has is the one at the parser's
\* position, the parser only advances over what it has peeked at, and it never
\* stops inside of a line break (parser.cpp:476-493, parser_engine.cpp:19-65).
THEOREM TokensFollow == Spec => []TokenInv
<1>1. IInv => TokenInv
  BY DEF IInv
<1> QED BY <1>1, Invariance, PTL

\* The line of an error is that of its place (parser.cpp:476-493).
THEOREM LinesCounted == Spec => []LinesOfTheText
<1>1. IInv => LinesOfTheText
  BY DEF IInv
<1> QED BY <1>1, Invariance, PTL

\* The token's pointer leads to its text for as long as the engine has the token,
\* whatever the size of the stream's buffer (parser.cpp:599-650).
THEOREM TokensReadable == Spec => []TokenStaysReadable
<1>1. Init => TokenStaysReadable
  BY DEF Init, TokenStaysReadable
<1>2. IInv /\ TokenStaysReadable /\ [Next]_vars => TokenStaysReadable'
  BY StaysReadable
<1> QED BY <1>1, <1>2, Invariance, PTL DEF Spec

\* The tokenizer makes the steps that BufferedStream's callers may make and no
\* others: what is proved of the stream is true of it in the parser
\* (parser.cpp:332-430).
THEOREM UsesTheStream == Spec => StreamSpec
<1>1. Init => S!Init
  BY InvInit
<1>2. IInv /\ [Next]_vars => [S!Next]_(S!vars)
  BY NextKeeps, StutterKeeps
<1> QED BY <1>1, <1>2, Invariance, PTL DEF Spec, StreamSpec, S!Spec

-----------------------------------------------------------------------------
(***************************************************************************)
(* Strings that are printed and read again.                                *)
(***************************************************************************)
Printing(chars, f, n) ==
  [k \in 0..n |-> IF k = 0 THEN << >> ELSE f[k - 1] \o Escaped(chars[k])]

LEMMA PrintExists ==
  ASSUME NEW chars, NEW n \in Nat
  PROVE  \E f : f = Printing(chars, f, n)
<1> DEFINE Good == {k \in 0..n : \E f : f = Printing(chars, f, k)}
<1>1. 0 \in Good
  <2> DEFINE f == [k \in 0..0 |-> << >>]
  <2>1. f = Printing(chars, f, 0)
    BY DEF Printing
  <2> QED BY <2>1
<1>2. Max(Good) \in Good /\ \A q \in Good : q <= Max(Good)
  <2>1. Good \subseteq 0..n /\ Good # {}
    BY <1>1
  <2> HIDE DEF Good
  <2> QED BY <2>1, Greatest
<1>3. PICK m : m = Max(Good)
  OBVIOUS
<1>4. m \in 0..n
  BY <1>2, <1>3
<1>5. PICK f : f = Printing(chars, f, m)
  BY <1>2, <1>3
<1> HIDE DEF Good
<1>6. CASE m # n
  <2> DEFINE g == [k \in 0..(m + 1) |-> IF k = 0 THEN << >> ELSE f[k - 1] \o Escaped(chars[k])]
  <2>1. \A k \in 0..m : g[k] = f[k]
    <3>1. \A k \in 0..m : f[k] = IF k = 0 THEN << >> ELSE f[k - 1] \o Escaped(chars[k])
      BY <1>5 DEF Printing
    <3>2. \A k \in 0..m : k \in 0..(m + 1)
      BY <1>4
    <3> QED BY <3>1, <3>2
  <2>2. \A k \in 0..(m + 1) : k # 0 => k - 1 \in 0..m
    BY <1>4
  <2>3. \A k \in 0..(m + 1) : g[k] = IF k = 0 THEN << >> ELSE f[k - 1] \o Escaped(chars[k])
    OBVIOUS
  <2>4. g = [k \in 0..(m + 1) |-> g[k]]
    OBVIOUS
  <2> HIDE DEF g
  <2>5. \A k \in 0..(m + 1) : g[k] = IF k = 0 THEN << >> ELSE g[k - 1] \o Escaped(chars[k])
    BY <2>1, <2>2, <2>3
  <2>6. g = Printing(chars, g, m + 1)
    BY <2>4, <2>5 DEF Printing
  <2>7. m + 1 \in Good
    BY <1>4, <1>6, <2>6 DEF Good
  <2> QED BY <1>2, <1>3, <1>4, <2>7
<1>7. CASE m = n
  BY <1>5, <1>7
<1> QED BY <1>6, <1>7

LEMMA EscapedFacts ==
  ASSUME NEW c \in Char
  PROVE  /\ Escaped(c) \in Seq(Char)
         /\ \/ /\ Len(Escaped(c)) = 2 /\ Escaped(c)[1] = "bslash" /\ Unescaped(Escaped(c)[2]) = c
            \/ /\ Len(Escaped(c)) = 1 /\ Escaped(c)[1] = c /\ c # "bslash"
<1>1. "bslash" \in Char /\ "n" \in Char /\ "r" \in Char
  BY DEF Char, SymbolChar
<1>2. CASE c = "LF"
  BY <1>1, <1>2 DEF Escaped, Unescaped
<1>3. CASE c = "CR"
  BY <1>1, <1>3 DEF Escaped, Unescaped
<1>4. CASE c = "bslash"
  BY <1>1, <1>4 DEF Escaped, Unescaped
<1>5. CASE c \notin {"LF", "CR", "bslash"}
  BY <1>5 DEF Escaped
<1> QED BY <1>2, <1>3, <1>4, <1>5

\* What is printed of the first k characters is the beginning of it all.
PrintSteps(chars, P) ==
  /\ P[Len(chars)] = PrintString(chars) /\ P[0] = << >>
  /\ \A k \in 0..Len(chars) : P[k] \in Seq(Char) /\ Len(P[k]) <= Len(PrintString(chars))
  /\ \A k \in 1..Len(chars) : P[k] = P[k - 1] \o Escaped(chars[k])
  /\ \A k \in 0..Len(chars) : \A i \in 1..Len(P[k]) : PrintString(chars)[i] = P[k][i]

LEMMA PrintFacts ==
  ASSUME NEW chars \in Seq(Char)
  PROVE  \E P : PrintSteps(chars, P)
<1>1. PICK n \in Nat : n = Len(chars)
  OBVIOUS
<1> DEFINE P == CHOOSE f : f = Printing(chars, f, n)
<1>2. P = Printing(chars, P, n)
  BY PrintExists
<1>3. PrintString(chars) = P[n]
  BY <1>1 DEF PrintString, Printing
<1> HIDE DEF P
<1>4. \A k \in 0..n : P[k] = IF k = 0 THEN << >> ELSE P[k - 1] \o Escaped(chars[k])
  BY <1>2 DEF Printing
<1>5. P[0] = << >>
  BY <1>4
<1>6. ASSUME NEW k \in 1..n PROVE P[k] = P[k - 1] \o Escaped(chars[k])
  <2>1. k \in 0..n /\ k # 0
    OBVIOUS
  <2> QED BY <1>4, <2>1
<1>7. \A k \in 1..n : chars[k] \in Char /\ Escaped(chars[k]) \in Seq(Char)
  BY <1>1, EscapedFacts
<1>8. \A k \in 0..n : P[k] \in Seq(Char)
  <2> DEFINE Bad == {k \in 0..n : P[k] \notin Seq(Char)}
  <2>1. CASE Bad # {}
    <3>1. Min(Bad) \in Bad /\ \A q \in Bad : Min(Bad) <= q
      <4>1. Bad \subseteq Nat
        OBVIOUS
      <4> HIDE DEF Bad
      <4> QED BY <2>1, <4>1, Least
    <3>2. PICK m : m = Min(Bad)
      OBVIOUS
    <3>3. m \in 0..n /\ P[m] \notin Seq(Char)
      BY <3>1, <3>2
    <3>4. m # 0
      <4>1. << >> \in Seq(Char)
        OBVIOUS
      <4> QED BY <1>5, <3>3, <4>1
    <3>5. m \in 1..n /\ m - 1 \in 0..n /\ m - 1 \notin Bad
      BY <3>1, <3>2, <3>3, <3>4
    <3>6. P[m - 1] \in Seq(Char)
      BY <3>5
    <3>7. P[m] = P[m - 1] \o Escaped(chars[m]) /\ Escaped(chars[m]) \in Seq(Char)
      BY <1>6, <1>7, <3>5
    <3> QED BY <3>3, <3>6, <3>7
  <2>2. CASE Bad = {}
    BY <2>2
  <2> QED BY <2>1, <2>2
<1> DEFINE Begins(k) == Len(P[k]) <= Len(P[n]) /\ \A i \in 1..Len(P[k]) : P[n][i] = P[k][i]
<1>9. \A k \in 0..n : Begins(k)
  <2> DEFINE Bad == {k \in 0..n : ~Begins(k)}
  <2>1. CASE Bad # {}
    <3>1. Max(Bad) \in Bad /\ \A q \in Bad : q <= Max(Bad)
      <4>1. Bad \subseteq 0..n
        OBVIOUS
      <4> HIDE DEF Bad
      <4> QED BY <2>1, <4>1, Greatest
    <3>2. PICK m : m = Max(Bad)
      OBVIOUS
    <3>3. m \in 0..n /\ ~Begins(m)
      BY <3>1, <3>2
    <3>4. m # n
      <4>1. Len(P[n]) \in Nat
        BY <1>8
      <4> QED BY <3>3, <4>1
    <3>5. m + 1 \in 1..n /\ m + 1 \in 0..n /\ (m + 1) - 1 = m /\ ~(m + 1 <= m)
      BY <3>3, <3>4
    <3>6. Begins(m + 1)
      <4>1. m + 1 \notin Bad
        <5> HIDE DEF Bad
        <5> QED BY <3>1, <3>2, <3>5
      <4> HIDE DEF Begins
      <4> QED BY <3>5, <4>1
    <3>7. PICK e \in Seq(Char) : P[m + 1] = P[m] \o e
      <4>1. PICK k \in 1..n : k = m + 1
        BY <3>5
      <4>2. P[k] = P[k - 1] \o Escaped(chars[k]) /\ Escaped(chars[k]) \in Seq(Char)
        BY <1>6, <1>7
      <4> QED BY <3>5, <4>1, <4>2
    <3>8. PICK b \in Seq(Char) : b = P[m]
      BY <1>8, <3>3
    <3>9. Len(b \o e) >= Len(b) /\ \A i \in 1..Len(b) : i \in 1..Len(b \o e) /\ (b \o e)[i] = b[i]
      OBVIOUS
    <3>10. Len(P[n]) \in Nat /\ Len(b) \in Nat /\ Len(b \o e) \in Nat
      BY <1>8
    <3> QED BY <3>3, <3>6, <3>7, <3>8, <3>9, <3>10
  <2>2. CASE Bad = {}
    BY <2>2
  <2> QED BY <2>1, <2>2
<1>10. PrintSteps(chars, P)
  BY <1>1, <1>3, <1>5, <1>6, <1>8, <1>9 DEF PrintSteps
<1> QED BY <1>10

Quoted(u) == <<"quote">> \o u \o <<"quote">>

LEMMA QuotedFacts ==
  ASSUME NEW u \in Seq(Char)
  PROVE  /\ Quoted(u) \in Seq(Char) /\ Len(Quoted(u)) = Len(u) + 2
         /\ Ch(Quoted(u), 0) = "quote" /\ Ch(Quoted(u), Len(u) + 1) = "quote"
         /\ \A i \in 1..Len(u) : Ch(Quoted(u), i) = u[i]
<1>1. "quote" \in Char
  BY DEF Char
<1>0. PICK x \in Seq(Char) : x = <<"quote">> /\ Len(x) = 1 /\ x[1] = "quote"
  <2>1. <<"quote">> \in Seq(Char)
    BY <1>1
  <2> QED BY <2>1
<1>2. PICK v \in Seq(Char) : v = x \o u
  <2>1. x \o u \in Seq(Char)
    OBVIOUS
  <2> QED BY <2>1
<1>3. /\ Len(v) = Len(u) + 1 /\ v[1] = "quote" /\ \A i \in 1..Len(u) : v[i + 1] = u[i]
      /\ Len(u) \in Nat
  BY <1>0, <1>2
<1>4. PICK w \in Seq(Char) : w = v \o x
  <2>1. v \o x \in Seq(Char)
    OBVIOUS
  <2> QED BY <2>1
<1>5. /\ Len(w) = Len(u) + 2 /\ w[Len(u) + 2] = "quote"
      /\ \A i \in 1..(Len(u) + 1) : w[i] = v[i]
  BY <1>0, <1>3, <1>4
<1>6. w = Quoted(u)
  BY <1>0, <1>2, <1>4 DEF Quoted
<1>7. \A i \in 1..Len(u) : Ch(w, i) = u[i]
  BY <1>3, <1>5 DEF Ch
<1>8. Ch(w, 0) = "quote" /\ Ch(w, Len(u) + 1) = "quote"
  BY <1>3, <1>5 DEF Ch
<1> QED BY <1>5, <1>6, <1>7, <1>8

\* A printed string, followed by a quote, is read as the string.
LEMMA PrintedIsRead ==
  ASSUME NEW chars \in Seq(Char), "quote" \notin Chars(chars),
         PrintString(chars) \in Seq(Char)
  PROVE  ReadChars(Quoted(PrintString(chars)), 1)
           = [closed |-> TRUE, at |-> Len(PrintString(chars)) + 1, chars |-> chars]
<1>1. PICK n \in Nat, u \in Seq(Char), w \in Seq(Char) :
        n = Len(chars) /\ u = PrintString(chars) /\ w = Quoted(u)
  BY QuotedFacts
<1>2. PICK l \in Nat : l = Len(u)
  OBVIOUS
<1>3. /\ Len(w) = l + 2 /\ Ch(w, l + 1) = "quote"
      /\ \A i \in 1..l : Ch(w, i) = u[i]
  BY <1>1, <1>2, QuotedFacts
<1>0. PICK P : PrintSteps(chars, P)
  BY PrintFacts
<1>4. /\ P[n] = u /\ P[0] = << >>
      /\ \A k \in 0..n : P[k] \in Seq(Char) /\ Len(P[k]) <= l
      /\ \A k \in 1..n : P[k] = P[k - 1] \o Escaped(chars[k])
      /\ \A k \in 0..n : \A i \in 1..Len(P[k]) : u[i] = P[k][i]
  BY <1>0, <1>1, <1>2 DEF PrintSteps
<1>5. PICK R : \A p \in 0..(Len(w) + 1) : R[p] = Round(w, p, R) /\ ReadChars(w, p) = R[p]
  BY ReadRounds
<1> DEFINE Read(k) == R[Len(P[k]) + 1] = [closed |-> TRUE, at |-> l + 1, chars |-> SubSeq(chars, k + 1, n)]
           Bad == {k \in 0..n : ~Read(k)}
<1>6. CASE Bad # {}
  <2>1. Max(Bad) \in Bad /\ \A q \in Bad : q <= Max(Bad)
    <3>1. Bad \subseteq 0..n
      OBVIOUS
    <3> HIDE DEF Bad
    <3> QED BY <1>6, <3>1, Greatest
  <2>2. PICK m : m = Max(Bad)
    OBVIOUS
  <2>3. m \in 0..n /\ ~Read(m)
    BY <2>1, <2>2
  <2>4. PICK at \in Nat : at = Len(P[m]) + 1 /\ at <= l + 1
    BY <1>4, <2>3
  <2>5. R[at] = Round(w, at, R)
    BY <1>3, <1>5, <2>4
  <2>6. CASE m = n
    <3>1. at = l + 1
      BY <1>2, <1>4, <2>4, <2>6
    <3>2. R[at] = [closed |-> TRUE, at |-> l + 1, chars |-> << >>]
      BY <1>3, <2>5, <3>1 DEF Round
    <3>3. SubSeq(chars, n + 1, n) = << >>
      BY SubSeqEmpty
    <3> QED BY <2>3, <2>4, <2>6, <3>2, <3>3
  <2>7. CASE m # n
    <3>1. m + 1 \in 1..n /\ m + 1 \in 0..n /\ (m + 1) - 1 = m /\ ~(m + 1 <= m)
      BY <2>3, <2>7
    <3>2. PICK k \in 1..n : k = m + 1
      BY <3>1
    <3>3. Read(k)
      <4>1. k \notin Bad
        <5> HIDE DEF Bad
        <5> QED BY <2>1, <2>2, <3>1, <3>2
      <4> HIDE DEF Read
      <4> QED BY <3>1, <3>2, <4>1
    <3>4. PICK c \in Char : c = chars[k] /\ c # "quote" /\ c # "EOS"
      <4>1. chars[k] \in Char /\ chars[k] \in Chars(chars)
        BY <1>1 DEF Chars
      <4> QED BY <4>1, Classes
    <3>5. PICK e \in Seq(Char) :
            /\ e = Escaped(c)
            /\ \/ Len(e) = 2 /\ e[1] = "bslash" /\ Unescaped(e[2]) = c
               \/ Len(e) = 1 /\ e[1] = c /\ c # "bslash"
      BY EscapedFacts
    <3>6. PICK b \in Seq(Char) : b = P[m] /\ P[k] = b \o e
      BY <1>4, <2>3, <3>1, <3>2, <3>4, <3>5
    <3>7. Len(b \o e) = Len(b) + Len(e) /\ \A i \in 1..Len(e) : (b \o e)[Len(b) + i] = e[i]
      OBVIOUS
    <3>8. at = Len(b) + 1 /\ Len(P[k]) + 1 = at + Len(e) /\ Len(b) + Len(e) <= l /\ Len(b) \in Nat
      BY <1>4, <2>4, <3>6, <3>7
    <3>9. \A i \in 1..Len(e) : Ch(w, Len(b) + i) = e[i]
      <4> SUFFICES ASSUME NEW i \in 1..Len(e) PROVE Ch(w, Len(b) + i) = e[i]
        OBVIOUS
      <4>1. Len(b) + i \in 1..l /\ Len(b) + i \in 1..Len(P[k])
        BY <3>6, <3>7, <3>8
      <4>2. u[Len(b) + i] = P[k][Len(b) + i]
        BY <1>4, <4>1
      <4> QED BY <1>3, <3>6, <3>7, <4>1, <4>2
    <3>10. R[at] = Put(c, R[at + Len(e)])
      <4>1. CASE Len(e) = 2 /\ e[1] = "bslash" /\ Unescaped(e[2]) = c
        <5>1. Ch(w, at) = "bslash" /\ Ch(w, at + 1) = e[2]
          <6>1. Len(b) + 1 = at /\ Len(b) + 2 = at + 1
            BY <3>8
          <6> QED BY <3>9, <4>1, <6>1
        <5> QED BY <2>5, <4>1, <5>1 DEF Round
      <4>2. CASE Len(e) = 1 /\ e[1] = c /\ c # "bslash"
        <5>1. Ch(w, at) = c
          BY <3>8, <3>9, <4>2
        <5> QED BY <2>5, <3>4, <4>2, <5>1 DEF Round
      <4> QED BY <3>5, <4>1, <4>2
    <3>11. PICK rest : rest = SubSeq(chars, k + 1, n)
      OBVIOUS
    <3>12. R[at] = [closed |-> TRUE, at |-> l + 1, chars |-> <<c>> \o rest]
      <4>1. R[at + Len(e)] = [closed |-> TRUE, at |-> l + 1, chars |-> rest]
        BY <3>3, <3>8, <3>11
      <4>2. Put(c, [closed |-> TRUE, at |-> l + 1, chars |-> rest])
              = [closed |-> TRUE, at |-> l + 1, chars |-> <<c>> \o rest]
        BY PutFacts
      <4> QED BY <3>10, <4>1, <4>2
    <3>13. <<c>> \o rest = SubSeq(chars, m + 1, n)
      <4>1. k \in 1..Len(chars) /\ n \in k..Len(chars)
        BY <1>1
      <4>2. SubSeq(chars, k, n) = <<chars[k]>> \o SubSeq(chars, k + 1, n)
        BY <4>1, SubSeqRecursiveFirst
      <4> QED BY <3>2, <3>4, <3>11, <4>2
    <3> QED BY <2>3, <2>4, <3>12, <3>13
  <2> QED BY <2>6, <2>7
<1>7. CASE Bad = {}
  <2>1. Read(0)
    <3> HIDE DEF Read
    <3>1. 0 \in 0..n
      OBVIOUS
    <3> QED BY <1>7, <3>1
  <2>2. SubSeq(chars, 1, n) = chars
    BY <1>1
  <2>3. Len(P[0]) + 1 = 1
    BY <1>4
  <2>4. ReadChars(w, 1) = R[1]
    BY <1>3, <1>5
  <2> QED BY <1>1, <1>2, <2>1, <2>2, <2>3, <2>4
<1> QED BY <1>6, <1>7

LEMMA ReadsBack ==
  ASSUME NEW chars \in Seq(Char), "quote" \notin Chars(chars)
  PROVE  LET t == Peek(Quoted(PrintString(chars)))
         IN  /\ t.type = "QUOTE" /\ t.chars = chars
             /\ t.len + 2 = Len(Quoted(PrintString(chars)))
<1>1. PrintString(chars) \in Seq(Char)
  <2>1. Len(chars) \in 0..Len(chars)
    OBVIOUS
  <2> QED BY <2>1, PrintFacts DEF PrintSteps
<1>2. PICK w \in Seq(Char) : w = Quoted(PrintString(chars))
  BY <1>1, QuotedFacts
<1>3. /\ Len(w) = Len(PrintString(chars)) + 2 /\ Ch(w, 0) = "quote" /\ Len(w) \in Nat
      /\ Len(PrintString(chars)) \in Nat
  BY <1>1, <1>2, QuotedFacts
<1>4. FindFirstNonWhitespace(w, 0) = 0
  BY <1>3, FindsHere, Classes
<1>5. Peek(w) = ReadString(w, 0)
  <2>1. "quote" \notin Mark
    BY DEF Mark
  <2>2. PICK p : p = FindFirstNonWhitespace(w, 0)
    OBVIOUS
  <2>3. PICK c : c = Ch(w, p)
    OBVIOUS
  <2>4. Peek(w) = CASE c = "EOS"   -> Token("EOS", p, 1, p)
                    [] c \in Mark  -> Token(c, p, 1, p)
                    [] c = "="     -> ReadEqual(w, p)
                    [] c = "quote" -> ReadString(w, p)
                    [] c \in Digit -> ReadNumber(w, p)
                    [] OTHER       -> ReadName(w, p)
    BY <2>2, <2>3 DEF Peek
  <2>5. p = 0 /\ c = "quote" /\ c \notin Digit
    BY <1>3, <1>4, <2>2, <2>3 DEF Digit
  <2> QED BY <2>1, <2>4, <2>5
<1>6. PICK read : read = ReadChars(w, 1)
  OBVIOUS
<1>7. read = [closed |-> TRUE, at |-> Len(PrintString(chars)) + 1, chars |-> chars]
  BY <1>1, <1>2, <1>6, PrintedIsRead
<1>8. Peek(w).type = "QUOTE" /\ Peek(w).chars = chars /\ Peek(w).len = read.at - (0 + 1)
  BY <1>5, <1>6, <1>7 DEF ReadString, Token
<1> QED BY <1>2, <1>3, <1>7, <1>8

\* The strings' buffer has a string while the engine has a token of one.
StringsRead ==
  /\ mode = "throwing" => ~parsed
  /\ parsed /\ curr.type = "QUOTE" => strings \in Seq(Char)

LEMMA PeeksString ==
  ASSUME IInv, Peeks(Peek(Rest)), Peek(Rest).type = "QUOTE"
  PROVE  strings' \in Seq(Char)
<1>1. text \in Seq(Char) /\ length = Len(text) /\ At \in 0..length
  BY InvFacts, StreamFacts DEF TypeOK
<1>2. PICK w : w = Rest
  OBVIOUS
<1>3. w \in Seq(Char)
  <2>1. PICK a \in Nat, n \in Nat : a = At /\ n = length /\ n = Len(text)
    BY <1>1
  <2>2. SubSeq(text, a + 1, n) \in Seq(Char)
    BY <1>1, <2>1
  <2> QED BY <1>2, <2>1, <2>2 DEF Rest
<1>4. Peek(w).start \in 0..Len(w) /\ Len(w) \in Nat
  BY <1>2, <1>3, NextTokenFacts
<1>5. Peek(w).chars \in Seq(Char) /\ Ch(w, Peek(w).start) = "quote"
  BY <1>2, <1>3, <1>4, QuoteChars, QuoteBegins
<1> QED BY <1>2, <1>5 DEF Peeks

LEMMA StringsStep ==
  ASSUME IInv, StringsRead, [Next]_vars
  PROVE  StringsRead'
<1>1. CASE DoPeek
  <2>1. PICK t : t = Peek(Rest)
    OBVIOUS
  <2>2. /\ Peeks(Peek(Rest)) /\ mode = "parsing" /\ mode' = mode
        /\ curr' = [type |-> t.type, len |-> t.len, mem |-> Pointer(t.start).mem, index |-> Pointer(t.start).index]
    BY <1>1, <2>1 DEF DoPeek
  <2>3. curr'.type = t.type
    BY <2>2
  <2>4. t.type = "QUOTE" => strings' \in Seq(Char)
    BY <2>1, <2>2, PeeksString
  <2> QED BY <2>2, <2>3, <2>4 DEF StringsRead
<1>2. CASE DoPeekFails
  BY <1>2, InvFacts DEF DoPeekFails, StringsRead, TypeOK
<1>3. CASE Advance
  BY <1>3 DEF Advance, StringsRead
<1>4. CASE ThrowError
  <2>1. Peeks(Peek(Rest)) /\ mode' = "locating" /\ UNCHANGED <<parsed, curr>>
    BY <1>4 DEF ThrowError
  <2>2. CASE parsed /\ curr.type = "QUOTE"
    <3>1. mode = "parsing"
      BY <1>4, <2>2 DEF ThrowError, StringsRead
    <3>2. Peek(Rest).type = "QUOTE"
      BY <2>2, <3>1, InvFacts DEF TokenIsNext
    <3>3. strings' \in Seq(Char)
      BY <2>1, <3>2, PeeksString
    <3> QED BY <2>1, <3>3 DEF StringsRead
  <2>3. CASE ~(parsed /\ curr.type = "QUOTE")
    BY <2>1, <2>3 DEF StringsRead
  <2> QED BY <2>2, <2>3
<1>5. CASE Skip \/ Locate \/ CopyLine \/ Destroy
  <2>1. UNCHANGED <<strings, parsed, curr>> /\ (mode' = mode \/ mode' # "throwing")
    BY <1>5 DEF Skip, Locate, Advances, CopyLine, Destroy
  <2> QED BY <2>1 DEF StringsRead
<1>6. CASE UNCHANGED vars
  BY <1>6 DEF vars, StringsRead
<1> QED BY <1>1, <1>2, <1>3, <1>4, <1>5, <1>6 DEF Next

\* Every string that was read is the same when it is printed and read again, if
\* it has no quote (printer.cpp:179-212, parser.cpp:548-597).
THEOREM StringsReadBack == Spec => []PrintedStringsReadBack
<1>1. Init => StringsRead
  BY DEF Init, StringsRead
<1>2. IInv /\ StringsRead /\ [Next]_vars => StringsRead'
  BY StringsStep
<1>3. StringsRead => PrintedStringsReadBack
  <2> SUFFICES ASSUME StringsRead, parsed, curr.type = "QUOTE", "quote" \notin Chars(strings)
               PROVE  LET t == Peek(Quoted(PrintString(strings)))
                      IN  /\ t.type = "QUOTE" /\ t.chars = strings
                          /\ t.len + 2 = Len(Quoted(PrintString(strings)))
    BY DEF PrintedStringsReadBack, Quoted
  <2>1. strings \in Seq(Char)
    BY DEF StringsRead
  <2> QED BY <2>1, ReadsBack
<1> QED BY <1>1, <1>2, <1>3, Invariance, PTL DEF Spec

-----------------------------------------------------------------------------
(***************************************************************************)
(* The words of a text.  v is a text that begins with a token, if any.     *)
(***************************************************************************)
LEMMA InTypes ==
  ASSUME NEW u, NEW t
  PROVE  t \in Types(u) <=> \/ t = "IF" /\ u = <<"i", "f">>
                            \/ t = "SYMBOL" /\ IsName(u) /\ u # <<"i", "f">>
                            \/ t = "INTEGER" /\ IsInteger(u)
                            \/ t = "FLOATING" /\ IsFloating(u)
                            \/ t = "QUOTE" /\ IsString(u)
                            \/ t = "ASSIGN" /\ u = <<"=">>
                            \/ t = "ISEQUAL" /\ u = <<"=", "=">>
                            \/ t \in Mark /\ u = <<t>>
<1>1. Mark \cap {"IF", "SYMBOL", "INTEGER", "FLOATING", "QUOTE", "ASSIGN", "ISEQUAL"} = {}
  BY DEF Mark
<1>2. t \in Types(u) <=>
        /\ t \in {"IF", "SYMBOL", "INTEGER", "FLOATING", "QUOTE", "ASSIGN", "ISEQUAL"} \cup Mark
        /\ CASE t = "IF"       -> u = <<"i", "f">>
             [] t = "SYMBOL"   -> IsName(u) /\ u # <<"i", "f">>
             [] t = "INTEGER"  -> IsInteger(u)
             [] t = "FLOATING" -> IsFloating(u)
             [] t = "QUOTE"    -> IsString(u)
             [] t = "ASSIGN"   -> u = <<"=">>
             [] t = "ISEQUAL"  -> u = <<"=", "=">>
             [] OTHER          -> u = <<t>>
  BY DEF Types
<1>3. CASE t \in Mark
  BY <1>1, <1>2, <1>3
<1>4. CASE t \notin Mark
  BY <1>1, <1>2, <1>4
<1> QED BY <1>3, <1>4

LEMMA PrefixFacts ==
  ASSUME NEW v \in Seq(Char), NEW k \in 1..Len(v)
  PROVE  /\ Prefix(v, k) \in Seq(Char) /\ Len(Prefix(v, k)) = k
         /\ \A i \in 1..k : Prefix(v, k)[i] = v[i]
         /\ Chars(Prefix(v, k)) = {v[i] : i \in 1..k}
<1>1. PICK u : u = Prefix(v, k)
  OBVIOUS
<1>2. u \in Seq(Char) /\ Len(u) = k /\ \A i \in 1..k : u[i] = v[i]
  BY <1>1 DEF Prefix
<1>3. DOMAIN u = 1..k
  BY <1>2
<1>4. Chars(u) = {v[i] : i \in 1..k}
  BY <1>2, <1>3 DEF Chars
<1> QED BY <1>1, <1>2, <1>4

\* Sequences of one or two characters.
LEMMA ShortWords ==
  ASSUME NEW u \in Seq(Char)
  PROVE  /\ \A a : u = <<a>> <=> Len(u) = 1 /\ u[1] = a
         /\ \A a, b : u = <<a, b>> <=> Len(u) = 2 /\ u[1] = a /\ u[2] = b
<1>1. ASSUME NEW a, Len(u) = 1, u[1] = a PROVE u = <<a>>
  <2>1. u \in [1..1 -> Char]
    BY <1>1
  <2> QED BY <1>1, <2>1
<1>2. ASSUME NEW a, NEW b, Len(u) = 2, u[1] = a, u[2] = b PROVE u = <<a, b>>
  <2>1. u \in [1..2 -> Char]
    BY <1>2
  <2> QED BY <1>2, <2>1
<1> QED BY <1>1, <1>2

\* What a word that begins with v's first character can be.
LEMMA FirstDecides ==
  ASSUME NEW v \in Seq(Char), NEW k \in 1..Len(v), NEW u, u = Prefix(v, k)
  PROVE  /\ u = <<"i", "f">> => v[1] = "i"
         /\ IsName(u) => v[1] \in SymbolChar \ Digit
         /\ IsInteger(u) \/ IsFloating(u) => v[1] \in Digit
         /\ IsString(u) => v[1] = "quote"
         /\ u = <<"=">> \/ u = <<"=", "=">> => v[1] = "="
         /\ \A t \in Mark : u = <<t>> <=> k = 1 /\ v[1] = t
<1>1. u \in Seq(Char) /\ Len(u) = k /\ u[1] = v[1] /\ 1 \in DOMAIN u /\ u[1] \in Chars(u)
  <2>1. u \in Seq(Char) /\ Len(u) = k /\ \A i \in 1..k : u[i] = v[i]
    BY PrefixFacts
  <2> QED BY <2>1 DEF Chars
<1>2. IsName(u) => v[1] \in SymbolChar \ Digit
  BY <1>1 DEF IsName
<1>3. IsInteger(u) => v[1] \in Digit
  BY <1>1 DEF IsInteger
<1>4. IsFloating(u) => v[1] \in Digit
  BY <1>1 DEF IsFloating
<1>5. IsString(u) => v[1] = "quote"
  BY <1>1 DEF IsString
<1>6. /\ u = <<"i", "f">> => v[1] = "i"
      /\ u = <<"=">> \/ u = <<"=", "=">> => v[1] = "="
      /\ \A t \in Mark : u = <<t>> <=> k = 1 /\ v[1] = t
  BY <1>1, ShortWords
<1> QED BY <1>2, <1>3, <1>4, <1>5, <1>6

LEMMA WordsAre ==
  ASSUME NEW v, NEW k
  PROVE  k \in WordEnds(v) <=> k \in 1..Len(v) /\ \E t : t \in Types(Prefix(v, k))
BY DEF WordEnds

\* m is the longest of the words at the beginning of v.
LEMMA Longest ==
  ASSUME NEW v \in Seq(Char), NEW m \in WordEnds(v), \A q \in WordEnds(v) : q <= m
  PROVE  Max(WordEnds(v)) = m
<1>1. WordEnds(v) \subseteq 0..Len(v) /\ Len(v) \in Nat
  BY DEF WordEnds
<1>2. PICK n : n = Max(WordEnds(v))
  OBVIOUS
<1>3. n \in WordEnds(v) /\ \A q \in WordEnds(v) : q <= n
  BY <1>1, <1>2, Greatest
<1>4. n <= m /\ m <= n /\ m \in Nat /\ n \in Nat
  BY <1>1, <1>3
<1> QED BY <1>2, <1>4

\* The token t, at the beginning of v, is the longest word there.
IsLexeme(v, t) ==
  LET len  == IF t.type = "QUOTE" THEN t.len + 2 ELSE t.len
      most == Max(WordEnds(v))
      word == Prefix(v, most)
  IN  CASE v = << >> -> t.type = "EOS"
        [] v # << >> /\ WordEnds(v) = {} -> t.type = "FAIL"
        [] v # << >> /\ WordEnds(v) # {} ->
             IF word[1] \in Digit /\ Ch(v, most) \in SymbolChar THEN t.type = "FAIL"
             ELSE /\ len = most /\ (t.type \in Types(word) \/ word = <<"i">>)
                  /\ t.type = "QUOTE" => StandsFor(word, t.chars)

LEMMA NoWord ==
  ASSUME NEW v, v # << >>, WordEnds(v) = {}, NEW t, t.type = "FAIL"
  PROVE  IsLexeme(v, t)
BY DEF IsLexeme

LEMMA AWord ==
  ASSUME NEW v \in Seq(Char), NEW m \in WordEnds(v), \A q \in WordEnds(v) : q <= m, NEW t,
         IF v[1] \in Digit /\ Ch(v, m) \in SymbolChar THEN t.type = "FAIL"
         ELSE /\ (IF t.type = "QUOTE" THEN t.len + 2 ELSE t.len) = m
              /\ t.type \in Types(Prefix(v, m)) \/ Prefix(v, m) = <<"i">>
              /\ t.type = "QUOTE" => StandsFor(Prefix(v, m), t.chars)
  PROVE  IsLexeme(v, t)
<1>1. Max(WordEnds(v)) = m
  BY Longest
<1>2. m \in 1..Len(v) /\ v # << >>
  BY DEF WordEnds
<1>3. Prefix(v, m)[1] = v[1]
  BY <1>2, PrefixFacts
<1>4. PICK n : n = Max(WordEnds(v))
  OBVIOUS
<1>5. PICK word : word = Prefix(v, m)
  OBVIOUS
<1>6. IsLexeme(v, t) <=>
        IF word[1] \in Digit /\ Ch(v, m) \in SymbolChar THEN t.type = "FAIL"
        ELSE /\ (IF t.type = "QUOTE" THEN t.len + 2 ELSE t.len) = m
             /\ t.type \in Types(word) \/ word = <<"i">>
             /\ t.type = "QUOTE" => StandsFor(word, t.chars)
  BY <1>1, <1>2, <1>5 DEF IsLexeme
<1> QED BY <1>3, <1>5, <1>6

\* The characters from p on.
From(w, p) == SubSeq(w, p + 1, Len(w))

LEMMA FromFacts ==
  ASSUME NEW w \in Seq(Char), NEW p \in 0..Len(w)
  PROVE  /\ From(w, p) \in Seq(Char) /\ Len(From(w, p)) = Len(w) - p
         /\ \A i \in 1..(Len(w) - p) : From(w, p)[i] = Ch(w, p + i - 1)
         /\ \A q \in Nat : Ch(From(w, p), q) = Ch(w, p + q)
         /\ From(w, p) = << >> <=> p = Len(w)
<1>1. PICK v : v = From(w, p)
  OBVIOUS
<1>2. v \in Seq(Char) /\ Len(v) = Len(w) - p /\ \A i \in 1..(Len(w) - p) : v[i] = w[p + i]
  BY <1>1 DEF From
<1>3. ASSUME NEW i \in 1..(Len(w) - p) PROVE v[i] = Ch(w, p + i - 1)
  <2>1. p + i - 1 < Len(w) /\ p + i - 1 + 1 = p + i
    OBVIOUS
  <2> QED BY <1>2, <2>1 DEF Ch
<1>4. ASSUME NEW q \in Nat PROVE Ch(v, q) = Ch(w, p + q)
  <2>1. q < Len(v) <=> p + q < Len(w)
    BY <1>2
  <2>2. q < Len(v) => v[q + 1] = w[p + (q + 1)] /\ p + (q + 1) = p + q + 1
    BY <1>2
  <2> QED BY <2>1, <2>2 DEF Ch
<1>5. v = << >> <=> p = Len(w)
  BY <1>2
<1> QED BY <1>1, <1>2, <1>3, <1>4, <1>5

-----------------------------------------------------------------------------
(***************************************************************************)
(* Marks and `='.                                                          *)
(***************************************************************************)
LEMMA MarkIsLexeme ==
  ASSUME NEW v \in Seq(Char), v # << >>, v[1] \in Mark, NEW t, t.type = v[1], t.len = 1
  PROVE  IsLexeme(v, t)
<1>1. 1 \in 1..Len(v)
  BY EmptySeq
<1>2. /\ v[1] \notin SymbolChar \cup Digit /\ v[1] # "i" /\ v[1] # "quote" /\ v[1] # "=" /\ v[1] # "QUOTE"
  BY DEF Mark, SymbolChar, Digit
<1>3. ASSUME NEW k \in 1..Len(v), NEW type PROVE type \in Types(Prefix(v, k)) <=> k = 1 /\ type = v[1]
  <2>1. PICK u : u = Prefix(v, k)
    OBVIOUS
  <2>2. type \in Types(u) <=> type \in Mark /\ u = <<type>>
    BY <1>2, <2>1, InTypes, FirstDecides
  <2>3. type \in Mark => (u = <<type>> <=> k = 1 /\ v[1] = type)
    BY <2>1, FirstDecides
  <2> QED BY <2>1, <2>2, <2>3
<1>5. t.type \in Types(Prefix(v, 1))
  BY <1>1, <1>3
<1>4. 1 \in WordEnds(v) /\ \A q \in WordEnds(v) : q <= 1
  <2>1. ASSUME NEW q \in WordEnds(v) PROVE q = 1
    BY <1>3, WordsAre, Zenon
  <2> QED BY <1>1, <1>5, <2>1, WordsAre
<1> QED BY <1>2, <1>4, <1>5, AWord

LEMMA EqualIsLexeme ==
  ASSUME NEW w \in Seq(Char), NEW p \in 0..Len(w), Ch(w, p) = "="
  PROVE  IsLexeme(From(w, p), ReadEqual(w, p))
<1>1. PICK v : v = From(w, p)
  OBVIOUS
<1>2. /\ v \in Seq(Char) /\ 1 \in 1..Len(v) /\ v[1] = "="
      /\ Ch(w, p + 1) = "=" <=> (2 \in 1..Len(v) /\ v[2] = "=")
  <2>1. p < Len(w) /\ p \in Nat /\ p + 1 \in Nat
    BY DEF Ch
  <2>2. v \in Seq(Char) /\ Len(v) = Len(w) - p /\ Ch(v, 0) = Ch(w, p + 0) /\ Ch(v, 1) = Ch(w, p + 1)
    BY <1>1, FromFacts
  <2>3. p + 0 = p
    OBVIOUS
  <2>4. 0 < Len(v) /\ Len(v) \in Nat
    BY <2>1, <2>2
  <2> QED BY <2>2, <2>3, <2>4 DEF Ch
<1>3. v[1] \notin SymbolChar \cup Digit /\ v[1] # "i" /\ v[1] # "quote" /\ v[1] \notin Mark
  BY <1>2 DEF Mark, SymbolChar, Digit
<1>4. ASSUME NEW k \in 1..Len(v), NEW type
      PROVE  type \in Types(Prefix(v, k)) <=> \/ type = "ASSIGN" /\ k = 1
                                              \/ type = "ISEQUAL" /\ k = 2 /\ v[2] = "="
  <2>1. PICK u : u = Prefix(v, k)
    OBVIOUS
  <2>2. type \in Types(u) <=> \/ type = "ASSIGN" /\ u = <<"=">>
                              \/ type = "ISEQUAL" /\ u = <<"=", "=">>
    BY <1>2, <1>3, <2>1, InTypes, FirstDecides
  <2>3. u \in Seq(Char) /\ Len(u) = k /\ \A i \in 1..k : u[i] = v[i]
    BY <1>2, <2>1, PrefixFacts
  <2>4. /\ u = <<"=">> <=> Len(u) = 1 /\ u[1] = "="
        /\ u = <<"=", "=">> <=> Len(u) = 2 /\ u[1] = "=" /\ u[2] = "="
    <3>1. u \in Seq(Char)
      BY <2>3
    <3>2. \A a : u = <<a>> <=> Len(u) = 1 /\ u[1] = a
      BY <3>1, ShortWords
    <3>3. \A a, b : u = <<a, b>> <=> Len(u) = 2 /\ u[1] = a /\ u[2] = b
      BY <3>1, ShortWords
    <3>4. u = <<"=">> <=> Len(u) = 1 /\ u[1] = "="
      BY <3>2, Zenon
    <3>5. u = <<"=", "=">> <=> Len(u) = 2 /\ u[1] = "=" /\ u[2] = "="
      BY <3>3, Zenon
    <3> QED BY <3>4, <3>5
  <2>5. u = <<"=">> <=> k = 1
    BY <1>2, <2>3, <2>4
  <2>6. u = <<"=", "=">> <=> k = 2 /\ v[2] = "="
    BY <1>2, <2>3, <2>4
  <2> QED BY <2>1, <2>2, <2>5, <2>6, Zenon
<1>5. CASE Ch(w, p + 1) = "="
  <2>2. "ISEQUAL" \in Types(Prefix(v, 2))
    BY <1>2, <1>4, <1>5
  <2>1. 2 \in WordEnds(v) /\ \A q \in WordEnds(v) : q <= 2
    <3>1. ASSUME NEW q \in WordEnds(v) PROVE q = 1 \/ q = 2
      BY <1>4, WordsAre, Zenon
    <3> QED BY <1>2, <1>5, <2>2, <3>1, WordsAre
  <2>3. ReadEqual(w, p).type = "ISEQUAL" /\ ReadEqual(w, p).len = 2
    BY <1>5 DEF ReadEqual, Token
  <2> QED BY <1>1, <1>2, <1>3, <2>1, <2>2, <2>3, AWord
<1>6. CASE Ch(w, p + 1) # "="
  <2>2. "ASSIGN" \in Types(Prefix(v, 1))
    BY <1>2, <1>4
  <2>1. 1 \in WordEnds(v) /\ \A q \in WordEnds(v) : q <= 1
    <3>1. ASSUME NEW q \in WordEnds(v) PROVE q = 1
      BY <1>2, <1>4, <1>6, WordsAre, Zenon
    <3> QED BY <1>2, <2>2, <3>1, WordsAre
  <2>3. ReadEqual(w, p).type = "ASSIGN" /\ ReadEqual(w, p).len = 1
    BY <1>6 DEF ReadEqual, Token
  <2> QED BY <1>1, <1>2, <1>3, <2>1, <2>2, <2>3, AWord
<1> QED BY <1>5, <1>6

-----------------------------------------------------------------------------
(***************************************************************************)
(* Names.                                                                  *)
(***************************************************************************)
\* A loop over a class, as a stretch of v.
LEMMA StretchFacts ==
  ASSUME NEW w \in Seq(Char), NEW p \in 0..Len(w), NEW q \in p..Len(w), NEW chars, "EOS" \notin chars
  PROVE  /\ EndOf(w, q, chars) \in q..Len(w)
         /\ \A i \in (q - p + 1)..(EndOf(w, q, chars) - p) : From(w, p)[i] \in chars
         /\ Ch(From(w, p), EndOf(w, q, chars) - p) \notin chars
<1>1. PICK v, e : v = From(w, p) /\ e = EndOf(w, q, chars)
  OBVIOUS
<1>2. /\ e \in q..Len(w) /\ Ch(w, e) \notin chars
      /\ \A i \in q..(e - 1) : Ch(w, i) \in chars
  BY <1>1, EndFacts
<1>3. ASSUME NEW i \in (q - p + 1)..(e - p) PROVE v[i] \in chars
  <2>1. i \in 1..(Len(w) - p) /\ p + i - 1 \in q..(e - 1)
    BY <1>2
  <2>2. v[i] = Ch(w, p + i - 1)
    BY <1>1, <2>1, FromFacts
  <2> QED BY <1>2, <2>1, <2>2
<1>4. Ch(v, e - p) \notin chars
  <2>1. e - p \in Nat /\ p + (e - p) = e
    BY <1>2
  <2>2. Ch(v, e - p) = Ch(w, p + (e - p))
    BY <1>1, <2>1, FromFacts
  <2> QED BY <1>2, <2>1, <2>2
<1> QED BY <1>1, <1>2, <1>3, <1>4

LEMMA FirstChar ==
  ASSUME NEW w \in Seq(Char), NEW p \in 0..Len(w), Ch(w, p) # "EOS"
  PROVE  /\ p < Len(w) /\ From(w, p) \in Seq(Char) /\ From(w, p)[1] = Ch(w, p)
         /\ Len(From(w, p)) = Len(w) - p /\ 1 \in 1..Len(From(w, p)) /\ From(w, p) # << >>
<1>1. p < Len(w)
  BY DEF Ch
<1>2. 1 \in 1..(Len(w) - p) /\ p + 1 - 1 = p
  BY <1>1
<1>3. From(w, p)[1] = Ch(w, p + 1 - 1)
  BY <1>2, FromFacts
<1> QED BY <1>1, <1>2, <1>3, FromFacts

LEMMA NameWords ==
  ASSUME NEW v \in Seq(Char), v[1] \in SymbolChar \ Digit, NEW k \in 1..Len(v), NEW type
  PROVE  type \in Types(Prefix(v, k)) <=>
           /\ \A i \in 1..k : v[i] \in SymbolChar
           /\ type = IF Prefix(v, k) = <<"i", "f">> THEN "IF" ELSE "SYMBOL"
<1>1. PICK u : u = Prefix(v, k)
  OBVIOUS
<1>2. /\ u \in Seq(Char) /\ Len(u) = k /\ \A i \in 1..k : u[i] = v[i]
      /\ Chars(u) = {v[i] : i \in 1..k}
  BY <1>1, PrefixFacts
<1>3. v[1] \notin Mark /\ v[1] # "quote" /\ v[1] # "="
  BY DEF Mark, SymbolChar
<1>4. type \in Types(u) <=> \/ type = "IF" /\ u = <<"i", "f">>
                            \/ type = "SYMBOL" /\ IsName(u) /\ u # <<"i", "f">>
  BY <1>1, <1>3, InTypes, FirstDecides
<1>5. IsName(u) <=> \A i \in 1..k : v[i] \in SymbolChar
  <2>1. u # << >> /\ u[1] \notin Digit
    BY <1>2
  <2> QED BY <1>2, <2>1 DEF IsName
<1>6. u = <<"i", "f">> => \A i \in 1..k : v[i] \in SymbolChar
  <2> SUFFICES ASSUME u = <<"i", "f">>, NEW i \in 1..k PROVE v[i] \in SymbolChar
    OBVIOUS
  <2>1. k = 2 /\ u[1] = "i" /\ u[2] = "f"
    BY <1>2
  <2>2. u[i] \in {"i", "f"}
    BY <2>1
  <2> QED BY <1>2, <2>2 DEF SymbolChar
<1> QED BY <1>1, <1>4, <1>5, <1>6

LEMMA NameIsLexeme ==
  ASSUME NEW w \in Seq(Char), NEW p \in 0..Len(w), Ch(w, p) \in SymbolChar \ Digit
  PROVE  IsLexeme(From(w, p), ReadName(w, p))
<1>1. PICK v, e, m, t : v = From(w, p) /\ e = EndOf(w, p, SymbolChar) /\ m = e - p /\ t = ReadName(w, p)
  OBVIOUS
<1>2. /\ v \in Seq(Char) /\ 1 \in 1..Len(v) /\ v[1] = Ch(w, p) /\ Len(v) = Len(w) - p
  BY <1>1, FirstChar, Classes
<1>3. /\ e \in p..Len(w) /\ Ch(v, m) \notin SymbolChar
      /\ \A i \in 1..m : v[i] \in SymbolChar
  <2>1. p \in p..Len(w) /\ p - p + 1 = 1
    OBVIOUS
  <2> QED BY <1>1, <2>1, StretchFacts, Classes
<1>4. m \in 1..Len(v)
  <2>1. m \in 0..Len(v)
    BY <1>1, <1>2, <1>3
  <2>2. m # 0
    BY <1>2, <1>3 DEF Ch
  <2> QED BY <2>1, <2>2
<1>5. PICK word : word = Prefix(v, m)
  OBVIOUS
<1>6. word \in Seq(Char) /\ Len(word) = m /\ \A i \in 1..m : word[i] = v[i]
  BY <1>2, <1>4, <1>5, PrefixFacts
<1>7. word = SubSeq(w, p + 1, e)
  <2>1. PICK x : x = SubSeq(w, p + 1, e)
    OBVIOUS
  <2>2. x \in Seq(Char) /\ Len(x) = m /\ \A i \in 1..m : x[i] = w[p + i]
    BY <1>1, <1>3, <1>4, <2>1
  <2>3. \A i \in 1..m : v[i] = w[p + i]
    BY <1>1, <1>2, <1>4 DEF From
  <2>5. \A i \in 1..m : x[i] = word[i]
    BY <1>6, <2>2, <2>3
  <2>6. x = word
    BY <1>6, <2>2, <2>5, SeqEqual
  <2> QED BY <2>1, <2>6
<1>8. \A q \in WordEnds(v) : q <= m
  <2> SUFFICES ASSUME NEW q \in WordEnds(v), q > m PROVE FALSE
    BY <1>4, WordsAre
  <2>1. q \in 1..Len(v) /\ \A i \in 1..q : v[i] \in SymbolChar
    BY <1>2, NameWords, WordsAre, Zenon
  <2>2. m + 1 \in 1..q /\ Ch(v, m) = v[m + 1]
    BY <1>4, <2>1 DEF Ch
  <2> QED BY <1>3, <2>1, <2>2
<1>9. \A type : type = (IF word = <<"i", "f">> THEN "IF" ELSE "SYMBOL") => type \in Types(word)
  BY <1>2, <1>3, <1>4, <1>5, NameWords
<1>10. m \in WordEnds(v)
  BY <1>4, <1>5, <1>9, WordsAre
<1>11. t.type \in Types(word) \/ word = <<"i">>
  <2>1. t.type = IF EqualsIf(word) THEN "IF" ELSE "SYMBOL"
    BY <1>1, <1>3, <1>4, <1>7 DEF ReadName, Token
  <2>2. EqualsIf(word) => word = <<"i">> \/ word = <<"i", "f">>
    <3> SUFFICES ASSUME EqualsIf(word) PROVE word = <<"i">> \/ word = <<"i", "f">>
      OBVIOUS
    <3>1. \A k \in 1..m : k <= 2 /\ word[k] = <<"i", "f">>[k]
      BY <1>6 DEF EqualsIf
    <3>2. m <= 2 /\ word[1] = "i" /\ (m = 2 => word[2] = "f")
      BY <1>4, <3>1
    <3>3. \A a : word = <<a>> <=> Len(word) = 1 /\ word[1] = a
      BY <1>6, ShortWords
    <3>4. \A a, b : word = <<a, b>> <=> Len(word) = 2 /\ word[1] = a /\ word[2] = b
      BY <1>6, ShortWords
    <3>5. m = 1 => word = <<"i">>
      BY <1>6, <3>2, <3>3, Zenon
    <3>6. m = 2 => word = <<"i", "f">>
      BY <1>6, <3>2, <3>4, Zenon
    <3> QED BY <1>4, <3>2, <3>5, <3>6
  <2>3. word = <<"i", "f">> => EqualsIf(word)
    BY DEF EqualsIf
  <2> QED BY <1>9, <2>1, <2>2, <2>3
<1>12. t.len = m /\ t.type # "QUOTE"
  BY <1>1, <1>3, <1>4 DEF ReadName, Token
<1> QED BY <1>1, <1>2, <1>5, <1>8, <1>10, <1>11, <1>12, AWord

\* No token begins with any other character.
LEMMA NoneIsLexeme ==
  ASSUME NEW w \in Seq(Char), NEW p \in 0..Len(w),
         Ch(w, p) \notin {"EOS", "=", "quote"} \cup Mark \cup Digit \cup SymbolChar
  PROVE  IsLexeme(From(w, p), ReadName(w, p))
<1>1. PICK v : v = From(w, p)
  OBVIOUS
<1>2. v \in Seq(Char) /\ v # << >> /\ v[1] = Ch(w, p)
  BY <1>1, FirstChar
<1>3. "i" \in SymbolChar
  BY DEF SymbolChar
<1>4. ASSUME NEW k \in WordEnds(v) PROVE FALSE
  <2>1. k \in 1..Len(v)
    BY WordsAre
  <2>2. PICK u, type : u = Prefix(v, k) /\ type \in Types(u)
    BY WordsAre
  <2>3. \/ u = <<"i", "f">> \/ IsName(u) \/ IsInteger(u) \/ IsFloating(u) \/ IsString(u)
        \/ u = <<"=">> \/ u = <<"=", "=">>
        \/ type \in Mark /\ u = <<type>>
    BY <2>2, InTypes
  <2> QED BY <1>2, <1>3, <2>1, <2>2, <2>3, FirstDecides
<1>5. WordEnds(v) = {}
  BY <1>4
<1>6. ReadName(w, p).type = "FAIL"
  <2>1. PICK e : e = EndOf(w, p, SymbolChar)
    OBVIOUS
  <2>2. e \in p..Len(w) /\ \A q \in p..(e - 1) : Ch(w, q) \in SymbolChar
    BY <2>1, EndFacts, Classes
  <2>3. e = p
    BY <2>2
  <2> QED BY <2>1, <2>3 DEF ReadName, Token
<1> QED BY <1>1, <1>2, <1>5, <1>6, NoWord

-----------------------------------------------------------------------------
(***************************************************************************)
(* Numbers: the first d characters of v are digits, and if there is a      *)
(* point and a digit behind them, the first e are a number too.            *)
(***************************************************************************)
LEMMA NumberWords ==
  ASSUME NEW v \in Seq(Char), NEW d \in 1..Len(v), \A i \in 1..d : v[i] \in Digit, Ch(v, d) \notin Digit,
         NEW e \in d..Len(v), \A i \in (d + 2)..e : v[i] \in Digit,
         NEW hasfrac \in BOOLEAN,
         hasfrac => e >= d + 2 /\ Ch(v, d) = "." /\ Ch(v, e) \notin Digit,
         ~hasfrac => Ch(v, d) # "." \/ Ch(v, d + 1) \notin Digit
  PROVE  /\ \A k \in 1..Len(v) : IsInteger(Prefix(v, k)) <=> k <= d
         /\ \A k \in 1..Len(v) : IsFloating(Prefix(v, k)) <=> hasfrac /\ k \in (d + 2)..e
<1>1. "." \notin Digit
  BY DEF Digit
<1>2. ASSUME NEW k \in 1..Len(v) PROVE IsInteger(Prefix(v, k)) <=> k <= d
  <2>1. PICK u : u = Prefix(v, k)
    OBVIOUS
  <2>2. u \in Seq(Char) /\ Len(u) = k /\ Chars(u) = {v[i] : i \in 1..k} /\ u # << >>
    BY <2>1, PrefixFacts
  <2>3. IsInteger(u) <=> \A i \in 1..k : v[i] \in Digit
    BY <2>2 DEF IsInteger
  <2>4. k > d => d + 1 \in 1..k /\ Ch(v, d) = v[d + 1]
    BY DEF Ch
  <2> QED BY <2>1, <2>3, <2>4
<1>3. ASSUME NEW k \in 1..Len(v), IsFloating(Prefix(v, k)) PROVE hasfrac /\ k \in (d + 2)..e
  <2>1. PICK u : u = Prefix(v, k)
    OBVIOUS
  <2>2. u \in Seq(Char) /\ Len(u) = k /\ \A i \in 1..k : u[i] = v[i]
    BY <2>1, PrefixFacts
  <2>3. PICK j \in 2..(k - 1) : v[j] = "." /\ \A i \in (1..k) \ {j} : v[i] \in Digit
    <3>1. PICK j \in 2..(k - 1) : u[j] = "." /\ \A i \in (1..k) \ {j} : u[i] \in Digit
      BY <1>3, <2>1, <2>2 DEF IsFloating
    <3> QED BY <2>2, <3>1
  <2>4. j > d
    BY <1>1, <2>3
  <2>5. d + 1 \in 1..k /\ Ch(v, d) = v[d + 1]
    BY <2>3, <2>4 DEF Ch
  <2>6. j = d + 1
    BY <2>3, <2>5
  <2>7. d + 2 \in (1..k) \ {j} /\ Ch(v, d + 1) = v[d + 2]
    BY <2>3, <2>6 DEF Ch
  <2>8. hasfrac
    BY <2>3, <2>5, <2>6, <2>7
  <2>9. ASSUME k > e PROVE FALSE
    <3>1. e + 1 \in (1..k) \ {j} /\ Ch(v, e) = v[e + 1]
      BY <2>6, <2>8, <2>9 DEF Ch
    <3> QED BY <2>3, <2>8, <3>1
  <2> QED BY <2>3, <2>6, <2>8, <2>9
<1>4. ASSUME NEW k \in 1..Len(v), hasfrac, k \in (d + 2)..e PROVE IsFloating(Prefix(v, k))
  <2>1. PICK u : u = Prefix(v, k)
    OBVIOUS
  <2>2. u \in Seq(Char) /\ Len(u) = k /\ \A i \in 1..k : u[i] = v[i]
    BY <2>1, PrefixFacts
  <2>3. DOMAIN u = 1..k /\ d + 1 \in 2..(k - 1)
    BY <1>4, <2>2
  <2>4. u[d + 1] = "."
    BY <1>4, <2>2, <2>3 DEF Ch
  <2>5. \A i \in (1..k) \ {d + 1} : i \in 1..d \/ i \in (d + 2)..e
    BY <1>4
  <2>6. \A i \in (1..k) \ {d + 1} : u[i] \in Digit
    BY <2>2, <2>5
  <2> QED BY <2>1, <2>2, <2>3, <2>4, <2>6 DEF IsFloating
<1> QED BY <1>2, <1>3, <1>4

LEMMA NumberIsLexeme ==
  ASSUME NEW w \in Seq(Char), NEW p \in 0..Len(w), Ch(w, p) \in Digit
  PROVE  IsLexeme(From(w, p), ReadNumber(w, p))
<1>1. PICK v, a, d : v = From(w, p) /\ a = EndOf(w, p, Digit) /\ d = a - p
  OBVIOUS
<1>2. /\ v \in Seq(Char) /\ 1 \in 1..Len(v) /\ v[1] \in Digit /\ Len(v) = Len(w) - p /\ v # << >>
  BY <1>1, FirstChar, Classes
<1>3. /\ a \in p..Len(w) /\ Ch(v, d) \notin Digit
      /\ \A i \in 1..d : v[i] \in Digit
  <2>1. p \in p..Len(w) /\ p - p + 1 = 1
    OBVIOUS
  <2> QED BY <1>1, <2>1, StretchFacts, Classes
<1>4. d \in 1..Len(v) /\ Ch(v, d) = Ch(w, a) /\ Ch(v, d + 1) = Ch(w, a + 1)
  <2>1. d \in 0..Len(v)
    BY <1>1, <1>2, <1>3
  <2>2. d # 0
    BY <1>2, <1>3 DEF Ch
  <2>3. d \in Nat /\ d + 1 \in Nat /\ p + d = a /\ p + (d + 1) = a + 1
    BY <1>1, <1>3, <2>1
  <2> QED BY <1>1, <2>1, <2>2, <2>3, FromFacts
<1>5. PICK b, f, e : b = (IF Ch(w, a) = "." THEN a + 1 ELSE a) /\ f = EndOf(w, b, Digit) /\ e = f - p
  OBVIOUS
<1>6. b \in a..Len(w) /\ b \in p..Len(w)
  BY <1>3, <1>5 DEF Ch
<1>7. /\ f \in b..Len(w) /\ Ch(v, e) \notin Digit
      /\ \A i \in (b - p + 1)..e : v[i] \in Digit
  BY <1>1, <1>5, <1>6, StretchFacts, Classes
<1>8. PICK hasfrac \in BOOLEAN : hasfrac <=> Ch(w, a) = "." /\ f # a + 1
  OBVIOUS
<1>9. /\ e \in d..Len(v) /\ Ch(v, e) = Ch(w, f)
      /\ \A i \in (d + 2)..e : v[i] \in Digit
      /\ hasfrac => e >= d + 2
  <2>0. f \in a..Len(w) /\ e = f - p /\ a \in p..Len(w) /\ d = a - p /\ Len(v) = Len(w) - p
    BY <1>1, <1>2, <1>3, <1>5, <1>6, <1>7
  <2>1. e \in d..Len(v) /\ e \in Nat /\ p + e = f
    BY <2>0
  <2>2. Ch(v, e) = Ch(w, p + e)
    BY <1>1, <2>1, FromFacts
  <2>3. hasfrac => e >= d + 2
    BY <1>1, <1>3, <1>5, <1>7, <1>8
  <2>4. \A i \in (d + 2)..e : i \in (b - p + 1)..e
    BY <1>1, <1>3, <1>5, <1>6
  <2> QED BY <1>7, <2>1, <2>2, <2>3, <2>4
<1>10. ~hasfrac => Ch(v, d) # "." \/ Ch(v, d + 1) \notin Digit
  <2> SUFFICES ASSUME ~hasfrac, Ch(v, d) = "." PROVE Ch(v, d + 1) \notin Digit
    OBVIOUS
  <2>1. f = a + 1 /\ e = d + 1
    BY <1>1, <1>3, <1>4, <1>5, <1>8
  <2> QED BY <1>7, <2>1
<1>11. /\ \A k \in 1..Len(v) : IsInteger(Prefix(v, k)) <=> k <= d
       /\ \A k \in 1..Len(v) : IsFloating(Prefix(v, k)) <=> hasfrac /\ k \in (d + 2)..e
  BY <1>2, <1>3, <1>4, <1>7, <1>8, <1>9, <1>10, NumberWords
<1>12. PICK t : t = ReadNumber(w, p)
  OBVIOUS
<1>13. t = CASE ~hasfrac /\ Ch(w, a) \notin SymbolChar -> Token("INTEGER", p, d, f)
             [] hasfrac /\ Ch(w, f) \notin SymbolChar -> Token("FLOATING", p, e, f)
             [] OTHER -> Token("FAIL", p, 0, f)
  BY <1>1, <1>5, <1>8, <1>12 DEF ReadNumber
<1>14. ASSUME NEW k \in WordEnds(v) PROVE k <= d \/ (hasfrac /\ k \in (d + 2)..e)
  <2>1. k \in 1..Len(v)
    BY WordsAre
  <2>2. PICK u, type : u = Prefix(v, k) /\ type \in Types(u)
    BY WordsAre
  <2>3. v[1] \notin SymbolChar \ Digit /\ v[1] # "quote" /\ v[1] # "=" /\ v[1] # "i" /\ v[1] \notin Mark
    BY <1>2 DEF Digit, Mark
  <2>4. IsInteger(u) \/ IsFloating(u)
    <3>1. \/ u = <<"i", "f">> \/ IsName(u) \/ IsInteger(u) \/ IsFloating(u) \/ IsString(u)
          \/ u = <<"=">> \/ u = <<"=", "=">>
          \/ type \in Mark /\ u = <<type>>
      BY <2>2, InTypes
    <3> QED BY <1>2, <2>1, <2>2, <2>3, <3>1, FirstDecides
  <2> QED BY <1>11, <2>1, <2>2, <2>4
<1>15. CASE ~hasfrac
  <2>1. "INTEGER" \in Types(Prefix(v, d))
    BY <1>4, <1>11, InTypes
  <2>2. d \in WordEnds(v) /\ \A q \in WordEnds(v) : q <= d
    BY <1>4, <1>14, <1>15, <2>1, WordsAre
  <2>3. IF Ch(v, d) \in SymbolChar THEN t.type = "FAIL" ELSE t.type = "INTEGER" /\ t.len = d
    BY <1>4, <1>13, <1>15 DEF Token
  <2> QED BY <1>1, <1>2, <1>12, <2>1, <2>2, <2>3, AWord
<1>16. CASE hasfrac
  <2>0. e \in 1..Len(v) /\ e \in (d + 2)..e
    BY <1>4, <1>9, <1>16
  <2>1. "FLOATING" \in Types(Prefix(v, e))
    BY <1>11, <1>16, <2>0, InTypes
  <2>2. e \in WordEnds(v) /\ \A q \in WordEnds(v) : q <= e
    <3>1. \A q \in WordEnds(v) : q \in Int
      BY WordsAre
    <3> QED BY <1>4, <1>9, <1>14, <1>16, <2>0, <2>1, <3>1, WordsAre
  <2>3. IF Ch(v, e) \in SymbolChar THEN t.type = "FAIL" ELSE t.type = "FLOATING" /\ t.len = e
    BY <1>9, <1>13, <1>16 DEF Token
  <2> QED BY <1>1, <1>2, <1>12, <2>1, <2>2, <2>3, AWord
<1> QED BY <1>15, <1>16

-----------------------------------------------------------------------------
(***************************************************************************)
(* Strings.  A character is escaped if a backslash is before it that is    *)
(* not.                                                                    *)
(***************************************************************************)
LEMMA EscapedBehind ==
  ASSUME NEW v, NEW k \in Int, IsEscaped(v, k)
  PROVE  k >= 3 /\ v[k - 1] = "bslash"
<1>1. PICK j \in 2..(k - 1) : \A i \in j..(k - 1) : v[i] = "bslash"
  BY DEF IsEscaped
<1> QED BY <1>1

LEMMA EscapedOnce ==
  ASSUME NEW v, NEW k \in Int, IsEscaped(v, k), IsEscaped(v, k - 1)
  PROVE  FALSE
<1>1. PICK j \in 2..(k - 1) : /\ (k - j) % 2 = 1 /\ v[j - 1] # "bslash"
                              /\ \A i \in j..(k - 1) : v[i] = "bslash"
  BY DEF IsEscaped
<1>2. PICK h \in 2..(k - 2) : /\ (k - 1 - h) % 2 = 1 /\ v[h - 1] # "bslash"
                              /\ \A i \in h..(k - 2) : v[i] = "bslash"
  BY DEF IsEscaped
<1>3. j = h
  <2>1. CASE j < h
    <3>1. h - 1 \in j..(k - 1)
      BY <2>1
    <3> QED BY <1>1, <1>2, <3>1
  <2>2. CASE h < j
    <3>1. j - 1 \in h..(k - 2)
      BY <2>2
    <3> QED BY <1>1, <1>2, <3>1
  <2> QED BY <2>1, <2>2
<1> QED BY <1>1, <1>2, <1>3

LEMMA EscapedAfter ==
  ASSUME NEW v, v[1] # "bslash", NEW k \in Nat, k >= 3, v[k - 1] = "bslash", ~IsEscaped(v, k - 1)
  PROVE  IsEscaped(v, k)
<1> DEFINE Others == {i \in 1..(k - 1) : v[i] # "bslash"}
<1>1. PICK m \in Others : \A i \in Others : i <= m
  <2>1. Others \subseteq 0..k /\ 1 \in Others
    OBVIOUS
  <2> HIDE DEF Others
  <2> QED BY <2>1, Greatest
<1>2. m \in 1..(k - 2) /\ v[m] # "bslash"
  OBVIOUS
<1>3. \A i \in (m + 1)..(k - 1) : v[i] = "bslash"
  <2> SUFFICES ASSUME NEW i \in (m + 1)..(k - 1), v[i] # "bslash" PROVE FALSE
    OBVIOUS
  <2>1. i \in Others
    BY <1>2
  <2> HIDE DEF Others
  <2> QED BY <1>1, <1>2, <2>1
<1> HIDE DEF Others
<1>4. PICK j \in 2..(k - 1) : j = m + 1
  BY <1>2
<1>5. v[j - 1] # "bslash" /\ \A i \in j..(k - 1) : v[i] = "bslash"
  BY <1>2, <1>3, <1>4
<1>6. CASE (k - j) % 2 = 1
  BY <1>5, <1>6 DEF IsEscaped
<1>7. CASE (k - j) % 2 # 1
  <2>1. j # k - 1 /\ (k - 1 - j) % 2 = 1
    BY <1>7
  <2>2. j \in 2..(k - 1 - 1) /\ \A i \in j..(k - 1 - 1) : v[i] = "bslash"
    BY <1>5, <2>1
  <2>3. IsEscaped(v, k - 1)
    BY <1>5, <2>1, <2>2 DEF IsEscaped
  <2> QED BY <2>3
<1> QED BY <1>6, <1>7

LEMMA EscapedInPrefix ==
  ASSUME NEW v \in Seq(Char), NEW m \in 1..Len(v), NEW k \in 1..m
  PROVE  IsEscaped(Prefix(v, m), k) <=> IsEscaped(v, k)
<1>1. PICK u : u = Prefix(v, m)
  OBVIOUS
<1>2. \A i \in 1..m : u[i] = v[i]
  BY <1>1, PrefixFacts
<1>3. ASSUME NEW j \in 2..(k - 1)
      PROVE  /\ u[j - 1] = v[j - 1]
             /\ \A i \in j..(k - 1) : u[i] = v[i]
  <2>1. j - 1 \in 1..m /\ \A i \in j..(k - 1) : i \in 1..m
    OBVIOUS
  <2> QED BY <1>2, <2>1
<1> QED BY <1>1, <1>3 DEF IsEscaped

-----------------------------------------------------------------------------
(***************************************************************************)
(* The characters of v from k to the quote at e, and what each stands for. *)
(***************************************************************************)
KeptIn(v, k, e) == {i \in k..(e - 1) : v[i] # "bslash" \/ IsEscaped(v, i)}

Decoded(v, i) == IF IsEscaped(v, i) THEN Unescaped(v[i]) ELSE v[i]

Stands(v, k, e, chars) ==
  /\ chars \in Seq(Char) /\ Len(chars) = Cardinality(KeptIn(v, k, e))
  /\ \A i \in KeptIn(v, k, e) : chars[Cardinality({j \in KeptIn(v, k, e) : j <= i})] = Decoded(v, i)

LEMMA KeptFacts ==
  ASSUME NEW v, NEW k \in Nat, NEW e \in Nat
  PROVE  /\ IsFiniteSet(KeptIn(v, k, e)) /\ Cardinality(KeptIn(v, k, e)) \in Nat
         /\ \A i \in KeptIn(v, k, e) : i \in Nat /\ i >= k
<1>1. IsFiniteSet(k..(e - 1))
  BY FS_Interval
<1>2. KeptIn(v, k, e) \subseteq k..(e - 1)
  BY DEF KeptIn
<1>3. IsFiniteSet(KeptIn(v, k, e))
  BY <1>1, <1>2, FS_Subset
<1> QED BY <1>2, <1>3, FS_CardinalityType

\* One more character is put in front of those that were read.
LEMMA PutStands ==
  ASSUME NEW v \in Seq(Char), NEW k \in Nat, NEW l \in Nat, NEW e \in Nat, NEW m \in k..(l - 1),
         KeptIn(v, k, e) = {m} \cup KeptIn(v, l, e),
         NEW chars, Stands(v, l, e, chars), Decoded(v, m) \in Char
  PROVE  Stands(v, k, e, <<Decoded(v, m)>> \o chars)
<1>1. PICK K : K = KeptIn(v, l, e)
  OBVIOUS
<1>2. /\ IsFiniteSet(K) /\ Cardinality(K) \in Nat /\ m \notin K
      /\ \A i \in K : i \in Nat /\ i > m
  <2>1. IsFiniteSet(K) /\ Cardinality(K) \in Nat /\ \A i \in K : i \in Nat /\ i >= l
    BY <1>1, KeptFacts
  <2> QED BY <2>1
<1>3. PICK c : c = Decoded(v, m)
  OBVIOUS
<1>4. PICK new \in Seq(Char) : new = <<c>> \o chars
  <2>0. c \in Char
    BY <1>3
  <2>1. PICK one \in Seq(Char) : one = <<c>>
    <3>1. <<c>> \in Seq(Char)
      BY <2>0
    <3> QED BY <3>1, Zenon
  <2>2. chars \in Seq(Char)
    BY DEF Stands
  <2>3. one \o chars \in Seq(Char)
    BY <2>1, <2>2
  <2> QED BY <2>1, <2>3, Zenon
<1>5. /\ Len(new) = Len(chars) + 1 /\ Len(chars) = Cardinality(K) /\ new[1] = c
      /\ \A i \in 1..Len(chars) : new[i + 1] = chars[i]
  BY <1>1, <1>4 DEF Stands
<1>6. Cardinality({m} \cup K) = Cardinality(K) + 1
  <2>1. {m} \cup K = K \cup {m}
    OBVIOUS
  <2>2. Cardinality(K \cup {m}) = Cardinality(K) + 1
    BY <1>2, FS_AddElement
  <2> QED BY <2>1, <2>2
<1>7. {j \in {m} \cup K : j <= m} = {m} /\ Cardinality({m}) = 1
  <2>1. {j \in {m} \cup K : j <= m} = {m}
    BY <1>2
  <2> QED BY <2>1, FS_Singleton
<1>8. ASSUME NEW i \in K
      PROVE  new[Cardinality({j \in {m} \cup K : j <= i})] = Decoded(v, i)
  <2>1. PICK L : L = {j \in K : j <= i}
    OBVIOUS
  <2>2. {j \in {m} \cup K : j <= i} = L \cup {m} /\ m \notin L /\ IsFiniteSet(L)
    <3>1. m <= i
      BY <1>2
    <3>2. {j \in {m} \cup K : j <= i} = L \cup {m}
      <4>1. \A j : j \in {j0 \in {m} \cup K : j0 <= i} <=> (j = m \/ j \in K) /\ j <= i
        BY Zenon
      <4>2. \A j : j \in L \cup {m} <=> j = m \/ (j \in K /\ j <= i)
        BY <2>1
      <4> QED BY <3>1, <4>1, <4>2
    <3>3. L \subseteq K
      BY <2>1
    <3> QED BY <1>2, <3>2, <3>3, FS_Subset
  <2>3. Cardinality(L \cup {m}) = Cardinality(L) + 1
    BY <2>2, FS_AddElement
  <2>4. Cardinality(L) \in 1..Cardinality(K)
    <3>1. L \subseteq K /\ i \in L
      BY <1>2, <2>1
    <3>2. Cardinality(L) <= Cardinality(K) /\ Cardinality(L) \in Nat
      BY <1>2, <2>2, <3>1, FS_Subset, FS_CardinalityType
    <3>3. Cardinality(L) # 0
      BY <2>2, <3>1, FS_EmptySet
    <3> QED BY <3>2, <3>3, <1>2
  <2>5. chars[Cardinality(L)] = Decoded(v, i)
    BY <1>1, <2>1 DEF Stands
  <2> QED BY <1>5, <2>2, <2>3, <2>4, <2>5
<1>9. \A i \in {m} \cup K : new[Cardinality({j \in {m} \cup K : j <= i})] = Decoded(v, i)
  BY <1>3, <1>5, <1>7, <1>8
<1> QED BY <1>1, <1>3, <1>4, <1>5, <1>6, <1>9 DEF Stands

\* The first quote from k on that is not escaped is at e.
ClosedAt(v, k, e) ==
  /\ v[e] = "quote" /\ ~IsEscaped(v, e)
  /\ \A i \in k..(e - 1) : v[i] = "quote" => IsEscaped(v, i)

\* The loop of read_string, begun at v's k-th character, that is w's (p + k)-th.
ReadsFrom(v, p, k, read) ==
  \/ /\ \A i \in k..Len(v) : v[i] = "quote" => IsEscaped(v, i)
     /\ \E at, chars : read = [closed |-> FALSE, at |-> at, chars |-> chars]
  \/ \E e \in k..Len(v) : /\ ClosedAt(v, k, e)
                          /\ \E chars : /\ Stands(v, k, e, chars)
                                        /\ read = [closed |-> TRUE, at |-> p + e - 1, chars |-> chars]

LEMMA ReadsOn ==
  ASSUME NEW v \in Seq(Char), NEW p \in Nat, NEW k \in Nat, NEW l \in Nat, NEW m \in k..(l - 1),
         NEW read, ReadsFrom(v, p, l, read),
         \A i \in k..(l - 1) : i <= Len(v) /\ v[i] = "quote" => IsEscaped(v, i),
         \A e \in l..Len(v) : KeptIn(v, k, e) = {m} \cup KeptIn(v, l, e),
         NEW c, l <= Len(v) => c = Decoded(v, m) /\ c \in Char
  PROVE  ReadsFrom(v, p, k, Put(c, read))
<1>1. CASE /\ \A i \in l..Len(v) : v[i] = "quote" => IsEscaped(v, i)
           /\ \E at, chars : read = [closed |-> FALSE, at |-> at, chars |-> chars]
  <2>1. PICK at, chars : read = [closed |-> FALSE, at |-> at, chars |-> chars]
    BY <1>1
  <2>2. PICK new : new = <<c>> \o chars
    OBVIOUS
  <2>3. Put(c, read) = [closed |-> FALSE, at |-> at, chars |-> new]
    BY <2>1, <2>2, PutFacts, Zenon
  <2>4. ASSUME NEW i \in k..Len(v), v[i] = "quote" PROVE IsEscaped(v, i)
    <3>1. i \in k..(l - 1) \/ i \in l..Len(v)
      BY <2>4
    <3> QED BY <1>1, <2>4, <3>1
  <2> QED BY <2>3, <2>4, Zenon DEF ReadsFrom
<1>2. ASSUME NEW e \in l..Len(v), ClosedAt(v, l, e),
             NEW chars, Stands(v, l, e, chars), read = [closed |-> TRUE, at |-> p + e - 1, chars |-> chars]
      PROVE  ReadsFrom(v, p, k, Put(c, read))
  <2>1. e \in k..Len(v) /\ l <= Len(v) /\ e \in Nat
    OBVIOUS
  <2>2. PICK new : new = <<c>> \o chars
    OBVIOUS
  <2>3. Put(c, read) = [closed |-> TRUE, at |-> p + e - 1, chars |-> new]
    BY <1>2, <2>2, PutFacts, Zenon
  <2>4. ClosedAt(v, k, e)
    <3>1. ASSUME NEW i \in k..(e - 1), v[i] = "quote" PROVE IsEscaped(v, i)
      <4>1. (i \in k..(l - 1) /\ i <= Len(v)) \/ i \in l..(e - 1)
        BY <2>1
      <4> QED BY <1>2, <3>1, <4>1 DEF ClosedAt
    <3> QED BY <1>2, <3>1 DEF ClosedAt
  <2>5. Stands(v, k, e, <<Decoded(v, m)>> \o chars)
    <3>1. KeptIn(v, k, e) = {m} \cup KeptIn(v, l, e)
      OBVIOUS
    <3>2. Decoded(v, m) \in Char
      BY <2>1
    <3> QED BY <1>2, <2>1, <3>1, <3>2, PutStands
  <2>6. Stands(v, k, e, new)
    BY <2>1, <2>2, <2>5
  <2> QED BY <2>1, <2>3, <2>4, <2>6, Zenon DEF ReadsFrom
<1> QED BY <1>1, <1>2, Zenon DEF ReadsFrom

\* One round, begun at a character that is not escaped.
LEMMA ReadsRound ==
  ASSUME NEW w \in Seq(Char), NEW p \in 0..Len(w), NEW v, v = From(w, p), v[1] # "bslash",
         NEW R, NEW k \in 2..(Len(v) + 2), k <= Len(v) => ~IsEscaped(v, k),
         \A l \in (k + 1)..(Len(v) + 2) :
           (l <= Len(v) => ~IsEscaped(v, l)) => ReadsFrom(v, p, l, R[p + l - 1])
  PROVE  ReadsFrom(v, p, k, Round(w, p + k - 1, R))
<1>1. /\ v \in Seq(Char) /\ Len(v) \in Nat /\ k \in Nat /\ p \in Nat /\ Len(v) = Len(w) - p
      /\ \A i \in 1..Len(v) : v[i] = Ch(w, p + i - 1)
  <2>1. /\ v \in Seq(Char) /\ Len(v) = Len(w) - p
        /\ \A i \in 1..(Len(w) - p) : v[i] = Ch(w, p + i - 1)
    BY FromFacts, Zenon
  <2> QED BY <2>1
<1>2. k > Len(v) <=> Ch(w, p + k - 1) = "EOS"
  <2>1. k > Len(v) => Ch(w, p + k - 1) = "EOS"
    BY <1>1 DEF Ch
  <2>2. k <= Len(v) => Ch(w, p + k - 1) \in Char
    <3> SUFFICES ASSUME k <= Len(v) PROVE Ch(w, p + k - 1) \in Char
      OBVIOUS
    <3>1. p + k - 1 \in Nat /\ p + k - 1 < Len(w)
      BY <1>1
    <3> QED BY <3>1, CharFacts
  <2> QED BY <1>1, <2>1, <2>2, Classes
<1>3. CASE k > Len(v)
  <2>1. Round(w, p + k - 1, R) = [closed |-> FALSE, at |-> p + k - 1, chars |-> << >>]
    BY <1>2, <1>3 DEF Round
  <2>2. \A i \in k..Len(v) : FALSE
    BY <1>1, <1>3
  <2> QED BY <2>1, <2>2, Zenon DEF ReadsFrom
<1>4. CASE k <= Len(v)
  <2>1. k \in 1..Len(v) /\ v[k] = Ch(w, p + k - 1) /\ v[k] # "EOS" /\ v[k] \in Char
    BY <1>1, <1>2, <1>4
  <2>2. CASE v[k] = "quote"
    <3>1. Round(w, p + k - 1, R) = [closed |-> TRUE, at |-> p + k - 1, chars |-> << >>]
      BY <2>1, <2>2 DEF Round
    <3>2. ClosedAt(v, k, k)
      BY <1>4, <2>2 DEF ClosedAt
    <3>3. Stands(v, k, k, << >>)
      <4>1. KeptIn(v, k, k) = {}
        BY <1>1 DEF KeptIn
      <4>2. Cardinality({}) = 0 /\ << >> \in Seq(Char) /\ Len(<< >>) = 0
        BY FS_EmptySet
      <4> QED BY <4>1, <4>2 DEF Stands
    <3>4. k \in k..Len(v)
      BY <2>1
    <3> QED BY <3>1, <3>2, <3>3, <3>4, Zenon DEF ReadsFrom
  <2>3. CASE v[k] = "bslash"
    <3>1. Round(w, p + k - 1, R) = Put(Unescaped(Ch(w, p + k - 1 + 1)), R[p + k - 1 + 2])
      BY <2>1, <2>3 DEF Round
    <3>2. PICK l : l = k + 2
      OBVIOUS
    <3>3. l \in (k + 1)..(Len(v) + 2) /\ l \in Nat /\ p + k - 1 + 2 = p + l - 1 /\ k + 1 \in k..(l - 1)
      BY <1>1, <1>4, <3>2
    <3>4. IsEscaped(v, k + 1)
      <4>1. k + 1 \in Nat /\ k + 1 >= 3 /\ k + 1 - 1 = k
        BY <1>1
      <4> QED BY <1>4, <2>3, <4>1, EscapedAfter
    <3>5. ~IsEscaped(v, l)
      <4>1. l - 1 = k + 1 /\ l \in Int
        BY <3>2, <3>3
      <4> QED BY <3>4, <4>1, EscapedOnce
    <3>6. ReadsFrom(v, p, l, R[p + l - 1])
      BY <3>3, <3>5
    <3>7. ASSUME NEW i \in k..(l - 1), i <= Len(v), v[i] = "quote" PROVE IsEscaped(v, i)
      <4>1. i = k \/ i = k + 1
        BY <3>2
      <4> QED BY <2>3, <3>4, <3>7, <4>1
    <3>8. ASSUME NEW e \in l..Len(v) PROVE KeptIn(v, k, e) = {k + 1} \cup KeptIn(v, l, e)
      <4>1. \A i : i \in k..(e - 1) <=> i = k \/ i = k + 1 \/ i \in l..(e - 1)
        BY <1>1, <3>2
      <4>2. \A i : i \in KeptIn(v, k, e) <=> i = k + 1 \/ i \in KeptIn(v, l, e)
        <5> SUFFICES ASSUME NEW i PROVE i \in KeptIn(v, k, e) <=> i = k + 1 \/ i \in KeptIn(v, l, e)
          OBVIOUS
        <5>1. i \in KeptIn(v, k, e) <=> i \in k..(e - 1) /\ (v[i] # "bslash" \/ IsEscaped(v, i))
          BY DEF KeptIn
        <5>2. i \in KeptIn(v, l, e) <=> i \in l..(e - 1) /\ (v[i] # "bslash" \/ IsEscaped(v, i))
          BY DEF KeptIn
        <5> QED BY <1>4, <2>3, <3>4, <4>1, <5>1, <5>2, Zenon
      <4> QED BY <4>2
    <3>9. PICK c : c = Unescaped(Ch(w, p + k - 1 + 1))
      OBVIOUS
    <3>10. ASSUME l <= Len(v) PROVE c = Decoded(v, k + 1) /\ c \in Char
      <4>1. k + 1 \in 1..Len(v) /\ p + (k + 1) - 1 = p + k - 1 + 1
        BY <1>1, <3>2, <3>10
      <4>2. v[k + 1] = Ch(w, p + k - 1 + 1) /\ v[k + 1] \in Char
        BY <1>1, <4>1
      <4> QED BY <3>4, <3>9, <4>2, CharFacts DEF Decoded
    <3>11. ReadsFrom(v, p, k, Put(c, R[p + l - 1]))
      BY <1>1, <3>3, <3>6, <3>7, <3>8, <3>10, ReadsOn
    <3> QED BY <3>1, <3>3, <3>9, <3>11
  <2>4. CASE v[k] \notin {"quote", "bslash"}
    <3>1. Round(w, p + k - 1, R) = Put(v[k], R[p + k - 1 + 1])
      BY <2>1, <2>4 DEF Round
    <3>2. PICK l : l = k + 1
      OBVIOUS
    <3>3. l \in (k + 1)..(Len(v) + 2) /\ l \in Nat /\ p + k - 1 + 1 = p + l - 1 /\ k \in k..(l - 1)
      BY <1>1, <1>4, <3>2
    <3>5. ~IsEscaped(v, l)
      <4>1. l - 1 = k /\ l \in Int
        BY <1>1, <3>2
      <4> QED BY <2>4, <4>1, EscapedBehind
    <3>6. ReadsFrom(v, p, l, R[p + l - 1])
      BY <3>3, <3>5
    <3>7. ASSUME NEW i \in k..(l - 1), i <= Len(v), v[i] = "quote" PROVE IsEscaped(v, i)
      <4>1. i = k
        BY <3>2
      <4> QED BY <2>4, <3>7, <4>1
    <3>8. ASSUME NEW e \in l..Len(v) PROVE KeptIn(v, k, e) = {k} \cup KeptIn(v, l, e)
      <4>1. \A i : i \in k..(e - 1) <=> i = k \/ i \in l..(e - 1)
        BY <1>1, <3>2
      <4>2. \A i : i \in KeptIn(v, k, e) <=> i = k \/ i \in KeptIn(v, l, e)
        <5> SUFFICES ASSUME NEW i PROVE i \in KeptIn(v, k, e) <=> i = k \/ i \in KeptIn(v, l, e)
          OBVIOUS
        <5>1. i \in KeptIn(v, k, e) <=> i \in k..(e - 1) /\ (v[i] # "bslash" \/ IsEscaped(v, i))
          BY DEF KeptIn
        <5>2. i \in KeptIn(v, l, e) <=> i \in l..(e - 1) /\ (v[i] # "bslash" \/ IsEscaped(v, i))
          BY DEF KeptIn
        <5>3. v[k] # "bslash"
          BY <2>4
        <5> QED BY <4>1, <5>1, <5>2, <5>3, Zenon
      <4> QED BY <4>2
    <3>10. v[k] = Decoded(v, k)
      BY <1>4 DEF Decoded
    <3>11. ReadsFrom(v, p, k, Put(v[k], R[p + l - 1]))
      BY <1>1, <2>1, <3>3, <3>6, <3>7, <3>8, <3>10, ReadsOn
    <3> QED BY <3>1, <3>3, <3>11
  <2> QED BY <2>2, <2>3, <2>4
<1> QED BY <1>1, <1>3, <1>4

LEMMA ReadsString ==
  ASSUME NEW w \in Seq(Char), NEW p \in 0..Len(w), NEW v, v = From(w, p), Len(v) > 0, v[1] = "quote"
  PROVE  ReadsFrom(v, p, 2, ReadChars(w, p + 1))
<1>1. Len(w) \in Nat /\ p \in Nat /\ v \in Seq(Char) /\ Len(v) = Len(w) - p /\ Len(v) \in Nat
  <2>1. v \in Seq(Char) /\ Len(v) = Len(w) - p
    BY FromFacts, Zenon
  <2> QED BY <2>1
<1>2. PICK R : \A q \in 0..(Len(w) + 1) : R[q] = Round(w, q, R) /\ ReadChars(w, q) = R[q]
  BY <1>1, ReadRounds
<1> DEFINE Bad == {k \in 2..(Len(v) + 2) : (k <= Len(v) => ~IsEscaped(v, k)) /\ ~ReadsFrom(v, p, k, R[p + k - 1])}
<1>3. CASE Bad # {}
  <2>1. Max(Bad) \in Bad /\ \A q \in Bad : q <= Max(Bad)
    <3>1. Bad \subseteq 0..(Len(v) + 2) /\ Len(v) + 2 \in Nat
      BY <1>1
    <3> HIDE DEF Bad
    <3> QED BY <1>3, <3>1, Greatest
  <2>2. PICK k : k = Max(Bad)
    OBVIOUS
  <2>3. k \in 2..(Len(v) + 2) /\ (k <= Len(v) => ~IsEscaped(v, k)) /\ ~ReadsFrom(v, p, k, R[p + k - 1])
    BY <2>1, <2>2
  <2>4. ASSUME NEW l \in (k + 1)..(Len(v) + 2), l <= Len(v) => ~IsEscaped(v, l)
        PROVE  ReadsFrom(v, p, l, R[p + l - 1])
    <3>1. l \in 2..(Len(v) + 2) /\ ~(l <= k)
      BY <1>1, <2>3
    <3>2. l \notin Bad
      <4> HIDE DEF Bad
      <4> QED BY <2>1, <2>2, <3>1
    <3> QED BY <2>4, <3>1, <3>2
  <2>5. ReadsFrom(v, p, k, Round(w, p + k - 1, R))
    BY <2>3, <2>4, ReadsRound
  <2>6. p + k - 1 \in 0..(Len(w) + 1)
    BY <1>1, <2>3
  <2> QED BY <1>2, <2>3, <2>5, <2>6
<1>4. CASE Bad = {}
  <2>1. 2 \in 2..(Len(v) + 2) /\ ~IsEscaped(v, 2) /\ p + 2 - 1 = p + 1 /\ p + 1 \in 0..(Len(w) + 1)
    <3>1. ~IsEscaped(v, 2)
      BY EscapedBehind
    <3> QED BY <1>1, <3>1
  <2>2. ReadsFrom(v, p, 2, R[p + 2 - 1])
    BY <1>4, <2>1
  <2> QED BY <1>2, <2>1, <2>2
<1> QED BY <1>3, <1>4

LEMMA StringWords ==
  ASSUME NEW v \in Seq(Char), v[1] = "quote", NEW m \in 1..Len(v), NEW type
  PROVE  type \in Types(Prefix(v, m)) <=> type = "QUOTE" /\ m > 1 /\ ClosedAt(v, 2, m)
<1>1. PICK u : u = Prefix(v, m)
  OBVIOUS
<1>2. u \in Seq(Char) /\ Len(u) = m /\ \A i \in 1..m : u[i] = v[i]
  BY <1>1, PrefixFacts
<1>3. \A i \in 1..m : IsEscaped(u, i) <=> IsEscaped(v, i)
  BY <1>1, EscapedInPrefix
<1>4. type \in Types(u) <=> type = "QUOTE" /\ IsString(u)
  <2>1. v[1] \notin Mark \cup Digit \cup SymbolChar /\ "i" \in SymbolChar
    BY DEF Mark, Digit, SymbolChar
  <2> QED BY <1>1, <2>1, InTypes, FirstDecides
<1>5. m > 1 => (ClosedAt(v, 2, m) <=> {i \in 2..m : u[i] = "quote" /\ ~IsEscaped(u, i)} = {m})
  <2> SUFFICES ASSUME m > 1
               PROVE  ClosedAt(v, 2, m) <=> {i \in 2..m : u[i] = "quote" /\ ~IsEscaped(u, i)} = {m}
    OBVIOUS
  <2>1. \A i \in 2..m : u[i] = v[i] /\ (IsEscaped(u, i) <=> IsEscaped(v, i))
    BY <1>2, <1>3
  <2>2. \A i : i \in 2..m <=> i = m \/ i \in 2..(m - 1)
    OBVIOUS
  <2>3. m \notin 2..(m - 1)
    OBVIOUS
  <2>4. PICK Ends : Ends = {i \in 2..m : u[i] = "quote" /\ ~IsEscaped(u, i)}
    OBVIOUS
  <2>5. Ends = {m} <=> m \in Ends /\ \A i \in 2..(m - 1) : i \notin Ends
    BY <2>2, <2>3, <2>4
  <2>6. \A i \in 2..m : i \in Ends <=> v[i] = "quote" /\ ~IsEscaped(v, i)
    BY <2>1, <2>4
  <2>7. Ends = {m} <=> ClosedAt(v, 2, m)
    BY <2>2, <2>5, <2>6 DEF ClosedAt
  <2> QED BY <2>4, <2>7
<1>6. IsString(u) <=> m > 1 /\ ClosedAt(v, 2, m)
  <2>1. IsString(u) <=> m > 1 /\ u[1] = "quote" /\ {i \in 2..m : u[i] = "quote" /\ ~IsEscaped(u, i)} = {m}
    BY <1>2 DEF IsString
  <2>2. u[1] = "quote"
    BY <1>2
  <2> QED BY <1>5, <2>1, <2>2
<1> QED BY <1>1, <1>4, <1>6

LEMMA StandsInPrefix ==
  ASSUME NEW v \in Seq(Char), NEW e \in 2..Len(v), NEW chars, Stands(v, 2, e, chars)
  PROVE  StandsFor(Prefix(v, e), chars)
<1>1. PICK u : u = Prefix(v, e)
  OBVIOUS
<1>2. /\ Len(u) = e /\ \A i \in 1..e : u[i] = v[i]
      /\ \A i \in 1..e : IsEscaped(u, i) <=> IsEscaped(v, i)
  <2>1. e \in 1..Len(v)
    OBVIOUS
  <2> QED BY <1>1, <2>1, PrefixFacts, EscapedInPrefix
<1>3. \A i \in 2..(e - 1) : i \in 1..e
  OBVIOUS
<1>4. Kept(u) = KeptIn(v, 2, e)
  BY <1>2, <1>3 DEF Kept, KeptIn
<1>5. \A i \in Kept(u) : (IF IsEscaped(u, i) THEN Unescaped(u[i]) ELSE u[i]) = Decoded(v, i)
  <2>1. \A i \in Kept(u) : i \in 1..e
    BY <1>2, <1>3 DEF Kept
  <2> QED BY <1>2, <2>1 DEF Decoded
<1> QED BY <1>1, <1>4, <1>5, Zenon DEF Stands, StandsFor

LEMMA StringIsLexeme ==
  ASSUME NEW w \in Seq(Char), NEW p \in 0..Len(w), Ch(w, p) = "quote"
  PROVE  IsLexeme(From(w, p), ReadString(w, p))
<1>1. PICK v, t, read : v = From(w, p) /\ t = ReadString(w, p) /\ read = ReadChars(w, p + 1)
  OBVIOUS
<1>2. v \in Seq(Char) /\ v # << >> /\ Len(v) \in Nat /\ Len(v) > 0 /\ v[1] = "quote" /\ p \in Nat
  <2>1. v \in Seq(Char) /\ v # << >> /\ 1 \in 1..Len(v) /\ v[1] = "quote"
    BY <1>1, FirstChar
  <2> QED BY <2>1
<1>3. /\ t.type = (IF read.closed THEN "QUOTE" ELSE "FAIL")
      /\ t.len = read.at - (p + 1) /\ t.chars = read.chars
  BY <1>1 DEF ReadString, Token
<1>4. ReadsFrom(v, p, 2, read)
  BY <1>1, <1>2, ReadsString
<1>5. CASE /\ \A i \in 2..Len(v) : v[i] = "quote" => IsEscaped(v, i)
           /\ \E at, chars : read = [closed |-> FALSE, at |-> at, chars |-> chars]
  <2>1. t.type = "FAIL"
    BY <1>3, <1>5
  <2>2. ASSUME NEW q \in WordEnds(v) PROVE FALSE
    <3>1. q \in 1..Len(v) /\ q > 1 /\ ClosedAt(v, 2, q)
      BY <1>2, StringWords, WordsAre, Zenon
    <3>2. q \in 2..Len(v)
      BY <3>1
    <3> QED BY <1>5, <3>1, <3>2 DEF ClosedAt
  <2>3. WordEnds(v) = {}
    BY <2>2
  <2> QED BY <1>1, <1>2, <2>1, <2>3, NoWord
<1>6. ASSUME NEW e \in 2..Len(v), ClosedAt(v, 2, e),
             NEW chars, Stands(v, 2, e, chars), read = [closed |-> TRUE, at |-> p + e - 1, chars |-> chars]
      PROVE  IsLexeme(v, t)
  <2>0. e \in 1..Len(v) /\ e > 1
    OBVIOUS
  <2>1. t.type = "QUOTE" /\ t.len + 2 = e /\ t.chars = chars
    BY <1>2, <1>3, <1>6
  <2>2. "QUOTE" \in Types(Prefix(v, e))
    BY <1>2, <1>6, <2>0, StringWords
  <2>3. e \in WordEnds(v)
    BY <2>0, <2>2, WordsAre
  <2>4. ASSUME NEW q \in WordEnds(v) PROVE q <= e
    <3>1. q \in 1..Len(v) /\ q > 1 /\ ClosedAt(v, 2, q)
      BY <1>2, StringWords, WordsAre, Zenon
    <3>2. q > e => e \in 2..(q - 1)
      BY <3>1
    <3> QED BY <1>6, <3>1, <3>2 DEF ClosedAt
  <2>5. StandsFor(Prefix(v, e), t.chars)
    BY <1>2, <1>6, <2>1, StandsInPrefix
  <2>6. v[1] \notin Digit
    BY <1>2 DEF Digit
  <2> QED BY <1>2, <2>1, <2>2, <2>3, <2>4, <2>5, <2>6, AWord
<1> QED BY <1>1, <1>4, <1>5, <1>6, Zenon DEF ReadsFrom

-----------------------------------------------------------------------------
(***************************************************************************)
(* What is skipped.                                                        *)
(***************************************************************************)
\* The character at q is a space, or in a comment that begins at b or behind.
Skipped(w, b, q) == \/ Ch(w, q) \in Whitespace
                    \/ \E j \in b..q : Ch(w, j) = "#" /\ \A i \in j..q : Ch(w, i) \notin Newline

LEMMA FindSkips ==
  ASSUME NEW w, Len(w) \in Nat, NEW s, s = FindFirstNonWhitespace(w, 0)
  PROVE  Ch(w, s) # "#" /\ \A q \in 0..(s - 1) : Skipped(w, 0, q)
<1> DEFINE F == CHOOSE f : f = Finding(w, f, 0)
<1>1. F = Finding(w, F, 0)
  BY FindExists
<1>2. FindFirstNonWhitespace(w, 0) = F[0]
  BY DEF FindFirstNonWhitespace, Finding, Behind
<1> HIDE DEF F
<1> DEFINE Skips(p) == F[p] \in 0..Len(w) /\ Ch(w, F[p]) # "#" /\ \A q \in p..(F[p] - 1) : Skipped(w, p, q)
<1> DEFINE Bad == {p \in 0..Len(w) : ~Skips(p)}
<1>3. CASE Bad # {}
  <2>1. Max(Bad) \in Bad /\ \A q \in Bad : q <= Max(Bad)
    <3>1. Bad \subseteq 0..Len(w)
      OBVIOUS
    <3> HIDE DEF Bad
    <3> QED BY <1>3, <3>1, Greatest
  <2>2. PICK p : p = Max(Bad)
    OBVIOUS
  <2>3. p \in 0..Len(w) /\ ~Skips(p)
    BY <2>1, <2>2
  <2>4. PICK e, b : e = EndOf(w, p, Whitespace) /\ b = Behind(w, p)
    OBVIOUS
  <2>5. /\ e \in p..Len(w) /\ \A q \in p..(e - 1) : Ch(w, q) \in Whitespace
        /\ Ch(w, e) = "#" => b \in (p + 1)..Len(w)
    BY <2>3, <2>4, EndFacts, BehindFacts, Classes
  <2>6. F[p] = IF Ch(w, e) = "#" THEN F[b] ELSE e
    BY <1>1, <2>3, <2>4 DEF Finding
  <2>7. CASE Ch(w, e) # "#"
    <3>1. \A q \in p..(e - 1) : Skipped(w, p, q)
      BY <2>5 DEF Skipped
    <3> QED BY <2>3, <2>5, <2>6, <2>7, <3>1
  <2>8. CASE Ch(w, e) = "#"
    <3>1. b \in 0..Len(w) /\ ~(b <= p) /\ b \in (p + 1)..Len(w)
      BY <2>3, <2>5, <2>8
    <3>2. Skips(b)
      <4>1. b \notin Bad
        <5> HIDE DEF Bad
        <5> QED BY <2>1, <2>2, <3>1
      <4> QED BY <3>1, <4>1
    <3>3. e + 1 \in 0..Len(w)
      BY <2>3, <2>5, <2>8 DEF Ch
    <3>4. b \in (e + 1)..Len(w) /\ \A q \in (e + 1)..(b - 1) : Ch(w, q) \notin Newline
      <4>1. b = EndOf(w, e + 1, Char \ Newline)
        BY <2>4 DEF Behind, SkipTillLineEnd
      <4> QED BY <3>3, <4>1, EndFacts, Classes
    <3>5. ASSUME NEW q \in p..(F[p] - 1) PROVE Skipped(w, p, q)
      <4>1. F[p] = F[b] /\ F[b] \in 0..Len(w)
        BY <2>6, <2>8, <3>2
      <4>2. CASE q < e
        <5>1. q \in p..(e - 1)
          BY <2>5, <4>2
        <5> QED BY <2>5, <5>1 DEF Skipped
      <4>3. CASE q >= e /\ q < b
        <5>1. ASSUME NEW i \in e..q PROVE Ch(w, i) \notin Newline
          <6>1. i = e \/ i \in (e + 1)..(b - 1)
            BY <2>5, <3>4, <4>3
          <6>2. "#" \notin Newline
            BY Classes
          <6> QED BY <2>8, <3>4, <6>1, <6>2
        <5>2. e \in p..q
          BY <2>5, <4>3
        <5> QED BY <2>8, <5>1, <5>2 DEF Skipped
      <4>4. CASE q >= b
        <5>1. q \in b..(F[b] - 1)
          BY <3>1, <4>1, <4>4
        <5>2. Skipped(w, b, q)
          BY <3>2, <5>1
        <5>3. \A j \in b..q : j \in p..q
          BY <2>3, <3>1
        <5> QED BY <5>2, <5>3 DEF Skipped
      <4>5. q \in Int /\ e \in Int /\ b \in Int
        BY <2>3, <2>5, <3>1
      <4> QED BY <4>2, <4>3, <4>4, <4>5
    <3> QED BY <2>3, <2>6, <2>8, <3>2, <3>5
  <2> QED BY <2>7, <2>8
<1>4. CASE Bad = {}
  <2>1. Skips(0)
    BY <1>4
  <2> QED BY <1>2, <2>1
<1> QED BY <1>3, <1>4

LEMMA SkipsBlank ==
  ASSUME NEW w \in Seq(Char), NEW p, p = FindFirstNonWhitespace(w, 0)
  PROVE  /\ Blank(Prefix(w, p))
         /\ From(w, p) # << >> => ~Blank(<<From(w, p)[1]>>)
<1>1. /\ p \in 0..Len(w) /\ Ch(w, p) \notin Whitespace /\ Ch(w, p) # "#"
      /\ \A q \in 0..(p - 1) : Skipped(w, 0, q)
  BY FindFacts, FindSkips
<1>2. Blank(Prefix(w, p))
  <2>1. PICK u : u = Prefix(w, p)
    OBVIOUS
  <2>2. /\ DOMAIN u = 1..p
        /\ \A k \in 1..p : u[k] = Ch(w, k - 1)
    BY <1>1, <2>1 DEF Prefix, Ch
  <2>3. ASSUME NEW k \in 1..p, u[k] \notin Whitespace
        PROVE  \E j \in 1..k : u[j] = "#" /\ \A i \in j..k : u[i] \notin Newline
    <3>1. k - 1 \in 0..(p - 1) /\ k \in Nat /\ p \in Nat
      BY <1>1
    <3>2. PICK h \in 0..(k - 1) : Ch(w, h) = "#" /\ \A i \in h..(k - 1) : Ch(w, i) \notin Newline
      <4>1. Skipped(w, 0, k - 1) /\ Ch(w, k - 1) \notin Whitespace
        BY <1>1, <2>2, <2>3, <3>1
      <4> QED BY <4>1 DEF Skipped
    <3>3. PICK j \in 1..k : j = h + 1
      BY <3>1, <3>2
    <3>4. j \in 1..p /\ j - 1 = h
      BY <3>1, <3>3
    <3>5. u[j] = "#"
      BY <2>2, <3>2, <3>4
    <3>6. ASSUME NEW i \in j..k PROVE u[i] \notin Newline
      <4>1. i \in 1..p /\ i - 1 \in h..(k - 1)
        BY <3>1, <3>3
      <4> QED BY <2>2, <3>2, <4>1
    <3> QED BY <3>5, <3>6
  <2> QED BY <2>1, <2>2, <2>3 DEF Blank
<1>3. ASSUME From(w, p) # << >> PROVE ~Blank(<<From(w, p)[1]>>)
  <2>1. PICK c : c = From(w, p)[1]
    OBVIOUS
  <2>2. c \notin Whitespace /\ c # "#"
    <3>0. p # Len(w) /\ p \in 0..Len(w)
      BY <1>1, <1>3, FromFacts, Zenon
    <3>1. 1 \in 1..(Len(w) - p) /\ p + 1 - 1 = p
      BY <3>0
    <3>2. From(w, p)[1] = Ch(w, p + 1 - 1)
      BY <1>1, <3>1, FromFacts
    <3> QED BY <1>1, <2>1, <3>1, <3>2
  <2>3. PICK u : u = <<c>>
    OBVIOUS
  <2>4. 1 \in DOMAIN u /\ u[1] = c /\ \A j \in 1..1 : u[j] # "#"
    BY <2>2, <2>3
  <2>5. ~Blank(u)
    BY <2>2, <2>4 DEF Blank
  <2> QED BY <2>1, <2>3, <2>5
<1> QED BY <1>2, <1>3

-----------------------------------------------------------------------------
LEMMA EndIsLexeme ==
  ASSUME NEW w \in Seq(Char), NEW p \in 0..Len(w), Ch(w, p) = "EOS", NEW t, t.type = "EOS"
  PROVE  IsLexeme(From(w, p), t)
<1>1. p = Len(w)
  <2> SUFFICES ASSUME p # Len(w) PROVE FALSE
    OBVIOUS
  <2>1. p \in Nat /\ p < Len(w)
    OBVIOUS
  <2> QED BY <2>1, CharFacts, Classes
<1>2. From(w, p) = << >>
  BY <1>1, FromFacts
<1> QED BY <1>2 DEF IsLexeme

\* Whatever the text, peek yields the longest word behind its blanks.
LEMMA PeekIsLexeme ==
  ASSUME NEW w \in Seq(Char), NEW t, t = Peek(w), NEW v, v = From(w, t.start)
  PROVE  /\ Blank(Prefix(w, t.start)) /\ (v # << >> => ~Blank(<<v[1]>>))
         /\ IsLexeme(v, t)
<1>1. PICK p : p = FindFirstNonWhitespace(w, 0)
  OBVIOUS
<1>2. PICK c : c = Ch(w, p)
  OBVIOUS
<1>3. p \in 0..Len(w) /\ Ch(w, p) \notin Whitespace
  BY <1>1, FindFacts
<1>4. t = CASE c = "EOS"   -> Token("EOS", p, 1, p)
            [] c \in Mark  -> Token(c, p, 1, p)
            [] c = "="     -> ReadEqual(w, p)
            [] c = "quote" -> ReadString(w, p)
            [] c \in Digit -> ReadNumber(w, p)
            [] OTHER       -> ReadName(w, p)
  BY <1>1, <1>2 DEF Peek
<1>5. t.start = p
  <2>1. ReadEqual(w, p).start = p /\ ReadString(w, p).start = p /\ ReadNumber(w, p).start = p
    BY DEF ReadEqual, ReadString, ReadNumber, Token
  <2>2. ReadName(w, p).start = p
    <3>1. PICK e : e = EndOf(w, p, SymbolChar)
      OBVIOUS
    <3>2. e \in p..Len(w) /\ p \in Nat
      BY <1>3, <3>1, EndFacts, Classes
    <3> QED BY <3>1, <3>2 DEF ReadName, Token
  <2>3. Token("EOS", p, 1, p).start = p /\ Token(c, p, 1, p).start = p
    BY DEF Token
  <2> QED BY <1>4, <2>1, <2>2, <2>3
<1>6. /\ "EOS" \notin Mark \cup Digit /\ "=" \notin Mark \cup Digit /\ "quote" \notin Mark \cup Digit
      /\ Mark \cap Digit = {} /\ Mark \cap SymbolChar = {} /\ "=" \notin SymbolChar /\ "quote" \notin SymbolChar
      /\ "EOS" \notin SymbolChar
  BY DEF Mark, Digit, SymbolChar
<1>7. IsLexeme(From(w, p), t)
  <2>1. CASE c = "EOS"
    <3>1. t.type = "EOS"
      BY <1>4, <1>6, <2>1 DEF Token
    <3> QED BY <1>2, <1>3, <2>1, <3>1, EndIsLexeme
  <2>2. CASE c \in Mark
    <3>1. t.type = c /\ t.len = 1
      BY <1>4, <1>6, <2>2 DEF Token
    <3>2. Ch(w, p) # "EOS"
      BY <1>2, <1>6, <2>2
    <3>3. From(w, p) \in Seq(Char) /\ From(w, p) # << >> /\ From(w, p)[1] = c
      BY <1>2, <1>3, <3>2, FirstChar
    <3> QED BY <2>2, <3>1, <3>3, MarkIsLexeme
  <2>3. CASE c = "="
    <3>1. t = ReadEqual(w, p)
      BY <1>4, <1>6, <2>3
    <3> QED BY <1>2, <1>3, <2>3, <3>1, EqualIsLexeme
  <2>4. CASE c = "quote"
    <3>1. t = ReadString(w, p)
      BY <1>4, <1>6, <2>4
    <3> QED BY <1>2, <1>3, <2>4, <3>1, StringIsLexeme
  <2>5. CASE c \in Digit
    <3>1. t = ReadNumber(w, p)
      BY <1>4, <1>6, <2>5
    <3> QED BY <1>2, <1>3, <2>5, <3>1, NumberIsLexeme
  <2>6. CASE c \in SymbolChar \ Digit
    <3>1. t = ReadName(w, p)
      BY <1>4, <1>6, <2>6
    <3> QED BY <1>2, <1>3, <2>6, <3>1, NameIsLexeme
  <2>7. CASE c \notin {"EOS", "=", "quote"} \cup Mark \cup Digit \cup SymbolChar
    <3>1. t = ReadName(w, p)
      BY <1>4, <2>7
    <3> QED BY <1>2, <1>3, <2>7, <3>1, NoneIsLexeme
  <2> QED BY <2>1, <2>2, <2>3, <2>4, <2>5, <2>6, <2>7
<1> QED BY <1>1, <1>5, <1>7, SkipsBlank

\* The next token begins behind all blanks and is the longest one there, and a
\* string is what its literal stands for (parser.cpp:432-474, 514-650).
THEOREM TokensLexed == Spec => []TokensAreLexemes
<1>1. IInv => TokensAreLexemes
  <2> SUFFICES ASSUME IInv PROVE TokensAreLexemes
    OBVIOUS
  <2>1. text \in Seq(Char) /\ length = Len(text) /\ At \in 0..length
    BY InvFacts, StreamFacts DEF TypeOK
  <2>2. PICK w : w = Rest
    OBVIOUS
  <2>3. w \in Seq(Char)
    <3>1. PICK a \in Nat, n \in Nat : a = At /\ n = length /\ n = Len(text)
      BY <2>1
    <3>2. SubSeq(text, a + 1, n) \in Seq(Char)
      BY <2>1, <3>1
    <3> QED BY <2>2, <3>1, <3>2 DEF Rest
  <2>4. PICK t, v : t = Peek(w) /\ v = From(w, t.start)
    OBVIOUS
  <2>5. Blank(Prefix(w, t.start)) /\ (v # << >> => ~Blank(<<v[1]>>)) /\ IsLexeme(v, t)
    BY <2>3, <2>4, PeekIsLexeme
  <2> QED BY <2>2, <2>4, <2>5, Zenon DEF TokensAreLexemes, IsLexeme, From
<1> QED BY <1>1, Invariance, PTL

=============================================================================
