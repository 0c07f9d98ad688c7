------------------------- MODULE ArenaProofs -------------------------
(***************************************************************************)
(* Proofs about Arena, for every set of sizes and every minsz_.            *)
(***************************************************************************)
EXTENDS Arena, TLAPS

Segment == [sz : Nat, left : Nat, curr : Nat]

LEMMA Aligned ==
  ASSUME NEW a \in Nat, NEW b \in Nat, NEW c \in Nat, a % 8 = 0, b % 8 = 0, c % 8 = 0
  PROVE  (a + b + c) % 8 = 0
OBVIOUS

LEMMA RoundUpFacts ==
  ASSUME NEW n \in Nat
  PROVE  /\ RoundUp(n, 8) \in Nat /\ RoundUp(n, 8) >= n /\ RoundUp(n, 8) % 8 = 0
         /\ RoundUp(n, 16) \in Nat /\ RoundUp(n, 16) >= n
BY DEF RoundUp

LEMMA NeededFacts ==
  ASSUME NEW sz \in Nat, NEW dtor \in BOOLEAN
  PROVE  /\ Needed(sz, dtor) \in Nat
         /\ Needed(sz, dtor) - Offset(dtor) \in Nat
         /\ Needed(sz, dtor) - Offset(dtor) >= sz
         /\ (Needed(sz, dtor) - Offset(dtor)) % 8 = 0
BY RoundUpFacts DEF Needed, Offset, SizeofHeader, SizeofPointer

LEMMA NewSegmentFacts ==
  ASSUME NEW n \in Nat
  PROVE  /\ NewSegment(n) \in Segment
         /\ NewSegment(n).left = NewSegment(n).sz
         /\ NewSegment(n).curr = 0 /\ NewSegment(n).left > n
BY RoundUpFacts DEF NewSegment, Segment, SizeofSegment

LEMMA InitInv == Init => ArenaInv
<1> SUFFICES ASSUME Init PROVE ArenaInv
  OBVIOUS
<1>1. NewSegment(MinSz) \in Segment /\ NewSegment(MinSz).curr = 0
      /\ NewSegment(MinSz).left = NewSegment(MinSz).sz
  BY NewSegmentFacts, ArenaAssumption
<1>2. DOMAIN header = {}
  BY DEF Init
<1>3. Len(segs) = 1 /\ segs[1] = NewSegment(MinSz) /\ segs # << >>
  BY DEF Init
<1>4. TypeOK
  BY <1>1, <1>2, <1>3 DEF Init, TypeOK, Segment
<1>5. Chain(segs)
  <2>1. \A s \in DOMAIN segs : segs[s] = NewSegment(MinSz)
    BY DEF Init
  <2>2. NewSegment(MinSz).curr + NewSegment(MinSz).left = NewSegment(MinSz).sz
        /\ NewSegment(MinSz).curr % 8 = 0
    BY <1>1 DEF Segment
  <2> QED  BY <2>1, <2>2, <1>1, <1>2 DEF Chain
<1>6. ObjectsOK /\ WalkOK
  BY <1>2 DEF Init, ObjectsOK, WalkOK
<1> QED  BY <1>3, <1>4, <1>5, <1>6 DEF ArenaInv

-----------------------------------------------------------------------------
(***************************************************************************)
(* AllocateFromSeg on a list of segments that is chained and whose last    *)
(* segment has room.                                                       *)
(***************************************************************************)
LEMMA Allocation ==
  ASSUME ArenaInv, NEW list \in Seq(Segment), list # << >>, Chain(list),
         NEW sz \in Sizes, NEW dtor \in BOOLEAN,
         list[Len(list)].left >= Needed(sz, dtor),
         AllocateFromSeg(list, Needed(sz, dtor), sz, dtor),
         phase = "alive", UNCHANGED <<phase, at, destroyed>>, Len(list) >= Len(segs)
  PROVE  /\ ArenaInv'
         /\ \E o \in [seg : Nat, data : Nat, size : Sizes, dtor : BOOLEAN] :
              /\ objects' = objects \cup {o}
              /\ \A p \in objects : P!Place(p) # P!Place(o) /\ P!Apart(o, p)
<1> DEFINE s == Len(list)
           c == list[s].curr
           need == Needed(sz, dtor)
           h == [size |-> need - Offset(dtor), dtor |-> dtor]
           k == <<s, c>>
           e == After(c, h)
           o == [seg |-> s, data |-> c + Offset(dtor), size |-> sz, dtor |-> dtor]
           new == [sz |-> list[s].sz, left |-> list[s].left - need, curr |-> e]
<1>1. s \in Nat /\ s \in DOMAIN list /\ s >= 1 /\ list[s] \in Segment
  OBVIOUS
<1>2. sz \in Nat
  BY ArenaAssumption
<1>3. c \in Nat /\ list[s].left \in Nat /\ list[s].sz \in Nat
  BY <1>1 DEF Segment
<1>4. need \in Nat /\ h.size \in Nat /\ h.size >= sz /\ h.size % 8 = 0 /\ h.dtor = dtor
      /\ h \in [size : Nat, dtor : BOOLEAN]
  BY <1>2, NeededFacts
<1>5. Offset(dtor) \in Nat /\ Offset(dtor) > 0 /\ Offset(dtor) % 8 = 0
  BY DEF Offset, SizeofHeader, SizeofPointer
<1>6. e = c + need /\ e = c + Offset(dtor) + h.size /\ e \in Nat /\ e > c
  <2>1. h.size = need - Offset(dtor)
    OBVIOUS
  <2> HIDE DEF h, need, c
  <2>2. e = c + Offset(dtor) + h.size
    BY <1>4 DEF After
  <2> HIDE DEF e
  <2> QED  BY <2>1, <2>2, <1>3, <1>4, <1>5
<1>7. header' = [j \in DOMAIN header \cup {k} |-> IF j = k THEN h ELSE header[j]]
  BY DEF AllocateFromSeg
<1>8. segs' = [list EXCEPT ![s] = new] /\ objects' = objects \cup {o}
  BY DEF AllocateFromSeg
<1>9. new \in Segment /\ new.left = list[s].left - need /\ new.sz = list[s].sz /\ new.curr = e
  BY <1>3, <1>4, <1>6 DEF Segment
<1>10. c % 8 = 0 /\ c + list[s].left = list[s].sz /\ (c = 0 \/ <<s, 0>> \in DOMAIN header)
  BY <1>1 DEF Chain
<1>11. DOMAIN header \subseteq Nat \X Nat /\ \A j \in DOMAIN header : header[j] \in [size : Nat, dtor : BOOLEAN]
  BY DEF ArenaInv, TypeOK
<1>12. \A j \in DOMAIN header : /\ j = <<j[1], j[2]>> /\ j[1] \in Nat /\ j[2] \in Nat
                                /\ After(j[2], header[j]) \in Nat
                                /\ After(j[2], header[j]) >= j[2] + Offset(header[j].dtor)
                                /\ After(j[2], header[j]) = j[2] + Offset(header[j].dtor) + header[j].size
                                /\ After(j[2], header[j]) > j[2]
  BY <1>11 DEF After, Offset, SizeofHeader, SizeofPointer
<1>13. \A j \in DOMAIN header : j[1] = s => After(j[2], header[j]) <= c
  BY DEF Chain
<1>14. k \notin DOMAIN header
  BY <1>12, <1>13, <1>3
<1>15. DOMAIN header' = DOMAIN header \cup {k} /\ header'[k] = h
       /\ \A j \in DOMAIN header : header'[j] = header[j] /\ j # k
  BY <1>7, <1>14
<1>16. segs' \in Seq(Segment) /\ Len(segs') = s /\ DOMAIN segs' = DOMAIN list
       /\ segs'[s] = new /\ \A i \in DOMAIN list : i # s => segs'[i] = list[i]
  BY <1>8, <1>9, <1>1
<1> HIDE DEF s, c, need, h, k, e, o, new
<1>17. \A j \in DOMAIN header' : After(j[2], header'[j]) = IF j = k THEN e ELSE After(j[2], header[j])
  BY <1>15 DEF k, e
<1>18. TypeOK'
  <2>1. objects' \subseteq [seg : Nat, data : Nat, size : Sizes, dtor : BOOLEAN]
    BY <1>8, <1>1, <1>3, <1>5 DEF ArenaInv, TypeOK, o
  <2>2. DOMAIN header' \subseteq Nat \X Nat /\ \A j \in DOMAIN header' : header'[j] \in [size : Nat, dtor : BOOLEAN]
    <3>1. k \in Nat \X Nat
      BY <1>1, <1>3 DEF k
    <3> QED  BY <3>1, <1>15, <1>11, <1>4
  <2>3. at' \in [seg : 0..Len(segs'), f : Nat]
    BY <1>16, <1>1, Len(segs) \in Nat DEF ArenaInv, TypeOK, s
  <2>4. phase' \in {"alive", "destroying", "gone"} /\ destroyed' \in Seq(Nat \X Nat)
    BY DEF ArenaInv, TypeOK
  <2> QED  BY <2>1, <2>2, <2>3, <2>4, <1>16 DEF TypeOK, Segment
<1>19. Chain(segs)'
  <2>1. ASSUME NEW i \in DOMAIN segs'
        PROVE  /\ segs'[i].curr + segs'[i].left = segs'[i].sz
               /\ segs'[i].curr % 8 = 0
               /\ segs'[i].curr = 0 \/ <<i, 0>> \in DOMAIN header'
    <3>1. CASE i = s
      <4>1. segs'[i] = new
        BY <3>1, <1>16
      <4>2. e % 8 = 0
        <5>1. c \in Nat /\ c % 8 = 0
          BY <1>3, <1>10
        <5>2. Offset(dtor) \in Nat /\ Offset(dtor) % 8 = 0 /\ h.size \in Nat /\ h.size % 8 = 0
          BY <1>4, <1>5
        <5>3. (c + Offset(dtor) + h.size) % 8 = 0
          BY <5>1, <5>2, Aligned
        <5> QED  BY <5>3, <1>6
      <4>3. <<s, 0>> \in DOMAIN header'
        BY <1>10, <1>15 DEF k
      <4>4. new.curr + new.left = new.sz
        <5>1. e = c + need /\ new.curr = e /\ new.left = list[s].left - need /\ new.sz = list[s].sz
          BY <1>6, <1>9
        <5>2. c + list[s].left = list[s].sz
          BY <1>10
        <5>3. c \in Nat /\ need \in Nat /\ list[s].left \in Nat
          BY <1>3, <1>4
        <5> QED  BY <5>1, <5>2, <5>3
      <4> QED  BY <4>1, <4>2, <4>3, <4>4, <3>1, <1>9
    <3>2. CASE i # s
      BY <3>2, <1>16, <1>15 DEF Chain
    <3> QED  BY <3>1, <3>2
  <2>2. ASSUME NEW j \in DOMAIN header'
        PROVE  /\ j[1] \in DOMAIN segs'
               /\ j[2] % 8 = 0 /\ header'[j].size % 8 = 0
               /\ After(j[2], header'[j]) <= segs'[j[1]].curr
               /\ \/ After(j[2], header'[j]) = segs'[j[1]].curr
                  \/ <<j[1], After(j[2], header'[j])>> \in DOMAIN header'
    <3>1. CASE j = k
      <4>1. j[1] = s /\ j[2] = c /\ segs'[j[1]] = new /\ After(j[2], header'[j]) = e
        BY <3>1, <1>16, <1>17 DEF k
      <4> QED  BY <4>1, <3>1, <1>15, <1>1, <1>16, <1>10, <1>4, <1>9, <1>6
    <3>2. CASE j # k
      <4>1. j \in DOMAIN header /\ header'[j] = header[j]
        BY <3>2, <1>15
      <4>2. /\ j[1] \in DOMAIN list /\ j[2] % 8 = 0 /\ header[j].size % 8 = 0
            /\ After(j[2], header[j]) <= list[j[1]].curr
            /\ \/ After(j[2], header[j]) = list[j[1]].curr
               \/ <<j[1], After(j[2], header[j])>> \in DOMAIN header
        BY <4>1 DEF Chain
      <4>3. CASE j[1] = s
        <5>1. After(j[2], header[j]) <= c /\ segs'[j[1]].curr = e
          BY <4>1, <4>3, <1>13, <1>16, <1>9
        <5>2. After(j[2], header[j]) = c => <<j[1], After(j[2], header[j])>> = k
          BY <4>3 DEF k
        <5>3. list[j[1]].curr = c
          BY <4>3 DEF c
        <5>4. After(j[2], header[j]) <= e
          BY <5>1, <1>6, <4>1, <1>12, <1>3
        <5> QED  BY <5>1, <5>2, <5>3, <5>4, <4>1, <4>2, <1>15, <1>16
      <4>4. CASE j[1] # s
        BY <4>1, <4>2, <4>4, <1>15, <1>16
      <4> QED  BY <4>3, <4>4
    <3> QED  BY <3>1, <3>2
  <2>3. ASSUME NEW j \in DOMAIN header', NEW l \in DOMAIN header', l[1] = j[1], l # j
        PROVE  \/ After(l[2], header'[l]) <= j[2]
               \/ After(j[2], header'[j]) <= l[2]
    <3>1. CASE j = k
      <4>1. l \in DOMAIN header /\ l[1] = s /\ j[2] = c
        BY <3>1, <2>3, <1>15 DEF k
      <4> QED  BY <4>1, <1>13, <1>15
    <3>2. CASE l = k
      <4>1. j \in DOMAIN header /\ j[1] = s /\ l[2] = c
        BY <3>2, <2>3, <1>15 DEF k
      <4> QED  BY <4>1, <1>13, <1>15
    <3>3. CASE j # k /\ l # k
      <4>1. j \in DOMAIN header /\ l \in DOMAIN header /\ header'[j] = header[j] /\ header'[l] = header[l]
        BY <3>3, <1>15
      <4> QED  BY <4>1, <2>3 DEF Chain
    <3> QED  BY <3>1, <3>2, <3>3
  <2> QED  BY <2>1, <2>2, <2>3 DEF Chain
<1>20. ObjectsOK'
  <2>1. ASSUME NEW p \in objects'
        PROVE  /\ p.data >= Offset(p.dtor)
               /\ <<p.seg, p.data - Offset(p.dtor)>> \in DOMAIN header'
               /\ header'[<<p.seg, p.data - Offset(p.dtor)>>].dtor = p.dtor
               /\ p.size <= header'[<<p.seg, p.data - Offset(p.dtor)>>].size
    <3>1. CASE p = o
      <4>1. p.seg = s /\ p.data = c + Offset(dtor) /\ p.dtor = dtor /\ p.size = sz
        BY <3>1 DEF o
      <4>2. <<p.seg, p.data - Offset(p.dtor)>> = k /\ p.data >= Offset(p.dtor)
        BY <4>1, <1>3, <1>5 DEF k
      <4> QED  BY <4>1, <4>2, <1>4, <1>15
    <3>2. CASE p \in objects
      <4>1. <<p.seg, p.data - Offset(p.dtor)>> \in DOMAIN header
        BY <3>2 DEF ArenaInv, ObjectsOK
      <4> QED  BY <4>1, <3>2, <1>15 DEF ArenaInv, ObjectsOK
    <3> QED  BY <3>1, <3>2, <1>8
  <2>2. ASSUME NEW j \in DOMAIN header'
        PROVE  \E p \in objects' : /\ p.seg = j[1] /\ p.dtor = header'[j].dtor
                                   /\ p.data = j[2] + Offset(header'[j].dtor)
    <3>1. CASE j = k
      <4>1. o \in objects' /\ o.seg = j[1] /\ o.dtor = header'[j].dtor /\ o.data = j[2] + Offset(header'[j].dtor)
        BY <3>1, <1>8, <1>15, <1>4 DEF o, k
      <4> QED  BY <4>1
    <3>2. CASE j # k
      <4>1. j \in DOMAIN header /\ header'[j] = header[j]
        BY <3>2, <1>15
      <4>2. PICK p \in objects : /\ p.seg = j[1] /\ p.dtor = header[j].dtor
                                 /\ p.data = j[2] + Offset(header[j].dtor)
        BY <4>1 DEF ArenaInv, ObjectsOK
      <4> QED  BY <4>1, <4>2, <1>8
    <3> QED  BY <3>1, <3>2
  <2> QED  BY <2>1, <2>2 DEF ObjectsOK
<1>21. WalkOK'
  BY DEF ArenaInv, WalkOK
<1>22. o \in [seg : Nat, data : Nat, size : Sizes, dtor : BOOLEAN]
  BY <1>1, <1>3, <1>5 DEF o
<1>23. ASSUME NEW p \in objects
       PROVE  P!Place(p) # P!Place(o) /\ P!Apart(o, p)
  <2> DEFINE j == <<p.seg, p.data - Offset(p.dtor)>>
  <2>1. /\ p.data >= Offset(p.dtor) /\ j \in DOMAIN header
        /\ header[j].dtor = p.dtor /\ p.size <= header[j].size
    BY DEF ArenaInv, ObjectsOK
  <2>2. p.data \in Nat /\ p.size \in Nat /\ p.dtor \in BOOLEAN
    BY ArenaAssumption DEF ArenaInv, TypeOK
  <2>3. After(j[2], header[j]) = j[2] + Offset(header[j].dtor) + header[j].size
        /\ After(j[2], header[j]) \in Nat /\ header[j].size \in Nat
    BY <2>1, <1>12, <1>11
  <2>4. Offset(p.dtor) \in Nat
    BY <2>2 DEF Offset, SizeofHeader, SizeofPointer
  <2>5. After(j[2], header[j]) >= p.data + p.size
    BY <2>1, <2>2, <2>3, <2>4
  <2>6. p.seg = s => p.data + p.size <= c
    BY <2>1, <2>5, <2>3, <2>2, <1>13, <1>3
  <2>7. o.seg = s /\ o.data = c + Offset(dtor)
    BY DEF o
  <2> QED  BY <2>6, <2>7, <2>2, <1>3, <1>5 DEF P!Place, P!Apart
<1>24. segs' # << >>
  BY <1>16, <1>1
<1> QED  BY <1>8, <1>18, <1>19, <1>20, <1>21, <1>22, <1>23, <1>24 DEF ArenaInv

LEMMA CreateStep ==
  ASSUME ArenaInv, NEW sz \in Sizes, NEW dtor \in BOOLEAN, Create(sz, dtor)
  PROVE  /\ ArenaInv'
         /\ \E o \in [seg : Nat, data : Nat, size : Sizes, dtor : BOOLEAN] :
              /\ objects' = objects \cup {o}
              /\ \A p \in objects : P!Place(p) # P!Place(o) /\ P!Apart(o, p)
<1> DEFINE need == Needed(sz, dtor)
           size == IF need < MinSz THEN MinSz ELSE need
<1>1. need \in Nat /\ size \in Nat /\ size >= need
  BY NeededFacts, ArenaAssumption
<1>2. segs \in Seq(Segment) /\ segs # << >> /\ Chain(segs)
  BY DEF ArenaInv, TypeOK, Segment
<1>3. phase = "alive" /\ UNCHANGED <<phase, at, destroyed>>
  BY DEF Create
<1>4. CASE CreateInSegment(sz, dtor)
  <2>1. PICK list \in Seq(Segment) : list = segs
    BY <1>2
  <2>2. list # << >> /\ Chain(list) /\ Len(list) >= Len(segs)
    BY <1>2, <2>1
  <2>3. list[Len(list)] \in Segment
    BY <2>2
  <2>4. list[Len(list)].left >= Needed(sz, dtor) /\ AllocateFromSeg(list, Needed(sz, dtor), sz, dtor)
    BY <1>1, <1>4, <2>1, <2>3 DEF CreateInSegment, Fits, Segment
  <2> QED  BY <1>3, <2>2, <2>4, Allocation
<1>5. CASE CreateInNewSegment(sz, dtor)
  <2>1. /\ NewSegment(size) \in Segment /\ NewSegment(size).left > size
        /\ NewSegment(size).left = NewSegment(size).sz /\ NewSegment(size).curr = 0
    BY <1>1, NewSegmentFacts
  <2> HIDE DEF size
  <2>2. PICK list \in Seq(Segment) : list = Append(segs, NewSegment(size))
    <3>1. Append(segs, NewSegment(size)) \in Seq(Segment)
      BY <1>2, <2>1
    <3> QED  BY <3>1
  <2>3. /\ Len(list) = Len(segs) + 1 /\ list[Len(list)] = NewSegment(size) /\ list # << >>
        /\ DOMAIN segs = 1..Len(segs) /\ DOMAIN list = 1..(Len(segs) + 1) /\ Len(segs) \in Nat
        /\ \A i \in DOMAIN segs : list[i] = segs[i]
    BY <1>2, <2>1, <2>2
  <2>4. Chain(list)
    <3>1. ASSUME NEW i \in DOMAIN list
          PROVE  /\ list[i].curr + list[i].left = list[i].sz
                 /\ list[i].curr % 8 = 0
                 /\ list[i].curr = 0 \/ <<i, 0>> \in DOMAIN header
      <4>1. CASE i \in DOMAIN segs
        BY <4>1, <2>3, <1>2 DEF Chain
      <4>2. CASE i \notin DOMAIN segs
        <5>1. list[i] = NewSegment(size)
          BY <4>2, <2>3
        <5> QED  BY <5>1, <2>1 DEF Segment
      <4> QED  BY <4>1, <4>2
    <3>2. \A k \in DOMAIN header : k[1] \in DOMAIN segs
      BY <1>2 DEF Chain
    <3>3. \A k \in DOMAIN header : k[1] \in DOMAIN list /\ list[k[1]] = segs[k[1]]
      BY <3>2, <2>3
    <3> QED  BY <3>1, <3>3, <1>2 DEF Chain
  <2>5. list[Len(list)].left >= Needed(sz, dtor)
    BY <2>1, <2>3, <1>1 DEF Segment
  <2>6. AllocateFromSeg(list, Needed(sz, dtor), sz, dtor)
    BY <1>5, <2>2 DEF CreateInNewSegment, size
  <2> QED  BY <1>3, <2>3, <2>4, <2>5, <2>6, Allocation
<1> QED  BY <1>4, <1>5 DEF Create

-----------------------------------------------------------------------------
\* What the destruction needs to know of headers.
LEMMA HeaderFacts ==
  ASSUME ArenaInv, NEW k \in DOMAIN header
  PROVE  /\ k = <<k[1], k[2]>> /\ k[1] \in Nat /\ k[2] \in Nat
         /\ k[1] >= 1 /\ k[1] <= Len(segs)
         /\ After(k[2], header[k]) \in Nat /\ After(k[2], header[k]) > k[2]
         /\ After(k[2], header[k]) <= segs[k[1]].curr
         /\ segs[k[1]].curr \in Nat /\ header[k].dtor \in BOOLEAN
<1>1. k \in Nat \X Nat /\ header[k] \in [size : Nat, dtor : BOOLEAN]
  BY DEF ArenaInv, TypeOK
<1>2. k[1] \in DOMAIN segs /\ After(k[2], header[k]) <= segs[k[1]].curr
  BY DEF ArenaInv, Chain
<1>3. segs \in Seq(Segment)
  BY DEF ArenaInv, TypeOK, Segment
<1>4. segs[k[1]] \in Segment
  BY <1>2, <1>3
<1>5. Offset(header[k].dtor) \in Nat /\ Offset(header[k].dtor) > 0
  BY DEF Offset, SizeofHeader, SizeofPointer
<1>6. After(k[2], header[k]) \in Nat /\ After(k[2], header[k]) > k[2]
  BY <1>1, <1>5 DEF After
<1>7. k[1] \in 1..Len(segs)
  BY <1>2, <1>3
<1> QED  BY <1>1, <1>2, <1>4, <1>6, <1>7 DEF Segment

LEMMA CloseStep == ArenaInv /\ Close => ArenaInv'
<1> SUFFICES ASSUME ArenaInv, Close PROVE ArenaInv'
  OBVIOUS
<1>1. segs \in Seq(Segment) /\ Len(segs) \in Nat /\ Len(segs) >= 1 /\ DOMAIN segs = 1..Len(segs)
  BY DEF ArenaInv, TypeOK, Segment
<1>2. TypeOK'
  BY <1>1 DEF ArenaInv, TypeOK, Close
<1>3. Chain(segs)' /\ ObjectsOK'
  BY DEF ArenaInv, Chain, ObjectsOK, Close
<1>4. at' = [seg |-> Len(segs), f |-> 0] /\ segs' = segs /\ header' = header
      /\ destroyed' = << >> /\ phase' = "destroying"
  BY DEF ArenaInv, WalkOK, Close
<1>5. at'.f = segs'[at'.seg].curr \/ <<at'.seg, at'.f>> \in DOMAIN header'
  BY <1>1, <1>4 DEF ArenaInv, Chain
<1>6. \A k \in DOMAIN header' : ~Passed(k)'
  <2> SUFFICES ASSUME NEW k \in DOMAIN header PROVE ~Passed(k)'
    BY <1>4
  <2>1. k[1] \in Nat /\ k[2] \in Nat /\ k[1] <= Len(segs)
    BY HeaderFacts
  <2> QED  BY <2>1, <1>1, <1>4 DEF Passed
<1>7. WalkOK'
  BY <1>4, <1>5, <1>6 DEF WalkOK
<1> QED  BY <1>2, <1>3, <1>4, <1>7 DEF ArenaInv

\* One round leaves one header behind, and destroys its object if it is to be.
LEMMA CallDtorStep ==
  ASSUME ArenaInv, CallDtor
  PROVE  /\ ArenaInv'
         /\ LET k == <<at.seg, at.f>>
            IN  /\ k \in DOMAIN header
                /\ ~Passed(k)
                /\ destroyed' = IF header[k].dtor THEN Append(destroyed, <<k[1], k[2] + Offset(TRUE)>>)
                                ELSE destroyed
<1> DEFINE k == <<at.seg, at.f>>
           place == <<at.seg, at.f + Offset(TRUE)>>
<1>1. at \in [seg : 0..Len(segs), f : Nat] /\ Len(segs) \in Nat /\ at.seg > 0 /\ phase = "destroying"
      /\ destroyed \in Seq(Nat \X Nat)
  BY DEF ArenaInv, TypeOK, CallDtor
<1>2. k \in DOMAIN header
  BY DEF ArenaInv, WalkOK, CallDtor
<1>3. k[1] = at.seg /\ k[2] = at.f /\ ~Passed(k)
  BY <1>1 DEF Passed
<1>4. /\ destroyed' = IF header[k].dtor THEN Append(destroyed, place) ELSE destroyed
      /\ at' = [at EXCEPT !.f = After(at.f, header[k])]
      /\ UNCHANGED <<segs, header, objects, phase>>
  BY DEF CallDtor, PastHeader
<1>5. After(at.f, header[k]) \in Nat /\ After(at.f, header[k]) > at.f /\ header[k].dtor \in BOOLEAN
  BY <1>2, <1>3, HeaderFacts
<1>6. at' \in [seg : 0..Len(segs), f : Nat] /\ at'.seg = at.seg /\ at'.f = After(at.f, header[k])
  BY <1>1, <1>4, <1>5
<1>7. place \in Nat \X Nat
  BY <1>1 DEF Offset, SizeofHeader, SizeofPointer
<1> HIDE DEF k, place
<1>8. destroyed' \in Seq(Nat \X Nat)
  BY <1>1, <1>4, <1>7
<1>9. TypeOK'
  <2>1. segs' = segs /\ header' = header /\ objects' = objects /\ phase' = phase
    BY <1>4
  <2>2. /\ segs \in Seq([sz : Nat, left : Nat, curr : Nat])
        /\ DOMAIN header \subseteq Nat \X Nat
        /\ \A j \in DOMAIN header : header[j] \in [size : Nat, dtor : BOOLEAN]
        /\ objects \subseteq [seg : Nat, data : Nat, size : Sizes, dtor : BOOLEAN]
        /\ phase \in {"alive", "destroying", "gone"}
    BY DEF ArenaInv, TypeOK
  <2>3. Len(segs') = Len(segs)
    BY <2>1
  <2> QED  BY <2>1, <2>2, <2>3, <1>6, <1>8 DEF TypeOK
<1>10. Chain(segs)' /\ ObjectsOK'
  BY <1>4 DEF ArenaInv, Chain, ObjectsOK
<1>11. ASSUME NEW j \in DOMAIN header
       PROVE  Passed(j)' <=> Passed(j) \/ j = k
  <2>1. j[1] \in Nat /\ j[2] \in Nat /\ j = <<j[1], j[2]>>
        /\ After(j[2], header[j]) \in Nat /\ After(j[2], header[j]) > j[2]
    BY HeaderFacts
  <2>2. j[1] = k[1] => \/ j = k \/ After(j[2], header[j]) <= k[2] \/ After(k[2], header[k]) <= j[2]
    BY <1>2 DEF ArenaInv, Chain
  <2>3. CASE j = k
    BY <2>3, <1>3, <1>5, <1>6 DEF Passed
  <2>4. CASE j # k /\ j[1] = at.seg
    <3>1. After(j[2], header[j]) <= at.f \/ After(at.f, header[k]) <= j[2]
      BY <2>2, <2>4, <1>3
    <3>2. j[2] < After(at.f, header[k]) <=> j[2] < at.f
      BY <3>1, <2>1, <1>5, <1>1
    <3> QED  BY <3>2, <2>4, <1>6 DEF Passed
  <2>5. CASE j # k /\ j[1] # at.seg
    BY <2>5, <1>6 DEF Passed
  <2> QED  BY <2>3, <2>4, <2>5
<1>12. WalkOK'
  <2>1. phase' = "destroying" /\ header' = header /\ segs' = segs
    BY <1>1, <1>4
  <2>2. at'.f = segs'[at'.seg].curr \/ <<at'.seg, at'.f>> \in DOMAIN header'
    BY <1>2, <1>3, <1>4, <1>6 DEF ArenaInv, Chain
  <2>3. ASSUME NEW i \in DOMAIN destroyed'
        PROVE  \E j \in DOMAIN header : /\ header[j].dtor /\ Passed(j)'
                                        /\ destroyed'[i] = <<j[1], j[2] + Offset(TRUE)>>
    <3>1. CASE i \in DOMAIN destroyed /\ destroyed'[i] = destroyed[i]
      BY <3>1, <1>11, <1>1 DEF ArenaInv, WalkOK
    <3>2. CASE header[k].dtor /\ destroyed'[i] = place
      BY <3>2, <1>2, <1>3, <1>11 DEF place
    <3>3. \/ i \in DOMAIN destroyed /\ destroyed'[i] = destroyed[i]
          \/ header[k].dtor /\ destroyed'[i] = place
      <4>1. CASE header[k].dtor
        BY <4>1, <1>1, <1>4, <1>7
      <4>2. CASE ~header[k].dtor
        BY <4>2, <1>4
      <4> QED  BY <4>1, <4>2
    <3> QED  BY <3>1, <3>2, <3>3
  <2>4. ASSUME NEW j \in DOMAIN header, header[j].dtor, Passed(j)'
        PROVE  \E i \in DOMAIN destroyed' : destroyed'[i] = <<j[1], j[2] + Offset(TRUE)>>
    <3>1. CASE Passed(j)
      <4>1. PICK i \in DOMAIN destroyed : destroyed[i] = <<j[1], j[2] + Offset(TRUE)>>
        BY <2>4, <3>1, <1>1 DEF ArenaInv, WalkOK
      <4>2. i \in DOMAIN destroyed' /\ destroyed'[i] = destroyed[i]
        <5>1. CASE header[k].dtor
          <6>1. destroyed' = Append(destroyed, place)
            BY <5>1, <1>4
          <6>2. destroyed \in Seq(Nat \X Nat) /\ i \in DOMAIN destroyed
            BY <4>1, <1>1
          <6> QED  BY <6>1, <6>2, <1>7
        <5>2. CASE ~header[k].dtor
          BY <5>2, <4>1, <1>4
        <5> QED  BY <5>1, <5>2
      <4> QED  BY <4>1, <4>2
    <3>2. CASE j = k
      <4>1. destroyed' = Append(destroyed, place)
        BY <3>2, <2>4, <1>4
      <4>2. Len(destroyed) + 1 \in DOMAIN destroyed' /\ destroyed'[Len(destroyed) + 1] = place
        BY <4>1, <1>1, <1>7
      <4> QED  BY <4>2, <3>2, <1>3 DEF place
    <3> QED  BY <3>1, <3>2, <2>4, <1>11
  <2> QED  BY <2>1, <2>2, <2>3, <2>4 DEF WalkOK
<1>13. segs' # << >>
  BY <1>4 DEF ArenaInv
<1>14. ArenaInv'
  BY <1>9, <1>10, <1>12, <1>13 DEF ArenaInv
<1> QED  BY <1>2, <1>3, <1>4, <1>14 DEF k, place

LEMMA FreeStep == ArenaInv /\ FreeSegment => ArenaInv'
<1> SUFFICES ASSUME ArenaInv, FreeSegment PROVE ArenaInv'
  OBVIOUS
<1>1. /\ at \in [seg : 0..Len(segs), f : Nat] /\ Len(segs) \in Nat /\ at.seg > 0
      /\ phase = "destroying" /\ DOMAIN segs = 1..Len(segs)
  BY DEF ArenaInv, TypeOK, FreeSegment
<1>2. /\ at.f = segs[at.seg].curr /\ at' = [seg |-> at.seg - 1, f |-> 0]
      /\ UNCHANGED <<segs, header, objects, phase, destroyed>>
  BY DEF FreeSegment
<1>3. TypeOK'
  <2>1. at' \in [seg : 0..Len(segs), f : Nat]
    BY <1>1, <1>2
  <2> QED  BY <2>1, <1>2 DEF ArenaInv, TypeOK
<1>4. Chain(segs)' /\ ObjectsOK'
  BY <1>2 DEF ArenaInv, Chain, ObjectsOK
<1>5. ASSUME NEW k \in DOMAIN header
      PROVE  Passed(k)' <=> Passed(k)
  <2>1. /\ k[1] \in Nat /\ k[2] \in Nat
        /\ After(k[2], header[k]) \in Nat /\ After(k[2], header[k]) > k[2]
        /\ After(k[2], header[k]) <= segs[k[1]].curr /\ segs[k[1]].curr \in Nat
    BY HeaderFacts
  <2>2. k[1] = at.seg => k[2] < at.f
    BY <2>1, <1>1, <1>2
  <2>3. at'.seg = at.seg - 1 /\ at'.f = 0
    BY <1>2
  <2> QED  BY <2>1, <2>2, <2>3, <1>1 DEF Passed
<1>6. at'.seg > 0 => at'.f = segs'[at'.seg].curr \/ <<at'.seg, at'.f>> \in DOMAIN header'
  <2>1. at'.seg = at.seg - 1 /\ at'.f = 0 /\ (at'.seg > 0 => at'.seg \in DOMAIN segs)
    BY <1>1, <1>2
  <2> QED  BY <2>1, <1>2 DEF ArenaInv, Chain
<1>7. WalkOK'
  BY <1>1, <1>2, <1>5, <1>6 DEF ArenaInv, WalkOK
<1> QED  BY <1>2, <1>3, <1>4, <1>7 DEF ArenaInv

LEMMA ReturnStep == ArenaInv /\ Return => ArenaInv'
<1> SUFFICES ASSUME ArenaInv, Return PROVE ArenaInv'
  OBVIOUS
<1>1. TypeOK' /\ Chain(segs)' /\ ObjectsOK' /\ segs' # << >>
  BY DEF ArenaInv, TypeOK, Chain, ObjectsOK, Return
<1>2. WalkOK'
  BY DEF ArenaInv, WalkOK, Passed, Return
<1> QED  BY <1>1, <1>2 DEF ArenaInv

LEMMA NextInv == ArenaInv /\ [Next]_vars => ArenaInv'
<1> SUFFICES ASSUME ArenaInv, [Next]_vars PROVE ArenaInv'
  OBVIOUS
<1>1. CASE \E sz \in Sizes, dtor \in BOOLEAN : Create(sz, dtor)
  BY <1>1, CreateStep
<1>2. CASE Close
  BY <1>2, CloseStep
<1>3. CASE CallDtor
  BY <1>3, CallDtorStep
<1>4. CASE FreeSegment
  BY <1>4, FreeStep
<1>5. CASE Return
  BY <1>5, ReturnStep
<1>6. CASE UNCHANGED vars
  <2>1. /\ segs' = segs /\ header' = header /\ objects' = objects
        /\ phase' = phase /\ at' = at /\ destroyed' = destroyed
    BY <1>6 DEF vars
  <2>2. TypeOK' /\ segs' # << >>
    BY <2>1 DEF ArenaInv, TypeOK
  <2>3. Chain(segs)' /\ ObjectsOK'
    BY <2>1 DEF ArenaInv, Chain, ObjectsOK
  <2>4. WalkOK'
    BY <2>1 DEF ArenaInv, WalkOK, Passed
  <2> QED  BY <2>2, <2>3, <2>4 DEF ArenaInv
<1> QED  BY <1>1, <1>2, <1>3, <1>4, <1>5, <1>6 DEF Next

\* The inductive invariant holds in every state of every arena
\* (arena.cpp:106-182).
THEOREM ArenaInvariant == Spec => []ArenaInv
<1>1. Init => ArenaInv
  BY InitInv
<1>2. ArenaInv /\ [Next]_vars => ArenaInv'
  BY NextInv
<1> QED  BY <1>1, <1>2, PTL DEF Spec

-----------------------------------------------------------------------------
LEMMA InvFits == ArenaInv => ObjectsFit
<1> SUFFICES ASSUME ArenaInv, NEW o \in objects
             PROVE  /\ o.data % 8 = 0
                    /\ o.data + o.size <= segs[o.seg].sz
                    /\ \A k \in DOMAIN header :
                         k[1] = o.seg => \/ k[2] + Offset(header[k].dtor) <= o.data
                                        \/ o.data + o.size <= k[2]
  BY DEF ObjectsFit
<1> DEFINE j == <<o.seg, o.data - Offset(o.dtor)>>
<1>1. /\ o.data >= Offset(o.dtor) /\ j \in DOMAIN header
      /\ header[j].dtor = o.dtor /\ o.size <= header[j].size
  BY DEF ArenaInv, ObjectsOK
<1>2. o.data \in Nat /\ o.size \in Nat /\ o.dtor \in BOOLEAN
  BY ArenaAssumption DEF ArenaInv, TypeOK
<1>3. Offset(o.dtor) \in Nat /\ Offset(o.dtor) % 8 = 0
  BY <1>2 DEF Offset, SizeofHeader, SizeofPointer
<1>4. header[j].size \in Nat
  BY <1>1 DEF ArenaInv, TypeOK
<1>5. After(j[2], header[j]) = o.data + header[j].size
  BY <1>1, <1>2, <1>3 DEF After
<1>6. j[2] % 8 = 0 /\ j[2] = o.data - Offset(o.dtor) /\ j[1] = o.seg
  BY <1>1 DEF ArenaInv, Chain
<1>7. o.data % 8 = 0
  <2>1. j[2] \in Nat /\ j[2] % 8 = 0 /\ (j[2] + Offset(o.dtor) + 0) % 8 = 0
    BY <1>1, <1>2, <1>3, <1>6, Aligned
  <2>2. j[2] + Offset(o.dtor) + 0 = o.data
    BY <1>2, <1>3, <1>6
  <2> QED  BY <2>1, <2>2
<1>8. o.data + o.size <= segs[o.seg].sz
  <2>1. segs[o.seg] \in Segment /\ segs[o.seg].curr + segs[o.seg].left = segs[o.seg].sz
    <3>1. j[1] \in DOMAIN segs /\ segs \in Seq(Segment)
      BY <1>1 DEF ArenaInv, Chain, TypeOK, Segment
    <3>2. j[1] = o.seg
      OBVIOUS
    <3> HIDE DEF j
    <3>3. segs[o.seg] \in Segment /\ o.seg \in DOMAIN segs
      BY <3>1, <3>2
    <3> QED  BY <3>3 DEF ArenaInv, Chain
  <2>2. o.data + header[j].size <= segs[o.seg].curr
    BY <1>1, <1>5, HeaderFacts
  <2> QED  BY <2>1, <2>2, <1>1, <1>2, <1>4 DEF Segment
<1>9. ASSUME NEW k \in DOMAIN header, k[1] = o.seg
      PROVE  k[2] + Offset(header[k].dtor) <= o.data \/ o.data + o.size <= k[2]
  <2>1. /\ k[2] \in Nat /\ header[k].dtor \in BOOLEAN
        /\ After(k[2], header[k]) \in Nat
    BY HeaderFacts
  <2>2. After(k[2], header[k]) >= k[2] + Offset(header[k].dtor)
    <3>1. header[k].size \in Nat
      BY DEF ArenaInv, TypeOK
    <3> QED  BY <3>1, <2>1 DEF After, Offset, SizeofHeader, SizeofPointer
  <2>3. Offset(header[k].dtor) \in Nat
    BY <2>1 DEF Offset, SizeofHeader, SizeofPointer
  <2>4. CASE k = j
    BY <2>4, <1>1, <1>2, <1>3
  <2>5. CASE After(k[2], header[k]) <= j[2]
    BY <2>1, <2>2, <2>3, <2>5, <1>2, <1>3, <1>6
  <2>6. CASE After(j[2], header[j]) <= k[2]
    BY <2>1, <2>6, <1>1, <1>2, <1>4, <1>5
  <2> QED  BY <2>4, <2>5, <2>6, <1>1, <1>6, <1>9 DEF ArenaInv, Chain
<1> QED  BY <1>7, <1>8, <1>9

\* Objects lie inside their segment, aligned, and never on a header
\* (arena.cpp:108-122, 154-180).
THEOREM Fitting == Spec => []ObjectsFit
<1>1. ArenaInv => ObjectsFit
  BY InvFits
<1> QED  BY <1>1, ArenaInvariant, PTL

\* Every step of the arena is one of the pool, or is not seen by its user.
LEMMA PoolStep == ArenaInv /\ [Next]_vars => [P!Next]_(P!vars)
<1> SUFFICES ASSUME ArenaInv, [Next]_vars PROVE P!Next \/ UNCHANGED P!vars
  OBVIOUS
<1>1. ASSUME NEW sz \in Sizes, NEW dtor \in BOOLEAN, Create(sz, dtor) PROVE P!Create
  <2>1. PICK o \in [seg : Nat, data : Nat, size : Sizes, dtor : BOOLEAN] :
          /\ objects' = objects \cup {o}
          /\ \A p \in objects : P!Place(p) # P!Place(o) /\ P!Apart(o, p)
    BY <1>1, CreateStep
  <2>2. o \in objects' \ objects
    BY <2>1
  <2>3. phase = "alive" /\ UNCHANGED <<destroyed, phase>>
    BY <1>1 DEF Create
  <2> QED  BY <2>1, <2>2, <2>3 DEF P!Create
<1>2. CASE Close
  BY <1>2 DEF Close, P!Close, P!Next
<1>3. CASE CallDtor
  <2> DEFINE k == <<at.seg, at.f>>
  <2>1. /\ k \in DOMAIN header /\ ~Passed(k)
        /\ destroyed' = IF header[k].dtor THEN Append(destroyed, <<k[1], k[2] + Offset(TRUE)>>)
                        ELSE destroyed
    BY <1>3, CallDtorStep
  <2>2. phase = "destroying" /\ UNCHANGED <<objects, phase>>
    BY <1>3 DEF CallDtor
  <2> HIDE DEF k
  <2>3. CASE header[k].dtor
    <3>1. PICK o \in objects : /\ o.seg = k[1] /\ o.dtor = header[k].dtor
                               /\ o.data = k[2] + Offset(header[k].dtor)
      BY <2>1 DEF ArenaInv, ObjectsOK
    <3>2. header[k].dtor = TRUE
      BY <2>1, <2>3, HeaderFacts
    <3>3. P!Place(o) = <<k[1], k[2] + Offset(TRUE)>> /\ o.dtor
      BY <3>1, <3>2 DEF P!Place
    <3>4. ASSUME NEW i \in DOMAIN destroyed PROVE destroyed[i] # P!Place(o)
      <4>1. PICK j \in DOMAIN header : /\ header[j].dtor /\ Passed(j)
                                       /\ destroyed[i] = <<j[1], j[2] + Offset(TRUE)>>
        BY <2>2 DEF ArenaInv, WalkOK
      <4>2. j # k
        BY <4>1, <2>1
      <4>3. j = <<j[1], j[2]>> /\ k = <<k[1], k[2]>> /\ j[2] \in Nat /\ k[2] \in Nat
        BY <2>1, HeaderFacts
      <4>4. j[1] # k[1] \/ j[2] # k[2]
        BY <4>2, <4>3
      <4>5. j[1] # k[1] \/ j[2] + Offset(TRUE) # k[2] + Offset(TRUE)
        BY <4>3, <4>4 DEF Offset, SizeofHeader, SizeofPointer
      <4>6. <<j[1], j[2] + Offset(TRUE)>> # <<k[1], k[2] + Offset(TRUE)>>
        BY <4>5
      <4> QED  BY <4>1, <4>6, <3>3, Zenon
    <3>5. destroyed' = Append(destroyed, P!Place(o))
      BY <2>1, <2>3, <3>3
    <3>6. P!Destroy
      BY <2>2, <3>3, <3>4, <3>5 DEF P!Destroy
    <3> QED  BY <3>6 DEF P!Next
  <2>4. CASE ~header[k].dtor
    BY <2>1, <2>2, <2>4 DEF P!vars
  <2> QED  BY <2>3, <2>4
<1>4. CASE FreeSegment
  BY <1>4 DEF FreeSegment, P!vars
<1>5. CASE Return
  <2>1. phase = "destroying" /\ at.seg = 0 /\ phase' = "gone" /\ UNCHANGED <<objects, destroyed>>
    BY <1>5 DEF Return
  <2>2. ASSUME NEW o \in objects, o.dtor
        PROVE  \E i \in DOMAIN destroyed : destroyed[i] = P!Place(o)
    <3> DEFINE k == <<o.seg, o.data - Offset(o.dtor)>>
    <3>1. o.data >= Offset(o.dtor) /\ k \in DOMAIN header /\ header[k].dtor = o.dtor
      BY DEF ArenaInv, ObjectsOK
    <3>2. k[1] >= 1 /\ k[1] \in Nat
      BY <3>1, HeaderFacts
    <3>3. Passed(k)
      BY <3>2, <2>1 DEF Passed
    <3>4. PICK i \in DOMAIN destroyed : destroyed[i] = <<k[1], k[2] + Offset(TRUE)>>
      BY <3>1, <3>3, <2>1, <2>2 DEF ArenaInv, WalkOK
    <3>5. o.dtor = TRUE /\ o.data \in Nat
      BY <2>2 DEF ArenaInv, TypeOK
    <3>6. k[2] + Offset(TRUE) = o.data
      BY <3>1, <3>5 DEF Offset, SizeofHeader, SizeofPointer
    <3> QED  BY <3>4, <3>6 DEF P!Place
  <2> QED  BY <2>1, <2>2 DEF P!Return, P!Next
<1>6. CASE UNCHANGED vars
  BY <1>6 DEF vars, P!vars
<1> QED  BY <1>1, <1>2, <1>3, <1>4, <1>5, <1>6 DEF Next, P!Next

\* The arena implements a pool of objects: they never share memory, and each
\* that has a destructor is destroyed once before ~arena returns
\* (arena.cpp:63-77, 106-138, arena.hpp:42-48).
THEOREM ArenaIsPool == Spec => PoolSpec
<1>1. Init => P!Init
  BY DEF Init, P!Init
<1>2. ArenaInv /\ [Next]_vars => [P!Next]_(P!vars)
  BY PoolStep
<1> QED  BY <1>1, <1>2, ArenaInvariant, PTL DEF Spec, PoolSpec, P!Spec

=============================================================================
