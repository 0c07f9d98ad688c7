---------------------------- MODULE Arena ----------------------------
(***************************************************************************)
(* pcsh::arena (arena.cpp): objects in segments, found again by a chain of *)
(* headers when the arena is destroyed.                                    *)
(*                                                                         *)
(* Sizes are in bytes, of a 64-bit build; an address is a segment and an   *)
(* offset from its begin().  segs has the segments in the order in which   *)
(* they were allocated: the last is seg_, and fwd leads to the one before. *)
(***************************************************************************)
EXTENDS Integers, Sequences, FiniteSets

CONSTANTS
  Sizes,       \* the sizes of objects and arrays
  MinSz,       \* minsz_
  MaxObjects   \* bound on the calls of create and create_array
ASSUME ArenaAssumption ==
  /\ Sizes \subseteq Nat
  /\ MinSz \in Nat /\ MaxObjects \in Nat

VARIABLES
  segs,        \* the segments: their sz, left, and curr
  header,      \* the headers in memory, by address
  objects,     \* what create and create_array returned, with the size asked for
  phase,
  at,          \* destroy_segments: the segment and the header f it has come to
  destroyed    \* the addresses that destructors were called on, in order
vars == <<segs, header, objects, phase, at, destroyed>>

SizeofHeader  == 8
SizeofPointer == 8
SizeofSegment == 32

RoundUp(n, unit) == ((n + unit - 1) \div unit) * unit

\* sizeof(header) or sizeof(dtor_header): the data is that far behind the header.
Offset(dtor) == IF dtor THEN SizeofHeader + SizeofPointer ELSE SizeofHeader

\* header::next, for the header h at an offset
After(offset, h) == offset + Offset(h.dtor) + h.size

NewSegment(sz) ==
  LET rounded == RoundUp(sz, 16) + SizeofSegment
  IN  [sz |-> rounded, left |-> rounded, curr |-> 0]

Init ==
  /\ segs = <<NewSegment(MinSz)>>
  /\ header = << >> /\ objects = {}
  /\ phase = "alive" /\ at = [seg |-> 0, f |-> 0]
  /\ destroyed = << >>

-----------------------------------------------------------------------------
\* A mutant of Needed: the destructor's pointer is forgotten.
NeededByHeader(sz, dtor) == RoundUp(sz, 8) + SizeofHeader

\* arena::allocate: what an object of sz bytes takes of a segment.
Needed(sz, dtor) == RoundUp(sz, 8) + Offset(dtor)

\* allocate_from_seg: need bytes of list[s], whose last segment is s.
AllocateFromSeg(list, need, sz, dtor) ==
  LET s    == Len(list)
      curr == list[s].curr
      h    == [size |-> need - Offset(dtor), dtor |-> dtor]
  IN  /\ header' = [k \in DOMAIN header \cup {<<s, curr>>} |->
                      IF k = <<s, curr>> THEN h ELSE header[k]]
      /\ segs' = [list EXCEPT ![s] = [sz   |-> list[s].sz,
                                      left |-> list[s].left - need,
                                      curr |-> After(curr, h)]]
      /\ objects' = objects \cup
           {[seg |-> s, data |-> curr + Offset(dtor), size |-> sz, dtor |-> dtor]}

Fits(need) == segs[Len(segs)].left > need

\* impl::allocate: from the last segment ...
CreateInSegment(sz, dtor) ==
  /\ Fits(Needed(sz, dtor))
  /\ AllocateFromSeg(segs, Needed(sz, dtor), sz, dtor)

\* ... or from a new one that has room for the object.
CreateInNewSegment(sz, dtor) ==
  /\ ~Fits(Needed(sz, dtor))
  /\ LET need == Needed(sz, dtor)
     IN  AllocateFromSeg(Append(segs, NewSegment(IF need < MinSz THEN MinSz ELSE need)),
                         need, sz, dtor)

\* create<T> with the destructor of T if it has one; create_array has none.
Create(sz, dtor) ==
  /\ phase = "alive" /\ Cardinality(objects) < MaxObjects
  /\ CreateInSegment(sz, dtor) \/ CreateInNewSegment(sz, dtor)
  /\ UNCHANGED <<phase, at, destroyed>>

-----------------------------------------------------------------------------
\* ~arena: destroy_segments(seg_)
Close ==
  /\ phase = "alive"
  /\ phase' = "destroying"
  /\ at' = [seg |-> Len(segs), f |-> 0]
  /\ UNCHANGED <<segs, header, objects, destroyed>>

\* A mutant of PastHeader: on to the next only after a destructor.
PastDestroyed(f, h) == IF h.dtor THEN After(f, h) ELSE f

\* f = f->next()
PastHeader(f, h) == After(f, h)

\* call_dtors: one round of its loop, ...
CallDtor ==
  /\ phase = "destroying" /\ at.seg > 0
  /\ at.f # segs[at.seg].curr
  /\ LET h == header[<<at.seg, at.f>>]
     IN  /\ destroyed' = IF h.dtor THEN Append(destroyed, <<at.seg, at.f + Offset(TRUE)>>)
                         ELSE destroyed
         /\ at' = [at EXCEPT !.f = PastHeader(at.f, h)]
  /\ UNCHANGED <<segs, header, objects, phase>>

\* ... its end, and call_free: on to the segment before.
FreeSegment ==
  /\ phase = "destroying" /\ at.seg > 0
  /\ at.f = segs[at.seg].curr
  /\ at' = [seg |-> at.seg - 1, f |-> 0]
  /\ UNCHANGED <<segs, header, objects, phase, destroyed>>

\* A mutant of Return: the loop ends at the first segment, which has no fwd.
ReturnAtFirst ==
  /\ phase = "destroying" /\ at.seg = 1
  /\ phase' = "gone"
  /\ UNCHANGED <<segs, header, objects, at, destroyed>>

Return ==
  /\ phase = "destroying" /\ at.seg = 0
  /\ phase' = "gone"
  /\ UNCHANGED <<segs, header, objects, at, destroyed>>

Next ==
  \/ \E sz \in Sizes, dtor \in BOOLEAN : Create(sz, dtor)
  \/ Close
  \/ CallDtor \/ FreeSegment \/ Return

Spec == Init /\ [][Next]_vars

\* ~arena runs in its caller's thread and waits for nothing.
FairSpec == Spec /\ WF_vars(CallDtor \/ FreeSegment \/ Return)

-----------------------------------------------------------------------------
TypeOK ==
  /\ segs \in Seq([sz : Nat, left : Nat, curr : Nat])
  /\ DOMAIN header \subseteq Nat \X Nat
  /\ \A k \in DOMAIN header : header[k] \in [size : Nat, dtor : BOOLEAN]
  /\ objects \subseteq [seg : Nat, data : Nat, size : Sizes, dtor : BOOLEAN]
  /\ phase \in {"alive", "destroying", "gone"}
  /\ at \in [seg : 0..Len(segs), f : Nat]
  /\ destroyed \in Seq(Nat \X Nat)

(***************************************************************************)
(* An object's bytes are aligned to 8, lie inside the memory that was      *)
(* allocated for its segment, and no header is in them: what a program     *)
(* writes to its objects never breaks the chain that the destruction       *)
(* follows (arena.cpp:120-134, 152-163).                                   *)
(***************************************************************************)
ObjectsFit ==
  \A o \in objects :
    /\ o.data % 8 = 0
    /\ o.data + o.size <= segs[o.seg].sz
    /\ \A k \in DOMAIN header :
         k[1] = o.seg => \/ k[2] + Offset(header[k].dtor) <= o.data
                        \/ o.data + o.size <= k[2]

(***************************************************************************)
(* The chain of headers in the segments of list: curr and left account for *)
(* a segment, following next() from begin() leads from header to header    *)
(* and ends at curr, and the stretches that the headers speak for do not   *)
(* overlap.                                                                *)
(***************************************************************************)
Chain(list) ==
  /\ \A s \in DOMAIN list :
       /\ list[s].curr + list[s].left = list[s].sz
       /\ list[s].curr % 8 = 0
       /\ list[s].curr = 0 \/ <<s, 0>> \in DOMAIN header
  /\ \A k \in DOMAIN header :
       /\ k[1] \in DOMAIN list
       /\ k[2] % 8 = 0 /\ header[k].size % 8 = 0
       /\ After(k[2], header[k]) <= list[k[1]].curr
       /\ \/ After(k[2], header[k]) = list[k[1]].curr
          \/ <<k[1], After(k[2], header[k])>> \in DOMAIN header
       /\ \A j \in DOMAIN header :
            j[1] = k[1] => \/ j = k
                           \/ After(j[2], header[j]) <= k[2]
                           \/ After(k[2], header[k]) <= j[2]

\* An object's header, and a header's object.
ObjectsOK ==
  /\ \A o \in objects :
       LET k == <<o.seg, o.data - Offset(o.dtor)>>
       IN  /\ o.data >= Offset(o.dtor)
           /\ k \in DOMAIN header
           /\ header[k].dtor = o.dtor /\ o.size <= header[k].size
  /\ \A k \in DOMAIN header :
       \E o \in objects : /\ o.seg = k[1] /\ o.dtor = header[k].dtor
                          /\ o.data = k[2] + Offset(header[k].dtor)

\* The headers that the destruction has left behind.
Passed(k) == k[1] > at.seg \/ (k[1] = at.seg /\ k[2] < at.f)

\* What was destroyed are the objects left behind that have a destructor.
WalkOK ==
  /\ phase = "alive" => destroyed = << >>
  /\ phase = "gone" => at.seg = 0
  /\ phase # "alive" =>
       /\ at.seg > 0 => at.f = segs[at.seg].curr \/ <<at.seg, at.f>> \in DOMAIN header
       /\ \A i \in DOMAIN destroyed :
            \E k \in DOMAIN header : /\ header[k].dtor /\ Passed(k)
                                     /\ destroyed[i] = <<k[1], k[2] + Offset(TRUE)>>
       /\ \A k \in DOMAIN header :
            header[k].dtor /\ Passed(k) =>
              \E i \in DOMAIN destroyed : destroyed[i] = <<k[1], k[2] + Offset(TRUE)>>

\* The inductive invariant.
ArenaInv == /\ TypeOK /\ segs # << >>
            /\ Chain(segs) /\ ObjectsOK /\ WalkOK

\* To its user the arena is a pool of objects: none shares memory with another,
\* and each that has a destructor is destroyed, once (arena.hpp:42-48, 61-68).
P == INSTANCE ObjectPool
PoolSpec == P!Spec

\* ~arena returns, however the objects were distributed over segments.
DestructionEnds == phase = "destroying" ~> phase = "gone"

=============================================================================
