-------------------------- MODULE StreamProofs --------------------------
(***************************************************************************)
(* BufferedStream implements Cursor, for streams of every length and every *)
(* INIT_SIZE, as long as the caller only advances over what it peeked at.  *)
(***************************************************************************)
EXTENDS BufferedStream, SequenceTheorems, TLAPS

\* w is the text from position p on, as far as w goes.
Reads(w, p) == w \in Seq(Nat) /\ \A i \in 1..Len(w) : w[i] = p + i - 1

\* A stretch of the text, extended by the characters that follow it.
LEMMA Stretch ==
  ASSUME NEW p \in Nat, NEW b, Reads(b, p), NEW d, Reads(d, p + Len(b))
  PROVE  Reads(b \o d, p) /\ Len(b \o d) = Len(b) + Len(d)
<1> DEFINE s == p + Len(b)
<1>0. /\ b \in Seq(Nat) /\ \A i \in 1..Len(b) : b[i] = p + i - 1
      /\ d \in Seq(Nat) /\ \A i \in 1..Len(d) : d[i] = s + i - 1
      /\ Len(b) \in Nat
  BY DEF Reads
<1> DEFINE c == Len(d)
<1>1. c \in Nat /\ \A i \in 1..c : d[i] = s + i - 1
  BY <1>0
<1>2. d \in Seq(Nat) /\ Len(d) = c
  BY <1>0
<1>3. /\ b \o d \in Seq(Nat)
      /\ Len(b \o d) = Len(b) + Len(d)
      /\ \A i \in 1..(Len(b) + Len(d)) : (b \o d)[i] = IF i <= Len(b) THEN b[i] ELSE d[i - Len(b)]
  BY <1>0, <1>2, ConcatProperties
<1>4. Len(b) \in Nat /\ p \in Nat /\ \A i \in 1..Len(b) : b[i] = p + i - 1
  BY <1>0
<1> HIDE DEF c
<1>5. ASSUME NEW i \in 1..(Len(b) + c) PROVE (b \o d)[i] = p + i - 1
  <2>0. i <= Len(b) \/ i > Len(b)
    BY <1>1, <1>4
  <2>1. CASE i <= Len(b)
    BY <2>1, <1>2, <1>3, <1>4
  <2>2. CASE i > Len(b)
    <3>1. i - Len(b) \in 1..c /\ (b \o d)[i] = d[i - Len(b)]
      BY <2>2, <1>2, <1>3, <1>4
    <3> QED  BY <3>1, <1>1, <1>4
  <2> QED  BY <2>0, <2>1, <2>2, Zenon
<1>6. Reads(b \o d, p)
  BY <1>2, <1>3, <1>5 DEF c, Reads
<1> QED  BY <1>2, <1>3, <1>6 DEF c

\* fill_buffer, asked for no less than what the buffer has left, appends the
\* next characters of the stream: all that were asked for, or all there are.
LEMMA Fill ==
  ASSUME StreamInv, NEW n \in Nat, Left <= n, FillBuffer(n)
  PROVE  /\ size' \in Nat
         /\ buffer' \in Seq(Nat)
         /\ strm' \in 0..length
         /\ strm' = pos + Len(buffer')
         /\ \A i \in 1..Len(buffer') : buffer'[i] = pos + i - 1
         /\ Len(buffer') <= size'
         /\ Len(buffer') >= Len(buffer)
         /\ strm' = length \/ Len(buffer') >= buffpos + n
         /\ Len(buffer') - buffpos <= AtLeast(INIT_SIZE, n)
<1> DEFINE L == Len(buffer)
           c == Count(Wanted(n))
<1>1. /\ length \in Nat /\ strm \in 0..length /\ buffer \in Seq(Nat) /\ size \in Nat
      /\ buffpos \in 0..L /\ pos \in Nat /\ INIT_SIZE \in Nat \ {0} /\ L \in Nat
      /\ strm = pos + L /\ L <= size
      /\ \A i \in 1..L : buffer[i] = pos + i - 1
  BY StreamAssumption DEF StreamInv, TypeOK, BufferOK
<1>2. /\ c \in 0..(length - strm)
      /\ c = length - strm \/ c = Target(n) - (L - buffpos)
      /\ c <= Target(n) - (L - buffpos)
      /\ Target(n) \in Nat /\ Target(n) >= n
      /\ Target(n) = AtLeast(INIT_SIZE, n)
      /\ NewSize(n) \in Nat /\ NewSize(n) >= buffpos + Target(n) /\ NewSize(n) >= size
  BY <1>1 DEF Count, Wanted, Target, AtMost, AtLeast, NewSize, Left
<1>3. Kept(buffer, NewSize(n)) = buffer
  <2>1. SubSeq(buffer, 1, L) = buffer
    BY <1>1
  <2>2. AtMost(size, L) = L
    BY <1>1 DEF AtMost
  <2> QED  BY <2>1, <2>2, Zenon DEF Kept
<1>4. /\ buffer' = buffer \o Chars(Wanted(n)) /\ strm' = strm + c /\ size' = NewSize(n)
  BY <1>3 DEF FillBuffer, Filled
<1>5. /\ buffer' \in Seq(Nat) /\ Len(buffer') = L + c
      /\ \A i \in 1..Len(buffer') : buffer'[i] = pos + i - 1
  <2>1. c \in Nat /\ strm \in Nat /\ Chars(Wanted(n)) = [i \in 1..c |-> strm + i - 1]
    BY <1>1, <1>2 DEF Chars
  <2>2. strm = pos + Len(buffer) /\ pos \in Nat /\ Reads(buffer, pos)
    BY <1>1 DEF Reads
  <2> DEFINE d == Chars(Wanted(n))
  <2> HIDE DEF c
  <2>3. Len(d) = c /\ Reads(d, strm)
    BY <2>1 DEF Reads
  <2> HIDE DEF d
  <2>4. Reads(d, pos + Len(buffer))
    BY <2>2, <2>3, Zenon
  <2>5. /\ Reads(buffer, pos) => Reads(buffer \o d, pos)
        /\ Reads(buffer, pos) => Len(buffer \o d) = Len(buffer) + Len(d)
    <3>1. pos \in Nat
      BY <2>2
    <3> QED  BY <3>1, <2>4, Stretch, Zenon
  <2>6. buffer' = buffer \o d
    BY <1>4 DEF d
  <2>7. Reads(buffer', pos) /\ Len(buffer') = L + c
    BY <2>2, <2>3, <2>5, <2>6, Zenon DEF L
  <2> QED  BY <2>7 DEF Reads
<1> HIDE DEF c, L
<1>6. /\ L <= Len(buffer') /\ strm' = pos + Len(buffer') /\ strm' \in 0..length
      /\ Len(buffer') <= size' /\ size' \in Nat
      /\ strm' = length \/ Len(buffer') >= buffpos + n
      /\ Len(buffer') - buffpos <= AtLeast(INIT_SIZE, n)
  BY <1>1, <1>2, <1>4, <1>5
<1> QED  BY <1>5, <1>6 DEF L

-----------------------------------------------------------------------------
\* Each operation keeps the invariant, and its bound on reading ahead.
Inv == StreamInv /\ ReadsAhead

LEMMA InvInit == Init => Inv
<1> SUFFICES ASSUME Init PROVE Inv
  OBVIOUS
<1>1. length \in Nat /\ Reach \in Nat /\ INIT_SIZE \in Nat \ {0}
  BY StreamAssumption DEF Init
<1> QED
  BY <1>1 DEF Init, Inv, StreamInv, TypeOK, BufferOK, EndOK, Left, ReadsAhead, AtLeast, EOS

LEMMA PeekKeepsInv ==
  ASSUME Inv, NEW p \in 0..Reach, PeekAt(p)
  PROVE  Inv'
<1>1. Reach \in Nat /\ INIT_SIZE \in Nat \ {0} /\ p \in Nat /\ p + 1 \in Nat
  BY StreamAssumption
<1>2. /\ length \in Nat /\ length \in Lengths /\ strm \in 0..length /\ buffer \in Seq(Nat) /\ size \in Nat
      /\ buffpos \in 0..Len(buffer) /\ pos \in Nat /\ skip = 0 /\ seen \in Nat
      /\ Len(buffer) \in Nat
  BY StreamAssumption DEF Inv, StreamInv, TypeOK, PeekAt
<1>3. /\ size' \in Nat
      /\ buffer' \in Seq(Nat) /\ Len(buffer') \in Nat
      /\ strm' \in 0..length
      /\ strm' = pos + Len(buffer')
      /\ \A i \in 1..Len(buffer') : buffer'[i] = pos + i - 1
      /\ Len(buffer') <= size'
      /\ Len(buffer') >= Len(buffer)
      /\ strm' = length \/ Len(buffer') >= buffpos + p + 1
      /\ strm' <= pos + buffpos + AtLeast(INIT_SIZE, Reach + 1)
      /\ strm = length => strm' = length
  <2>1. CASE Len(buffer) >= buffpos + (p + 1)
    <3>1. UNCHANGED <<strm, buffer, size>>
      BY <2>1 DEF PeekAt, HasChars
    <3> QED  BY <1>1, <1>2, <2>1, <3>1 DEF Inv, StreamInv, BufferOK, ReadsAhead
  <2>2. CASE Len(buffer) < buffpos + (p + 1)
    <3>1. FillBuffer(p + 1)
      BY <1>1, <1>2, <2>2 DEF PeekAt, HasChars
    <3>2. Left <= p + 1 /\ StreamInv
      BY <1>1, <1>2, <2>2 DEF Left, Inv
    <3>3. /\ size' \in Nat
          /\ buffer' \in Seq(Nat)
          /\ strm' \in 0..length
          /\ strm' = pos + Len(buffer')
          /\ \A i \in 1..Len(buffer') : buffer'[i] = pos + i - 1
          /\ Len(buffer') <= size'
          /\ Len(buffer') >= Len(buffer)
          /\ strm' = length \/ Len(buffer') >= buffpos + (p + 1)
          /\ Len(buffer') - buffpos <= AtLeast(INIT_SIZE, p + 1)
      BY <1>1, <3>1, <3>2, Fill, Zenon
    <3>4. Len(buffer') \in Nat
      BY <3>3
    <3>5. strm = pos + Len(buffer)
      BY DEF Inv, StreamInv, BufferOK
    <3>6. AtLeast(INIT_SIZE, p + 1) <= AtLeast(INIT_SIZE, Reach + 1) /\ AtLeast(INIT_SIZE, Reach + 1) \in Nat
          /\ AtLeast(INIT_SIZE, p + 1) \in Nat
      BY <1>1 DEF AtLeast
    <3>7. /\ strm' <= pos + buffpos + AtLeast(INIT_SIZE, Reach + 1)
          /\ strm = length => strm' = length
          /\ strm' = length \/ Len(buffer') >= buffpos + p + 1
      BY <1>1, <1>2, <3>3, <3>4, <3>5, <3>6
    <3> QED  BY <3>3, <3>4, <3>7, Zenon
  <2> QED  BY <1>1, <1>2, <2>1, <2>2
<1>4. UNCHANGED <<length, buffpos, pos, skip>> /\ seen' = AtLeast(seen, p + 1)
      /\ answer' = IF Len(buffer') >= buffpos + p + 1 THEN buffer'[buffpos + p + 1] ELSE EOS
  BY DEF PeekAt
<1>5. TypeOK'
  <2>1. answer' \in Nat \cup {EOS}
    <3>1. CASE Len(buffer') >= buffpos + p + 1
      <4>1. answer' = pos + (buffpos + p + 1) - 1
        BY <1>1, <1>2, <1>3, <1>4, <3>1
      <4> QED  BY <1>1, <1>2, <4>1
    <3>2. CASE ~(Len(buffer') >= buffpos + p + 1)
      BY <1>4, <3>2
    <3> QED  BY <3>1, <3>2
  <2> QED  BY <1>1, <1>2, <1>3, <1>4, <2>1 DEF TypeOK, AtLeast
<1>6. BufferOK'
  BY <1>3, <1>4 DEF BufferOK
<1>7. EndOK'
  <2>1. seen > Left => strm = length
    BY DEF Inv, StreamInv, EndOK
  <2>2. Left' = Len(buffer') - buffpos /\ length' = length
    BY <1>4 DEF Left
  <2>3. (seen > Left => strm = length)'
    <3>1. CASE seen' = seen
      BY <1>1, <1>2, <1>3, <2>1, <2>2, <3>1 DEF Left
    <3>2. CASE seen' = p + 1
      BY <1>1, <1>2, <1>3, <2>2, <3>2
    <3> QED  BY <1>4, <3>1, <3>2 DEF AtLeast
  <2>4. (skip > 0 => strm = length /\ buffer = << >>)'
    <3>1. skip > 0 => strm = length /\ buffer = << >>
      BY DEF Inv, StreamInv, EndOK
    <3> QED  BY <1>1, <1>2, <1>3, <1>4, <2>2, <3>1
  <2> QED  BY <2>3, <2>4 DEF EndOK
<1>8. ReadsAhead'
  BY <1>3, <1>4 DEF ReadsAhead
<1> QED  BY <1>5, <1>6, <1>7, <1>8 DEF Inv, StreamInv

LEMMA AdvanceKeepsInv ==
  ASSUME Inv, NEW n \in 0..(Reach + 1), Advance(n)
  PROVE  Inv'
<1>1. /\ Reach \in Nat /\ INIT_SIZE \in Nat \ {0} /\ n \in Nat
      /\ length \in Nat /\ length \in Lengths /\ strm \in 0..length /\ buffer \in Seq(Nat) /\ size \in Nat
      /\ buffpos \in 0..Len(buffer) /\ pos \in Nat /\ seen \in Nat
      /\ Len(buffer) \in Nat
      /\ strm = pos + Len(buffer) /\ Len(buffer) <= size
      /\ n <= seen
      /\ seen > Left => strm = length
      /\ answer \in Nat \cup {EOS}
  BY StreamAssumption DEF Inv, StreamInv, TypeOK, BufferOK, EndOK, Advance
<1>2. CASE AdvanceBuffered(n)
  <2>1. TypeOK'
    BY <1>1, <1>2 DEF AdvanceBuffered, TypeOK, Left, AtLeast
  <2>2. BufferOK'
    BY <1>2 DEF Inv, StreamInv, BufferOK, AdvanceBuffered
  <2>3. EndOK'
    BY <1>1, <1>2 DEF EndOK, AdvanceBuffered, Left, AtLeast
  <2>4. ReadsAhead'
    BY <1>1, <1>2 DEF Inv, ReadsAhead, AdvanceBuffered, AtLeast
  <2> QED  BY <2>1, <2>2, <2>3, <2>4 DEF Inv, StreamInv
<1>3. CASE AdvanceBeyond(n)
  <2>1. strm = length
    BY <1>1, <1>3 DEF AdvanceBeyond, Left
  <2>2. /\ buffer' = << >> /\ Len(buffer') = 0 /\ buffpos' = 0 /\ pos' = pos + Len(buffer)
        /\ skip' = n - Left /\ seen' = 0
        /\ UNCHANGED <<length, strm, size, answer>>
    BY <1>3 DEF AdvanceBeyond
  <2>3. skip' \in Nat
    BY <1>1, <1>3, <2>2 DEF AdvanceBeyond, Left
  <2> QED
    BY <1>1, <2>1, <2>2, <2>3
    DEF Inv, StreamInv, TypeOK, BufferOK, EndOK, Left, ReadsAhead, AtLeast
<1> QED  BY <1>2, <1>3 DEF Advance

\* In the loop of advance there is nothing left to read: it ends at once.
LEMMA SkipEnds ==
  ASSUME Inv, Skip
  PROVE  /\ buffer' = << >> /\ skip' = 0 /\ strm' = strm /\ strm = length /\ size' \in Nat
         /\ UNCHANGED <<length, buffpos, pos, seen, answer>>
<1>1. /\ size \in Nat /\ INIT_SIZE \in Nat \ {0} /\ length \in Nat
      /\ buffer = << >> /\ Len(buffer) = 0 /\ buffpos = 0 /\ strm = length
      /\ StreamInv /\ pos = strm
  BY StreamAssumption DEF Inv, StreamInv, TypeOK, BufferOK, EndOK, Skip
<1>2. FillBuffer(size) /\ UNCHANGED <<length, seen, answer>>
  BY DEF Skip
<1>3. Left <= size
  BY <1>1 DEF Left
<1>4. /\ size' \in Nat /\ buffer' \in Seq(Nat)
      /\ strm' \in 0..length
      /\ strm' = pos + Len(buffer')
      /\ Len(buffer') >= Len(buffer)
  BY <1>1, <1>2, <1>3, Fill, Zenon
<1>5. Len(buffer') = 0 /\ strm' = strm
  BY <1>1, <1>4
<1>6. buffer' = << >>
  BY <1>4, <1>5
<1> QED  BY <1>1, <1>2, <1>4, <1>5, <1>6 DEF Skip

LEMMA SkipKeepsInv == ASSUME Inv, Skip PROVE Inv'
<1>1. /\ buffer' = << >> /\ skip' = 0 /\ strm' = strm /\ strm = length /\ size' \in Nat
      /\ UNCHANGED <<length, buffpos, pos, seen, answer>>
  BY SkipEnds
<1>2. buffer = << >>
  BY DEF Inv, StreamInv, EndOK, Skip
<1> QED
  BY <1>1, <1>2, StreamAssumption
  DEF Inv, StreamInv, TypeOK, BufferOK, EndOK, Left, ReadsAhead

LEMMA SyncKeepsInv == ASSUME Inv, SyncStream PROVE Inv'
<1>1. /\ Reach \in Nat /\ INIT_SIZE \in Nat \ {0}
      /\ length \in Nat /\ length \in Lengths /\ strm \in 0..length /\ buffer \in Seq(Nat) /\ size \in Nat
      /\ buffpos \in 0..Len(buffer) /\ pos \in Nat
      /\ Len(buffer) \in Nat
      /\ strm = pos + Len(buffer)
      /\ answer \in Nat \cup {EOS}
  BY StreamAssumption DEF Inv, StreamInv, TypeOK, BufferOK
<1>2. /\ buffer' = << >> /\ Len(buffer') = 0 /\ buffpos' = 0 /\ strm' = pos + buffpos /\ pos' = pos + buffpos
      /\ seen' = 0 /\ skip' = 0
      /\ UNCHANGED <<length, size, answer>>
  BY DEF SyncStream
<1> QED
  BY <1>1, <1>2 DEF Inv, StreamInv, TypeOK, BufferOK, EndOK, Left, ReadsAhead, AtLeast

LEMMA Step == Inv /\ [Next]_vars => Inv'
<1> SUFFICES ASSUME Inv, [Next]_vars PROVE Inv'
  OBVIOUS
<1>1. CASE \E p \in 0..Reach : PeekAt(p)
  BY <1>1, PeekKeepsInv
<1>2. CASE \E n \in 0..(Reach + 1) : Advance(n)
  BY <1>2, AdvanceKeepsInv
<1>3. CASE Skip
  BY <1>3, SkipKeepsInv
<1>4. CASE SyncStream
  BY <1>4, SyncKeepsInv
<1>5. CASE UNCHANGED vars
  BY <1>5 DEF vars, Inv, StreamInv, TypeOK, BufferOK, EndOK, Left, ReadsAhead
<1> QED  BY <1>1, <1>2, <1>3, <1>4, <1>5 DEF Next

LEMMA Invariance == Spec => []Inv
<1>1. Init => Inv
  BY InvInit
<1>2. Inv /\ [Next]_vars => Inv'
  BY Step
<1> QED  BY <1>1, <1>2, PTL DEF Spec

\* The buffer of the stream always has the characters it should have, inside
\* its memory (parser.cpp:350-430).
THEOREM Buffered == Spec => []StreamInv
<1>1. Inv => StreamInv
  BY DEF Inv
<1> QED  BY <1>1, Invariance, PTL

\* No more is read ahead than the size of the array or what was peeked at
\* (parser.cpp:417-424).
THEOREM ReadingAhead == Spec => []ReadsAhead
<1>1. Inv => ReadsAhead
  BY DEF Inv
<1> QED  BY <1>1, Invariance, PTL

-----------------------------------------------------------------------------
(***************************************************************************)
(* The refinement.  abs is Cursor's at.                                    *)
(***************************************************************************)
abs == AtMost(pos + buffpos + skip, length)

\* The facts about a state that all steps of the refinement use.
LEMMA AbsFacts ==
  ASSUME Inv
  PROVE  /\ Reach \in Nat /\ length \in Nat /\ strm \in 0..length /\ Len(buffer) \in Nat
         /\ buffpos \in 0..Len(buffer) /\ pos \in Nat /\ skip \in Nat /\ seen \in Nat
         /\ strm = pos + Len(buffer)
         /\ skip = 0 => abs = pos + buffpos
         /\ seen > Len(buffer) - buffpos => strm = length
         /\ skip > 0 => strm = length
<1>1. /\ Reach \in Nat /\ length \in Nat /\ strm \in 0..length /\ buffer \in Seq(Nat)
      /\ buffpos \in 0..Len(buffer) /\ pos \in Nat /\ skip \in Nat /\ seen \in Nat
      /\ strm = pos + Len(buffer)
      /\ seen > Len(buffer) - buffpos => strm = length
      /\ skip > 0 => strm = length
  BY StreamAssumption DEF Inv, StreamInv, TypeOK, BufferOK, EndOK, Left
<1>2. Len(buffer) \in Nat
  BY <1>1
<1> QED  BY <1>1, <1>2 DEF abs, AtMost

LEMMA PeekIsPeek ==
  ASSUME Inv, Inv', NEW p \in 0..Reach, PeekAt(p)
  PROVE  C!PeekAt(p)
<1>1. /\ length \in Nat /\ pos \in Nat /\ buffpos \in Nat /\ p \in Nat /\ skip = 0 /\ seen \in Nat
      /\ abs = pos + buffpos
  BY AbsFacts DEF PeekAt
<1>2. /\ UNCHANGED <<length, buffpos, pos, skip>>
      /\ answer' = IF Len(buffer') >= buffpos + p + 1 THEN buffer'[buffpos + p + 1] ELSE EOS
      /\ seen' = AtLeast(seen, p + 1)
  BY DEF PeekAt
<1>3. abs' = abs
  BY <1>2 DEF abs
<1>4. /\ Len(buffer') \in Nat /\ strm' \in 0..length /\ strm' = pos + Len(buffer')
      /\ \A i \in 1..Len(buffer') : buffer'[i] = pos + i - 1
      /\ seen' > Len(buffer') - buffpos => strm' = length
  <2>1. /\ buffer' \in Seq(Nat) /\ strm' \in 0..length /\ strm' = pos + Len(buffer')
        /\ \A i \in 1..Len(buffer') : buffer'[i] = pos + i - 1
        /\ seen' > Len(buffer') - buffpos => strm' = length
    BY <1>2 DEF Inv, StreamInv, TypeOK, BufferOK, EndOK, Left
  <2> QED  BY <2>1
<1>5. seen' >= p + 1 /\ seen' \in Nat
  BY <1>1, <1>2 DEF AtLeast
<1>6. answer' = IF abs + p < length THEN abs + p ELSE EOS
  <2>1. CASE Len(buffer') >= buffpos + p + 1
    BY <1>1, <1>2, <1>4, <2>1
  <2>2. CASE Len(buffer') < buffpos + p + 1
    <3>1. strm' = length
      BY <1>1, <1>4, <1>5, <2>2
    <3> QED  BY <1>1, <1>2, <1>4, <2>2, <3>1
  <2> QED  BY <1>1, <1>4, <2>1, <2>2
<1> QED  BY <1>2, <1>3, <1>6 DEF C!PeekAt, C!EOS, EOS, abs

LEMMA AdvanceIsAdvance ==
  ASSUME Inv, Inv', NEW n \in 0..(Reach + 1), Advance(n)
  PROVE  C!Advance(n)
<1>1. /\ Reach \in Nat /\ length \in Nat /\ strm \in 0..length /\ Len(buffer) \in Nat
      /\ buffpos \in 0..Len(buffer) /\ pos \in Nat /\ seen \in Nat
      /\ strm = pos + Len(buffer)
      /\ abs = pos + buffpos /\ skip = 0
      /\ seen > Len(buffer) - buffpos => strm = length
      /\ n \in Nat /\ n <= seen
  BY AbsFacts DEF Advance, AdvanceBuffered, AdvanceBeyond
<1>2. CASE AdvanceBuffered(n)
  <2>1. /\ buffpos' = buffpos + n /\ buffpos + n <= Len(buffer)
        /\ UNCHANGED <<length, pos, skip, answer>>
    BY <1>1, <1>2 DEF AdvanceBuffered, Left
  <2>2. abs' = abs + n /\ abs + n <= length
    BY <1>1, <2>1 DEF abs, AtMost
  <2> QED  BY <2>1, <2>2 DEF C!Advance, abs
<1>3. CASE AdvanceBeyond(n)
  <2>1. /\ buffpos' = 0 /\ pos' = pos + Len(buffer) /\ skip' = n - (Len(buffer) - buffpos)
        /\ UNCHANGED <<length, answer>> /\ n > Len(buffer) - buffpos
    BY <1>1, <1>3 DEF AdvanceBeyond, Left
  <2>2. strm = length
    BY <1>1, <2>1
  <2>3. abs' = length /\ abs + n > length
    BY <1>1, <2>1, <2>2 DEF abs, AtMost
  <2>4. ~(abs + n <= length)
    BY <1>1, <2>3
  <2> QED  BY <2>1, <2>3, <2>4 DEF C!Advance, abs
<1> QED  BY <1>2, <1>3 DEF Advance

\* The loop of advance and sync_stream do not move the cursor.
LEMMA SkipAndSyncStutter ==
  ASSUME Inv, Skip \/ SyncStream
  PROVE  UNCHANGED C!vars
<1>1. CASE Skip
  <2>1. /\ skip' = 0 /\ strm = length /\ UNCHANGED <<length, buffpos, pos, answer>>
    BY <1>1, SkipEnds
  <2>2. skip > 0 /\ skip \in Nat /\ pos = length /\ buffpos = 0 /\ length \in Nat
    BY <1>1, StreamAssumption DEF Skip, Inv, StreamInv, TypeOK, BufferOK, EndOK
  <2>3. abs' = abs
    BY <2>1, <2>2 DEF abs, AtMost
  <2> QED  BY <2>1, <2>3 DEF C!vars, abs
<1>2. CASE SyncStream
  <2>1. /\ pos' = pos + buffpos /\ buffpos' = 0 /\ skip = 0 /\ UNCHANGED <<length, skip, answer>>
    BY <1>2 DEF SyncStream
  <2>2. abs' = abs
    BY <2>1, AbsFacts DEF abs
  <2> QED  BY <2>1, <2>2 DEF C!vars, abs
<1> QED  BY <1>1, <1>2

\* Whatever its buffers do, the parser sees a cursor on the text: each peek_at
\* and advance does what Cursor says, and nothing else is seen of
\* buffered_stream (parser.cpp:338-430).
THEOREM Implementation == Spec => CursorSpec
<1>1. Init => C!Init
  <2> SUFFICES ASSUME Init PROVE C!Init
    OBVIOUS
  <2>1. abs = 0
    BY StreamAssumption DEF Init, abs, AtMost
  <2> QED  BY <2>1 DEF Init, C!Init, C!EOS, EOS, abs
<1>2. Inv /\ Inv' /\ [Next]_vars => [C!Next]_(C!vars)
  <2> SUFFICES ASSUME Inv, Inv', [Next]_vars PROVE [C!Next]_(C!vars)
    OBVIOUS
  <2>1. ASSUME NEW p \in 0..Reach, PeekAt(p) PROVE C!Next
    <3>1. p \in 0..(Reach + 1)
      BY StreamAssumption
    <3>2. C!PeekAt(p)
      BY <2>1, PeekIsPeek
    <3> QED  BY <3>1, <3>2, Zenon DEF C!Next
  <2>2. ASSUME NEW n \in 0..(Reach + 1), Advance(n) PROVE C!Next
    <3>1. C!Advance(n)
      BY <2>2, AdvanceIsAdvance
    <3> QED  BY <3>1, Zenon DEF C!Next
  <2>3. CASE Skip \/ SyncStream
    BY <2>3, SkipAndSyncStutter
  <2>4. CASE UNCHANGED vars
    BY <2>4 DEF vars, C!vars, AtMost
  <2> QED  BY <2>1, <2>2, <2>3, <2>4 DEF Next
<1> QED  BY <1>1, <1>2, Invariance, PTL DEF Spec, CursorSpec, C!Spec

=============================================================================
