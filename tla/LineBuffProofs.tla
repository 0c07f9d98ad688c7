------------------------ MODULE LineBuffProofs ------------------------
(***************************************************************************)
(* Proofs about LineBuff, for every alphabet, text and setting of          *)
(* check_eot_: the invariant, that it reads no more than a line ahead, and *)
(* that it implements TextSource.                                          *)
(***************************************************************************)
EXTENDS LineBuff, SequenceTheorems, TLAPS

\* A parent of the initial states is a sequence.
LEMMA ParentSeq ==
  ASSUME Init
  PROVE  parent \in Seq(Alphabet)
<1>1. PICK n \in 0..MaxLength : parent \in [1..n -> Alphabet]
  BY DEF Init
<1>2. n \in Nat
  BY LineBuffAssumption
<1> QED
  BY <1>1, <1>2, IsASeq

\* A position is kept or not whatever was read.
LEMMA KeptDef ==
  ASSUME parent \in Seq(Alphabet)
  PROVE  /\ Kept \subseteq 1..Len(parent)
         /\ \A k \in 1..Len(parent) :
              k \in Kept <=> /\ ~(parent[k] = "CR" /\ k + 1 \in 1..Len(parent) /\ parent[k + 1] = "LF")
                             /\ CheckEOT => \A j \in 1..k : parent[j] # "EOT"
<1>1. DOMAIN parent = 1..Len(parent)
  OBVIOUS
<1> QED
  BY <1>1, Zenon DEF Kept, Src!Kept

\* What the parent's peek yields.
LEMMA PeekDef ==
  ASSUME parent \in Seq(Alphabet), NEW n \in 0..Len(parent)
  PROVE  /\ n < Len(parent) => PeekAfter(n) = parent[n + 1] /\ n + 1 \in 1..Len(parent)
         /\ PeekAfter(n) = "EOF" <=> n = Len(parent)
<1>1. n < Len(parent) => parent[n + 1] \in Alphabet
  OBVIOUS
<1> QED
  BY <1>1, LineBuffAssumption DEF PeekAfter

LEMMA InitInv == Init => LineInv
<1> SUFFICES ASSUME Init PROVE LineInv
  OBVIOUS
<1>1. parent \in Seq(Alphabet)
  BY ParentSeq
<1>2. /\ got = 0 /\ buffer = << >> /\ gptr = 0 /\ given = 0
      /\ eos = FALSE /\ filling = FALSE /\ eof = FALSE
  BY DEF Init
<1>3. Len(parent) \in Nat /\ buffer \in Seq(1..Len(parent)) /\ Len(buffer) = 0 /\ DOMAIN buffer = {}
  BY <1>1, <1>2
<1>4. TypeOK
  <2>1. /\ got \in 0..Len(parent) /\ given \in 0..Len(parent) /\ gptr \in 0..Len(buffer)
    BY <1>2, <1>3
  <2>2. eos \in BOOLEAN /\ filling \in BOOLEAN /\ eof \in BOOLEAN
    BY DEF Init
  <2> QED
    BY <1>1, <1>3, <2>1, <2>2 DEF TypeOK
<1>5. BufferOK
  BY <1>1, <1>2, <1>3, KeptDef DEF BufferOK
<1>6. LineOK
  BY <1>2, <1>3 DEF LineOK
<1>7. EndOK
  BY <1>2 DEF EndOK
<1> QED
  BY <1>4, <1>5, <1>6, <1>7 DEF LineInv

-----------------------------------------------------------------------------
\* What every step leaves alone.
LEMMA SameParent == Next => parent' = parent /\ Kept' = Kept
<1> SUFFICES ASSUME Next PROVE parent' = parent /\ Kept' = Kept
  OBVIOUS
<1>1. parent' = parent
  BY DEF Next, Take, UnderflowAtEnd, Underflow, FillBreak, FillEOT, FillCharacter, FillToEnd
<1> QED
  BY <1>1 DEF Kept, Src!Kept

\* Take: the next of the buffer's positions is the next that is kept.
LEMMA TakeInv == LineInv /\ Take => LineInv'
<1> SUFFICES ASSUME LineInv, Take PROVE LineInv'
  OBVIOUS
<1> USE DEF LineInv
<1>1. parent' = parent /\ Kept' = Kept
  BY SameParent DEF Next
<1>2. /\ ~filling /\ gptr < Len(buffer) /\ given' = buffer[gptr + 1] /\ gptr' = gptr + 1
      /\ got' = got /\ buffer' = buffer /\ eos' = eos /\ filling' = filling /\ eof' = eof
  BY DEF Take
<1>3. /\ buffer \in Seq(1..Len(parent)) /\ Len(buffer) \in Nat /\ DOMAIN buffer = 1..Len(buffer)
      /\ gptr \in 0..Len(buffer) /\ gptr + 1 \in DOMAIN buffer
  BY <1>2 DEF TypeOK
<1>4. /\ given \in Int /\ got \in Int /\ Len(parent) \in Nat /\ buffer[gptr + 1] \in 1..Len(parent)
      /\ \A i \in DOMAIN buffer : buffer[i] \in Int
  BY <1>3 DEF TypeOK
<1>5. TypeOK'
  BY <1>1, <1>2, <1>3, <1>4 DEF TypeOK
<1>6. BufferOK'
  <2>1. given' <= got'
    BY <1>2, <1>3 DEF BufferOK
  <2>2. ASSUME NEW i \in DOMAIN buffer
        PROVE  /\ buffer[i] \in Kept /\ buffer[i] <= got
               /\ i <= gptr + 1 <=> buffer[i] <= buffer[gptr + 1]
               /\ \A j \in DOMAIN buffer : i < j => buffer[i] < buffer[j]
    <3>1. /\ buffer[i] \in Kept /\ buffer[i] <= got
          /\ \A j \in DOMAIN buffer : i < j => buffer[i] < buffer[j]
      BY DEF BufferOK
    <3>2. i < gptr + 1 => buffer[i] < buffer[gptr + 1]
      BY <1>3 DEF BufferOK
    <3>3. gptr + 1 < i => buffer[gptr + 1] < buffer[i]
      BY <1>3 DEF BufferOK
    <3>4. i \in Int /\ gptr + 1 \in Int
      BY <1>3
    <3> QED
      BY <1>4, <3>1, <3>2, <3>3, <3>4
  <2>3. ASSUME NEW k \in Kept, buffer[gptr + 1] < k, k <= got
        PROVE  \E i \in DOMAIN buffer : buffer[i] = k
    <3>1. given < buffer[gptr + 1]
      BY <1>3, <1>4 DEF BufferOK
    <3>2. k \in Int
      BY KeptDef DEF TypeOK
    <3>3. given < k
      BY <1>4, <2>3, <3>1, <3>2
    <3> QED
      BY <2>3, <3>3 DEF BufferOK
  <2> QED
    BY <1>1, <1>2, <2>1, <2>2, <2>3 DEF BufferOK
<1>7. LineOK'
  BY <1>1, <1>2 DEF LineOK, PeekAfter
<1>8. EndOK'
  <2>1. ~eof
    <3>1. gptr # Len(buffer)
      <4>1. gptr < Len(buffer)
        BY <1>2
      <4>2. gptr \in Int /\ Len(buffer) \in Int
        BY <1>3
      <4> QED
        BY <4>1, <4>2
    <3> QED
      BY <3>1, Zenon DEF EndOK
  <2> QED
    BY <1>1, <1>2, <2>1 DEF EndOK, PeekAfter
<1> QED
  BY <1>5, <1>6, <1>7, <1>8

\* An empty buffer, when everything that was taken was given.
LEMMA EmptyBuffer ==
  ASSUME LineInv, gptr = Len(buffer), parent' = parent, got' = got, given' = given,
         buffer' = << >>, gptr' = 0
  PROVE  /\ TypeOK' <=> eos' \in BOOLEAN /\ filling' \in BOOLEAN /\ eof' \in BOOLEAN
         /\ BufferOK' /\ LineOK'
         /\ \A k \in Kept : k <= got => k <= given
<1> USE DEF LineInv
<1>1. Kept' = Kept
  BY DEF Kept, Src!Kept
<1>2. buffer' \in Seq(1..Len(parent)) /\ Len(buffer') = 0 /\ DOMAIN buffer' = {}
  OBVIOUS
<1>3. given \in Int /\ got \in Int /\ Kept \subseteq Int
  BY KeptDef DEF TypeOK
<1>4. ASSUME NEW k \in Kept, k <= got
      PROVE  k <= given
  <2>1. CASE given < k
    <3>1. PICK i \in DOMAIN buffer : buffer[i] = k
      BY <1>4, <2>1 DEF BufferOK
    <3>2. i <= gptr
      BY <3>1 DEF TypeOK
    <3> QED
      BY <3>1, <3>2 DEF BufferOK
  <2> QED
    BY <1>3, <2>1
<1>5. TypeOK' <=> eos' \in BOOLEAN /\ filling' \in BOOLEAN /\ eof' \in BOOLEAN
  BY <1>2 DEF TypeOK
<1>6. BufferOK'
  <2>1. given' <= got'
    BY DEF BufferOK
  <2>2. \A k \in Kept : ~(given < k /\ k <= got)
    BY <1>3, <1>4
  <2> QED
    BY <1>1, <1>2, <2>1, <2>2 DEF BufferOK
<1>7. LineOK'
  BY <1>2 DEF LineOK, PeekAfter
<1> QED
  BY <1>4, <1>5, <1>6, <1>7

LEMMA UnderflowAtEndInv == LineInv /\ UnderflowAtEnd => LineInv'
<1> SUFFICES ASSUME LineInv, UnderflowAtEnd PROVE LineInv'
  OBVIOUS
<1>1. /\ ~filling /\ gptr = Len(buffer) /\ Ended /\ eos' = TRUE /\ eof' = TRUE
      /\ buffer' = << >> /\ gptr' = 0
      /\ parent' = parent /\ got' = got /\ filling' = filling /\ given' = given
  BY DEF UnderflowAtEnd
<1>2. BufferOK' /\ LineOK' /\ TypeOK'
  BY <1>1, EmptyBuffer DEF LineInv, TypeOK
<1>3. Len(buffer') = 0
  BY <1>1
<1>4. EndOK'
  BY <1>1, <1>3 DEF LineInv, EndOK, Ended, PeekAfter
<1> QED
  BY <1>2, <1>4 DEF LineInv

LEMMA UnderflowInv == LineInv /\ Underflow => LineInv'
<1> SUFFICES ASSUME LineInv, Underflow PROVE LineInv'
  OBVIOUS
<1>1. /\ ~filling /\ gptr = Len(buffer) /\ ~Ended /\ filling' = TRUE
      /\ buffer' = << >> /\ gptr' = 0
      /\ parent' = parent /\ got' = got /\ given' = given /\ eos' = eos /\ eof' = eof
  BY DEF Underflow
<1>2. BufferOK' /\ LineOK' /\ TypeOK'
  BY <1>1, EmptyBuffer DEF LineInv, TypeOK
<1>3. ~eos
  BY <1>1 DEF Ended
<1>4. EndOK'
  BY <1>1, <1>3 DEF LineInv, EndOK, PeekAfter
<1> QED
  BY <1>2, <1>4 DEF LineInv

-----------------------------------------------------------------------------
\* The buffer with the position k behind the others, for k above all that was
\* taken and given.
LEMMA AppendBuffer ==
  ASSUME LineInv, filling, NEW k \in Kept, got < k, k <= got', got' <= Len(parent), got' \in Int,
         \A j \in Kept : got < j /\ j <= got' => j = k,
         parent' = parent, given' = given, gptr' = gptr, buffer' = Append(buffer, k)
  PROVE  /\ TypeOK' <=> eos' \in BOOLEAN /\ filling' \in BOOLEAN /\ eof' \in BOOLEAN
         /\ BufferOK'
         /\ Len(buffer') = Len(buffer) + 1 /\ buffer'[Len(buffer) + 1] = k
         /\ DOMAIN buffer' = 1..(Len(buffer) + 1)
         /\ \A i \in DOMAIN buffer : buffer'[i] = buffer[i] /\ i \in DOMAIN buffer' /\ i # Len(buffer')
<1> USE DEF LineInv
<1>1. Kept' = Kept
  BY DEF Kept, Src!Kept
<1>2. k \in 1..Len(parent) /\ Kept \subseteq 1..Len(parent)
  BY KeptDef DEF TypeOK
<1>3. /\ buffer \in Seq(1..Len(parent)) /\ Len(buffer) \in Nat /\ DOMAIN buffer = 1..Len(buffer)
      /\ given \in 0..Len(parent) /\ got \in 0..Len(parent) /\ Len(parent) \in Nat /\ gptr = 0
  BY DEF TypeOK, EndOK
<1>4. /\ buffer' \in Seq(1..Len(parent))
      /\ Len(buffer') = Len(buffer) + 1 /\ buffer'[Len(buffer) + 1] = k
      /\ DOMAIN buffer' = 1..(Len(buffer) + 1)
      /\ \A i \in DOMAIN buffer : buffer'[i] = buffer[i] /\ i \in DOMAIN buffer' /\ i # Len(buffer')
  BY <1>2, <1>3
<1>5. \A i \in DOMAIN buffer' : i = Len(buffer) + 1 \/ i \in DOMAIN buffer
  BY <1>3, <1>4
<1>6. TypeOK' <=> eos' \in BOOLEAN /\ filling' \in BOOLEAN /\ eof' \in BOOLEAN
  <2>1. got' \in 0..Len(parent) /\ gptr' \in 0..Len(buffer')
    BY <1>2, <1>3, <1>4
  <2>2. parent \in Seq(Alphabet)
    BY DEF TypeOK
  <2> QED
    BY <1>3, <1>4, <2>1, <2>2 DEF TypeOK
<1>7. BufferOK'
  <2>1. given' <= got'
    BY <1>2, <1>3 DEF BufferOK
  <2>2. ASSUME NEW i \in DOMAIN buffer'
        PROVE  /\ buffer'[i] \in Kept /\ buffer'[i] <= got'
               /\ gptr' < i /\ given' < buffer'[i]
               /\ \A j \in DOMAIN buffer' : i < j => buffer'[i] < buffer'[j]
    <3>1. CASE i = Len(buffer) + 1
      <4>1. given < k
        BY <1>2, <1>3 DEF BufferOK
      <4> QED
        BY <1>3, <1>4, <3>1, <4>1
    <3>2. CASE i \in DOMAIN buffer
      <4>1. buffer[i] \in Kept /\ buffer[i] <= got /\ (i <= gptr <=> buffer[i] <= given)
        BY <3>2 DEF BufferOK
      <4>2. \A j \in DOMAIN buffer : i < j => buffer[i] < buffer[j]
        BY <3>2 DEF BufferOK
      <4>3. buffer[i] \in Int /\ i \in Int
        BY <1>2, <1>3, <3>2, <4>1
      <4>4. gptr < i /\ given < buffer[i] /\ buffer[i] <= got'
        BY <1>2, <1>3, <3>2, <4>1, <4>3
      <4>5. ASSUME NEW j \in DOMAIN buffer', i < j
            PROVE  buffer'[i] < buffer'[j]
        <5>1. buffer[i] < k
          BY <1>2, <1>3, <4>1, <4>3
        <5> QED
          BY <1>4, <1>5, <3>2, <4>2, <4>5, <5>1
      <4> QED
        BY <1>4, <3>2, <4>1, <4>4, <4>5
    <3> QED
      BY <1>5, <3>1, <3>2
  <2>3. ASSUME NEW i \in DOMAIN buffer'
        PROVE  i <= gptr' <=> buffer'[i] <= given'
    BY <1>2, <1>3, <1>4, <2>2
  <2>4. ASSUME NEW j \in Kept, given < j, j <= got'
        PROVE  \E i \in DOMAIN buffer' : buffer'[i] = j
    <3>1. CASE j <= got
      <4>1. PICK i \in DOMAIN buffer : buffer[i] = j
        BY <2>4, <3>1 DEF BufferOK
      <4> QED
        BY <1>4, <4>1
    <3>2. CASE got < j
      <4>1. j = k
        BY <2>4, <3>2
      <4>2. Len(buffer) + 1 \in DOMAIN buffer'
        BY <1>3, <1>4
      <4> QED
        BY <1>4, <4>1, <4>2
    <3> QED
      BY <1>2, <1>3, <3>1, <3>2
  <2> QED
    BY <1>1, <2>1, <2>2, <2>3, <2>4 DEF BufferOK
<1> QED
  BY <1>4, <1>6, <1>7

\* The next character, when it is no end-of-transmission that ends the text.
LEMMA NextKept ==
  ASSUME LineInv, NEW n \in Int, got < n, n <= Len(parent),
         \A j \in (got + 1)..n : CheckEOT => parent[j] # "EOT",
         parent[n] = "CR" => PeekAfter(n) # "LF"
  PROVE  n \in Kept
<1> USE DEF LineInv
<1>1. parent \in Seq(Alphabet) /\ got \in 0..Len(parent) /\ Len(parent) \in Nat
  BY DEF TypeOK
<1>2. n \in 1..Len(parent)
  BY <1>1
<1>3. n + 1 \in 1..Len(parent) => PeekAfter(n) = parent[n + 1]
  BY <1>1, <1>2 DEF PeekAfter
<1>4. CheckEOT => \A j \in 1..n : parent[j] # "EOT"
  <2>1. SUFFICES ASSUME CheckEOT, NEW j \in 1..n PROVE parent[j] # "EOT"
    OBVIOUS
  <2>2. CASE j <= got
    BY <1>1, <2>1, <2>2 DEF EndOK
  <2>3. CASE got < j
    BY <1>1, <2>1, <2>3
  <2> QED
    BY <1>1, <2>2, <2>3
<1> QED
  BY <1>1, <1>2, <1>3, <1>4, KeptDef

\* The line break at the parent's position is one position kept, its last.
LEMMA BreakKept ==
  ASSUME LineInv, PeekAfter(got) \in {"CR", "LF"}
  PROVE  /\ OfBreak \in {1, 2} /\ got + OfBreak <= Len(parent)
         /\ got + OfBreak \in Kept
         /\ \A j \in Kept : got < j /\ j <= got + OfBreak => j = got + OfBreak
         /\ parent[got + OfBreak] \in {"CR", "LF"}
         /\ parent[got + OfBreak] = "CR" => PeekAfter(got + OfBreak) # "LF"
         /\ CheckEOT => \A j \in 1..(got + OfBreak) : parent[j] # "EOT"
<1> USE DEF LineInv
<1>1. parent \in Seq(Alphabet) /\ got \in 0..Len(parent) /\ Len(parent) \in Nat
  BY DEF TypeOK
<1>2. got < Len(parent) /\ parent[got + 1] = PeekAfter(got) /\ got + 1 \in 1..Len(parent)
  BY <1>1, PeekDef
<1>3. CheckEOT => \A k \in 1..got : parent[k] # "EOT"
  BY DEF EndOK
<1>4. CASE PeekAfter(got) = "CR" /\ PeekAfter(got + 1) = "LF"
  <2>1. OfBreak = 2
    BY <1>4 DEF OfBreak
  <2>2. got + 1 < Len(parent) /\ parent[got + 2] = "LF"
    BY <1>1, <1>2, <1>4, PeekDef
  <2>3. \A j \in (got + 1)..(got + 2) : CheckEOT => parent[j] # "EOT"
    BY <1>1, <1>2, <1>4, <2>2
  <2>4. got + 2 \in Kept
    BY <1>1, <2>2, <2>3, NextKept
  <2>5. got + 1 \notin Kept
    BY <1>1, <1>2, <1>4, <2>2, KeptDef
  <2>6. Kept \subseteq Int
    BY <1>1, KeptDef
  <2>7. \A j \in Kept : got < j /\ j <= got + 2 => j = got + 2
    BY <1>1, <2>5, <2>6
  <2>8. CheckEOT => \A j \in 1..(got + 2) : parent[j] # "EOT"
    BY <1>1, <1>3, <2>3
  <2> QED
    BY <1>1, <2>1, <2>2, <2>4, <2>7, <2>8
<1>5. CASE ~(PeekAfter(got) = "CR" /\ PeekAfter(got + 1) = "LF")
  <2>1. OfBreak = 1
    BY <1>5 DEF OfBreak
  <2>2. \A j \in (got + 1)..(got + 1) : CheckEOT => parent[j] # "EOT"
    BY <1>1, <1>2
  <2>3. parent[got + 1] = "CR" => PeekAfter(got + 1) # "LF"
    BY <1>2, <1>5
  <2>4. got + 1 \in Kept
    BY <1>1, <1>2, <2>2, <2>3, NextKept
  <2>5. \A j \in Kept : got < j /\ j <= got + 1 => j = got + 1
    BY <1>1, KeptDef
  <2>6. CheckEOT => \A j \in 1..(got + 1) : parent[j] # "EOT"
    BY <1>1, <1>3, <2>2
  <2> QED
    BY <1>1, <1>2, <2>1, <2>3, <2>4, <2>5, <2>6
<1> QED
  BY <1>4, <1>5

LEMMA FillBreakInv == LineInv /\ FillBreak => LineInv'
<1> SUFFICES ASSUME LineInv, FillBreak PROVE LineInv'
  OBVIOUS
<1> USE DEF LineInv
<1> DEFINE k == got + OfBreak
<1>1. /\ filling /\ PeekAfter(got) \in {"CR", "LF"}
      /\ got' = k /\ buffer' = Append(buffer, k) /\ filling' = FALSE
      /\ parent' = parent /\ gptr' = gptr /\ given' = given /\ eos' = eos /\ eof' = eof
  BY DEF FillBreak
<1>2. /\ k <= Len(parent) /\ k \in Kept /\ got < k /\ k \in Int
      /\ \A j \in Kept : got < j /\ j <= k => j = k
      /\ parent[k] \in {"CR", "LF"}
      /\ parent[k] = "CR" => PeekAfter(k) # "LF"
      /\ CheckEOT => \A j \in 1..k : parent[j] # "EOT"
  BY <1>1, BreakKept DEF TypeOK
<1> HIDE DEF k
<1>3. /\ TypeOK' <=> eos' \in BOOLEAN /\ filling' \in BOOLEAN /\ eof' \in BOOLEAN
      /\ BufferOK'
      /\ Len(buffer') = Len(buffer) + 1 /\ buffer'[Len(buffer) + 1] = k
      /\ DOMAIN buffer' = 1..(Len(buffer) + 1)
      /\ \A i \in DOMAIN buffer : buffer'[i] = buffer[i] /\ i \in DOMAIN buffer' /\ i # Len(buffer')
  BY <1>1, <1>2, AppendBuffer
<1>4. Len(buffer) \in Nat /\ DOMAIN buffer = 1..Len(buffer)
  BY DEF TypeOK
<1>5. TypeOK'
  BY <1>1, <1>3 DEF TypeOK
<1>6. LineOK'
  <2>1. ASSUME NEW i \in DOMAIN buffer', parent[buffer'[i]] \in {"CR", "LF"}
        PROVE  i = Len(buffer') /\ buffer'[i] = k
    <3>1. CASE i \in DOMAIN buffer
      BY <1>1, <1>3, <2>1, <3>1 DEF LineOK
    <3>2. CASE i = Len(buffer) + 1
      BY <1>3, <3>2
    <3> QED
      BY <1>3, <1>4, <3>1, <3>2
  <2>2. PeekAfter(got)' = PeekAfter(k)
    BY <1>1 DEF PeekAfter
  <2> QED
    BY <1>1, <1>2, <2>1, <2>2 DEF LineOK
<1>7. EndOK'
  <2>1. ~eos /\ ~eof
    BY <1>1, Zenon DEF EndOK
  <2> QED
    BY <1>1, <1>2, <2>1 DEF EndOK
<1> QED
  BY <1>3, <1>5, <1>6, <1>7

LEMMA FillCharacterInv == LineInv /\ FillCharacter => LineInv'
<1> SUFFICES ASSUME LineInv, FillCharacter PROVE LineInv'
  OBVIOUS
<1> USE DEF LineInv
<1> DEFINE k == got + 1
<1>1. /\ filling /\ PeekAfter(got) \notin {"CR", "LF", "EOF"}
      /\ ~(CheckEOT /\ PeekAfter(got) = "EOT")
      /\ got' = k /\ buffer' = Append(buffer, k)
      /\ parent' = parent /\ gptr' = gptr /\ given' = given /\ eos' = eos /\ filling' = filling /\ eof' = eof
  BY DEF FillCharacter
<1>2. parent \in Seq(Alphabet) /\ got \in 0..Len(parent) /\ Len(parent) \in Nat
  BY DEF TypeOK
<1>3. got < Len(parent) /\ parent[k] = PeekAfter(got) /\ k \in 1..Len(parent)
  BY <1>1, <1>2, PeekDef
<1>4. k \in Kept
  <2>1. \A j \in (got + 1)..k : CheckEOT => parent[j] # "EOT"
    BY <1>1, <1>2, <1>3
  <2>2. parent[k] # "CR"
    BY <1>1, <1>3
  <2> QED
    BY <1>2, <1>3, <2>1, <2>2, NextKept
<1>5. \A j \in Kept : got < j /\ j <= k => j = k
  BY <1>2, KeptDef
<1>6. got < k /\ k <= Len(parent) /\ k \in Int
  BY <1>2, <1>3
<1>7. CheckEOT => \A j \in 1..k : parent[j] # "EOT"
  BY <1>1, <1>2, <1>3 DEF EndOK
<1> HIDE DEF k
<1>8. /\ TypeOK' <=> eos' \in BOOLEAN /\ filling' \in BOOLEAN /\ eof' \in BOOLEAN
      /\ BufferOK'
      /\ Len(buffer') = Len(buffer) + 1 /\ buffer'[Len(buffer) + 1] = k
      /\ DOMAIN buffer' = 1..(Len(buffer) + 1)
      /\ \A i \in DOMAIN buffer : buffer'[i] = buffer[i] /\ i \in DOMAIN buffer' /\ i # Len(buffer')
  BY <1>1, <1>4, <1>5, <1>6, AppendBuffer
<1>9. Len(buffer) \in Nat /\ DOMAIN buffer = 1..Len(buffer)
  BY DEF TypeOK
<1>10. TypeOK'
  BY <1>1, <1>8 DEF TypeOK
<1>11. LineOK'
  <2>1. ASSUME NEW i \in DOMAIN buffer'
        PROVE  parent[buffer'[i]] \notin {"CR", "LF"}
    <3>1. CASE i \in DOMAIN buffer
      BY <1>1, <1>8, <3>1 DEF LineOK
    <3>2. CASE i = Len(buffer) + 1
      BY <1>1, <1>3, <1>8, <3>2
    <3> QED
      BY <1>8, <1>9, <3>1, <3>2
  <2> QED
    BY <1>1, <1>3, <2>1 DEF LineOK
<1>12. EndOK'
  <2>1. ~eos /\ ~eof
    BY <1>1, Zenon DEF EndOK
  <2>2. gptr = 0
    BY <1>1, Zenon DEF EndOK
  <2> QED
    BY <1>1, <1>7, <2>1, <2>2 DEF EndOK
<1> QED
  BY <1>8, <1>10, <1>11, <1>12

\* The buffer is left alone, and all that was taken is in it.
LEMMA FillEndsInv ==
  ASSUME LineInv, FillEOT \/ FillToEnd
  PROVE  LineInv'
<1> USE DEF LineInv
<1>1. /\ filling /\ filling' = FALSE
      /\ parent' = parent /\ got' = got /\ buffer' = buffer /\ gptr' = gptr /\ given' = given
  BY DEF FillEOT, FillToEnd
<1>2. Kept' = Kept
  BY <1>1 DEF Kept, Src!Kept
<1>3. ~eos /\ ~eof /\ gptr = 0
  BY <1>1, Zenon DEF EndOK
<1>4. /\ eos' \in BOOLEAN /\ eof' \in BOOLEAN
      /\ eos' => CheckEOT /\ PeekAfter(got) = "EOT"
      /\ eof' => eos' /\ buffer = << >>
  <2>1. CASE FillEOT
    <3>1. eos' = TRUE /\ eof' = (buffer = << >>) /\ CheckEOT /\ PeekAfter(got) = "EOT"
      BY <2>1 DEF FillEOT
    <3>2. eos'
      BY <3>1, Zenon
    <3>3. eos' \in BOOLEAN
      BY <3>1, Zenon
    <3>4. eof' \in BOOLEAN
      BY <3>1, Zenon
    <3>5. eof' => buffer = << >>
      BY <3>1, Zenon
    <3> QED
      BY <3>1, <3>2, <3>3, <3>4, <3>5, Zenon
  <2>2. CASE FillToEnd
    <3>1. eos' = eos /\ eof' = eof
      BY <2>2 DEF FillToEnd
    <3>2. eos \in BOOLEAN /\ eof \in BOOLEAN
      BY DEF TypeOK
    <3>3. ~eos' /\ ~eof'
      BY <1>3, <3>1, Zenon
    <3>4. eos' \in BOOLEAN /\ eof' \in BOOLEAN
      BY <3>1, <3>2, Zenon
    <3> QED
      BY <3>3, <3>4, Zenon
  <2> QED
    BY <2>1, <2>2, Zenon
<1>5. TypeOK'
  BY <1>1, <1>4 DEF TypeOK
<1>6. BufferOK'
  BY <1>1, <1>2 DEF BufferOK
<1>7. LineOK'
  <2>1. ASSUME NEW i \in DOMAIN buffer
        PROVE  parent[buffer[i]] \notin {"CR", "LF"}
    BY <1>1 DEF LineOK
  <2>2. PeekAfter(got)' = PeekAfter(got)
    BY <1>1 DEF PeekAfter
  <2> QED
    BY <1>1, <2>1, <2>2 DEF LineOK
<1>8. EndOK'
  <2>1. PeekAfter(got)' = PeekAfter(got)
    BY <1>1 DEF PeekAfter
  <2>2. eof' => gptr' = Len(buffer')
    BY <1>1, <1>3, <1>4
  <2>3. CheckEOT => \A k \in 1..got' : parent'[k] # "EOT"
    BY <1>1 DEF EndOK
  <2> QED
    BY <1>1, <1>4, <2>1, <2>2, <2>3 DEF EndOK
<1> QED
  BY <1>5, <1>6, <1>7, <1>8

LEMMA NextInv == LineInv /\ [Next]_vars => LineInv'
<1> SUFFICES ASSUME LineInv, [Next]_vars PROVE LineInv'
  OBVIOUS
<1>1. CASE Take
  BY <1>1, TakeInv
<1>2. CASE UnderflowAtEnd
  BY <1>2, UnderflowAtEndInv
<1>3. CASE Underflow
  BY <1>3, UnderflowInv
<1>4. CASE FillBreak
  BY <1>4, FillBreakInv
<1>5. CASE FillEOT \/ FillToEnd
  BY <1>5, FillEndsInv
<1>6. CASE FillCharacter
  BY <1>6, FillCharacterInv
<1>7. CASE UNCHANGED vars
  BY <1>7 DEF vars, LineInv, TypeOK, BufferOK, LineOK, EndOK, PeekAfter, Kept, Src!Kept
<1> QED
  BY <1>1, <1>2, <1>3, <1>4, <1>5, <1>6, <1>7 DEF Next

(***************************************************************************)
(* The invariant: for every alphabet and text, the buffer has exactly what *)
(* was taken from the parent and not yet given, and a line break is taken  *)
(* whole and ends the line (linebufistream.hpp:42-86).                     *)
(***************************************************************************)
THEOREM LineInvariant == Spec => []LineInv
<1> QED
  BY InitInv, NextInv, PTL DEF Spec

(***************************************************************************)
(* No more than a line is taken from the parent ahead of the reader        *)
(* (linebufistream.hpp:57-80).                                             *)
(***************************************************************************)
THEOREM OneLine == Spec => []OneLineAhead
<1>1. LineInv => OneLineAhead
  <2> SUFFICES ASSUME LineInv, NEW k \in Kept, given < k, k < got
               PROVE  parent[k] \notin {"CR", "LF"}
    BY DEF OneLineAhead
  <2>1. k \in Int /\ got \in Int
    BY KeptDef DEF LineInv, TypeOK
  <2>2. PICK i \in DOMAIN buffer : buffer[i] = k
    BY <2>1 DEF LineInv, BufferOK
  <2> QED
    BY <2>1, <2>2 DEF LineInv, LineOK
<1> QED
  BY <1>1, LineInvariant, PTL

-----------------------------------------------------------------------------
\* At eof nothing that is kept is left: before got all was given, and behind it
\* the text ends.
LEMMA AllGiven ==
  ASSUME LineInv, gptr = Len(buffer),
         PeekAfter(got) = "EOF" \/ (CheckEOT /\ PeekAfter(got) = "EOT")
  PROVE  \A k \in Kept : k <= given
<1> USE DEF LineInv
<1>1. parent \in Seq(Alphabet) /\ got \in 0..Len(parent) /\ Len(parent) \in Nat /\ given \in Int
  BY DEF TypeOK
<1> SUFFICES ASSUME NEW k \in Kept, given < k PROVE FALSE
  BY <1>1, KeptDef
<1>2. k \in 1..Len(parent)
  BY <1>1, KeptDef
<1>3. CASE k <= got
  <2>1. PICK i \in DOMAIN buffer : buffer[i] = k
    BY <1>3 DEF BufferOK
  <2>2. i <= gptr
    BY <2>1 DEF TypeOK
  <2> QED
    BY <1>1, <1>2, <2>1, <2>2 DEF BufferOK
<1>4. CASE got < k
  <2>1. got < Len(parent) /\ PeekAfter(got) = parent[got + 1] /\ PeekAfter(got) # "EOF"
    BY <1>1, <1>2, <1>4, PeekDef
  <2>2. CheckEOT /\ parent[got + 1] = "EOT" /\ got + 1 \in 1..k
    BY <1>1, <1>2, <1>4, <2>1
  <2> QED
    BY <1>1, <1>2, <2>2, KeptDef
<1> QED
  BY <1>1, <1>2, <1>3, <1>4

\* A step of the reader is one of the source's, the others are not seen.
LEMMA SourceStep == LineInv /\ [Next]_vars => [Src!Next]_Src!vars
<1> SUFFICES ASSUME LineInv, Next PROVE Src!Next \/ UNCHANGED Src!vars
  BY DEF vars, Src!vars
<1> USE DEF LineInv
<1>1. CASE Take
  <2>1. /\ ~filling /\ gptr < Len(buffer) /\ given' = buffer[gptr + 1]
        /\ parent' = parent
    BY <1>1 DEF Take
  <2>2. eof' = eof
    BY <1>1 DEF Take
  <2>3. /\ buffer \in Seq(1..Len(parent)) /\ Len(buffer) \in Nat /\ DOMAIN buffer = 1..Len(buffer)
        /\ gptr \in 0..Len(buffer) /\ gptr + 1 \in DOMAIN buffer /\ given \in Int /\ got \in Int
    BY <2>1 DEF TypeOK
  <2>4. ~eof
    <3>1. gptr < Len(buffer)
      BY <2>1
    <3>2. gptr \in Int /\ Len(buffer) \in Int
      BY <2>3
    <3>3. gptr # Len(buffer)
      BY <3>1, <3>2
    <3> QED
      BY <3>3, Zenon DEF EndOK
  <2>5. buffer[gptr + 1] \in Kept /\ buffer[gptr + 1] <= got
    BY <2>3 DEF BufferOK
  <2>6. Kept \subseteq Int
    BY KeptDef DEF TypeOK
  <2>7. given < buffer[gptr + 1]
    BY <2>3, <2>5, <2>6 DEF BufferOK
  <2>8. ASSUME NEW j \in Kept
        PROVE  j <= given \/ buffer[gptr + 1] <= j
    <3>1. SUFFICES ASSUME given < j, j < buffer[gptr + 1] PROVE FALSE
      BY <2>3, <2>5, <2>6
    <3>2. j <= got
      BY <2>3, <2>5, <2>6, <3>1
    <3>3. PICK i \in DOMAIN buffer : buffer[i] = j
      BY <3>1, <3>2 DEF BufferOK
    <3>4. i \in Int /\ gptr < i
      BY <2>3, <2>6, <3>1, <3>3 DEF BufferOK
    <3>5. gptr + 1 < i => buffer[gptr + 1] < j
      BY <2>3, <3>3 DEF BufferOK
    <3> QED
      BY <2>3, <2>5, <2>6, <3>1, <3>3, <3>4, <3>5
  <2>9. Src!Give(buffer[gptr + 1])
    BY <2>1, <2>2, <2>4, <2>7, <2>8 DEF Src!Give, Kept
  <2> QED
    BY <2>5, <2>9 DEF Src!Next, Kept
<1>2. CASE UnderflowAtEnd
  <2>1. gptr = Len(buffer) /\ Ended /\ eof' = TRUE /\ parent' = parent /\ given' = given
    BY <1>2 DEF UnderflowAtEnd
  <2>2. PeekAfter(got) = "EOF" \/ (CheckEOT /\ PeekAfter(got) = "EOT")
    BY <2>1 DEF Ended, EndOK
  <2>3. \A j \in Kept : j <= given
    BY <2>1, <2>2, AllGiven
  <2> QED
    BY <2>1, <2>3 DEF Src!Next, Src!End, Kept
<1>3. CASE FillEOT
  <2>1. /\ filling /\ CheckEOT /\ PeekAfter(got) = "EOT"
        /\ eof' = (buffer = << >>)
        /\ parent' = parent /\ given' = given
    BY <1>3 DEF FillEOT
  <2>2. gptr = 0
    BY <2>1, Zenon DEF EndOK
  <2>3. CASE buffer = << >>
    <3>1. gptr = Len(buffer)
      BY <2>2, <2>3
    <3>2. \A j \in Kept : j <= given
      BY <2>1, <3>1, AllGiven
    <3>3. eof' = TRUE
      BY <2>1, <2>3, Zenon
    <3> QED
      BY <2>1, <3>2, <3>3 DEF Src!Next, Src!End, Kept
  <2>4. CASE buffer # << >>
    <3>1. eof' = FALSE /\ eof = FALSE
      BY <2>1, <2>4, Zenon DEF EndOK, TypeOK
    <3> QED
      BY <2>1, <3>1 DEF Src!vars
  <2> QED
    BY <2>3, <2>4
<1>4. CASE Underflow \/ FillBreak \/ FillCharacter \/ FillToEnd
  BY <1>4 DEF Underflow, FillBreak, FillCharacter, FillToEnd, Src!vars
<1> QED
  BY <1>1, <1>2, <1>3, <1>4 DEF Next

(***************************************************************************)
(* linebuff implements a source of text: whatever the lines and the        *)
(* characters that end them, the reader gets every character to the end,   *)
(* in order, each line break once, and after the end nothing.              *)
(***************************************************************************)
THEOREM LineBuffIsSource == Spec => SourceSpec
<1>1. Init => Src!Init
  BY DEF Init, Src!Init
<1> QED
  BY <1>1, SourceStep, LineInvariant, PTL DEF Spec, SourceSpec, Src!Spec

=============================================================================
