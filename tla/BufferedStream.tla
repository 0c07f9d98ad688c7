------------------------ MODULE BufferedStream ------------------------
(***************************************************************************)
(* parser::buffered_stream and its flex_buffer (parser.cpp:290-430).       *)
(*                                                                         *)
(* A character is named by its position in the stream.  The stream can     *)
(* seek, and the parser finds it at its beginning.  The first              *)
(* buffsz_ characters of the buffer are the sequence buffer; size is that  *)
(* of the flex_buffer, which keeps them in an array of INIT_SIZE or on the *)
(* heap.  Each iteration of the loop in advance is an action.              *)
(***************************************************************************)
EXTENDS Integers, Sequences

CONSTANTS Lengths,     \* the lengths of the streams
          Reach,       \* bound on what a caller peeks at
          INIT_SIZE
ASSUME StreamAssumption ==
  /\ Lengths \subseteq Nat /\ Reach \in Nat
  /\ INIT_SIZE \in Nat \ {0}

EOS == -1

VARIABLES
  length,    \* how many characters strm_ has
  strm,      \* how many of them were read: strm_'s get position
  buffer,    \* the characters in buffer_
  size,      \* buffer_.size()
  buffpos,   \* buffpos_
  pos,       \* pos_: the position of the first character in buffer
  skip,      \* n in the loop of advance, 0 when it does not run
  seen,      \* how many characters from here on were peeked at
  answer     \* what the last peek_at returned
vars == <<length, strm, buffer, size, buffpos, pos, skip, seen, answer>>

AtLeast(m, n) == IF m < n THEN n ELSE m
AtMost(m, n)  == IF m < n THEN m ELSE n

Init ==
  /\ length \in Lengths /\ strm = 0
  /\ buffer = << >> /\ size = 0 /\ buffpos = 0 /\ pos = 0
  /\ skip = 0 /\ seen = 0 /\ answer = EOS

-----------------------------------------------------------------------------
\* What flex_buffer::resize(s) keeps of buff: from the array to the heap it
\* copies size characters.
Kept(buff, s) == IF size <= INIT_SIZE /\ s > INIT_SIZE THEN SubSeq(buff, 1, AtMost(size, Len(buff))) ELSE buff

\* strm_.read(p, count): as many characters as there are.
Count(count) == AtMost(count, length - strm)
Chars(count) == [i \in 1..Count(count) |-> strm + i - 1]

\* Mutants: as much as the buffer has grown to; all of it again, whatever is left.
TargetOfSize(n) == AtLeast(n, AtLeast(size, INIT_SIZE))
WantedAgain(n)  == AtLeast(n, INIT_SIZE)

\* fill_buffer(n).
Target(n)  == AtLeast(n, INIT_SIZE)
Wanted(n)  == Target(n) - (Len(buffer) - buffpos)
NewSize(n) == AtLeast(buffpos + Target(n), size)
Filled(n)  == Kept(buffer, NewSize(n)) \o Chars(Wanted(n))
FillBuffer(n) ==
  /\ size' = NewSize(n)
  /\ buffer' = Filled(n)
  /\ strm' = strm + Count(Wanted(n))

\* has_chars(n): FillBuffer, if they are not in the buffer.
HasChars(n) ==
  IF Len(buffer) >= buffpos + n THEN UNCHANGED <<strm, buffer, size>> ELSE FillBuffer(n)

PeekAt(p) ==
  /\ skip = 0
  /\ HasChars(p + 1)
  /\ answer' = IF Len(buffer') >= buffpos + p + 1 THEN buffer'[buffpos + p + 1] ELSE EOS
  /\ seen' = AtLeast(seen, p + 1)
  /\ UNCHANGED <<length, buffpos, pos, skip>>

Left == Len(buffer) - buffpos

\* advance(n) inside the buffer.
AdvanceBuffered(n) ==
  /\ skip = 0 /\ Left >= n
  /\ buffpos' = buffpos + n
  /\ seen' = AtLeast(seen - n, 0)
  /\ UNCHANGED <<length, strm, buffer, size, pos, skip, answer>>

\* advance(n) beyond it: the buffer is given up ...
AdvanceBeyond(n) ==
  /\ skip = 0 /\ Left < n
  /\ pos' = pos + Len(buffer)
  /\ buffpos' = 0 /\ buffer' = << >>
  /\ skip' = n - Left
  /\ seen' = 0
  /\ UNCHANGED <<length, strm, size, answer>>

\* ... and then in a loop filled and skipped.
Skip ==
  /\ skip > 0
  /\ FillBuffer(size)
  /\ CASE buffer' = << >>     -> skip' = 0 /\ UNCHANGED <<buffpos, pos>>
       [] buffer' # << >> /\ skip < Len(buffer') ->
            skip' = 0 /\ buffpos' = buffpos + skip /\ UNCHANGED pos
       [] OTHER -> pos' = pos + Len(buffer') /\ skip' = skip - Len(buffer') /\ UNCHANGED buffpos
  /\ UNCHANGED <<length, seen, answer>>

\* Mutant: the buffer is not given up.
SyncStreamOnly ==
  /\ skip = 0
  /\ strm' = pos + buffpos
  /\ pos' = pos + buffpos
  /\ buffpos' = 0 /\ seen' = 0
  /\ UNCHANGED <<length, buffer, size, skip, answer>>

SyncStream ==
  /\ skip = 0
  /\ strm' = pos + buffpos
  /\ pos' = pos + buffpos
  /\ buffpos' = 0 /\ buffer' = << >>
  /\ seen' = 0
  /\ UNCHANGED <<length, size, skip, answer>>

(***************************************************************************)
(* The parser advances over characters that it has peeked at, be it in     *)
(* parser::advance itself (parser.cpp:480) or, for a string, in            *)
(* read_string; the last of them may be the end of the stream.             *)
(***************************************************************************)
Advance(n) == n <= seen /\ (AdvanceBuffered(n) \/ AdvanceBeyond(n))

Next ==
  \/ \E p \in 0..Reach : PeekAt(p)
  \/ \E n \in 0..(Reach + 1) : Advance(n)
  \/ Skip
  \/ SyncStream

Spec == Init /\ [][Next]_vars

-----------------------------------------------------------------------------
TypeOK ==
  /\ length \in Lengths /\ strm \in 0..length
  /\ buffer \in Seq(Nat) /\ size \in Nat
  /\ buffpos \in 0..Len(buffer) /\ pos \in Nat
  /\ skip \in Nat /\ seen \in Nat
  /\ answer \in Nat \cup {EOS}

(***************************************************************************)
(* The buffer has the characters of the stream from pos on, all that were  *)
(* read and no other, and never more than there is room for, whether in    *)
(* the array or moved to the heap.                                         *)
(***************************************************************************)
BufferOK ==
  /\ strm = pos + Len(buffer)
  /\ \A i \in 1..Len(buffer) : buffer[i] = pos + i - 1
  /\ Len(buffer) <= size

\* Only at the end of the stream was more peeked at than the buffer has, and
\* only there does advance skip: what it skips is nothing.
EndOK ==
  /\ seen > Left => strm = length
  /\ skip > 0 => strm = length /\ buffer = << >>

StreamInv == TypeOK /\ BufferOK /\ EndOK

\* The stream is read ahead by the size of the array or by what a caller peeks
\* at, whichever is more, however the two interleave with advance.
ReadsAhead == strm <= pos + buffpos + AtLeast(INIT_SIZE, Reach + 1)

(***************************************************************************)
(* To the parser the buffers are a cursor on the text.                     *)
(***************************************************************************)
C == INSTANCE Cursor WITH at <- AtMost(pos + buffpos + skip, length)
CursorSpec == C!Spec

=============================================================================
