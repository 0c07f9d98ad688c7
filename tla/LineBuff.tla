--------------------------- MODULE LineBuff ---------------------------
(***************************************************************************)
(* detail::linebuff, the stream buffer of linebuff_istream: another stream *)
(* line by line (src/pcsh/main/linebufistream.hpp).                        *)
(*                                                                         *)
(* A character of the parent stream is named by its position.  got of them *)
(* were taken from it; the buffer has a line, without the carriage return  *)
(* of a `\r\n' and with `\n' for a `\r'.  Each round of the loop in        *)
(* underflow is an action.                                                 *)
(***************************************************************************)
EXTENDS Integers, Sequences

CONSTANTS Alphabet,   \* of the parent's characters: of "LF", "CR", "EOT" and others
          MaxLength,  \* bound on the parent's length
          CheckEOT    \* check_eot_
ASSUME LineBuffAssumption ==
  "EOF" \notin Alphabet /\ MaxLength \in Nat /\ CheckEOT \in BOOLEAN

VARIABLES
  parent,   \* the parent's characters
  got,      \* how many of them get() has taken
  buffer,   \* buffer_, as the positions of its characters
  gptr,     \* how many of them the reader has taken
  eos,      \* eos_
  filling,  \* underflow's loop runs
  given,    \* the last position that the reader was given
  eof       \* an underflow has returned eof
vars == <<parent, got, buffer, gptr, eos, filling, given, eof>>

Init ==
  /\ \E n \in 0..MaxLength : parent \in [1..n -> Alphabet]
  /\ got = 0 /\ buffer = << >> /\ gptr = 0
  /\ eos = FALSE /\ filling = FALSE
  /\ given = 0 /\ eof = FALSE

\* istrm_.peek(), when n characters were taken
PeekAfter(n) == IF n < Len(parent) THEN parent[n + 1] ELSE "EOF"

-----------------------------------------------------------------------------
\* The reader takes a character out of the line that there is, ...
Take ==
  /\ ~filling /\ gptr < Len(buffer)
  /\ given' = buffer[gptr + 1]
  /\ gptr' = gptr + 1
  /\ UNCHANGED <<parent, got, buffer, eos, filling, eof>>

Ended == eos \/ PeekAfter(got) = "EOF"

\* ... or there is none: underflow returns eof, ...
UnderflowAtEnd ==
  /\ ~filling /\ gptr = Len(buffer)
  /\ Ended
  /\ eos' = TRUE /\ eof' = TRUE
  /\ buffer' = << >> /\ gptr' = 0
  /\ UNCHANGED <<parent, got, filling, given>>

\* ... or begins a line.
Underflow ==
  /\ ~filling /\ gptr = Len(buffer)
  /\ ~Ended
  /\ buffer' = << >> /\ gptr' = 0
  /\ filling' = TRUE
  /\ UNCHANGED <<parent, got, eos, given, eof>>

\* A mutant of OfBreak: `\r' is a break of its own.
OfBreakByCharacter == 1

\* How many characters the line break at the parent's position has.
OfBreak == IF PeekAfter(got) = "CR" /\ PeekAfter(got + 1) = "LF" THEN 2 ELSE 1

\* A mutant of FillBreak: the loop goes on.
FillBreakOn ==
  /\ filling /\ PeekAfter(got) \in {"CR", "LF"}
  /\ got' = got + OfBreak
  /\ buffer' = Append(buffer, got + OfBreak)
  /\ UNCHANGED <<parent, gptr, eos, filling, given, eof>>

FillBreak ==
  /\ filling /\ PeekAfter(got) \in {"CR", "LF"}
  /\ got' = got + OfBreak
  /\ buffer' = Append(buffer, got + OfBreak)
  /\ filling' = FALSE
  /\ UNCHANGED <<parent, gptr, eos, given, eof>>

\* A mutant of FillEOT: the character is taken, and eos_ is not set.
FillEOTTaken ==
  /\ filling /\ CheckEOT /\ PeekAfter(got) = "EOT"
  /\ got' = got + 1
  /\ filling' = FALSE
  /\ eof' = (buffer = << >>)
  /\ UNCHANGED <<parent, buffer, gptr, eos, given>>

FillEOT ==
  /\ filling /\ CheckEOT /\ PeekAfter(got) = "EOT"
  /\ eos' = TRUE
  /\ filling' = FALSE
  /\ eof' = (buffer = << >>)
  /\ UNCHANGED <<parent, got, buffer, gptr, given>>

FillCharacter ==
  /\ filling /\ PeekAfter(got) \notin {"CR", "LF", "EOF"}
  /\ ~(CheckEOT /\ PeekAfter(got) = "EOT")
  /\ got' = got + 1
  /\ buffer' = Append(buffer, got + 1)
  /\ UNCHANGED <<parent, gptr, eos, filling, given, eof>>

FillToEnd ==
  /\ filling /\ PeekAfter(got) = "EOF"
  /\ filling' = FALSE
  /\ UNCHANGED <<parent, got, buffer, gptr, eos, given, eof>>

Next ==
  \/ Take
  \/ UnderflowAtEnd \/ Underflow
  \/ FillBreak \/ FillEOT \/ FillCharacter \/ FillToEnd

Spec == Init /\ [][Next]_vars

-----------------------------------------------------------------------------
Src == INSTANCE TextSource
Kept == Src!Kept

TypeOK ==
  /\ parent \in Seq(Alphabet)
  /\ got \in 0..Len(parent) /\ given \in 0..Len(parent)
  /\ buffer \in Seq(1..Len(parent)) /\ gptr \in 0..Len(buffer)
  /\ eos \in BOOLEAN /\ filling \in BOOLEAN /\ eof \in BOOLEAN

\* What was taken from the parent and not yet given to the reader is what the
\* buffer has from gptr on.
BufferOK ==
  /\ given <= got
  /\ \A i \in DOMAIN buffer :
       /\ buffer[i] \in Kept /\ buffer[i] <= got
       /\ i <= gptr <=> buffer[i] <= given
       /\ \A j \in DOMAIN buffer : i < j => buffer[i] < buffer[j]
  /\ \A k \in Kept : given < k /\ k <= got => \E i \in DOMAIN buffer : buffer[i] = k

\* A line break ends the line, and is taken whole.
LineOK ==
  /\ \A i \in DOMAIN buffer :
       parent[buffer[i]] \in {"CR", "LF"} => i = Len(buffer) /\ buffer[i] = got /\ ~filling
  /\ got > 0 /\ parent[got] = "CR" => PeekAfter(got) # "LF"

\* The end was found where the parent's text, or the part to be read, ends.
EndOK ==
  /\ CheckEOT => \A k \in 1..got : parent[k] # "EOT"
  /\ eos => PeekAfter(got) = "EOF" \/ (CheckEOT /\ PeekAfter(got) = "EOT")
  /\ filling => gptr = 0 /\ ~eos
  /\ eof => eos /\ gptr = Len(buffer) /\ ~filling

\* The inductive invariant.
LineInv == TypeOK /\ BufferOK /\ LineOK /\ EndOK

(***************************************************************************)
(* No more is taken from the parent than the line that is being read: a    *)
(* program at a terminal, or one that shares its input, waits for and      *)
(* keeps nothing beyond it (linebufistream.hpp:57-80).                     *)
(***************************************************************************)
OneLineAhead ==
  \A k \in Kept : given < k /\ k < got => parent[k] \notin {"CR", "LF"}

\* The reader, which asks again after the end (parser.cpp:423-428), is given
\* the text, each line break once, and nothing after the end
\* (linebufistream.hpp:42-86).
SourceSpec == Src!Spec

=============================================================================
