---------------------------- MODULE Cursor ----------------------------
(***************************************************************************)
(* What parser::buffered_stream promises the parser: a position in a text  *)
(* of length characters, and the characters from there on.  A character is *)
(* named by its position in the text.                                      *)
(***************************************************************************)
EXTENDS Integers

CONSTANTS Lengths,    \* the lengths of the texts
          Reach       \* the farthest that a caller peeks

EOS == -1

VARIABLES length,    \* the length of the text
          at,        \* the position
          answer     \* what the last peek_at returned
vars == <<length, at, answer>>

Init == length \in Lengths /\ at = 0 /\ answer = EOS

PeekAt(p) == /\ answer' = IF at + p < length THEN at + p ELSE EOS
             /\ UNCHANGED <<length, at>>

\* Not beyond the end of the text.
Advance(n) == /\ at' = IF at + n <= length THEN at + n ELSE length
              /\ UNCHANGED <<length, answer>>

Next == \E k \in 0..(Reach + 1) : PeekAt(k) \/ Advance(k)
Spec == Init /\ [][Next]_vars

=============================================================================
