-------------------------- MODULE TextSource --------------------------
(***************************************************************************)
(* What linebuff_istream promises its reader: the characters of a text up  *)
(* to its end or its end-of-transmission character, in order, with one     *)
(* character for each line break, and then the end of the stream for good. *)
(* A character is named by its position in the text.                       *)
(***************************************************************************)
EXTENDS Integers, Sequences

CONSTANTS Alphabet, MaxLength, CheckEOT

VARIABLES parent,   \* the text
          given,    \* the last position that was read, 0 before the first
          eof       \* the reader was told that there are no more
vars == <<parent, given, eof>>

\* A `\r' before a `\n' is a part of the line break that the `\n' stands for.
Kept == {k \in DOMAIN parent :
           /\ ~(parent[k] = "CR" /\ k + 1 \in DOMAIN parent /\ parent[k + 1] = "LF")
           /\ CheckEOT => \A j \in 1..k : parent[j] # "EOT"}

Init ==
  /\ \E n \in 0..MaxLength : parent \in [1..n -> Alphabet]
  /\ given = 0 /\ eof = FALSE

Give(k) ==
  /\ ~eof
  /\ given < k /\ \A j \in Kept : j <= given \/ k <= j
  /\ given' = k
  /\ UNCHANGED <<parent, eof>>

End ==
  /\ \A j \in Kept : j <= given
  /\ eof' = TRUE
  /\ UNCHANGED <<parent, given>>

Next == (\E k \in Kept : Give(k)) \/ End
Spec == Init /\ [][Next]_vars

=============================================================================
