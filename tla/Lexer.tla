---------------------------- MODULE Lexer ----------------------------
(***************************************************************************)
(* parser::peek: from characters to a token (src/pcsh/parser/parser.cpp).  *)
(*                                                                         *)
(* w is the text that is left and a position is counted from its           *)
(* beginning, as by the parser's peek_at.  A character is its class or     *)
(* itself: "1" a digit, "SP" a space, "bad" one that begins no token.  A   *)
(* member function is an operator that yields the token, where it begins,  *)
(* and the farthest position it has peeked at.                             *)
(***************************************************************************)
EXTENDS Integers, Sequences, FiniteSetsExt

Newline     == {"LF", "CR"}
Whitespace  == Newline \cup {"SP"}
Digit       == {"1"}
SymbolChar  == Digit \cup {"a", "f", "i", "n", "r"}
Mark        == {"(", ")", "{", "}", ";", "+", "-", "*", ".", "/"}
Char        == Whitespace \cup SymbolChar \cup Mark \cup {"=", "#", "quote", "bslash", "bad"}

\* peek_at(p)
Ch(w, p) == IF p < Len(w) THEN w[p + 1] ELSE "EOS"

\* The first position from p on with a character outside of chars.
EndOf(w, p, chars) == Min({q \in p..Len(w) : Ch(w, q) \notin chars})

\* A mutant of SkipTillLineEnd: a line ends with `\n' only.
SkipTillLineFeed(w, p) == EndOf(w, p, Char \ {"LF"})

SkipTillLineEnd(w, p) == EndOf(w, p, Char \ Newline)

FindFirstNonWhitespace(w, from) ==
  LET Find[p \in 0..Len(w)] ==
        LET q == EndOf(w, p, Whitespace)
        IN  IF Ch(w, q) = "#" THEN Find[SkipTillLineEnd(w, q + 1)] ELSE q
  IN  Find[from]

Token(type, start, len, reach) ==
  [type |-> type, start |-> start, len |-> len, reach |-> reach, chars |-> << >>]

-----------------------------------------------------------------------------
\* `\t', `\v', `\a' and `\b' are treated as `\n' and `\r' are.
Unescaped(c) == CASE c = "n" -> "LF" [] c = "r" -> "CR" [] OTHER -> c

\* The loop of read_string from p on, and what it puts into its buffer: behind a
\* backslash it may look beyond the end.
ReadChars(w, from) ==
  LET Put(c, read) == [read EXCEPT !.chars = <<c>> \o @]
      Read[p \in 0..(Len(w) + 1)] ==
        CASE Ch(w, p) = "EOS"    -> [closed |-> FALSE, at |-> p, chars |-> << >>]
          [] Ch(w, p) = "quote"  -> [closed |-> TRUE, at |-> p, chars |-> << >>]
          [] Ch(w, p) = "bslash" -> Put(Unescaped(Ch(w, p + 1)), Read[p + 2])
          [] OTHER               -> Put(Ch(w, p), Read[p + 1])
  IN  Read[from]

\* A string's length does not count its quotes.
ReadString(w, p) ==
  LET read == ReadChars(w, p + 1)
  IN  [Token(IF read.closed THEN "QUOTE" ELSE "FAIL", p, read.at - (p + 1), read.at)
         EXCEPT !.chars = read.chars]

ReadNumber(w, p) ==
  LET digend  == EndOf(w, p, Digit)
      hasdec  == Ch(w, digend) = "."
      fracend == EndOf(w, IF hasdec THEN digend + 1 ELSE digend, Digit)
      hasfrac == hasdec /\ fracend # digend + 1
  IN  CASE ~hasfrac /\ Ch(w, digend) \notin SymbolChar -> Token("INTEGER", p, digend - p, fracend)
        [] hasfrac /\ Ch(w, fracend) \notin SymbolChar -> Token("FLOATING", p, fracend - p, fracend)
        [] OTHER -> Token("FAIL", p, 0, fracend)

\* buff_string::equals("if"): the name's length decides how much is compared.
EqualsIf(name) == \A k \in DOMAIN name : k <= 2 /\ name[k] = <<"i", "f">>[k]

ReadName(w, p) ==
  LET end == EndOf(w, p, SymbolChar)
  IN  CASE end = p -> Token("FAIL", p, 0, end)
        [] end > p /\ EqualsIf(SubSeq(w, p + 1, end))  -> Token("IF", p, end - p, end)
        [] end > p /\ ~EqualsIf(SubSeq(w, p + 1, end)) -> Token("SYMBOL", p, end - p, end)

ReadEqual(w, p) ==
  IF Ch(w, p + 1) = "=" THEN Token("ISEQUAL", p, 2, p + 1) ELSE Token("ASSIGN", p, 1, p + 1)

\* peek(0, &start); the marks are types of their own.
Peek(w) ==
  LET p == FindFirstNonWhitespace(w, 0)
      c == Ch(w, p)
  IN  CASE c = "EOS"   -> Token("EOS", p, 1, p)
        [] c \in Mark  -> Token(c, p, 1, p)
        [] c = "="     -> ReadEqual(w, p)
        [] c = "quote" -> ReadString(w, p)
        [] c \in Digit -> ReadNumber(w, p)
        [] OTHER       -> ReadName(w, p)

-----------------------------------------------------------------------------
\* A mutant of Escaped: a backslash is printed as it is.
EscapedBreaks(c) ==
  CASE c = "LF" -> <<"bslash", "n">> [] c = "CR" -> <<"bslash", "r">> [] OTHER -> <<c>>

\* print(os, const string_constant*) (src/pcsh/ir/ops/printer.cpp): one character
Escaped(c) ==
  CASE c = "LF"     -> <<"bslash", "n">>
    [] c = "CR"     -> <<"bslash", "r">>
    [] c = "bslash" -> <<"bslash", "bslash">>
    [] OTHER        -> <<c>>

PrintString(chars) ==
  LET Written[k \in 0..Len(chars)] == IF k = 0 THEN << >> ELSE Written[k - 1] \o Escaped(chars[k])
  IN  Written[Len(chars)]

=============================================================================
