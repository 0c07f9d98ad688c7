-------------------------- MODULE Tokenizer --------------------------
(***************************************************************************)
(* A parser at its stream: the one token that parser_engine looks ahead,   *)
(* its text in the stream's buffer or in the buffer that all strings       *)
(* share, the line counters, and the report of an error.                   *)
(*                                                                         *)
(* Each action makes one step of BufferedStream.  A peek is one peek_at,   *)
(* of the farthest position it looks at: those before it read no more.     *)
(***************************************************************************)
EXTENDS Lexer

CONSTANTS Alphabets,    \* which characters occur together in a text
          MaxLength,    \* bound on a text's length
          INIT_SIZE     \* of the stream's array
ASSUME TokenizerAssumption ==
  /\ Alphabets \subseteq SUBSET Char
  /\ MaxLength \in Nat /\ INIT_SIZE \in Nat \ {0}

VARIABLES
  text,                                                        \* what the stream has
  length, strm, buffer, size, buffpos, pos, skip, seen, answer, \* BufferedStream's
  mem,        \* which memory buffer_ is in: it is another each time it grows on the heap
  strings,    \* read_string's static buffer
  parsed, ws, curr,    \* parsed_, ws_ and curr_, with the place its pointer leads to
  line, linestart,     \* line_, line_start_
  uncounted,  \* the positions consumed with a string (for the properties)
  mode        \* "parsing", the steps of throw_error, or "gone"
streamVars == <<length, strm, buffer, size, buffpos, pos, skip, seen, answer>>
vars == <<text, streamVars, mem, strings, parsed, ws, curr, line, linestart, uncounted, mode>>

S == INSTANCE BufferedStream WITH Lengths <- 0..MaxLength, Reach <- MaxLength + 1

\* The parser's position, and the text from there on.
At   == S!AtMost(pos + buffpos + skip, length)
Rest == SubSeq(text, At + 1, length)

Nowhere == [type |-> "EOS", len |-> 1, mem |-> 0, index |-> 0]

Init ==
  /\ \E a \in Alphabets, n \in 0..MaxLength : text \in [1..n -> a]
  /\ S!Init /\ length = Len(text)
  /\ mem = 0 /\ strings = << >>
  /\ parsed = FALSE /\ ws = 0 /\ curr = Nowhere
  /\ line = 1 /\ linestart = 0 /\ uncounted = {}
  /\ mode = "parsing"

-----------------------------------------------------------------------------
\* flex_buffer::resize, as if the heap's buffer never had room to spare.
Memory == mem' = IF size' > size /\ size' > INIT_SIZE THEN mem + 1 ELSE mem

\* A mutant of Pointer: buff() is read before the token is.
PointerBefore(p) == [mem |-> mem, index |-> buffpos + p]

\* buff() + p, when the token has been read
Pointer(p) == [mem |-> mem', index |-> buffpos + p]

\* parser::peek, which yielded t
Peeks(t) ==
  /\ S!PeekAt(t.reach)
  /\ Memory
  /\ strings' = IF Ch(Rest, t.start) = "quote" THEN t.chars ELSE strings
  /\ ws' = t.start
  /\ UNCHANGED <<text, line, linestart, uncounted>>

\* do_peek, of a token ...
DoPeek ==
  /\ mode = "parsing" /\ ~parsed
  /\ LET t  == Peek(Rest)
         to == Pointer(t.start)
     IN  /\ t.type # "FAIL"
         /\ Peeks(t)
         /\ curr' = [type |-> t.type, len |-> t.len, mem |-> to.mem, index |-> to.index]
  /\ parsed' = TRUE
  /\ UNCHANGED mode

\* ... or of none.
DoPeekFails ==
  /\ mode = "parsing" /\ ~parsed
  /\ LET t == Peek(Rest) IN t.type = "FAIL" /\ Peeks(t)
  /\ mode' = "throwing"
  /\ UNCHANGED <<parsed, curr>>

-----------------------------------------------------------------------------
\* A mutant of Breaks: every character of a line break counts.
BreaksByCharacter(n) == {p \in 0..(n - 1) : Ch(Rest, p) \in Newline}

\* The line breaks that parser::advance finds in n characters.
Breaks(n) ==
  {p \in 0..(n - 1) : Ch(Rest, p) \in Newline /\ ~(p > 0 /\ Ch(Rest, p) = "LF" /\ Ch(Rest, p - 1) = "CR")}

\* line_start_ after a break at p
AfterBreak(p) == At + (IF Ch(Rest, p) = "CR" /\ Ch(Rest, p + 1) = "LF" THEN p + 1 ELSE p)

\* parser::advance(n, countnl)
Advances(n, countnl) ==
  /\ S!AdvanceBuffered(n) \/ S!AdvanceBeyond(n)
  /\ IF countnl /\ Breaks(n) # {}
       THEN line' = line + Cardinality(Breaks(n)) /\ linestart' = AfterBreak(Max(Breaks(n)))
       ELSE UNCHANGED <<line, linestart>>
  /\ uncounted' = IF countnl THEN uncounted ELSE uncounted \cup {p \in At..(At + n - 1) : p < length}
  /\ UNCHANGED <<text, mem, strings>>

\* A mutant of Consumed: a string's length is taken to have its opening quote.
ConsumedPastQuote(t) == IF t.type = "QUOTE" THEN ws + t.len + 3 ELSE ws + t.len

Consumed(t) == IF t.type = "QUOTE" THEN ws + t.len + 2 ELSE ws + t.len

\* A mutant of Advance: the token is not given up.
AdvanceKeepsToken ==
  /\ mode = "parsing" /\ parsed
  /\ Advances(Consumed(curr), curr.type # "QUOTE")
  /\ UNCHANGED <<parsed, ws, curr, mode>>

\* parser_engine::advance
Advance ==
  /\ mode = "parsing" /\ parsed
  /\ Advances(Consumed(curr), curr.type # "QUOTE")
  /\ parsed' = FALSE /\ ws' = 0
  /\ UNCHANGED <<curr, mode>>

\* throw_error, of a token that could not be read or an ENSURE: peek, ...
ThrowError ==
  /\ mode \in {"parsing", "throwing"}
  /\ Peeks(Peek(Rest))
  /\ mode' = "locating"
  /\ UNCHANGED <<parsed, curr>>

\* ... advance(ws) to the place of the error, ...
Locate ==
  /\ mode = "locating"
  /\ Advances(ws, TRUE)
  /\ mode' = "quoting"
  /\ UNCHANGED <<parsed, ws, curr>>

\* ... copy_line, and an exception.
CopyLine ==
  /\ mode = "quoting"
  /\ S!PeekAt(SkipTillLineEnd(Rest, 0))
  /\ Memory
  /\ mode' = "failed"
  /\ UNCHANGED <<text, strings, parsed, ws, curr, line, linestart, uncounted>>

\* The loop in buffered_stream::advance.
Skip == S!Skip /\ Memory /\ UNCHANGED <<text, strings, parsed, ws, curr, line, linestart, uncounted, mode>>

\* ~parser, of a parser that is done or has thrown
Destroy ==
  /\ mode \in {"parsing", "failed"}
  /\ S!SyncStream
  /\ mode' = "gone"
  /\ UNCHANGED <<text, mem, strings, parsed, ws, curr, line, linestart, uncounted>>

Next ==
  \/ DoPeek \/ DoPeekFails
  \/ Advance \/ Skip
  \/ ThrowError \/ Locate \/ CopyLine
  \/ Destroy

Spec == Init /\ [][Next]_vars

-----------------------------------------------------------------------------
(***************************************************************************)
(* The tokens of a text, as sets of words.                                 *)
(***************************************************************************)
Prefix(w, k) == SubSeq(w, 1, k)
Chars(u)     == {u[k] : k \in DOMAIN u}

\* Spaces, line breaks, and comments.
Blank(u) == \A k \in DOMAIN u : \/ u[k] \in Whitespace
                                \/ \E j \in 1..k : u[j] = "#" /\ \A i \in j..k : u[i] \notin Newline

\* An odd number of backslashes stands before u[k].
IsEscaped(u, k) == \E j \in 2..(k - 1) : /\ (k - j) % 2 = 1
                                         /\ u[j - 1] # "bslash"
                                         /\ \A i \in j..(k - 1) : u[i] = "bslash"

IsName(u)     == u # << >> /\ u[1] \notin Digit /\ Chars(u) \subseteq SymbolChar
IsInteger(u)  == u # << >> /\ Chars(u) \subseteq Digit
IsFloating(u) == \E k \in 2..(Len(u) - 1) : u[k] = "." /\ \A i \in DOMAIN u \ {k} : u[i] \in Digit
IsString(u)   == /\ Len(u) > 1 /\ u[1] = "quote"
                 /\ {k \in 2..Len(u) : u[k] = "quote" /\ ~IsEscaped(u, k)} = {Len(u)}

\* The types of the token that u is: one at most.
Types(u) == {t \in {"IF", "SYMBOL", "INTEGER", "FLOATING", "QUOTE", "ASSIGN", "ISEQUAL"} \cup Mark :
               CASE t = "IF"       -> u = <<"i", "f">>
                 [] t = "SYMBOL"   -> IsName(u) /\ u # <<"i", "f">>
                 [] t = "INTEGER"  -> IsInteger(u)
                 [] t = "FLOATING" -> IsFloating(u)
                 [] t = "QUOTE"    -> IsString(u)
                 [] t = "ASSIGN"   -> u = <<"=">>
                 [] t = "ISEQUAL"  -> u = <<"=", "=">>
                 [] OTHER          -> u = <<t>>}

WordEnds(w) == {k \in 1..Len(w) : Types(Prefix(w, k)) # {}}

\* The characters in the string literal u that each stand for one of the string.
Kept(u) == {k \in 2..(Len(u) - 1) : u[k] # "bslash" \/ IsEscaped(u, k)}

\* u is a literal of the string chars.
StandsFor(u, chars) ==
  /\ Len(chars) = Cardinality(Kept(u))
  /\ \A k \in Kept(u) : chars[Cardinality({j \in Kept(u) : j <= k})]
                          = IF IsEscaped(u, k) THEN Unescaped(u[k]) ELSE u[k]

-----------------------------------------------------------------------------
(***************************************************************************)
(* Whatever was consumed before, the next token begins behind all blanks   *)
(* and is the longest one there; it is none only if there is no token, or  *)
(* a number runs into a name.  (The name `i' is left to KeywordIsIf.)      *)
(* The hand-written scanners end at the same place as the words they are   *)
(* to find, and a string is read as what its literal stands for:           *)
(* parser.cpp:432-474, 514-650.                                            *)
(***************************************************************************)
TokensAreLexemes ==
  LET t    == Peek(Rest)
      v    == SubSeq(Rest, t.start + 1, Len(Rest))
      len  == IF t.type = "QUOTE" THEN t.len + 2 ELSE t.len
      most == Max(WordEnds(v))
      word == Prefix(v, most)
  IN  /\ Blank(Prefix(Rest, t.start)) /\ (v # << >> => ~Blank(<<v[1]>>))
      /\ CASE v = << >> -> t.type = "EOS"
           [] v # << >> /\ WordEnds(v) = {} -> t.type = "FAIL"
           [] v # << >> /\ WordEnds(v) # {} ->
                IF word[1] \in Digit /\ Ch(v, most) \in SymbolChar THEN t.type = "FAIL"
                ELSE /\ len = most /\ (t.type \in Types(word) \/ word = <<"i">>)
                     /\ t.type = "QUOTE" => StandsFor(word, t.chars)

\* What is found where the token's pointer leads to.
View(t) ==
  IF t.mem = mem /\ t.index + t.len <= Len(buffer)
    THEN [k \in 1..t.len |-> text[buffer[t.index + k] + 1]] ELSE << >>

(***************************************************************************)
(* While the engine has its token, the token's pointer leads to its text,  *)
(* although reading it may have moved the buffer; the character behind a   *)
(* number, which atoi and atof need overwritten for a moment, is inside    *)
(* the buffer; and the strings' buffer has the token's string              *)
(* (parser.cpp:551-650, parser_engine.cpp:267-316).                        *)
(***************************************************************************)
TokenStaysReadable ==
  mode = "parsing" /\ parsed =>
    LET start == At + ws
    IN  CASE curr.type \in {"SYMBOL", "IF"} ->
               View(curr) = SubSeq(text, start + 1, start + curr.len)
          [] curr.type \in {"INTEGER", "FLOATING"} ->
               /\ View(curr) = SubSeq(text, start + 1, start + curr.len)
               /\ curr.index + curr.len < size
          [] curr.type = "QUOTE" -> strings = Peek(Rest).chars
          [] OTHER -> TRUE

\* The positions before the parser's where a line break ends.
LineEnds == {p \in 0..(At - 1) : text[p + 1] = "LF" \/ (text[p + 1] = "CR" /\ Ch(text, p + 1) # "LF")}

(***************************************************************************)
(* The line that an error is reported at, parsing or when it was thrown,   *)
(* is that of the parser's position, with `\r\n' one break however the     *)
(* text was cut into blanks and tokens, and line_start is where the last   *)
(* break ended.  Not counted are the breaks in a string and in the blanks  *)
(* before it (parser.cpp:476-493, parser_engine.cpp:19-29, 51-65).         *)
(***************************************************************************)
LinesOfTheText ==
  LET ends == LineEnds \ uncounted
  IN  /\ line = 1 + Cardinality(ends)
      /\ linestart = IF ends = {} THEN 0 ELSE Max(ends)

\* A string that is printed and read again is the same, unless it has a quote,
\* which is printed as it is (printer.cpp:179-212, parser.cpp:548-597).
PrintedStringsReadBack ==
  parsed /\ curr.type = "QUOTE" /\ "quote" \notin Chars(strings) =>
    LET printed == <<"quote">> \o PrintString(strings) \o <<"quote">>
    IN  /\ Peek(printed).type = "QUOTE" /\ Peek(printed).chars = strings
        /\ Peek(printed).len + 2 = Len(printed)

\* The parser only advances over what it has peeked at, as buffered_stream
\* needs it to: its steps are those of BufferedStream.
StreamSpec == S!Spec

-----------------------------------------------------------------------------
TypeOK ==
  /\ text \in Seq(Char) /\ length = Len(text)
  /\ mode \in {"parsing", "throwing", "locating", "quoting", "failed", "gone"}
  /\ mem \in Nat /\ parsed \in BOOLEAN /\ ws \in Nat
  /\ line \in Nat /\ linestart \in Nat /\ uncounted \subseteq 0..(At - 1)

\* The token that the engine has is the one at the parser's position.
TokenIsNext ==
  mode = "parsing" /\ parsed =>
    LET t == Peek(Rest)
    IN  t.type # "FAIL" /\ curr.type = t.type /\ curr.len = t.len /\ ws = t.start

\* What the parser is about to advance over it has peeked at.
SeenAhead ==
  /\ mode = "parsing" /\ parsed => skip = 0 /\ Consumed(curr) <= seen
  /\ mode = "locating" => skip = 0 /\ ws = Peek(Rest).start /\ ws <= seen

\* The parser never stops inside of a line break.
BetweenBreaks ==
  At \in 1..(length - 1) => ~(text[At] = "CR" /\ text[At + 1] = "LF")

(***************************************************************************)
(* The engine's token is still the one that the parser would peek at, all  *)
(* that advance is given was peeked at before, and no token, and no error, *)
(* separates `\r' from `\n', so that advance, which only looks at what it  *)
(* consumes, counts each break once (parser.cpp:476-493,                   *)
(* parser_engine.cpp:19-29, 51-65).                                        *)
(***************************************************************************)
TokenInv ==
  /\ TypeOK
  /\ S!StreamInv /\ S!ReadsAhead
  /\ TokenIsNext /\ SeenAhead /\ BetweenBreaks

\* The grammar (parser.cpp:31, 38): the keyword is `if', any other word a var.
KeywordIsIf ==
  mode = "parsing" /\ parsed /\ curr.type = "IF" =>
    SubSeq(text, At + ws + 1, At + ws + curr.len) = <<"i", "f">>

=============================================================================
