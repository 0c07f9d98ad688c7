--------------------------- MODULE MCTokens ---------------------------
(***************************************************************************)
(* All texts of up to five characters over alphabets in which one part of  *)
(* the tokenizer decides: numbers, names, operators, blanks, strings.      *)
(***************************************************************************)
EXTENDS Tokenizer

MCAlphabets == { {"1", "a", ".", "="},
                 {"i", "f", "=", "SP"},
                 {"SP", "#", "LF", "CR", "a"},
                 {"quote", "bslash", "n", "r"},
                 {"quote", "CR", "LF", "#", ";"},
                 {"bad", "1", "quote", "SP"} }

=============================================================================
