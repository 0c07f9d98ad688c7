--------------------------- MODULE MCGrammar ---------------------------
(***************************************************************************)
(* All texts of seven or eight tokens over small alphabets: chains of      *)
(* operators, signs, parentheses, assignments, blocks and ifs.             *)
(***************************************************************************)
EXTENDS Grammar

MCAlphabets == { {"1", "-", "*", ";"},
                 {"x", "+", "==", "=", ";"},
                 {"x", "/", "(", ")", ";"},
                 {"x", "{", "}", ";"},
                 {"1", "if", "(", ")", ";"},
                 {"y", "=", ".", "bad", ";"} }
MCMaxTokens == [a \in MCAlphabets |-> IF "bad" \in a THEN 5 ELSE IF "{" \in a THEN 8 ELSE 7]

\* The texts of the disagreements with the documented grammar.
Chains    == { {"1", "/", ";"} }
Braces    == { {"1", "{", "}", ";"} }
MaxChains == [a \in Chains |-> 8]
MaxBraces == [a \in Braces |-> 8]

=============================================================================
