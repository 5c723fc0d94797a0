------------------------------ MODULE TokenStream -----------------------------
(* What main hands from one phase to the next: who runs, and the tokens.   *)
EXTENDS Integers, Sequences

VARIABLES
  phase,    \* what runs: "arguments", "scan", "parse", ..., "exited"
  stream    \* the tokens, from BoF on

Token(type, lexeme, line_num) ==
  [type |-> type, lexeme |-> lexeme, line_num |-> line_num]

\* The tokens that main and scan make themselves: no lexeme, and no line.
Mark(type) == Token(type, <<>>, 0)

===============================================================================
