--------------------------------- MODULE Exec ---------------------------------
(***************************************************************************)
(* Running the function that CodeGen generated, instruction by             *)
(* instruction: the semantics of LLVM's br and ret. Conditions are data,   *)
(* so a condbr goes either way.                                            *)
(***************************************************************************)
EXTENDS CodeGen

VARIABLE pos   \* the block and the index in it of the next instruction

execVars == <<vars, pos>>

NotCalled == <<0, 0>>

Fetch(p) == blocks[p[1]].ins[p[2]]

Running(op) == phase = "run" /\ pos # NotCalled /\ Fetch(pos).op = op

ExCall ==
  /\ phase = "run" /\ pos = NotCalled
  /\ pos' = <<1, 1>>
  /\ UNCHANGED vars

ExEffect ==
  /\ Running("eff")
  /\ pos' = <<pos[1], pos[2] + 1>>
  /\ UNCHANGED vars

ExBr ==
  /\ Running("br")
  /\ pos' = <<Fetch(pos).to[1], 1>>
  /\ UNCHANGED vars

ExCondBr(i) ==
  /\ Running("condbr")
  /\ pos' = <<Fetch(pos).to[i], 1>>
  /\ UNCHANGED vars

ExRet ==
  /\ Running("ret")
  /\ phase' = "done"
  /\ UNCHANGED <<ast, nest, tcPc, table, attributes, cgVars, pos>>

ExInit == TcInit /\ CgInit /\ pos = NotCalled

Compile == CgNext /\ UNCHANGED pos

Run == ExCall \/ ExEffect \/ ExBr \/ (\E i \in {1, 2} : ExCondBr(i)) \/ ExRet

ExNext == Compile \/ Run

ExSpec == ExInit /\ [][ExNext]_execVars

-------------------------------------------------------------------------------
(* The function does what the statements mean.                             *)

\* The point of the source that an instruction is the code of.
PointOf(i) ==
  CASE i.op = "condbr" -> <<i.n, "cd">>
    [] i.op = "ret"    -> <<i.n, "return">>
    [] i.op = "eff"    -> <<i.n, i.role>>

\* Where control comes to on entering a block, past the branches.
Landing[b \in 1 .. Len(blocks)] ==
  LET i == blocks[b].ins[1]
  IN  IF i.op = "br" THEN Landing[i.to[1]] ELSE PointOf(i)

Meaning ==
  CASE phase = "done"    -> <<0, "done">>
    [] pos = NotCalled   -> <<0, "idle">>
    [] Running("br")     -> Landing[Fetch(pos).to[1]]
    [] OTHER             -> PointOf(Fetch(pos))

S == INSTANCE Structured WITH at <- Meaning

\* Every run of the generated function goes through the statements of the
\* source as their structure says: no branch of any nesting of if trees,
\* loops, breaks and early returns leads anywhere else (CodeGen::visit of
\* IfNode, WhileNode, ForNode and BreakNode).
RunsAsWritten == S!StructuredSpec

\* The compiler goes on until it is done, and so does the program; a loop's
\* condition that is tested again and again does not hold for ever. The last
\* is a premise about the programs, without which they need not end.
LeavesLoop(n) == ExCondBr(2) /\ Fetch(pos).n = n /\ ast[n].k \in Loops

ExFairness ==
  /\ WF_execVars(ExNext)
  /\ \A n \in 1 .. MaxNodes : SF_execVars(LeavesLoop(n))

ExFairSpec == ExSpec /\ ExFairness

\* Compilation ends, and so does every run of a program whose conditions do
\* not hold for ever: each loop tests its condition on every way round.
Ends == <>(phase \in {"rejected", "failed", "malformed", "done"})

===============================================================================
