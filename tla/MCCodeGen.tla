------------------------------ MODULE MCCodeGen -------------------------------
(* Instances of CodeGen for TLC: the types and the programs to check.      *)
EXTENDS CodeGen

MCOneSize == [int |-> 4]

\* A struct of 12 bytes, as sample_program.xer's Data, and a pointer.
MCManyTypes == {"int", "char", "char*", "Data"}
MCManySizes ==
  [t \in MCManyTypes |-> CASE t = "int" -> 4 [] t = "char" -> 1 [] t = "char*" -> 8
                           [] t = "Data" -> 12]

\* A struct of 12 bytes, as sample_program.xer's Data.
MCStructTypes == {"int", "Data"}
MCStructSize == [t \in MCStructTypes |-> IF t = "int" THEN 4 ELSE 12]

MCNoGlobal  == [g \in {} |-> "int"]
MCOneGlobal == [x |-> "int"]

-------------------------------------------------------------------------------
(* Three families of programs, each written with a few constructs and as   *)
(* large as those allow.                                                   *)

WrittenWith(kinds, ids, types, size) ==
  /\ Len(ast) + Len(nest) <= size
  /\ \A n \in DOMAIN ast :
       /\ ast[n].k \in kinds
       /\ ast[n].id \in ids \cup {None} /\ ast[n].ty \in types \cup {None}

\* Control flow: loops, if trees, breaks and early returns, one variable.
FlowProgram ==
  WrittenWith({"print", "if", "elif", "else", "while", "forasst", "break", "return", "end"},
              {"x"}, {"int"}, 7)

\* Names: declarations with and without a value, and assignments.
NamesProgram ==
  WrittenWith({"param", "decl", "init", "asst", "if", "elif", "else", "fordcl", "end"},
              {"x", "y"}, {"int", "char"}, 5)

\* The frame: parameters and variables of every width in any order, and uses.
FrameProgram ==
  WrittenWith({"param", "decl", "expr", "delete", "if", "fordcl", "return", "end"},
              {"x", "y"}, MCManyTypes, 4)

MCProgram == FlowProgram \/ NamesProgram \/ FrameProgram

MCNext == CgNext /\ (phase = "parse" => MCProgram')
MCInit == TcInit /\ CgInit
MCSpec == MCInit /\ [][MCNext]_vars
===============================================================================
