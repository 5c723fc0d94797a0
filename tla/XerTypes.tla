------------------------------- MODULE XerTypes -------------------------------
(***************************************************************************)
(* The vocabulary every pass of the compiler shares: identifiers, type     *)
(* names and their sizes (util/types.h and the type_sizes map that         *)
(* ProgramNode is constructed with), and the global variables that the     *)
(* parser put in ProgramNode::symbol_table.                                *)
(***************************************************************************)
EXTENDS Integers, Sequences

CONSTANTS
  Ids,          \* the variable names a program may use
  Types,        \* the type names a variable may be declared with
  SizeOf,       \* ProgramNode::type_sizes (and "*" for the pointer types)
  IntType,      \* TYPE_INT, the type of a number
  StructTypes,  \* the types is_struct() holds of
  PtrTypes,     \* the types is_pointer() holds of
  Globals,      \* the keys of ProgramNode::symbol_table
  GlobalType    \* the type each global was declared with

SIZE_INT == 4

Wide(t) == SizeOf[t] >= SIZE_INT

(***************************************************************************)
(* int is 4 bytes, char and bool are 1, a pointer is 8, and a struct's     *)
(* size is rounded up to a multiple of 4 by TypeChecker::visit of          *)
(* StructDefNode: every type is narrower than an int or a multiple of it.  *)
(***************************************************************************)
ASSUME TypeAssumption ==
  /\ SizeOf \in [Types -> Nat \ {0}]
  /\ \A t \in Types : Wide(t) => SizeOf[t] % SIZE_INT = 0
  /\ IntType \in Types
  /\ StructTypes \subseteq Types
  /\ PtrTypes \subseteq Types
  /\ Globals \subseteq Ids
  /\ GlobalType \in [Globals -> Types]

===============================================================================
