-------------------------------- MODULE XerNames --------------------------------
(***************************************************************************)
(* What the program level is made of: types by name, definitions as the    *)
(* parser reads them, the maps of the C++ library, and the names that an   *)
(* LLVM module has from the start.                                         *)
(***************************************************************************)
EXTENDS Integers, Sequences

\* A map with nothing in it, and its two ways of taking an element: operator[]
\* overwrites, insert() leaves an element alone that is there already.
Nothing == [x \in {} |-> x]

Put(m, k, v) == [x \in DOMAIN m \cup {k} |-> IF x = k THEN v ELSE m[x]]

Insert(m, k, v) == IF k \in DOMAIN m THEN m ELSE Put(m, k, v)

-------------------------------------------------------------------------------
(* A type's lexeme is a name and its stars; two kinds of stars are enough  *)
(* here, none and some.                                                    *)
Basic == {"int", "char", "bool"}

\* void is a keyword and no type of a variable: parser_constants.h:437-440.
Type == [name : STRING \ {"void"}, ptr : BOOLEAN]

Void == [name |-> "void", ptr |-> FALSE]

\* ProgramNode's constructor; a pointer has the size of "*".
SIZE_INT == 4
SIZE_PTR == 8
BasicSizes == [b \in Basic |-> IF b = "int" THEN SIZE_INT ELSE 1]

\* (size + 3) & ~3
AlignUp(n) == ((n + (SIZE_INT - 1)) \div SIZE_INT) * SIZE_INT

\* The opaque type that LLVM has for every pointer.
LLVMType(t) == IF t.ptr THEN [name |-> "ptr", ptr |-> TRUE] ELSE t

-------------------------------------------------------------------------------
(* A field is named by a number: fields are kept in a std::map, sorted.    *)
StructDef == [def : {"struct"}, id : STRING, fields : Seq([id : Nat, type : Type])]

(* An initialiser: none, a constant, or an expression that reads a name,   *)
(* calls a procedure, calls read, is a && or ||, or allocates.             *)
Initialisers == {"none", "constant", "id", "call", "read", "logical", "new"}

GlobalDef == [def : {"global"}, id : STRING, type : Type,
              val : [kind : Initialisers, type : Type]]

(* What a body asks of the program. A call's args are their types.         *)
LibraryOps == {"print", "read", "power"}

Body == Seq([op : {"call", "load"} \cup LibraryOps, id : STRING, args : Seq(Type)])

ProcedureDef == [def : {"procedure"}, id : STRING, ret : Type \cup {Void},
                 params : Seq([id : STRING, type : Type]), body : Body]

\* The types of a list of declarations by the names they declare.
ByName(dcls) ==
  [id \in {dcls[i].id : i \in DOMAIN dcls} |->
     dcls[CHOOSE i \in DOMAIN dcls : dcls[i].id = id].type]

-------------------------------------------------------------------------------
(* What a name of an LLVM module stands for: a function or a variable, of  *)
(* the program or of the C library, or a declaration that LLVM had to      *)
(* rename and that no library defines.                                     *)
Variable(of, t) == [sort |-> "variable", of |-> of, type |-> t, init |-> t]

Function(of, ret, params) ==
  [sort |-> "function", of |-> of, type |-> ret, params |-> params]

FromLibrary == Function("library", Void, <<>>)
Renamed     == Function("nobody", Void, <<>>)

\* CodeGen's constructor declares malloc and free.
Runtime == [f \in {"malloc", "free"} |-> FromLibrary]

LibraryName == [print |-> "printf", read |-> "scanf", power |-> "pow"]

===============================================================================
