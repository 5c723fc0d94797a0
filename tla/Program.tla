-------------------------------- MODULE Program --------------------------------
(***************************************************************************)
(* The program level of the compiler: the productions of `procedures`      *)
(* (parser.cpp), which build a ProgramNode from the end of the file to its *)
(* beginning, and the visits of ProgramNode and of what it holds in        *)
(* TypeChecker and CodeGen, which share its unordered maps and must agree  *)
(* about every name in them.                                               *)
(*                                                                         *)
(* A procedure's body is here what it asks of the program: calls, loads of *)
(* variables, and the operations that CodeGen lowers to calls of the C     *)
(* library. TypeCheck and CodeGen model the statements.                    *)
(***************************************************************************)
EXTENDS XerNames, SequencesExt

CONSTANTS
  Definitions,  \* the struct, global and procedure definitions to choose from
  Mains,        \* the bodies main may have
  MaxDefs       \* a source has at most so many definitions besides main

ASSUME DefsAssumption ==
  /\ MaxDefs \in Nat
  /\ \A d \in Definitions : /\ d \in StructDef \cup GlobalDef \cup ProcedureDef
                            /\ d.id \notin Basic \cup {"void", "main"}
                            /\ d.def = "struct" => d.fields # <<>>
  /\ \A b \in Mains : b \in Body

VARIABLES
  source,           \* the definitions in the order of the file, main left out
  phase,            \* of the compilation, or how it ended
  error,            \* what the exception that ended it complains of
  struct_defs, global_vars, procedures, symbol_table, main,  \* of ProgramNode
  order,            \* in which the unordered maps are iterated
  todo,             \* the visits ahead
  type_sizes,       \* ProgramNode::type_sizes
  size,             \* the struct under way: bytes so far
  frame_offset,     \* of each field
  locals,           \* the parameters of the procedure TypeChecker is in
  type,             \* ExprNode::type of the loads TypeChecker has visited
  struct_types,     \* CodeGen's member
  named,            \* the module's functions and variables by name
  named_values, old_named_values,  \* CodeGen's member and its saved copy
  reached           \* what each generated call calls and each load loads

treeVars  == <<source, struct_defs, global_vars, procedures, symbol_table, main>>
checkVars == <<type_sizes, size, frame_offset, locals, type>>
genVars   == <<struct_types, named, named_values, old_named_values, reached>>
vars == <<treeVars, checkVars, genVars, phase, error, order, todo>>

-------------------------------------------------------------------------------
(* The tree, built by the productions of `procedures`.                     *)

PrInit ==
  /\ source = <<>> /\ main \in Mains
  /\ struct_defs = Nothing /\ global_vars = <<>>
  /\ procedures = Nothing /\ symbol_table = Nothing
  /\ phase = "parsing" /\ error = "none"
  /\ order = [structs |-> <<>>, procedures |-> <<>>] /\ todo = <<>>
  /\ type_sizes = BasicSizes /\ size = 0 /\ frame_offset = Nothing
  /\ locals = Nothing /\ type = Nothing
  /\ struct_types = {} /\ named = Runtime
  /\ named_values = Nothing /\ old_named_values = Nothing /\ reached = Nothing

Read(d) ==
  /\ phase = "parsing"
  /\ Len(source) < MaxDefs
  /\ source' = <<d>> \o source
  /\ UNCHANGED <<main, checkVars, genVars, order, todo>>

Repeats(s) == \E i, j \in 1 .. Len(s) : i # j /\ s[i].id = s[j].id

\* structdef and procedures -> structdef procedures: both redefinitions throw.
ReduceStruct(d) ==
  /\ d \in StructDef
  /\ Read(d)
  /\ UNCHANGED <<global_vars, procedures, symbol_table>>
  /\ IF Repeats(d.fields) \/ d.id \in DOMAIN struct_defs
     THEN phase' = "unparsed" /\ error' = "redefinition" /\ UNCHANGED struct_defs
     ELSE /\ struct_defs' = Insert(struct_defs, d.id, ByName(d.fields))
          /\ UNCHANGED <<phase, error>>

\* Mutant: the production with an initialiser leaves out the symbol table.
WithGlobalUninitialised(d) ==
  IF d.val.kind = "none" THEN Insert(symbol_table, d.id, d.type) ELSE symbol_table

WithGlobal(d) == Insert(symbol_table, d.id, d.type)

\* procedures -> dcl SEMI procedures, and the same with BECOMES expr1
ReduceGlobal(d) ==
  /\ d \in GlobalDef
  /\ Read(d)
  /\ global_vars' = <<d>> \o global_vars
  /\ symbol_table' = WithGlobal(d)
  /\ UNCHANGED <<struct_defs, procedures, phase, error>>

\* Mutant: of two procedures with one name, the first in the file is kept.
WithProcedureOver(d) == Put(procedures, d.id, d)

\* insert() leaves an entry alone: the one that stands later in the file.
WithProcedure(d) == Insert(procedures, d.id, d)

\* procedures -> procedure procedures
ReduceProcedure(d) ==
  /\ d \in ProcedureDef
  /\ Read(d)
  /\ procedures' = WithProcedure(d)
  /\ UNCHANGED <<struct_defs, global_vars, symbol_table, phase, error>>

-------------------------------------------------------------------------------
(* Both passes visit a program's children in this order.                   *)

Visit(v, id, n) == [visit |-> v, id |-> id, n |-> n]

Children(o) ==
  [i \in 1 .. Len(o.structs) |-> Visit("struct", o.structs[i], 0)]
  \o [i \in 1 .. Len(global_vars) |-> Visit("global", global_vars[i].id, i)]
  \o [i \in 1 .. Len(o.procedures) |-> Visit("procedure", o.procedures[i], 0)]
  \o <<Visit("procedure", "main", 0)>>

BodyOf(p)   == IF p = "main" THEN main ELSE procedures[p].body
ParamsOf(p) == IF p = "main" THEN <<>> ELSE procedures[p].params

Items(p) == [n \in 1 .. Len(BodyOf(p)) |-> Visit("item", p, n)]

\* The parse ends; an unordered_map is iterated in any order, but in the same
\* one each time, since no pass changes it.
ParsingEnds ==
  /\ phase = "parsing"
  /\ phase' = "checking"
  /\ \E s \in SetToSeqs(DOMAIN struct_defs), p \in SetToSeqs(DOMAIN procedures) :
       order' = [structs |-> s, procedures |-> p]
  /\ todo' = Children(order')
  /\ UNCHANGED <<treeVars, checkVars, genVars, error>>

\* The visit v of a pass: its first conjuncts, its continuation and its throws.
Visiting(pass, v) ==
  /\ phase = pass
  /\ todo # <<>>
  /\ Head(todo).visit = v
  /\ UNCHANGED <<treeVars, order>>

Continue(nested) ==
  /\ todo' = nested \o Tail(todo)
  /\ UNCHANGED <<phase, error>>

Stop(how, why) == phase' = how /\ error' = why /\ UNCHANGED todo

-------------------------------------------------------------------------------
(* TypeChecker.                                                            *)

HasSize(t) == t.ptr \/ t.name \in DOMAIN type_sizes

SizeOf(t) == IF t.ptr THEN SIZE_PTR ELSE type_sizes[t.name]

\* Mutant: a struct is registered before its fields are visited.
TcStructFirst ==
  /\ Visiting("checking", "struct")
  /\ Continue(<<Visit("fields", Head(todo).id, 0)>>)
  /\ frame_offset' = Put(frame_offset, Head(todo).id, Nothing)
  /\ type_sizes' = Put(type_sizes, Head(todo).id, SIZE_INT)
  /\ size' = 0
  /\ UNCHANGED <<locals, type, genVars>>

\* StructDefNode, its loop over the fields in the order of their names, and
\* what follows it.
TcStruct ==
  /\ Visiting("checking", "struct")
  /\ Continue(<<Visit("fields", Head(todo).id, 0)>>)
  /\ frame_offset' = Put(frame_offset, Head(todo).id, Nothing)
  /\ size' = 0
  /\ UNCHANGED <<type_sizes, locals, type, genVars>>

FieldsLeft(s) == DOMAIN struct_defs[s] \ DOMAIN frame_offset[s]

\* Mutant: a wide field is put where the last one ended.
FieldStartUnaligned(t) == size

FieldStart(t) == IF SizeOf(t) >= SIZE_INT THEN AlignUp(size) ELSE size

TcField(s, f) ==
  /\ Visiting("checking", "fields") /\ Head(todo).id = s
  /\ f \in FieldsLeft(s) /\ \A g \in FieldsLeft(s) : f <= g
  /\ UNCHANGED <<type_sizes, locals, type, genVars>>
  /\ LET t == struct_defs[s][f]
     IN  IF HasSize(t)
         THEN /\ frame_offset' = [frame_offset EXCEPT ![s] = Put(@, f, -FieldStart(t))]
              /\ size' = FieldStart(t) + SizeOf(t)
              /\ UNCHANGED <<phase, error, todo>>
         ELSE Stop("rejected", "undefined_field") /\ UNCHANGED <<frame_offset, size>>

TcStructEnds ==
  /\ Visiting("checking", "fields")
  /\ FieldsLeft(Head(todo).id) = {}
  /\ type_sizes' = Insert(type_sizes, Head(todo).id, AlignUp(size))
  /\ Continue(<<>>)
  /\ UNCHANGED <<size, frame_offset, locals, type, genVars>>

(***************************************************************************)
(* VarInitNode of a global: the declaration's visit returns at once. The   *)
(* initialiser is outside any procedure, which IDNode objects to and       *)
(* FunctionCallNode does not notice before it looks for its local names.   *)
(***************************************************************************)
TcGlobal ==
  /\ Visiting("checking", "global")
  /\ UNCHANGED <<checkVars, genVars>>
  /\ LET g == global_vars[Head(todo).n]
     IN  CASE g.val.kind = "none" -> Continue(<<>>)
           [] g.val.kind = "id"   -> Stop("rejected", "no_procedure")
           [] g.val.kind = "call" -> Stop("crashed", "no_procedure")
           [] OTHER -> IF g.val.type = g.type
                       THEN Continue(<<>>)
                       ELSE Stop("rejected", "mismatch")

\* ProcedureNode: its parameters, then its block. MainNode has no parameters.
TcProcedure ==
  /\ Visiting("checking", "procedure")
  /\ UNCHANGED <<type_sizes, size, frame_offset, type, genVars>>
  /\ LET p  == Head(todo).id
         ps == ParamsOf(p)
     IN  IF (\A i \in DOMAIN ps : HasSize(ps[i].type)) /\ ~Repeats(ps)
         THEN locals' = ByName(ps) /\ Continue(Items(p))
         ELSE Stop("rejected", "parameters") /\ UNCHANGED locals

\* Mutant: the number of arguments is not compared.
ArgsFitFirst(args, params) ==
  \A i \in DOMAIN args : i \in DOMAIN params => args[i] = params[i].type

ArgsFit(args, params) ==
  /\ Len(args) = Len(params)
  /\ \A i \in DOMAIN args : args[i] = params[i].type

\* FunctionCallNode and ArgsNode; f() has no ArgsNode.
TcCall(item) ==
  /\ UNCHANGED type
  /\ IF item.id \in DOMAIN locals \cup DOMAIN symbol_table
     THEN Stop("rejected", "not_a_procedure")
     ELSE IF item.id \notin DOMAIN procedures
     THEN Stop("rejected", "undefined_procedure")
     ELSE IF item.args # <<>> /\ ~ArgsFit(item.args, procedures[item.id].params)
     THEN Stop("rejected", "mismatch")
     ELSE Continue(<<>>)

\* IDNode
TcLoad(item) ==
  LET at == <<Head(todo).id, Head(todo).n>>
  IN  IF item.id \in DOMAIN locals
      THEN type' = Put(type, at, locals[item.id]) /\ Continue(<<>>)
      ELSE IF item.id \in DOMAIN symbol_table
      THEN type' = Put(type, at, symbol_table[item.id]) /\ Continue(<<>>)
      ELSE Stop("rejected", "undefined_variable") /\ UNCHANGED type

TcItem ==
  /\ Visiting("checking", "item")
  /\ UNCHANGED <<type_sizes, size, frame_offset, locals, genVars>>
  /\ LET item == BodyOf(Head(todo).id)[Head(todo).n]
     IN  CASE item.op = "call" -> TcCall(item)
           [] item.op = "load" -> TcLoad(item)
           [] OTHER            -> Continue(<<>>) /\ UNCHANGED type

CheckingEnds ==
  /\ phase = "checking" /\ todo = <<>>
  /\ phase' = "generating"
  /\ todo' = Children(order)
  /\ UNCHANGED <<treeVars, checkVars, genVars, order, error>>

-------------------------------------------------------------------------------
(* CodeGen.                                                                *)

\* Mutant: void is forgotten.
HasLLVMTypeNotVoid(t, structs) == t.ptr \/ t.name \in Basic \cup structs

HasLLVMType(t, structs) == t.ptr \/ t.name \in Basic \cup {"void"} \cup structs

\* StructDefNode: the struct is known before its fields are.
CgStruct ==
  /\ Visiting("generating", "struct")
  /\ UNCHANGED <<named, named_values, old_named_values, reached, checkVars>>
  /\ LET s == Head(todo).id
     IN  /\ struct_types' = struct_types \cup {s}
         /\ IF \A f \in DOMAIN struct_defs[s] : HasLLVMType(struct_defs[s][f], struct_types')
            THEN Continue(<<>>)
            ELSE Stop("failed", "unknown_type")

(***************************************************************************)
(* getOrInsertGlobal returns the variable of that name if there is one,    *)
(* whose type stays; the initialiser is replaced.                          *)
(***************************************************************************)
AddGlobal(g) ==
  LET t == LLVMType(g.type)
  IN  IF g.id \in DOMAIN named
      THEN [named EXCEPT ![g.id].init = t]
      ELSE Put(named, g.id, Variable("program", t))

(***************************************************************************)
(* VarInitNode of a global. With a function of its name there, LLVM names  *)
(* the variable otherwise and getNamedGlobal returns null, which is used.  *)
(* An initialiser has no block to generate instructions into: && and read  *)
(* look for its function, and malloc's call is no constant.                *)
(***************************************************************************)
CgGlobal ==
  /\ Visiting("generating", "global")
  /\ UNCHANGED <<struct_types, named_values, old_named_values, reached, checkVars>>
  /\ LET g == global_vars[Head(todo).n]
     IN  IF ~HasLLVMType(g.type, struct_types)
         THEN Stop("failed", "unknown_type") /\ UNCHANGED named
         ELSE IF g.id \in DOMAIN named /\ named[g.id].sort = "function"
         THEN Stop("crashed", "no_variable") /\ UNCHANGED named
         ELSE /\ named' = AddGlobal(g)
              /\ CASE g.val.kind \in {"read", "logical"} -> Stop("crashed", "no_block")
                   [] g.val.kind = "new" -> Stop("failed", "not_a_constant")
                   [] OTHER -> Continue(<<>>)

Signature(p) == [i \in DOMAIN ParamsOf(p) |-> LLVMType(ParamsOf(p)[i].type)]

\* ProcedureNode and MainNode: LLVM names a function otherwise if its name is
\* taken. MainNode saves no names.
CgProcedure ==
  /\ Visiting("generating", "procedure")
  /\ UNCHANGED <<struct_types, reached, checkVars>>
  /\ LET p   == Head(todo).id
         ret == IF p = "main" THEN [name |-> "int", ptr |-> FALSE] ELSE procedures[p].ret
         ps  == ByName(ParamsOf(p))
     IN  IF HasLLVMType(ret, struct_types)
            /\ \A x \in DOMAIN ps : HasLLVMType(ps[x], struct_types)
         THEN /\ named' = Insert(named, p, Function("program", LLVMType(ret), Signature(p)))
              /\ old_named_values' = named_values
              /\ named_values' = [x \in DOMAIN ps \cup DOMAIN named_values |->
                                    IF x \in DOMAIN ps THEN LLVMType(ps[x])
                                                       ELSE named_values[x]]
              /\ Continue(Items(p) \o <<Visit("procedure_ends", p, 0)>>)
         ELSE /\ Stop("failed", "unknown_type")
              /\ UNCHANGED <<named, named_values, old_named_values>>

\* Mutant: the parameters' names are left behind.
NamesAfterAll(p) == named_values

NamesAfter(p) == IF p = "main" THEN named_values ELSE old_named_values

CgProcedureEnds ==
  /\ Visiting("generating", "procedure_ends")
  /\ UNCHANGED <<struct_types, named, old_named_values, reached, checkVars>>
  /\ named_values' = NamesAfter(Head(todo).id)
  /\ Continue(<<>>)

IsFunction(f) == f \in DOMAIN named /\ named[f].sort = "function"

\* FunctionCallNode
CgCall(item, at) ==
  /\ UNCHANGED named
  /\ IF IsFunction(item.id)
     THEN reached' = Put(reached, at, named[item.id]) /\ Continue(<<>>)
     ELSE Stop("failed", "unknown_function") /\ UNCHANGED reached

\* IDNode and its get_LValue: a local, or else the module's variable.
CgLoad(item, at) ==
  /\ UNCHANGED named
  /\ IF item.id \in DOMAIN named_values
     THEN /\ reached' = Put(reached, at, Variable("local", named_values[item.id]))
          /\ Continue(<<>>)
     ELSE IF item.id \in DOMAIN named /\ named[item.id].sort = "variable"
     THEN reached' = Put(reached, at, named[item.id]) /\ Continue(<<>>)
     ELSE Stop("failed", "undefined_variable") /\ UNCHANGED reached

\* PrintNode, ReadCallNode and ^^: the library's function is looked up by its
\* name and declared if no function has it.
CgLibrary(f, at) ==
  LET declared == IF f \in DOMAIN named THEN Renamed ELSE FromLibrary
  IN  /\ named' = IF IsFunction(f) THEN named ELSE Insert(named, f, FromLibrary)
      /\ reached' = Put(reached, at, IF IsFunction(f) THEN named[f] ELSE declared)
      /\ Continue(<<>>)

CgItem ==
  /\ Visiting("generating", "item")
  /\ UNCHANGED <<struct_types, named_values, old_named_values, checkVars>>
  /\ LET at   == <<Head(todo).id, Head(todo).n>>
         item == BodyOf(at[1])[at[2]]
     IN  CASE item.op = "call" -> CgCall(item, at)
           [] item.op = "load" -> CgLoad(item, at)
           [] OTHER            -> CgLibrary(LibraryName[item.op], at)

GeneratingEnds ==
  /\ phase = "generating" /\ todo = <<>>
  /\ phase' = "compiled"
  /\ UNCHANGED <<treeVars, checkVars, genVars, order, error, todo>>

PrNext ==
  \/ \E d \in Definitions : ReduceStruct(d) \/ ReduceGlobal(d) \/ ReduceProcedure(d)
  \/ ParsingEnds
  \/ TcStruct \/ (\E s \in DOMAIN struct_defs : \E f \in DOMAIN struct_defs[s] : TcField(s, f))
  \/ TcStructEnds \/ TcGlobal \/ TcProcedure \/ TcItem
  \/ CheckingEnds
  \/ CgStruct \/ CgGlobal \/ CgProcedure \/ CgProcedureEnds \/ CgItem
  \/ GeneratingEnds

PrSpec == PrInit /\ [][PrNext]_vars

-------------------------------------------------------------------------------
(* What the text says, in the order of the file.                           *)

Defines(def, id) == {i \in DOMAIN source : source[i].def = def /\ source[i].id = id}

LastOf(def, id) == source[Max(Defines(def, id))]

BodiesIn(op) == {p \in DOMAIN procedures \cup {"main"} :
                   \E n \in DOMAIN BodyOf(p) : BodyOf(p)[n].op = op}

Calls(p) == {BodyOf(p)[n].id : n \in {n \in DOMAIN BodyOf(p) : BodyOf(p)[n].op = "call"}}

Position(s, x) == CHOOSE i \in DOMAIN s : s[i] = x

HoldsByValue(s, t) ==
  \E f \in DOMAIN struct_defs[s] : struct_defs[s][f] = [name |-> t, ptr |-> FALSE]

-------------------------------------------------------------------------------
(* Properties.                                                             *)

\* Types of the variables a pass indexes the others by (the names are those of
\* the text, so that no map is asked for a name it cannot have).
PrTypeOK ==
  /\ source \in Seq(Definitions) /\ main \in Mains
  /\ phase \in {"parsing", "unparsed", "checking", "rejected", "generating",
                "failed", "compiled", "crashed"}
  /\ size \in Nat
  /\ \A s \in DOMAIN struct_defs : Defines("struct", s) # {}
  /\ \A p \in DOMAIN procedures : procedures[p] \in ProcedureDef /\ procedures[p].id = p
  /\ DOMAIN symbol_table = {global_vars[i].id : i \in DOMAIN global_vars}
  /\ DOMAIN type_sizes \subseteq Basic \cup DOMAIN struct_defs
  /\ DOMAIN frame_offset \subseteq DOMAIN struct_defs

FieldAt(s, f) == -frame_offset[s][f]

(***************************************************************************)
(* The layout of a struct that has a size: its fields lie one after the    *)
(* other in the order of their names, none over another, wide ones at a    *)
(* multiple of 4, all inside a size that is a multiple of 4 (so that       *)
(* structs in structs and on the stack stay aligned). StructDefNode.       *)
(***************************************************************************)
LayoutSound ==
  \A s \in DOMAIN type_sizes \ Basic :
    /\ type_sizes[s] > 0 /\ type_sizes[s] % SIZE_INT = 0
    /\ DOMAIN frame_offset[s] = DOMAIN struct_defs[s]
    /\ \A f \in DOMAIN struct_defs[s] :
         LET t == struct_defs[s][f]
         IN  /\ HasSize(t)
             /\ FieldAt(s, f) >= 0
             /\ FieldAt(s, f) + SizeOf(t) <= type_sizes[s]
             /\ SizeOf(t) >= SIZE_INT => FieldAt(s, f) % SIZE_INT = 0
             /\ \A g \in DOMAIN struct_defs[s] :
                  f < g => FieldAt(s, f) + SizeOf(t) <= FieldAt(s, g)

(***************************************************************************)
(* What TypeChecker accepts holds no struct inside itself, through any     *)
(* number of others: it would have no size (typecheck.cpp:61), and LLVM's  *)
(* setBody would be given a type that contains itself.                     *)
(***************************************************************************)
ContainmentWellFounded ==
  phase \in {"generating", "compiled"} =>
    \A C \in (SUBSET DOMAIN struct_defs) \ {{}} :
      \E s \in C : \A t \in C : ~HoldsByValue(s, t)

(***************************************************************************)
(* TypeChecker rejects a program only for a fault of its text, or because  *)
(* the map gave a struct before one that it contains. The faults are read  *)
(* off the file: which of several definitions of a name the passes see     *)
(* must not matter to what is accepted, beyond the last one being it.      *)
(***************************************************************************)
Undefined(t) == ~t.ptr /\ t.name \notin Basic /\ Defines("struct", t.name) = {}

FaultyCall(p, item) ==
  \/ \E i \in DOMAIN ParamsOf(p) : ParamsOf(p)[i].id = item.id
  \/ Defines("global", item.id) # {}
  \/ Defines("procedure", item.id) = {}
  \/ LET params == LastOf("procedure", item.id).params
     IN  item.args \notin {<<>>, [i \in DOMAIN params |-> params[i].type]}

FaultyLoad(p, item) ==
  /\ \A i \in DOMAIN ParamsOf(p) : ParamsOf(p)[i].id # item.id
  /\ Defines("global", item.id) = {}

FaultyProcedure(p) ==
  \/ \E i \in DOMAIN ParamsOf(p) : Undefined(ParamsOf(p)[i].type)
  \/ Repeats(ParamsOf(p))
  \/ \E n \in DOMAIN BodyOf(p) :
       LET item == BodyOf(p)[n]
       IN  \/ item.op = "call" /\ FaultyCall(p, item)
           \/ item.op = "load" /\ FaultyLoad(p, item)

FaultyText ==
  \/ \E d \in Range(source) : d.def = "struct" /\ \E f \in Range(d.fields) : Undefined(f.type)
  \/ \E d \in Range(source) :
       /\ d.def = "global"
       /\ d.val.kind = "id" \/ (d.val.kind # "none" /\ d.val.type # d.type)
  \/ FaultyProcedure("main")
  \/ \E p \in DOMAIN procedures : LastOf("procedure", p) = procedures[p] /\ FaultyProcedure(p)

ContainedLater ==
  \E i, j \in DOMAIN order.structs :
    i <= j /\ HoldsByValue(order.structs[i], order.structs[j])

ProgramRejectsOnlyFaults ==
  /\ phase = "rejected" => FaultyText \/ ContainedLater
  /\ phase \in {"generating", "compiled", "failed"} => ~FaultyText

(***************************************************************************)
(* CodeGen throws, on what TypeChecker accepted, for exactly what          *)
(* TypeChecker leaves unchecked: the types of globals and of results,      *)
(* whether an initialiser is a constant, and whether a callee has been     *)
(* generated when a call of it is; "Unknown function referenced" (968) is  *)
(* said of procedures that the file has. It compiles such a call only when *)
(* the callee's name is that of a function of the C library that the       *)
(* module may have by then. Fields, parameters and variables               *)
(* never fail it, in whatever order the maps are iterated. The compiler    *)
(* itself crashes only on a global that is initialised with instructions   *)
(* or has the name of malloc or free.                                      *)
(***************************************************************************)
CalledEarly(p, q) ==
  /\ p # "main" /\ q \in Calls(p)
  /\ Position(order.procedures, p) < Position(order.procedures, q)

LibraryInUse(f) ==
  f \in DOMAIN Runtime \/ \E op \in LibraryOps : LibraryName[op] = f /\ BodiesIn(op) # {}

UncheckedDefinition ==
  \/ \E d \in Range(global_vars) : Undefined(d.type) \/ d.val.kind = "new"
  \/ \E p \in DOMAIN procedures : procedures[p].ret # Void /\ Undefined(procedures[p].ret)

SomeCalledEarly == \E p, q \in DOMAIN procedures : CalledEarly(p, q)

ProgramFailsOnlyUnchecked ==
  /\ phase = "failed" => UncheckedDefinition \/ SomeCalledEarly
  /\ phase = "compiled" =>
       /\ ~UncheckedDefinition
       /\ \A p, q \in DOMAIN procedures : CalledEarly(p, q) => LibraryInUse(q)
  /\ error = "unknown_function" => SomeCalledEarly
  /\ phase = "crashed" =>
       \E d \in Range(global_vars) :
         d.val.kind \in {"call", "read", "logical"} \/ d.id \in DOMAIN Runtime

(***************************************************************************)
(* A call reaches the function whose parameters TypeChecker compared its   *)
(* arguments with, that of the last definition of the name in the file;    *)
(* only the names of the C library's functions that CodeGen itself uses    *)
(* may reach those. And what CodeGen uses is the library's, unless the     *)
(* program has a definition of that name.                                  *)
(***************************************************************************)
ReachesDefinition(at, item) ==
  /\ reached[at].of = "program"
  /\ reached[at].params = [i \in DOMAIN LastOf("procedure", item.id).params |->
                             LLVMType(LastOf("procedure", item.id).params[i].type)]
  /\ item.args # <<>> =>
       reached[at].params = [i \in DOMAIN item.args |-> LLVMType(item.args[i])]

CallsReachTheirProcedure ==
  \A at \in DOMAIN reached :
    LET item == BodyOf(at[1])[at[2]]
    IN  /\ item.op = "call" =>
             \/ ReachesDefinition(at, item)
             \/ reached[at].of = "library" /\ LibraryInUse(item.id)
        /\ item.op \in LibraryOps =>
             \/ reached[at].of = "library"
             \/ \E def \in {"procedure", "global"} : Defines(def, LibraryName[item.op]) # {}

(***************************************************************************)
(* A load is of the type that TypeChecker gave it, and a global's          *)
(* initialiser is of the global's type, unless the program has two globals *)
(* of that name with different types: TypeChecker then takes the last      *)
(* one's, and LLVM's variable keeps the first one's.                       *)
(***************************************************************************)
OneType(g) == \A i, j \in Defines("global", g) : source[i].type = source[j].type

LoadsHaveTheirType ==
  /\ \A at \in DOMAIN reached :
       LET item == BodyOf(at[1])[at[2]]
       IN  item.op = "load" =>
             \/ reached[at].type = LLVMType(type[at])
             \/ reached[at].of = "program" /\ ~OneType(item.id)
  /\ \A g \in DOMAIN named :
       named[g].sort = "variable" /\ OneType(g) => named[g].init = named[g].type

===============================================================================
