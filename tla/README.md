# A verification of the xerlang compiler

xerlang (`src/`) compiles Xer, a small C-like language, to LLVM IR and from
there to an executable. This directory holds TLA+ modules that model the
compiler from the command line to the generated code, the TLC configurations
that check them on small instances, and theorems about them that TLAPS proves
for every instance.

The compiler is sequential and runs once per source file; nothing is concurrent
and nothing is persisted but the files a run leaves. What is hard to test in it
is the space of *inputs*: every text is another path through the scanner's
automaton and the parser's table; every nesting of if trees, loops, breaks, early
returns and declarations is a different sequence of calls of the same handlers,
on a scope stack, a map of names and an insertion point that each handler leaves
behind for the next; and every order in which a hash table yields the structs and
procedures is another order of visits. The passes walk the same tree and have to
agree about it, though each keeps its own state. That is what is modelled: a
behaviour of a specification writes an input, piece by piece, and then compiles
it and, where code is generated, runs it.

## Inventory

| Component | State | Operations | What makes it correct |
|---|---|---|---|
| Scanner (`scanner/scanner.cpp`) | DFA state, lexeme, line, token stream | one step per character; end of input; error | maximal munch; every character in exactly one token, blank or comment; no lexeme dropped; the lines |
| Parser driver (`parser/parser.cpp:140-608`, `parser_constants.h`) | stack of states and values, token index | shift, reduce (pop, build, goto), accept, error | accepted texts are sentences; errors found at the first wrong token and reported; the "cannot occur" branches (579, 583, 588, 607) do not occur |
| Syntax tree (`parser/ast.*`) | nodes, parent pointers, annotations, the maps of a program | built by reductions, annotated by TypeChecker | the nesting of blocks; parents; which of several definitions of a name is kept |
| SymbolTable (`parser/symbol_table.*`) | stack of scopes, all symbols, current offset | enter, exit, declare, lookup | lookup finds the innermost declaration; slots do not overlap |
| TypeChecker (`visitors/typecheck.cpp`) | sizes of structs; the symbol table of each procedure; types, offsets and break targets in the nodes | one visit per node | structs are finite and laid out soundly; scopes follow blocks; uses resolve lexically; a break targets its loop; only wrong programs are rejected |
| CodeGen (`visitors/codegen.cpp`) | the module's names, function, blocks, insertion point, named values, break targets | one visit per node | the IR is well formed; names stand for what TypeChecker meant; control flow and values are the program's; what was checked can be generated |
| Printer (`visitors/printer.cpp`) | indentation | one visit per node | it changes no state of the compiler, but `procedures.at` (310) throws, outside every try |
| Driver (`main.cpp`) | flags, file names, phase, files | argument parsing, the phases in order, exit codes | each phase runs only after the one before succeeded; the files left match the exit code, after a crash too; the source survives |
| Table generation (`scripts/`) | - | offline | the tables are those of the grammar |

The components interact by calls only: `main` runs scanner, parser, TypeChecker
and CodeGen one after the other, each on what the last returned. The passes share
state through the tree: TypeChecker writes `frame_offset`, `offset`, `type` and
`loop_target` into nodes; CodeGen reads `type` and resolves names and breaks
anew from a map and a stack of its own. An exception in a pass ends the
compilation with that pass's exit code.

## The modules

Four groups, each written from one level of the source:

    the front end       TokenStream -- Scanner --.
    and main                  \                   +-- Driver -- MCDriver
                               '------ Lalr -----'                 /
                                                  ParsingTable ---'
    the program         XerNames -- Program

    one procedure       XerTypes -- SymbolTable --.
                            \                      +-- TypeCheck -- CodeGen -- Exec --.
                             '----- Ast ----------'                                   | INSTANCE
                                      \                                               v
                                       '------------------------------------- Structured

    one expression      ExprTypes -- ExprLower -- ExprRun

The front end and main:

- **TokenStream**: the phase that runs and the tokens it hands on.
- **Scanner**: `scan`, one action per way round its loop: a newline or comment, a
  blank, a character that goes on with the lexeme, one that ends it and is put
  back, one that nothing begins with, the end of the text. `transitions` is the
  automaton; `SymbolOf` is the cast of its states to symbols, which is only the
  identity on the states it was written for. `Meant` is the reference: the text
  without newlines and comments, cut at the longest lexemes.
- **ParsingTable**: `PARSING_TABLE` and `PRODUCTIONS`, all their entries, rows as
  functions from symbols to actions.
- **Lalr**: `parse`'s loop over any table: shift, reduce, accept, error, with the
  throws of a reduction and `print_stream_line`'s walks in the catch block. A
  reduction is represented by its production's number, in `made`.
- **Driver**: `main`: the loop over `argv`, the phases with Scanner's and Lalr's
  own actions between, exit codes, and `disk`, what each file holds. A run that a
  signal ends has its status too (`SIGSEGV`, `SIGABRT`): the Printer, the passes,
  LLVM and the linker can all end so, and leave what they were writing.

The program:

- **XerNames**: the definitions a program is made of, C++'s two ways of putting
  something into a map, and the names an LLVM module has from the start.
- **Program**: the productions of `procedures` (`parser.cpp`), which fill
  ProgramNode's maps from the end of the file to its beginning; then TypeChecker's
  and CodeGen's visits of ProgramNode, structs, globals, procedures and main.
  `todo` is the visits ahead, `order` the order of the two unordered maps: any,
  but the same in both passes. A body is what it asks of the program: calls,
  loads of variables, and operations that call the C library.

One procedure:

- **XerTypes**: names, types and their sizes as constants, with the assumption
  that a type is narrower than an int or a multiple of its size
  (`util/types.h`, and the rounding of struct sizes at `typecheck.cpp:69`).
- **SymbolTable**: the class's methods as operators on a table's value, so that
  a handler that calls several of them is still one action.
- **Ast**: the body of one procedure as a sequence of nodes in source order, with
  a marker where a clause or a statement's block ends; the actions `Parse*` are
  the statement productions, and derive every body of at most `MaxNodes` nodes.
  A node carries a name, a type and up to three operands (what it reads, a
  condition, a for epilogue); an operand is a variable or a literal. The
  operators `InScope`, `Meant`, `After` say what the block structure means: they
  are the reference the passes are compared with, and use nothing of their state.
- **TypeCheck**: TypeChecker on that body. `tcPc` is the node the walk has come
  to; one action per visit method, and the part of an if's or loop's visit after
  a block is the action of the marker. A throw is `phase = "rejected"` (exit code 6).
  As in `BlockNode`, the walk goes from a return to the end of its block.
- **CodeGen**: CodeGen on an accepted body: the blocks in order of creation,
  whether each has been placed in the function, the insertion point `cur`,
  `named_values`, `loop_end_blocks`; what the C++ visits keep in locals while
  they visit a block is a frame on `frames`. A throw is `"failed"` (exit code 7).
  `CgFinish` adds the implicit return; then `WellFormed` (LLVM's own rules:
  every block placed, one terminator, at its end) decides between `"run"` and
  `"malformed"`. The compiler itself never runs LLVM's verifier.
- **Exec**: the generated function executed instruction by instruction;
  conditions are data, so a `condbr` goes either way.
- **Structured**: the abstract specification: which statement follows which, read
  off the tree. `Exec` implements it under the mapping `Meaning`, which takes a
  position in the IR to the source point whose code is next, past any branches.

One expression:

- **ExprTypes**: the expression of one statement. Its nodes are read in prefix
  order (`Grow`), so every tree of at most `MaxNodes` nodes occurs; `TypeOf` is
  what TypeChecker's visits leave in `ExprNode::type`, and `IsLvalue`, `IsStruct`,
  ... are the functions of `visitor_helper.cpp` it asks. A type is a sequence, its
  name and a star for each pointer.
- **ExprLower**: CodeGen's visits of that expression. The C++ visits call each
  other; here `todo` is the agenda of those under way, each with the blocks it has
  made (its C++ locals), `vals` the `llvm::Value*`s they hold, and one action is
  what one visit does between two nested ones.
  `blocks` and `cur` are the IR and the insertion point. A value has its LLVM
  type, which is what the casts look at, and its origin, which is what `++` and
  `IDNode` take a type from. `Finish` is the statement around the expression,
  then `Sound` (LLVM's rules on operand types and phis) decides between `"run"`
  and `"malformed"`.
- **ExprRun**: the lowered code executed on ints, chars and booleans; `Meaning` is
  the expression's value and the calls it makes, read off the tree.

And: **MCDriver, MCProgram, MCCodeGen, MCExec, MCExpr**,
values for the constants that a `.cfg` cannot write; **TypeCheckProofs,
CodeGenProofs, AddressProofs, ExecProofs, ExprProofs, DriverProofs, ScannerProofs,
ProgramProofs**, theorems.

Definitions marked "Mutant" are plausible bugs of the definition that follows;
nothing uses them. Each property is known to fail when the one that
`PROJECT.json` pairs with it takes that definition's place.

### Abstractions

*Front end.* Columns are printed and nothing else; they are left out. A file's name
is a sequence, its name proper and its extensions. Of TypeChecker, CodeGen, the
optimizer, the back end and the linker Driver has the outcomes only, any of them: what
they do is in the other modules. Two of the outcomes depend on the text: the type
checker crashes only if there is a call, and the Printer throws if and only if a
procedure is called that the text does not define, unless the call is in a second
procedure of one name, which may have been dropped. A file has a content, or part of
one, as a crash may leave it. Characters are ASCII: a byte of 128 or more is a negative
index of the automaton's rows where char is signed (`scanner.cpp:219`), which is
undefined, and no text has one. An object file that cannot be opened where the .ll file
could be (`main.cpp`, exit code 50) is left out; either all files can be created or
none.

*Program.* A type is a name and whether it is a pointer; a field's name is a number,
because fields are kept sorted. The arguments of a call are their types. Statements
are left out here, and the program around a body is left out in the next group.

*Procedure.* Statements and expressions are modelled apart. In `Ast` and the modules
over it an expression is a single operand, and the casts around stores are left
out; a literal alone is not an expression statement (it generates nothing). A for
loop's epilogue is an expression, not an assignment. `print` has one argument. A
body is that of one procedure with value-independent conditions: `MainNode` is the
case `ReturnType = "int"` without parameters. Types are always defined ones. The
optimizer is left out: it is given either well-formed IR, whose control flow it
preserves, or IR that means nothing.

*Expression.* In `ExprTypes` and the modules over it there is one statement and its
names are local variables, which all resolve; a call has at most one argument.
IRBuilder's folding of constants is left out. `read`'s and `new`'s instructions
are one call, and so is the conversion to double and back around `^^`; how large
a struct is, is left out. `print` has one argument (the code generates the first
only), and the `printf` of a value is named by its format. Operators that one case
of the code treats alike (such as `MULT` and `DIV`) are represented by one of them
in the runs. `ExprRun` has no pointers and no overflow: three values of an int and
at most four operators.

## The runs

| Run | Instance | Checks |
|---|---|---|
| FrontEnd | all texts of at most 4 characters out of 11 that the automaton distinguishes; every small sentence of 19 token kinds, and each with one character inserted or removed; command lines on a few texts, among them calls of procedures defined, not defined and defined twice, with and without the right to create files | `TokensAreTheText`: the tokens are the text's longest lexemes; `LinesOfTokens`; `ReductionsMatch`: what a reduction pops is its right-hand side; `AcceptsOnlySentences`: read backwards, the reductions derive the text; `RejectsAtFirstBadToken`; `ErrorsReported`; `OutputsMatchExit`: which files each exit and each crash leaves, and that after a success they are whole; `SourceSurvives`; `Exits`: every run ends |
| ProgramNames | every program of at most 3 of 28 definitions and one of 5 mains, in every order of the two maps | `LayoutSound`; `ContainmentWellFounded`: no accepted struct contains itself; `ProgramRejectsOnlyFaults`, `ProgramFailsOnlyUnchecked`: what each pass refuses, and that the text or the hash order is why; `CallsReachTheirProcedure`; `LoadsHaveTheirType` |
| CodeGenPrograms | 7 nodes of control flow: if trees, while, for, break, return; 4 nodes of the frame: parameters and declarations of sizes 1, 4, 8 and 12, two names, three slots with a for loop's, among if trees, loops, uses and returns; and 5 nodes of names: parameters, declarations with and without a value, assignments, if trees, for, with `x`, `y` (`x` also global), int and char | `TableSound`: slots fall, are aligned and disjoint, and scopes hold the latest symbols innermost; `ScopesMatchBlocks`; `BreakTargetsInnermost`; `UsesResolveLexically`: the symbol that a stack of scopes yields is the one the block structure means; `RejectsOnlyErrors`: nothing lingers from ended blocks; `BreaksAgree` between the passes; `FailsOnlyUnchecked`: what was checked can be generated; `MalformedOnlyAfterJump`; `UsesReachTheirVariable`: generated code uses the variable meant, initialised shadowing aside |
| ExecRefines | 6 nodes: if trees, while, for, break, return, then every execution | `RunsAsWritten`: the refinement of `Structured`; `Ends`: compilation and every run end |
| ExprPrograms | 5 nodes of pointers and members: int and struct variables, a pointer, a procedure, `nil`, `new`, `@`, `&`, `++`, `.`, `->`, `+`, `-`, as a condition, a statement, an initial value, in an assignment, a `print` and a `delete`; 6 nodes of chars and booleans: calls with and without an argument, `!`, `&&`, `\|\|`, `==`, as condition, result and in a `print`; and 5 nodes of int and boolean variables, a call, `!`, `&&`, `\|\|`, `==`, `<`, `+`, unary `-`, `++`, run on values -1, 0, 1 | `FailsOnlyWithoutAddress`: what was checked can be generated, but where an l-value has no address, a pointer's target is unknown, or nil is used; `CallsGeneratedOnce`; `PointersCountElements`: what pointer arithmetic counts in; `PrintsByType`; `PhisMatchPredecessors`; `MalformedOnlyIfUnchecked`: the instructions are well typed, but for the cases it names; `EvaluatesAsMeant`: value, effect and calls are those of the expression |
| ExprNegation | 4 nodes | `LogicalPlaysNicely` is violated |
| ExprResult | 3 nodes | `ResultsHaveTheirType` is violated |
| ExprAllocation | 2 nodes | `AllocationsHoldTheirElements` is violated |
| CodeGenShadow | 5 nodes | `PassesAgreeOnVariables` is violated |
| CodeGenEarlyReturn | 4 nodes | `EarlyReturnWellFormed` is violated |
| CodeGenStruct | 6 nodes | `MissingReturnIsReachable` is violated |
| DriverObject | `-co` on small programs | `ObjectOnly` is violated |

`DrTypeOK`, `PrTypeOK` and `TypeOK` are the type invariants.

**Bounds.** *Procedures and expressions*: `MaxNodes`, the nodes of a body, end
markers included, or of an expression. The handlers have no counters and look only
at the top of each stack and at a node's neighbours, so a fault shows as soon as
two constructs meet: 5 nodes hold a declaration, a block with a shadowing one, a
use in it and one after it; 7 hold two nested loops and an if with a break or a
return, or a full if/elif/else with a jump in it. Of an expression, 5 or 6 nodes
hold an `&&` in either operand of an `||` with an operator on top, or three pointer
operators over each other. `CodeGenPrograms` and `ExprPrograms` check families
in one run, each written with few constructs and as large as those allow.
*Programs*: `MaxDefs`. Three definitions hold two of one name and a user of it, two
procedures that call each other, or three structs in a ring. *Front end*: the
length of the texts; `MaxNum = 10` stands for INT32_MAX, so that two digits reach
it, and `m`, `i`, `r` for the keywords `main`, `int`, `return`. Four characters
hold a token, a newline or comment in it, and one after; a character literal with
an escape is four. The sentences (programs of at most 14 tokens) come to every
kind of action in the table, not to each of its 235 rows: that the whole table is
consistent is what its assumptions state, which TLC evaluates on every entry. Names
and types are no more than a property can tell apart. Every mutant is found well
inside the bounds. There is no symmetry: the runs are small enough.

**Deadlock** is not checked: the compiler and the program do stop.

**Fairness.** A sequential program that has a next step takes it: `WF(ExNext)` and,
of the compiler's process, `WF_vars(Next)` in Driver. The latter is all that `Exits`
assumes. `Ends` also assumes, for each loop of the compiled program, that a
condition tested again and again does not hold for ever (`SF` of leaving that loop
at its condition): this is a premise about the programs, not about the code. It
makes the property say that every way round a loop comes to its condition.

## What was found

Disagreements with a document or comment of the repository, each a run that expects
the violation:

- **A shadowing initialised declaration is ignored** (`codegen.cpp:327`).
  `named_values.insert` does not overwrite, so after `int x; if (..) { int x = 1;
  x = 2; }` the assignment goes to the outer `x`. The tree that the repository
  keeps for `sample_program.xer` (`xer/sample_program.xerp:164`) records the type
  checker's opposite decision. A `DeclarationNode` (277) overwrites, as intended.
- **A return (or break) with a statement after it in its block** yields a block
  with instructions after its terminator (`codegen.cpp:244`), though README.md:13
  offers early return. The type checker skips such code, so a `break` outside a
  loop or an assignment in it also makes the code generator throw.
- **Struct-valued procedures** that return in every branch are refused for a
  missing return (`codegen.cpp:218`).
- **`!(a && b)` is always true** (`codegen.cpp:872`): `&&` and `||` are widened to
  i32 (698, "so it plays nicely with the rest of your typed expressions"), and `!`
  is the bitwise complement.
- **`bool b = p && q;` and `return p && q;`** store and return an i32 where the
  slot and the function are i1 (698); `sample_program.ll:17-22` is an instance.
  Passed as an argument, the value is ill-typed in the same way.
- **`new char [14]`** (README.md:42) allocates 8 bytes: malloc is asked for the size
  of the pointer (`codegen.cpp:957`), and the number in the brackets is not used.
- **`-co` leaves two files** (`main.cpp:212`): README.md:70 says "output ONLY the
  generated object", but the .ll file, which every run writes that comes so far, is
  removed only after linking.

What no document contradicts, and the properties name as exceptions:

- Of the text (`scanner.cpp`, lines counted with their CR ends):
  - A newline or a comment does not end the token under way (213): what stands on
    its two sides is one lexeme. And the last token of a line may be given a later
    line, since it is ended only by the next character that is kept.
  - A lexeme unfinished at the end of the text is dropped (259), and a character
    literal that breaks off earlier becomes the symbol whose number its state
    happens to have: EoF, start or procedures. None of the three gets through the
    parser (`AcceptsOnlySentences`).
  - A number out of range at the very end of the text exits with 4 instead of 1.
  - The report of an error at the end of the file is lost (`parser.cpp:111`):
    `print_stream_line` runs past the end of the stream, and `main` prints what
    `at()` says.
- Of files (`main.cpp`):
  - The default executable of a source that is not called `*.xer` is the source
    itself, which is overwritten (213).
  - With `-pa`, a call of a procedure that is not defined aborts the compiler with
    part of the .xerp file written: the Printer's `at()` throws (`printer.cpp:310`)
    outside every try (158-163). With `-sa` so does one in code that a return cut off,
    which was not checked.
  - An executable that `-o` calls like one of the intermediate files is removed with
    them (216); a failure of the linker aborts, leaving the object file and perhaps
    part of the .ll file (214), and so does a crash of LLVM on what is not LLVM IR.
  - If the target cannot emit objects, `generate_executable` returns with an empty
    object file (53), and `-co` exits with 0.
  - `-sc`, `-pa` and `-sa` succeed without a file when it cannot be written (142);
    a source that is not there is an empty text.
- Of the program:
  - Whether structs that contain one another are accepted depends on a hash
    (`typecheck.cpp:38`), and so it does whether a procedure that calls another
    is generated (`codegen.cpp:967`); two that call each other never are.
  - Of two procedures of one name the first in the file is dropped
    (`parser.cpp:228`); of two globals of one name the type checker has the last
    one's type and LLVM the first one's (`codegen.cpp:286`).
  - A global initialised with a call, `read`, `&&` or `||` crashes the compiler
    (`codegen.cpp:305`, `typecheck.cpp:404`), and so does one called malloc or free.
  - A procedure called printf, scanf or pow is what `print`, `read` and `^^` call,
    and one called malloc or free is not the one that calls of it reach, so that a
    call which comes before it in the map is generated all the same.
- Of expressions:
  - `x + 1 = 1;` passes the type checker (`visitor_helper.cpp:41`): an operator is
    an l-value if one of its operands is. The code generator then throws.
  - `f()` of a procedure with a parameter is accepted, because arguments are
    counted only if there are some (`typecheck.cpp:415`).
  - `p - 1` is typed as a pointer and lowered to a difference of a pointer and an
    int, which is not LLVM IR (`codegen.cpp:787`); `p - q` is refused (292).
  - A condition of pointer, struct or void type is accepted and branched on.
  - `++` and `--` visit their operand twice (`codegen.cpp:866, 885`), so a call in
    it is made twice, and on a pointer's target they throw (899), as `(@p)++`.
  - `false < true` is false: an i1 is compared as signed (`codegen.cpp:744`).
  - `nil` has the type `*`, which is that of no variable (`typecheck.cpp:263`).
  - `p++` counts in the size of a pointer, whatever `p` points at (`codegen.cpp:924`);
    `p + 1` in what it points at.
  - `print` goes by the width of the value (`codegen.cpp:429`): `a && b` is shown as a
    number and a pointer not at all; of `print(a, b)` the first alone is generated.
- Of the frame: a wide symbol declared after a narrow one gets a slot that overlaps
  it, for `(off+3)&~3` rounds a negative offset up (`symbol_table.cpp:24`;
  `sample_program.xerp:85-86` shows it), which is why `SlotsDisjoint` excepts
  exactly that order; and a parameter's `DeclarationNode::frame_offset` is the same
  for parameters of equal size (`typecheck.cpp:85-90`). Both are only printed.

## What is proved

For all names, types, sizes, bounds and operands that `TypeAssumption` and
`AstAssumption` allow, hence for procedures of any length and depth:

- `TypeCheckProofs`: `TableOK` holds of a new table and is preserved by
  `enter_scope`, `exit_scope` and `declare_variable` (`NewTableOK`,
  `EnterScopeOK`, `ExitScopeOK`, `DeclareVariableOK`). `TableOK` is inductive as
  it stands because `OffsetsFall` bounds every recorded offset by the current one
  from below and `ScopesRecorded` ties what is in scope to what is recorded; the
  arithmetic is `AlignIsLeast`: rounding yields the least multiple of 4 not below.
- `TypeCheckProofs`: `TcSpec => []TableSound` (`TableIsSound`) and
  `TcSpec => []ScopesMatchBlocks` (`ScopesAreBlocks`). Neither is inductive alone:
  `declare_variable` needs an open scope, and that every scope entered is left
  depends on the nesting of the tree. The inductive invariant `WalkInv` adds
  `Nested`: each node stands at the level the one before it leaves. The step that
  needs an argument is the return, after which the walk jumps to the end of its
  block: `BlockCloses` shows that the block does end, at the first node after
  which fewer blocks are open, and `BlockEndDepth` that the walk is then just
  inside that end, with the right number of scopes.
- `TypeCheckProofs`: `TcSpec => []BreakTargetsInnermost` (`BreaksAreInnermost`). The
  invariant is over the nodes passed, `Targets`: each break that no return has cut
  off has its target. A return passes a whole tail of a block at once; what keeps
  `Targets` is that every break in that tail lies after the return in its block or
  in a block inside it, so the return cuts it off.
- `TypeCheckProofs`: `TcSpec => []UsesResolveLexically` (`UsesAreLexical`),
  `TcSpec => []RejectsOnlyErrors` (`RejectionsAreErrors`) and `TcSpec => []TypeOK`
  (`WalkIsTyped`). What a name means is said on the text, what it finds depends on a
  table with a history. The bridge is the set `Visible` of declarations whose block
  is still open, each with the scope that its level says (`Own`): `Shows` states that
  the scopes of the table hold these and no others, and `Slots` that each was given
  an offset that no other has, which takes the sum of the parameters' sizes. Where a
  return jumps, `ReturnsPassed` and `BlocksNest` show that it cuts off exactly the
  declarations that the source does not make visible behind the block.
- `CodeGenProofs`: `CgSpec => []BreaksAgree` (`PassesAgreeOnBreaks`): TypeChecker
  walks up the parents, CodeGen keeps a stack, and they find the same loop. The
  invariant `CgInv` ties both stacks to the tree: `FramesMatch` gives each open block
  its frame, at the block's depth, and `EndsMatch` says that `loop_end_blocks` has
  the loops around the node, in their order, each with the block of that loop.
  Whether the frame on top is popped with a loop depends on the end marker
  belonging to that frame's statement, which is the grammar's doing: `FinalsEnd`, that
  only an `end` closes the block of a loop or an else, is not inductive while the
  parser is still at work, and `OpenFinals` says what its nest knows of those left open.
  `Sound` follows the blocks: a block keeps its node and name while others are
  placed, extended and made, so that a branch emitted earlier still goes where it went.
- `CodeGenProofs`: `CgSpec => []MalformedOnlyAfterJump` (`JumpsLastWellFormed`). That
  the finished function is well formed says nothing of the blocks on the way, some of
  which are empty and not yet in the function. `FormInv` adds that to `CgInv`, for a
  source without statements after a jump. The blocks of which the frames still know
  are `Pending`: of an if tree what follows it and, until its last clause, what its
  condition falls through to, neither of them placed; of a loop what follows it and a
  for's increment, placed from the start. `InShape` says that these are empty, and that
  every other block is placed and ends in its only terminator, but for the one at the
  insertion point; `Form`, that even that one has a terminator only right after a
  jump, so the next node ends its block (`JumpEnds`), and what is generated there
  looks for the terminator first. Each action then takes a block out of `Pending` only
  to go on in it. That no other frame waits for the same block follows from the node
  it was made for: frames at different depths have blocks made at different levels
  (`FramesApart`).
- `AddressProofs`: `CgSpec => []UsesReachTheirVariable` (`AddressesAreMeant`) and
  `CgSpec => []FailsOnlyUnchecked` (`CheckedIsGenerated`). `named_values` has no
  scopes: it is one map that is copied where a block is entered and put back where it
  is left. `Scoped` is the set of declarations whose block is open at a node, and
  `Binds` what a map is to make of them: a name one of them declares is bound, and it
  is bound to the last of them unless an initialised one shadows another. That the
  map `Binds` what is `Scoped` is not inductive, for the end of a block takes a copy
  from the frame; `FramesHold` says of each frame's copy that it is right for where
  its statement began, and `ScopedBack` that the scope there is the one behind the
  block's end. A for statement has two copies, one with its declaration for the
  epilogue and one without for what follows. The second theorem combines the passes:
  a use that CodeGen has no address for has no declaration in scope, so TypeChecker
  would have rejected it (`UsesFound` of `TypeCheckProofs`) had a return not cut it off; a
  break with no loop around it likewise, by `Targets`; and what is cut off with a
  for statement includes the end of its blocks, where its epilogue is generated
  (`EndAfterReturn`).
- `ExecProofs`: `ExSpec => RunsAsWritten` (`GeneratedRunsAsWritten`): the generated
  function implements `Structured` under `Meaning`. The argument is made while
  the blocks are generated, not when they run. Each block has a point of the source
  that control is to come to on entering it, `Leads`, which its name and its node
  tell; a block `Flows` when each instruction is the code of the point that control has
  come to there, and hands on to the one the source goes to next. `FlowAt` is the
  invariant of the walk: every block flows as far as it goes, the insertion point
  has come to `First` of the node about to be visited, the blocks still `Pending` are
  empty, and each frame has the blocks its statement will need (`Promised`). It
  takes what a loop's or a tree's end marker is in the text (`BodyCloses`,
  `TreeCloses`, `FirstEnd`) and, for a statement that follows a return, that its block
  then has two terminators, so that the function is not well formed and never runs
  (`AllStraight`, `ReturnCloses`). Two recursive functions have to be shown to be what
  their definitions say: `First`, which follows breaks to the ends of their loops,
  hence only for a tree whose breaks are in loops (`FirstIs`); and `Landing`, which
  follows branches, and lands because a block that begins with one is left for a later
  node or for a loop's condition or increment, which does not (`Onwards`, `LandsOnce`).
  Then a step of the run is `Call`, `Do`, `Hold`, `NotHold`, `Epilogue` or `Return`,
  and a branch is a stutter (`MeaningSteps`).

- `ExprProofs`: `LowerSpec => []PhisMatchPredecessors` (`LogicalBlocksMerge`), for every
  tree and every program around it. What a block has for predecessors is known only
  when the whole expression is lowered, and the two operands in between can make any
  number of blocks, and `&&`s of their own.
  `PhiInv` says of a visit under way what the others must not disturb, `Awaited`: the
  blocks it has still to fill are empty and no branch goes to them, and behind its
  right operand `merge_bb` is branched to by `lhs_eval_bb` alone. `Agenda` keeps the
  visits apart: none waits for another's blocks, nor for the one at the insertion
  point. That one has no terminator (`Made`), hence is no predecessor yet, so that the
  block an operand ends in is another than `lhs_eval_bb` and becomes the second; a
  phi already made stays right because no branch made later goes to its block.

For every table that is an LR table of its productions (`TableAssumption`,
`ItemsAssumption`; TLC evaluates both on the 235 rows of `PARSING_TABLE`, with the
items that `MCDriver` finds by walking it) and has a column for each type that scan
and main can give a token (`TypesAssumption`), and for every text and command line
(`AcceptedAreSentences` also uses `AcceptAssumption`: tokens are shifted and productions
gone to, and the table accepts at DOLLAR in a state that is reached from state 0 by
`start` alone; TLC evaluates it on the same rows):

- `DriverProofs`: `Spec => []ReductionsMatch`
  (`ReductionsAlwaysMatch`; of parse alone `ParseReductionsMatch`). That the topmost
  entries are a right-hand side is not inductive. `Handles` is: below a state with
  an item that is d symbols along lie those d symbols, and under them the state
  where the item began, for all items of all states on the stack at once.
- `DriverProofs`: `Spec => []ErrorsReported` (`ErrorsAlwaysReported`). `LinesInv`
  follows the stream through scan, main's marks and parse: the tokens have lines,
  the first mark and the last two have none. `ReportNeedsLine` is the argument:
  the walk from a token stops on both sides because BoF and EoF have no line, and
  from EoF or DOLLAR it runs out.
- `DriverProofs`: `Spec => []OutputsMatchExit` (`FilesMatchExit`) and
  `Spec => []SourceSurvives` (`SourceStays`). `FilesInv` says of each phase which flags
  are known not to be set, since main would have returned before; which files there
  are, hence what a crash in that phase leaves; and whom the executable's name comes from: the argument after a `-o`, nobody
  yet, or main, once all arguments were read. The last is what tells an executable
  that overwrites the source from an output that does.
- `DriverProofs`: `Spec => []DrTypeOK` (`DriverTyped`), from the three invariants
  before it and the scan's own: its state is one of the automaton's and START only
  with an empty lexeme, which is why no token is made in START, and a comment's end
  lies in the text (`AfterLineInText`, by the least newline).
- `DriverProofs`: `Spec => []AcceptsOnlySentences` (`AcceptedAreSentences`). The
  property reads the reductions backwards, which no step can extend at its end. The
  invariant has them in their order: `Contracts`, a sequence of forms that begins with
  the tokens read so far and ends with the symbols on the stack (`ReadInv`). A shift
  puts its token behind each of them, a reduction adds one, and each makes the one
  before it by a rightmost step because what lies behind the node is tokens. `Chained`
  says that each state on the stack is where the one below it goes, so that the
  accepting state leaves room for `start` and nothing else, and `EndsOnce` that the
  one DOLLAR is the stream's last, so that what was read is the whole text. That the
  recursive function `Derived` satisfies its equation is proved too (`DerivedIs`).
- `ScannerProofs`: `Spec => []TokensAreTheText` (`TokensAlwaysTheText`) and
  `Spec => []LinesOfTokens` (`TokensHaveTheirLines`), for every set of letters and
  every table of keywords that `LettersAssumption` allows: a letter is none of the
  other characters, and no keyword's token is a number or one of the two names that
  only the reference uses. The reference cuts the visible
  characters at the longest lexeme; the scan goes through the text without looking
  ahead, over newlines and comments in the middle of a token. `Reads` says
  which lexemes each state of the automaton has read, and no lexeme is read in
  two (`ReadOnce`). A lexeme less its last character is one that a state has read
  (`ReadBefore`), so that where the automaton stops, no longer lexeme begins
  (`LongestEnds`). `ScanInv` splits the reference's tokens in those made and those
  that the reference finds from the lexeme under way on (`Cutting`): a character
  read changes neither, a token made goes from the one to the other. `Rank` and
  `Places` lead from the text to its visible characters and back (`PlacesAre`), and
  that the recursive function in `Cut` satisfies its equation is proved (`CutIs`).
  For the lines, `Lines` bounds the line of each token made by that of the next
  one's end.

For all definitions that `DefsAssumption` allows, and every order of the maps:

- `ProgramProofs`: `PrSpec => []LayoutSound` (`LayoutsAreSound`) and
  `PrSpec => []ContainmentWellFounded` (`AcceptedStructsAreFinite`). `LayoutInv`
  says of the structs that each has a size or one visit ahead of it, not both
  (`VisitsSound`); that the fields visited lie in order in the bytes so far
  (`Placed`); and that among any sized structs one holds none of the others
  (`Founded`). The last is inductive because all fields of a struct had sizes
  before it got its own, so that no earlier one can hold it. Fields are never
  empty, as in the grammar: an empty struct would have size 0.
- `ProgramProofs`: `PrSpec => []` of `PrTypeOK`, `ProgramRejectsOnlyFaults`,
  `ProgramFailsOnlyUnchecked`, `CallsReachTheirProcedure` and `LoadsHaveTheirType`
  (`ProgramTyped`, `RejectionsAreFaults`, `FailuresAreUnchecked`,
  `CallsReachDefinitions`, `LoadsAreTyped`). The invariant has a part for each of
  parse and the two passes. `TextInv` says what the four maps hold of the file, of
  several definitions with a name too: a procedure's entry is the last in the file,
  a global's type that of some definition. `CheckInv` and `GenInv` say where the pass
  is: `todo` is the last `m` visits of the program's child `k` and the children after
  it (`Rest`), and whatever comes before that point has passed (`CheckedTo`) or is in
  the module (`GeneratedTo`). What TypeChecker knows when it is through,
  `AllChecked`, is all that CodeGen's part uses of it: that parameters and fields
  have LLVM types, that a load finds its variable, and that the callee of a call is
  in the map, so that its place in the map's order alone decides whether it is
  generated. `NamedSound` says what a name of the module can stand for: a global, a
  procedure of the program with its signature, or a library function in use.
  `compiled` does not imply that no call came before its callee: a procedure called
  `free` is found in the library's place, which `LibraryInUse` says.

Only model-checked: the types and the meaning of expressions (recursive functions on
the nodes, from an operator to its operands: that they satisfy their equations needs
the shape of the tree, which is not proved), `RejectsAtFirstBadToken` (its reference has
RECURSIVE operators), and the liveness of `Ends` and `Exits`. Liveness under
fairness, ENABLED and RECURSIVE operators are outside what the installed provers can
do, and so are the library's induction theorems, which take an operator as parameter.
Of a recursive function, as `ParamSize`, `Derived` and `Cut` are, the inductions
are proved by the least argument at which the claim would fail.

## Not modelled, and the plan

- **Expressions in statements**: the blocks of `&&` and `||` (`codegen.cpp:638-701`)
  in the conditions of `CodeGen` and `Exec`, so that a then block or a loop's
  branch comes after blocks of the condition's own; the refinement extended.
- **Memory**: what pointers to slots and fields and what `new` allocates hold when
  the program runs, and several arguments of a call. Struct names that begin like a
  basic type's (`visitor_helper.cpp:60`): the model's names are not spelled.
- **Proofs**: the invariants of `ExprLower` and `ExprRun` on types and values. They
  need the shape of the tree first: that the operands of a node lie behind it, each
  in a part of the sequence of its own.

What `Printer` prints for each node and the scripts stay out: the layout is documented
nowhere, and the scripts run offline; their product is `ParsingTable`.
