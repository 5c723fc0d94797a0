--------------------------------- MODULE Driver -------------------------------
(***************************************************************************)
(* main (main.cpp): the arguments, the phases in their order with scan and *)
(* parse as they are in Scanner and Lalr, the exit codes, and the files    *)
(* that a run reads and leaves. Of the type checker, the code generator    *)
(* and the linker only the outcome is here. A file's name is a sequence:   *)
(* the name proper and the extensions.                                     *)
(***************************************************************************)
EXTENDS Scanner, Lalr

CONSTANT
  Inputs    \* argv without the program's own name, the source's name and text

ASSUME InputsAssumption ==
  \A input \in Inputs :
    /\ input.argv \in Seq(Seq(STRING) \ {<<>>})
    /\ input.source.name \in Seq(STRING) \ {<<>>}
    /\ input.source.text \in Seq(STRING)

\* The types of the tokens that scan and main make.
TokenTypes ==
  {x[3] : x \in Operators} \cup {"ID", "NUM", "CHARLIT"} \cup Range(KEYWORDS)
    \cup {SymbolOf(s) : s \in Quoted} \cup {"BoF", "EoF", "DOLLAR"}

\* They are symbols of the grammar: the table has a column for each. DOLLAR is
\* no keyword's.
ASSUME TypesAssumption ==
  /\ TokenTypes \subseteq Symbols
  /\ "DOLLAR" \notin Range(KEYWORDS)

VARIABLES
  argv,
  next_arg,     \* the i of the loop over argv
  flags,        \* the flags set
  file,         \* the name of the file to compile, <<>> for none
  exec_name,    \* <<>> for none
  source,       \* the one file there is to begin with: its name and text
  writable,     \* files can be created where the source is
  disk,         \* what each file that there is holds
  code          \* the exit status

driverVars == <<argv, next_arg, flags, file, exec_name, source, writable, disk, code>>
vars == <<phase, stream, scanVars, parseVars, driverVars>>

FlagNames == {"-sc", "-pa", "-sa", "-ir", "-no", "-co"}

\* The status of a run that a signal ends, abort's after an exception that nothing
\* catches, and of one that has not ended.
SIGABRT == 134
SIGSEGV == 139
Running == -1

\* argv[i][0] == '-'
Dashed(a) == a[1] \in FlagNames \cup {"-o", "-O2"}

-------------------------------------------------------------------------------
(* The arguments.                                                          *)

Exit(n) == phase' = "exited" /\ code' = n

Reading == phase = "arguments" /\ next_arg <= Len(argv)

arg == argv[next_arg]

TakeFlag ==
  /\ Reading
  /\ \E f \in FlagNames : arg = <<f>> /\ flags' = flags \cup {f}
  /\ next_arg' = next_arg + 1
  /\ UNCHANGED <<phase, code, file, exec_name>>

\* -o and the name after it
TakeExecName ==
  /\ Reading
  /\ arg = <<"-o">>
  /\ IF exec_name # <<>>
     THEN Exit(1) /\ UNCHANGED <<next_arg, exec_name>>
     ELSE IF next_arg = Len(argv) \/ Dashed(argv[next_arg + 1])
     THEN Exit(2) /\ UNCHANGED <<next_arg, exec_name>>
     ELSE /\ exec_name' = argv[next_arg + 1]
          /\ next_arg' = next_arg + 2
          /\ UNCHANGED <<phase, code>>
  /\ UNCHANGED <<flags, file>>

\* Anything else is the file, a flag that is not known too.
TakeFile ==
  /\ Reading
  /\ arg \notin {<<f>> : f \in FlagNames \cup {"-o"}}
  /\ IF file # <<>>
     THEN Exit(3) /\ UNCHANGED <<next_arg, file>>
     ELSE /\ file' = arg
          /\ next_arg' = next_arg + 1
          /\ UNCHANGED <<phase, code>>
  /\ UNCHANGED <<flags, exec_name>>

\* A file that is not there reads as an empty text.
OpenFile ==
  /\ phase = "arguments"
  /\ next_arg > Len(argv)
  /\ IF file = <<>>
     THEN Exit(4) /\ UNCHANGED text
     ELSE /\ phase' = "scan"
          /\ text' = IF file \in DOMAIN disk THEN source.text ELSE <<>>
          /\ UNCHANGED code
  /\ UNCHANGED <<next_arg, flags, file, exec_name, stream, at, state, lexeme, line_num>>

Arguments ==
  /\ \/ (TakeFlag \/ TakeExecName \/ TakeFile) /\ UNCHANGED <<stream, scanVars>>
     \/ OpenFile
  /\ UNCHANGED <<argv, source, writable, disk, parseVars>>

-------------------------------------------------------------------------------
(* The phases.                                                             *)

\* Mutant: .xer is not taken off.
file_rootWhole == file

file_root == IF Last(file) = "xer" THEN Front(file) ELSE file

Out(extension) == Append(file_root, extension)

With(files, name, content) ==
  [n \in DOMAIN files \cup {name} |-> IF n = name THEN content ELSE files[n]]

\* An ofstream that cannot be opened takes what is written and says nothing.
Written(name, content) == IF writable THEN With(disk, name, content) ELSE disk

Without(names) == [n \in DOMAIN disk \ names |-> disk[n]]

\* The flag ends the run with a file of its own; or the next phase runs.
OutputOr(flag, extension, content, next) ==
  IF flag \in flags
  THEN Exit(0) /\ disk' = Written(Out(extension), content)
  ELSE phase' = next /\ UNCHANGED <<disk, code>>

Untouched == UNCHANGED <<argv, next_arg, flags, file, exec_name, source, writable>>

ScanThrew ==
  /\ phase = "scan_threw"
  /\ Exit(4)
  /\ UNCHANGED <<stream, scanVars, parseVars, disk>> /\ Untouched

\* The DOLLAR of an error, or else the two marks of the end; then parse starts.
AfterScan ==
  /\ phase = "scanned"
  /\ IF Last(stream).type = "DOLLAR"
     THEN Exit(1) /\ UNCHANGED <<stream, disk>>
     ELSE /\ stream' = stream \o <<Mark("EoF"), Mark("DOLLAR")>>
          /\ OutputOr("-sc", "xert", "tokens", "parse")
  /\ UNCHANGED <<scanVars, parseVars>> /\ Untouched

ParseThrew ==
  /\ phase = "parse_threw"
  /\ Exit(5)
  /\ UNCHANGED <<stream, scanVars, parseVars, disk>> /\ Untouched

\* The tokens of the type that an ID is in front of: COLON behind the name of a
\* procedure that is defined, LPAREN behind the name of one that is called.
NamesBefore(type) ==
  {k \in 1 .. Len(stream) - 1 : stream[k].type = "ID" /\ stream[k + 1].type = type}

Defines(name) == {k \in NamesBefore("COLON") : stream[k].lexeme = name}

CallsUndefined == \E k \in NamesBefore("LPAREN") : Defines(stream[k].lexeme) = {}

\* The tree has one procedure of a name: what another one calls is not in it.
DropsProcedures == \E k, l \in NamesBefore("COLON") : k # l /\ stream[k].lexeme = stream[l].lexeme

\* The Printer asks procedures.at for what a call returns, and is outside every
\* try: an undefined procedure ends it before its buffer is written out.
PrintTree(content) ==
  \/ /\ CallsUndefined => DropsProcedures
     /\ Exit(0)
     /\ disk' = Written(Out("xerp"), content)
  \/ /\ CallsUndefined
     /\ Exit(SIGABRT)
     /\ disk' = Written(Out("xerp"), "part_of_tree")

\* The tree is what the flag asks for, or the next phase runs.
TreeOr(flag, content, next) ==
  \/ flag \in flags /\ PrintTree(content)
  \/ flag \notin flags /\ phase' = next /\ UNCHANGED <<disk, code>>

AfterParse ==
  /\ phase = "parsed"
  /\ TreeOr("-pa", "tree", "typecheck")
  /\ UNCHANGED <<stream, scanVars, parseVars>> /\ Untouched

\* The type checker throws, or dereferences a null pointer for a call outside
\* any procedure, or is done; of the text all that counts here is whether it
\* has a call.
TypeCheck ==
  /\ phase = "typecheck"
  /\ \/ Exit(6) /\ UNCHANGED disk
     \/ NamesBefore("LPAREN") # {} /\ Exit(SIGSEGV) /\ UNCHANGED disk
     \/ TreeOr("-sa", "annotated_tree", "generate")
  /\ UNCHANGED <<stream, scanVars, parseVars>> /\ Untouched

\* The code generator throws, or dereferences a null pointer, or is done and
\* optimize too, if it may, unless what is not LLVM IR makes it crash; none of
\* it writes a file.
Generate ==
  /\ phase = "generate"
  /\ \/ Exit(7)
     \/ Exit(SIGSEGV)
     \/ "-no" \notin flags /\ Exit(SIGABRT)
     \/ phase' = "print" /\ UNCHANGED code
  /\ UNCHANGED <<stream, scanVars, parseVars, disk>> /\ Untouched

\* print_ir writes through a buffer that main's return empties: until then any
\* part of the text may be missing. This is the one file whose opening is checked.
PrintIR ==
  /\ phase = "print"
  /\ IF ~writable
     THEN Exit(8) /\ UNCHANGED disk
     ELSE IF "-ir" \in flags
     THEN Exit(0) /\ disk' = Written(Out("ll"), "ir")
     ELSE /\ phase' = "emit"
          /\ disk' = Written(Out("ll"), "part_of_ir")
          /\ UNCHANGED code
  /\ UNCHANGED <<stream, scanVars, parseVars>> /\ Untouched

\* generate_executable returns an object file, or an empty one if the target has
\* no passes for it, which main does not hear of; or the passes crash on what is
\* not LLVM IR. Returning from main completes the .ll file.
EmitObject ==
  /\ phase = "emit"
  /\ \/ \E content \in {"object", "nothing"} :
          IF "-co" \in flags
          THEN Exit(0) /\ disk' = With(Written(Out("o"), content), Out("ll"), "ir")
          ELSE /\ phase' = "link"
               /\ disk' = Written(Out("o"), content)
               /\ UNCHANGED code
     \/ /\ \E signal \in {SIGSEGV, SIGABRT} : Exit(signal)
        /\ disk' = Written(Out("o"), "part_of_object")
  /\ UNCHANGED <<stream, scanVars, parseVars>> /\ Untouched

\* link_executable, whose exception nothing catches; an empty file is no object
\* to link.
Link ==
  /\ phase = "link"
  /\ exec_name' = IF exec_name = <<>> THEN file_root ELSE exec_name
  /\ \/ /\ disk[Out("o")] = "object"
        /\ phase' = "clean_up" /\ disk' = Written(exec_name', "executable") /\ UNCHANGED code
     \/ Exit(SIGABRT) /\ UNCHANGED disk
  /\ UNCHANGED <<stream, scanVars, parseVars, argv, next_arg, flags, file, source, writable>>

\* Mutant: the .ll file is forgotten.
CleanUpObject ==
  /\ phase = "clean_up"
  /\ Exit(0)
  /\ disk' = Without({Out("o")})
  /\ UNCHANGED <<stream, scanVars, parseVars>> /\ Untouched

\* The object and the .ll file are removed, by their names.
CleanUp ==
  /\ phase = "clean_up"
  /\ Exit(0)
  /\ disk' = Without({Out("o"), Out("ll")})
  /\ UNCHANGED <<stream, scanVars, parseVars>> /\ Untouched

Scan == ScanNext /\ UNCHANGED <<parseVars, driverVars>>

Parse == LaNext /\ UNCHANGED <<scanVars, driverVars>>

Init ==
  /\ \E input \in Inputs : argv = input.argv /\ source = input.source
  /\ writable \in BOOLEAN
  /\ phase = "arguments"
  /\ next_arg = 1
  /\ flags = {}
  /\ file = <<>>
  /\ exec_name = <<>>
  /\ disk = [n \in {source.name} |-> "source"]
  /\ code = Running
  /\ text = <<>>
  /\ ScanInit
  /\ LaStart

Next ==
  \/ Arguments \/ Scan \/ ScanThrew \/ AfterScan \/ Parse \/ ParseThrew \/ AfterParse
  \/ TypeCheck \/ Generate \/ PrintIR \/ EmitObject \/ Link \/ CleanUp

Spec == Init /\ [][Next]_vars /\ WF_vars(Next)

-------------------------------------------------------------------------------
(* Properties.                                                             *)

\* What a crash may cut short.
Partial == {"part_of_tree", "part_of_ir", "part_of_object"}

Contents ==
  {"source", "tokens", "tree", "annotated_tree", "ir", "object", "nothing", "executable"}
    \cup Partial

\* The types of the three modules' variables; in front of the phase that sets
\* them, what they were initialised with.
DrTypeOK ==
  /\ phase \in {"arguments", "scan", "scan_threw", "scanned", "parse", "parse_threw",
                "parsed", "typecheck", "generate", "print", "emit", "link", "clean_up",
                "exited"}
  /\ phase \in {"parse", "parse_threw", "parsed"} => IsStream(stream)
  /\ at \in 1 .. Len(text) + 1
  /\ (state = "START") <=> (lexeme = <<>>)
  /\ LaTypeOK
  /\ next_arg \in 1 .. Len(argv) + 1
  /\ flags \subseteq FlagNames
  /\ Range(disk) \subseteq Contents
  /\ code \in 0 .. 8 \cup {Running, SIGSEGV, SIGABRT}
  /\ (code = Running) <=> (phase # "exited")

\* The files that a run that succeeds leaves: what README.md's list of flags asks
\* for, in main's order, but that -co leaves the .ll file too (212), and that an
\* executable named like the object or the .ll file is removed as such (216).
Left ==
  IF "-sc" \in flags THEN {Out("xert")}
  ELSE IF flags \cap {"-pa", "-sa"} # {} THEN {Out("xerp")}
  ELSE IF "-ir" \in flags THEN {Out("ll")}
  ELSE IF "-co" \in flags THEN {Out("o"), Out("ll")}
  ELSE {exec_name} \ {Out("o"), Out("ll")}

New == {n \in DOMAIN disk : disk[n] # "source"}

\* What a run that a signal ends may leave: of -pa and -sa the Printer's file, if
\* it was the Printer; of a run that goes on to an object both intermediate
\* files, or none.
LeftByCrash ==
  IF flags \cap {"-pa", "-sa"} # {}
  THEN {IF code = SIGABRT /\ writable THEN {Out("xerp")} ELSE {}}
  ELSE {{}} \cup (IF "-ir" \notin flags /\ writable THEN {{Out("ll"), Out("o")}} ELSE {})

\* A run that reports an error leaves no file. One that succeeds leaves the file
\* it was asked for, whole, and no other, with the exceptions of Left and one
\* more: the files of -sc, -pa and -sa are missing without a word when they
\* cannot be written (142, 159, 175). One that crashes, in the Printer, a null
\* pointer, LLVM or the linker's exception (214), leaves no more than the files
\* that it was writing; -sc is safe from that.
OutputsMatchExit ==
  phase = "exited" =>
    /\ code \in 1 .. 8 => New = {}
    /\ code = 0 => /\ New = IF writable THEN Left ELSE {}
                   /\ \A n \in New : disk[n] \notin Partial
    /\ code \in {SIGABRT, SIGSEGV} => "-sc" \notin flags /\ New \in LeftByCrash

\* README.md:70 says of -co: "output ONLY the generated object". The flags before
\* it in main end the run earlier.
ObjectOnly ==
  /\ phase = "exited" /\ code = 0
  /\ "-co" \in flags /\ flags \cap {"-sc", "-pa", "-sa", "-ir"} = {}
  => New = {Out("o")}

\* The source is not overwritten, unless -o names it, or no -o is given and the
\* name of the source does not end in .xer: then the executable is put there
\* (213). A file that is not the one to compile is also overwritten if it is
\* called like one of the outputs.
SourceSurvives ==
  \/ source.name \in DOMAIN disk /\ disk[source.name] = "source"
  \/ \E i \in 1 .. Len(argv) - 1 : argv[i] = <<"-o">> /\ argv[i + 1] = source.name
  \/ /\ \A i \in 1 .. Len(argv) : argv[i] # <<"-o">>
     /\ (source.name = file /\ Last(file) # "xer") \/ Append(source.name, "xer") = file
  \/ file # source.name /\ source.name \in {Out(x) : x \in {"xert", "xerp", "ll", "o"}}

\* Every text is scanned and parsed to the end, whatever it is: the process
\* runs on as long as it has a step to take, and main returns.
Exits == <>(phase = "exited")

===============================================================================
