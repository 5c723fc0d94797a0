------------------------------- MODULE MCProgram -------------------------------
(* The definitions that TLC writes programs from.                          *)
EXTENDS Program

T(n)   == [name |-> n, ptr |-> FALSE]
Ptr(n) == [name |-> n, ptr |-> TRUE]
D(n, t) == [id |-> n, type |-> t]

Item(op, id, args) == [op |-> op, id |-> id, args |-> args]
Call(f, args) == Item("call", f, args)
Load(x) == Item("load", x, <<>>)
Use(op) == Item(op, "", <<>>)

StructOf(s, fields) == [def |-> "struct", id |-> s, fields |-> fields]
Global(g, t, kind, vt) ==
  [def |-> "global", id |-> g, type |-> t, val |-> [kind |-> kind, type |-> vt]]
Proc(p, ret, params, body) ==
  [def |-> "procedure", id |-> p, ret |-> ret, params |-> params, body |-> body]

IntT == T("int")
CharT == T("char")

\* A before, after and inside B; narrow fields around wide ones and pointers.
MCStructs ==
  { StructOf("A", <<D(2, CharT), D(1, CharT)>>),
    StructOf("A", <<D(1, CharT), D(2, Ptr("B")), D(3, CharT)>>),
    StructOf("A", <<D(1, T("B"))>>),
    StructOf("A", <<D(1, IntT), D(1, CharT)>>),
    StructOf("B", <<D(1, CharT), D(2, T("A")), D(3, Ptr("B")), D(4, CharT)>>),
    StructOf("B", <<D(2, IntT), D(1, T("B"))>>),
    StructOf("B", <<D(1, T("C"))>>) }

\* Two types for x, a type that may be undefined, names of the library, and
\* every kind of initialiser.
MCGlobals ==
  { Global("x", IntT, "none", IntT), Global("x", CharT, "constant", CharT),
    Global("x", T("A"), "none", IntT), Global("x", IntT, "constant", CharT),
    Global("x", IntT, "id", IntT), Global("x", IntT, "call", IntT),
    Global("x", CharT, "read", CharT), Global("x", IntT, "logical", IntT),
    Global("x", Ptr("int"), "new", Ptr("int")),
    Global("malloc", IntT, "none", IntT), Global("printf", IntT, "none", IntT) }

MCProcs ==
  { Proc("f", Void, <<D("x", IntT)>>, <<Load("x")>>),
    Proc("f", IntT, <<>>, <<Call("g", <<>>), Use("print")>>),
    Proc("f", IntT, <<>>, <<Use("print")>>),
    Proc("f", T("B"), <<D("y", T("A"))>>, <<Call("f", <<T("A")>>)>>),
    Proc("f", IntT, <<D("y", IntT), D("y", IntT)>>, <<>>),
    Proc("g", IntT, <<>>, <<Call("f", <<IntT>>)>>),
    Proc("g", Void, <<>>, <<Call("f", <<>>), Call("free", <<>>)>>),
    Proc("x", Void, <<>>, <<>>),
    Proc("printf", Void, <<D("y", CharT)>>, <<Load("y")>>),
    Proc("free", Void, <<>>, <<Use("print")>>) }

MCDefinitions == MCStructs \cup MCGlobals \cup MCProcs

MCMains ==
  { <<Load("x"), Use("print")>>, <<Call("f", <<IntT>>), Call("g", <<>>)>>,
    <<Call("f", <<>>), Load("y")>>, <<Call("printf", <<CharT>>), Call("free", <<>>)>>,
    <<Call("x", <<>>), Use("read"), Use("power")>> }

===============================================================================
