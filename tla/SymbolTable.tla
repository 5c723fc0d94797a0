------------------------------ MODULE SymbolTable ------------------------------
(***************************************************************************)
(* class SymbolTable (parser/symbol_table.cpp): one table per procedure, a *)
(* stack of scopes in which TypeChecker declares and looks up variables,   *)
(* the list of every symbol ever declared, and the offset in the           *)
(* procedure's frame at which the last one was put.                        *)
(*                                                                         *)
(* The methods are operators on the table's value, so that a handler of    *)
(* TypeChecker that calls several of them is still one action.             *)
(***************************************************************************)
EXTENDS XerTypes, FiniteSetsExt

Entry == [id : Ids, type : Types, frame_offset : Int]

\* A scope's map from a name to its entry, as the set of the entries.
Scope == SUBSET Entry

Table == [scopes : Seq(Scope), all_syms : Seq(Entry), current_stack_offset : Int]

\* The constructor enters the procedure's own scope.
NewTable ==
  [scopes |-> <<{}>>, all_syms |-> <<>>, current_stack_offset |-> 0]

EnterScope(t) == [t EXCEPT !.scopes = Append(@, {})]

\* Mutant: leaving a scope keeps its variables.
ExitScopeKeeps(t) == t

ExitScope(t) ==
  IF t.scopes = <<>>
  THEN t
  ELSE [t EXCEPT !.scopes = SubSeq(@, 1, Len(@) - 1)]

-------------------------------------------------------------------------------
(***************************************************************************)
(* (off + 3) & ~3 on a two's complement int: the multiple of 4 at or ABOVE *)
(* off. Frame offsets are negative, so this moves towards the frame's top. *)
(***************************************************************************)
AlignOffset(off) == ((off + (SIZE_INT - 1)) \div SIZE_INT) * SIZE_INT

\* Mutant: the alignment is never applied.
FreshOffsetUnaligned(t, ty) == t.current_stack_offset - SizeOf[ty]

FreshOffset(t, ty) ==
  (IF Wide(ty) THEN AlignOffset(t.current_stack_offset)
               ELSE t.current_stack_offset) - SizeOf[ty]

Current(t) == t.scopes[Len(t.scopes)]

\* declare_variable throws when the current scope already has the name.
CanDeclare(t, id) == \A e \in Current(t) : e.id # id

DeclareVariable(t, id, ty) ==
  LET off == FreshOffset(t, ty)
      e   == [id |-> id, type |-> ty, frame_offset |-> off]
  IN  [scopes |-> [t.scopes EXCEPT ![Len(t.scopes)] = @ \cup {e}],
       all_syms |-> Append(t.all_syms, e),
       current_stack_offset |-> off]

-------------------------------------------------------------------------------
\* The scopes that know the name, and what the innermost of them says.
Declaring(t, id) == {k \in 1 .. Len(t.scopes) : \E e \in t.scopes[k] : e.id = id}

Known(t, id) == Declaring(t, id) # {}

\* Mutant: the scopes are searched from the outermost inwards.
LookupOutermost(t, id) ==
  CHOOSE e \in t.scopes[Min(Declaring(t, id))] : e.id = id

LookupVariable(t, id) ==
  CHOOSE e \in t.scopes[Max(Declaring(t, id))] : e.id = id

-------------------------------------------------------------------------------
(* What a table built by these methods satisfies.                          *)

\* The last byte after a symbol's slot in the frame.
SlotEnd(e) == e.frame_offset + SizeOf[e.type]

\* Symbols are laid out downwards: each gets an offset of its own, below
\* every earlier one, so that an offset names one declaration.
OffsetsFall(t) ==
  /\ \A i, j \in 1 .. Len(t.all_syms) :
       i < j => t.all_syms[j].frame_offset < t.all_syms[i].frame_offset
  /\ \A i \in 1 .. Len(t.all_syms) :
       /\ t.current_stack_offset <= t.all_syms[i].frame_offset
       /\ t.all_syms[i].frame_offset < 0
  /\ t.current_stack_offset <= 0

\* Every symbol as wide as an int starts at a multiple of 4.
WideAligned(t) ==
  \A i \in 1 .. Len(t.all_syms) :
    Wide(t.all_syms[i].type) => t.all_syms[i].frame_offset % SIZE_INT = 0

\* A symbol's slot ends below every earlier slot, except when a wide symbol
\* follows a narrow one.
SlotsDisjoint(t) ==
  \A i, j \in 1 .. Len(t.all_syms) :
    /\ i < j
    /\ ~(Wide(t.all_syms[j].type) /\ ~Wide(t.all_syms[i].type))
    => SlotEnd(t.all_syms[j]) <= t.all_syms[i].frame_offset

\* What is in scope was recorded as a symbol.
ScopesRecorded(t) ==
  \A k \in 1 .. Len(t.scopes) : \A e \in t.scopes[k] :
    \E i \in 1 .. Len(t.all_syms) : t.all_syms[i] = e

\* A scope has one entry for a name.
NamesDistinct(t) ==
  \A k \in 1 .. Len(t.scopes) : \A e, f \in t.scopes[k] : e.id = f.id => e = f

\* An inner scope was filled after the scopes around it: looking up the
\* innermost declaration of a name finds the latest one still in scope.
InnerIsLater(t) ==
  \A k, l \in 1 .. Len(t.scopes) :
    k < l => \A e \in t.scopes[k], f \in t.scopes[l] : f.frame_offset < e.frame_offset

TableOK(t) ==
  /\ t \in Table
  /\ OffsetsFall(t)
  /\ WideAligned(t)
  /\ SlotsDisjoint(t)
  /\ ScopesRecorded(t)
  /\ NamesDistinct(t)
  /\ InnerIsLater(t)

===============================================================================
