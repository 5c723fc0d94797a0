---------------------------- MODULE TypeCheckProofs ----------------------------
(***************************************************************************)
(* TableOK holds of a new table and is preserved by every method of        *)
(* SymbolTable: what a sequence of calls may do to a table, of any length, *)
(* for any names, types and sizes that TypeAssumption allows.              *)
(*                                                                         *)
(* For every program, however long and deep, and for any names, types and  *)
(* sizes: at every node the type checker's table has one scope for each    *)
(* block around the node, so that no exit_scope empties the stack and no   *)
(* declaration finds it empty; the table is laid out as TableOK says; and  *)
(* a break has the innermost loop for its target.                          *)
(*                                                                         *)
(* And the declaration it finds for a use of a variable, through scopes it *)
(* opens and closes as it walks and through blocks that a return cuts      *)
(* short, is the one the block structure of the source makes the use mean. *)
(* The bridge between the table and the source is the set of declarations  *)
(* visible at a node, each in the scope its level says: the table shows    *)
(* exactly these, under the frame offsets that their nodes were given.     *)
(***************************************************************************)
EXTENDS TypeCheck, WellFoundedInduction, TLAPS

-------------------------------------------------------------------------------
(* The rounding of offsets.                                                *)

LEMMA AlignIsLeast ==
  ASSUME NEW off \in Int
  PROVE  /\ AlignOffset(off) \in Int
         /\ AlignOffset(off) % SIZE_INT = 0
         /\ off <= AlignOffset(off)
         /\ AlignOffset(off) < off + SIZE_INT
         /\ \A m \in Int : m % SIZE_INT = 0 /\ off <= m => AlignOffset(off) <= m
  BY DEF AlignOffset, SIZE_INT

LEMMA MultiplesSubtract ==
  ASSUME NEW a \in Int, NEW b \in Int, a % SIZE_INT = 0, b % SIZE_INT = 0
  PROVE  (a - b) % SIZE_INT = 0
  BY DEF SIZE_INT

\* A fresh offset is below every offset given out before, and aligned if the
\* type is wide.
LEMMA FreshIsBelow ==
  ASSUME NEW t \in Table, NEW ty \in Types
  PROVE  /\ FreshOffset(t, ty) \in Int
         /\ FreshOffset(t, ty) < t.current_stack_offset
         /\ Wide(ty) => FreshOffset(t, ty) % SIZE_INT = 0
         /\ ~Wide(ty) => FreshOffset(t, ty) + SizeOf[ty] = t.current_stack_offset
         /\ Wide(ty) => FreshOffset(t, ty) + SizeOf[ty] = AlignOffset(t.current_stack_offset)
<1> DEFINE off  == t.current_stack_offset
           size == SizeOf[ty]
<1>1. off \in Int
  BY DEF Table
<1>2. size \in Int /\ size > 0
  BY TypeAssumption
<1>3. CASE Wide(ty)
  <2>1. size >= SIZE_INT /\ size % SIZE_INT = 0
    BY <1>3, TypeAssumption DEF Wide
  <2>2. FreshOffset(t, ty) = AlignOffset(off) - size
    BY <1>3 DEF FreshOffset
  <2>3. /\ AlignOffset(off) \in Int
        /\ AlignOffset(off) % SIZE_INT = 0
        /\ AlignOffset(off) < off + SIZE_INT
    BY <1>1, AlignIsLeast
  <2>4. (AlignOffset(off) - size) % SIZE_INT = 0
    BY <1>2, <2>1, <2>3, MultiplesSubtract
  <2> HIDE DEF off, size
  <2>5. /\ FreshOffset(t, ty) \in Int /\ FreshOffset(t, ty) < off
        /\ FreshOffset(t, ty) + size = AlignOffset(off)
    BY <1>1, <1>2, <2>1, <2>2, <2>3 DEF SIZE_INT
  <2> QED
    BY <1>3, <2>2, <2>4, <2>5 DEF off, size
<1>4. CASE ~Wide(ty)
  BY <1>1, <1>2, <1>4 DEF FreshOffset
<1> QED
  BY <1>3, <1>4

-------------------------------------------------------------------------------
(* The constructor and the scopes.                                         *)

THEOREM NewTableOK == TableOK(NewTable)
BY DEF TableOK, NewTable, Table, Scope, OffsetsFall, WideAligned, SlotsDisjoint,
       ScopesRecorded, NamesDistinct, InnerIsLater

THEOREM EnterScopeOK ==
  ASSUME NEW t, TableOK(t)
  PROVE  /\ TableOK(EnterScope(t))
         /\ Len(EnterScope(t).scopes) = Len(t.scopes) + 1
<1> DEFINE u == EnterScope(t)
<1>1. t \in Table
  BY DEF TableOK
<1>2. /\ u \in Table
      /\ u.scopes = Append(t.scopes, {})
      /\ u.all_syms = t.all_syms
      /\ u.current_stack_offset = t.current_stack_offset
  BY <1>1, SMTT(40) DEF EnterScope, Table, Scope
<1>3. /\ Len(u.scopes) = Len(t.scopes) + 1
      /\ \A k \in 1 .. Len(t.scopes) : u.scopes[k] = t.scopes[k]
      /\ u.scopes[Len(t.scopes) + 1] = {}
  BY <1>1, <1>2, SMTT(40) DEF Table
<1> HIDE DEF u
<1>4. OffsetsFall(u) /\ WideAligned(u) /\ SlotsDisjoint(u)
  BY <1>2 DEF TableOK, OffsetsFall, WideAligned, SlotsDisjoint
<1>5. \A k \in 1 .. Len(u.scopes) : u.scopes[k] # {} =>
        k \in 1 .. Len(t.scopes) /\ u.scopes[k] = t.scopes[k]
  BY <1>1, <1>3 DEF Table
<1>6. ScopesRecorded(u) /\ NamesDistinct(u)
  BY <1>2, <1>5 DEF TableOK, ScopesRecorded, NamesDistinct
<1>7. InnerIsLater(u)
  BY <1>5 DEF TableOK, InnerIsLater
<1> QED
  BY <1>2, <1>3, <1>4, <1>6, <1>7 DEF TableOK, u

THEOREM ExitScopeOK ==
  ASSUME NEW t, TableOK(t), Len(t.scopes) > 0
  PROVE  /\ TableOK(ExitScope(t))
         /\ Len(ExitScope(t).scopes) = Len(t.scopes) - 1
<1> DEFINE u == ExitScope(t)
<1>1. t \in Table
  BY DEF TableOK
<1>2. t.scopes \in Seq(Scope) /\ t.scopes # <<>>
  BY <1>1 DEF Table
<1>3. u = [t EXCEPT !.scopes = SubSeq(@, 1, Len(@) - 1)]
  BY <1>2 DEF ExitScope
<1>4. /\ SubSeq(t.scopes, 1, Len(t.scopes) - 1) \in Seq(Scope)
      /\ Len(SubSeq(t.scopes, 1, Len(t.scopes) - 1)) = Len(t.scopes) - 1
      /\ \A k \in 1 .. Len(t.scopes) - 1 :
           SubSeq(t.scopes, 1, Len(t.scopes) - 1)[k] = t.scopes[k]
  BY <1>2
<1>5. /\ u \in Table
      /\ u.scopes = SubSeq(t.scopes, 1, Len(t.scopes) - 1)
      /\ u.all_syms = t.all_syms
      /\ u.current_stack_offset = t.current_stack_offset
  BY <1>1, <1>3, <1>4 DEF Table
<1> HIDE DEF u
<1>6. /\ Len(u.scopes) = Len(t.scopes) - 1
      /\ \A k \in 1 .. Len(u.scopes) : k \in 1 .. Len(t.scopes) /\ u.scopes[k] = t.scopes[k]
  BY <1>2, <1>4, <1>5
<1>7. OffsetsFall(u) /\ WideAligned(u) /\ SlotsDisjoint(u)
  BY <1>5 DEF TableOK, OffsetsFall, WideAligned, SlotsDisjoint
<1>8. ScopesRecorded(u) /\ NamesDistinct(u)
  BY <1>5, <1>6 DEF TableOK, ScopesRecorded, NamesDistinct
<1>9. InnerIsLater(u)
  BY <1>6 DEF TableOK, InnerIsLater
<1> QED
  BY <1>5, <1>6, <1>7, <1>8, <1>9 DEF TableOK, u

-------------------------------------------------------------------------------
(* declare_variable.                                                       *)

THEOREM DeclareVariableOK ==
  ASSUME NEW t, NEW id \in Ids, NEW ty \in Types,
         TableOK(t), Len(t.scopes) > 0, CanDeclare(t, id)
  PROVE  /\ TableOK(DeclareVariable(t, id, ty))
         /\ Len(DeclareVariable(t, id, ty).scopes) = Len(t.scopes)
<1> DEFINE off == FreshOffset(t, ty)
           e   == [id |-> id, type |-> ty, frame_offset |-> off]
           u   == DeclareVariable(t, id, ty)
           N   == Len(t.all_syms)
           L   == Len(t.scopes)
<1>1. /\ t \in Table /\ t.scopes \in Seq(Scope) /\ t.all_syms \in Seq(Entry)
      /\ t.current_stack_offset \in Int /\ N \in Nat /\ L \in Nat
  BY DEF TableOK, Table
<1>2. /\ off \in Int
      /\ off < t.current_stack_offset
      /\ Wide(ty) => off % SIZE_INT = 0
      /\ ~Wide(ty) => off + SizeOf[ty] = t.current_stack_offset
      /\ Wide(ty) => off + SizeOf[ty] = AlignOffset(t.current_stack_offset)
  BY <1>1, FreshIsBelow
<1>3. e \in Entry
  BY <1>2 DEF Entry
<1>4. /\ u.scopes = [t.scopes EXCEPT ![L] = @ \cup {e}]
      /\ u.all_syms = Append(t.all_syms, e)
      /\ u.current_stack_offset = off
      /\ u = [scopes |-> u.scopes, all_syms |-> u.all_syms,
              current_stack_offset |-> u.current_stack_offset]
  BY DEF DeclareVariable
<1>5. /\ u.scopes \in Seq(Scope) /\ Len(u.scopes) = L
      /\ u.scopes[L] = t.scopes[L] \cup {e}
      /\ \A k \in 1 .. L - 1 : u.scopes[k] = t.scopes[k]
  BY <1>1, <1>3, <1>4 DEF Scope
<1>6. /\ u.all_syms \in Seq(Entry) /\ Len(u.all_syms) = N + 1
      /\ u.all_syms[N + 1] = e
      /\ \A i \in 1 .. N : u.all_syms[i] = t.all_syms[i] /\ t.all_syms[i] \in Entry
  BY <1>1, <1>3, <1>4
<1>7. e.id = id /\ e.type = ty /\ e.frame_offset = off
  OBVIOUS
<1>8. u \in Table
  BY <1>2, <1>4, <1>5, <1>6 DEF Table
<1> HIDE DEF u, e, off, N, L
\* Everything recorded before lies above the new symbol.
<1>9. \A i \in 1 .. N : /\ t.all_syms[i].frame_offset \in Int
                        /\ t.current_stack_offset <= t.all_syms[i].frame_offset
                        /\ off < t.all_syms[i].frame_offset
                        /\ t.all_syms[i].frame_offset < 0
  BY <1>1, <1>2, <1>6, SMTT(40) DEF TableOK, OffsetsFall, Entry, N
<1>10. OffsetsFall(u)
  <2>1. \A i, j \in 1 .. N + 1 :
          i < j => u.all_syms[j].frame_offset < u.all_syms[i].frame_offset
    <3> TAKE i, j \in 1 .. N + 1
    <3> HAVE i < j
    <3>1. i \in 1 .. N
      BY <1>1
    <3>2. CASE j = N + 1
      BY <1>6, <1>7, <1>9, <3>1, <3>2
    <3>3. CASE j \in 1 .. N
      BY <1>6, <3>1, <3>3 DEF TableOK, OffsetsFall, N
    <3> QED
      BY <1>1, <3>2, <3>3
  <2>2. \A i \in 1 .. N + 1 : off <= u.all_syms[i].frame_offset
                              /\ u.all_syms[i].frame_offset < 0
    <3> TAKE i \in 1 .. N + 1
    <3>1. CASE i = N + 1
      BY <1>1, <1>2, <1>6, <1>7, <3>1 DEF TableOK, OffsetsFall
    <3>2. CASE i \in 1 .. N
      BY <1>2, <1>6, <1>9, <3>2
    <3> QED
      BY <1>1, <3>1, <3>2
  <2>3. off <= 0
    BY <1>1, <1>2 DEF TableOK, OffsetsFall
  <2> QED
    BY <1>4, <1>6, <2>1, <2>2, <2>3 DEF OffsetsFall
<1>11. WideAligned(u)
  <2> SUFFICES ASSUME NEW i \in 1 .. N + 1, Wide(u.all_syms[i].type)
               PROVE  u.all_syms[i].frame_offset % SIZE_INT = 0
    BY <1>6 DEF WideAligned
  <2>1. CASE i = N + 1
    BY <1>2, <1>6, <1>7, <2>1
  <2>2. CASE i \in 1 .. N
    BY <1>6, <2>2 DEF TableOK, WideAligned, N
  <2> QED
    BY <1>1, <2>1, <2>2
<1>12. SlotsDisjoint(u)
  <2> SUFFICES ASSUME NEW i \in 1 .. N + 1, NEW j \in 1 .. N + 1, i < j,
                      ~(Wide(u.all_syms[j].type) /\ ~Wide(u.all_syms[i].type))
               PROVE  SlotEnd(u.all_syms[j]) <= u.all_syms[i].frame_offset
    BY <1>6 DEF SlotsDisjoint
  <2>1. i \in 1 .. N
    BY <1>1
  <2>2. CASE j \in 1 .. N
    BY <1>6, <2>1, <2>2 DEF TableOK, SlotsDisjoint, N
  <2>3. CASE j = N + 1 /\ ~Wide(ty)
    BY <1>2, <1>6, <1>7, <1>9, <2>1, <2>3 DEF SlotEnd
  <2>4. CASE j = N + 1 /\ Wide(ty)
    <3>1. Wide(t.all_syms[i].type)
      BY <1>6, <1>7, <2>1, <2>4
    <3>2. t.all_syms[i].frame_offset % SIZE_INT = 0
      BY <2>1, <3>1 DEF TableOK, WideAligned, N
    <3>3. AlignOffset(t.current_stack_offset) <= t.all_syms[i].frame_offset
      BY <1>1, <1>9, <2>1, <3>2, AlignIsLeast
    <3> QED
      BY <1>2, <1>6, <1>7, <2>1, <2>4, <3>3 DEF SlotEnd
  <2> QED
    BY <1>1, <2>2, <2>3, <2>4
\* Every entry of a scope is the new one or one the table had recorded.
<1>13. \A k \in 1 .. L : \A f \in u.scopes[k] :
         \/ k = L /\ f = e
         \/ f \in t.scopes[k] /\ \E i \in 1 .. N : t.all_syms[i] = f
  <2> TAKE k \in 1 .. L
  <2>1. u.scopes[k] \subseteq t.scopes[k] \cup (IF k = L THEN {e} ELSE {})
    BY <1>1, <1>5
  <2> QED
    BY <2>1 DEF TableOK, ScopesRecorded, N, L
<1>14. ScopesRecorded(u)
  <2> SUFFICES ASSUME NEW k \in 1 .. L, NEW f \in u.scopes[k]
               PROVE  \E i \in 1 .. N + 1 : u.all_syms[i] = f
    BY <1>5, <1>6 DEF ScopesRecorded
  <2>1. N + 1 \in 1 .. N + 1 /\ \A i \in 1 .. N : i \in 1 .. N + 1
    BY <1>1
  <2> QED
    BY <1>6, <1>13, <2>1
<1>15. NamesDistinct(u)
  <2> SUFFICES ASSUME NEW k \in 1 .. L, NEW f \in u.scopes[k], NEW g \in u.scopes[k],
                      f.id = g.id
               PROVE  f = g
    BY <1>5 DEF NamesDistinct
  <2>1. \A h \in t.scopes[L] : h.id # id
    BY DEF CanDeclare, Current, L
  <2>2. CASE f \in t.scopes[k] /\ g \in t.scopes[k]
    BY <2>2 DEF TableOK, NamesDistinct, L
  <2> QED
    BY <1>7, <1>13, <2>1, <2>2
<1>16. InnerIsLater(u)
  <2> SUFFICES ASSUME NEW k \in 1 .. L, NEW l \in 1 .. L, k < l,
                      NEW f \in u.scopes[k], NEW g \in u.scopes[l]
               PROVE  g.frame_offset < f.frame_offset
    BY <1>5 DEF InnerIsLater
  <2>1. k # L
    BY <1>1
  <2>2. PICK i \in 1 .. N : f \in t.scopes[k] /\ t.all_syms[i] = f
    BY <1>13, <2>1
  <2>3. CASE g = e
    BY <1>7, <1>9, <2>2, <2>3
  <2>4. CASE g \in t.scopes[l]
    BY <2>2, <2>4 DEF TableOK, InnerIsLater, L
  <2> QED
    BY <1>13, <2>3, <2>4
<1> QED
  BY <1>5, <1>8, <1>10, <1>11, <1>12, <1>14, <1>15, <1>16 DEF TableOK, u, L

-------------------------------------------------------------------------------
(* Min and Max of sets of numbers.                                         *)

LEMMA MinIsLeast ==
  ASSUME NEW S, S \subseteq Nat, S # {}
  PROVE  Min(S) \in S /\ \A y \in S : Min(S) <= y
<1> DEFINE R == OpToRel(<, Nat)
<1>a. IsWellFoundedOn(R, Nat)
  BY NatLessThanWellFounded
<1>b. \A x, y \in Nat : y < x => <<y, x>> \in R
  BY DEF OpToRel
<1> HIDE DEF R
<1>1. PICK x \in S : \A y \in S : ~(<<y, x>> \in R)
  BY <1>a, WFMin
<1>2. \A y \in S : x =< y
  <2> TAKE y \in S
  <2>1. ~(y < x)
    BY <1>1, <1>b
  <2> QED
    BY <2>1
<1> QED
  BY <1>2 DEF Min

\* The greatest element, by the least distance from a bound.
LEMMA MaxIsGreatest ==
  ASSUME NEW n \in Nat, NEW S, S \subseteq 1 .. n, S # {}
  PROVE  Max(S) \in S /\ \A y \in S : y <= Max(S)
<1> DEFINE T == {n - y : y \in S}
<1>1. T \subseteq Nat /\ T # {}
  OBVIOUS
<1>2. Min(T) \in T /\ \A z \in T : Min(T) <= z
  BY <1>1, MinIsLeast
<1>3. PICK x \in S : Min(T) = n - x
  BY <1>2
<1>4. \A y \in S : n - x <= n - y
  BY <1>2, <1>3
<1>5. \A y \in S : x >= y
  BY <1>4
<1> QED
  BY <1>3, <1>5 DEF Max

-------------------------------------------------------------------------------
(* The shape of the tree.                                                  *)

\* The blocks that are open before a node, and after it.
Before(v) == IF v.k \in Markers THEN v.lvl + 1 ELSE v.lvl
Behind(v) == IF v.k \in Openers \cup Clauses THEN v.lvl + 1 ELSE v.lvl

\* What the grammar gives a node: a declaration has a name and a type.
Declares(v) == v.k \in Declarers => v.id \in Ids /\ v.ty \in Types

\* Each node stands where the one before it leaves off.
Nested ==
  /\ ast \in Seq(Node)
  /\ nest \in Seq(AllKinds)
  /\ \A n \in 1 .. Len(ast) : Declares(ast[n])
  /\ ast # <<>> => Before(ast[1]) = 0
  /\ \A n \in 1 .. Len(ast) - 1 : Before(ast[n + 1]) = Behind(ast[n])
  /\ Len(nest) = IF ast = <<>> THEN 0 ELSE Behind(ast[Len(ast)])

\* The invariant: the tree is nested, the walk waits for it to be complete,
\* and its stack of scopes is that of the blocks around it.
WalkInv ==
  /\ Nested
  /\ TableSound
  /\ phase \in Phases
  /\ tcPc \in 1 .. Len(ast) + 1
  /\ phase = "parse" => tcPc = 1 /\ table = NewTable
  /\ phase = "typecheck" => nest = <<>>
  /\ ScopesMatchBlocks

LEMMA NodeMade ==
  ASSUME NEW k \in AllKinds, nest \in Seq(AllKinds), k \in Markers => nest # <<>>,
         NEW v \in NodesOf(k)
  PROVE  v \in Node /\ v.k = k /\ Declares(v) /\ Before(v) = Len(nest)
<1> USE DEF AllKinds, Leaves, Openers, Loops, Markers, Clauses, Declarers
<1>1. \E id \in Ids \cup {None}, ty \in Types \cup {None},
         rd, cd, ep \in Ids \cup {Lit, None} :
           /\ v = Made(k, id, ty, rd, cd, ep)
           /\ k \in Declarers => id \in Ids /\ ty \in Types
  <2> USE AstAssumption DEF NodesOf
  <2>1. CASE k \in {"param", "decl"}
    BY <2>1
  <2>2. CASE k = "init"
    BY <2>2
  <2>3. CASE k = "asst"
    BY <2>3
  <2>4. CASE k = "expr"
    BY <2>4
  <2>5. CASE k \in {"print", "delete"}
    BY <2>5
  <2>6. CASE k = "return"
    BY <2>6
  <2>7. CASE k \in {"if", "elif", "while"}
    BY <2>7
  <2>8. CASE k = "fordcl"
    BY <2>8
  <2>9. CASE k = "forasst"
    BY <2>9
  <2>10. CASE k \in {"else", "end", "break"}
    BY <2>10
  <2> QED
    BY <2>1, <2>2, <2>3, <2>4, <2>5, <2>6, <2>7, <2>8, <2>9, <2>10
<1>2. PICK id \in Ids \cup {None}, ty \in Types \cup {None},
           rd \in Ids \cup {Lit, None}, cd \in Ids \cup {Lit, None},
           ep \in Ids \cup {Lit, None} :
             /\ v = Made(k, id, ty, rd, cd, ep)
             /\ k \in Declarers => id \in Ids /\ ty \in Types
  BY <1>1
<1>3. Len(nest) \in Nat /\ (k \in Markers => Len(nest) > 0)
  OBVIOUS
<1>4. v.k = k /\ v.id = id /\ v.ty = ty
      /\ v.lvl = IF k \in Markers THEN Len(nest) - 1 ELSE Len(nest)
  BY <1>2 DEF Made
<1>5. v \in Node
  BY <1>2, <1>3 DEF Made, Node
<1> QED
  BY <1>2, <1>3, <1>4, <1>5 DEF Declares, Before

LEMMA AppendNested ==
  ASSUME Nested, NEW v \in Node, Declares(v), Before(v) = Len(nest),
         ast' = Append(ast, v), nest' \in Seq(AllKinds), Len(nest') = Behind(v)
  PROVE  Nested'
<1> DEFINE L == Len(ast)
<1>1. /\ L \in Nat /\ ast \in Seq(Node)
      /\ ast' \in Seq(Node) /\ Len(ast') = L + 1 /\ ast'[L + 1] = v
      /\ \A n \in 1 .. L : ast'[n] = ast[n]
  BY DEF Nested
<1> HIDE DEF L
<1>2. \A n \in 1 .. L + 1 : Declares(ast'[n])
  BY <1>1 DEF Nested, L
<1>3. Before(ast'[1]) = 0
  <2>1. CASE L = 0
    BY <1>1, <2>1 DEF Nested, L
  <2>2. CASE L > 0
    BY <1>1, <2>2 DEF Nested, L
  <2> QED
    BY <1>1, <2>1, <2>2
<1>4. \A n \in 1 .. L : Before(ast'[n + 1]) = Behind(ast'[n])
  <2> TAKE n \in 1 .. L
  <2>1. CASE n = L
    BY <1>1, <2>1 DEF Nested, L
  <2>2. CASE n \in 1 .. L - 1
    BY <1>1, <2>2 DEF Nested, L
  <2> QED
    BY <1>1, <2>1, <2>2
<1>5. ast' # <<>> /\ Len(nest') = Behind(ast'[Len(ast')])
  BY <1>1
<1> QED
  BY <1>1, <1>2, <1>3, <1>4, <1>5, SMTT(40) DEF Nested, Declares, Before, Behind


-------------------------------------------------------------------------------
(* The blocks around a node.                                               *)

\* The walk leaves a node in the blocks that the next node is in.
LEMMA DepthStep ==
  ASSUME Nested, nest = <<>>, NEW n \in 1 .. Len(ast)
  PROVE  /\ DepthBefore(n) = Before(ast[n])
         /\ DepthBefore(n + 1) = Behind(ast[n])
         /\ ast[n] \in Node /\ ast[n].lvl \in Nat /\ Declares(ast[n])
<1>1. /\ Len(ast) \in Nat /\ ast[n] \in Node /\ ast # <<>>
      /\ Len(nest) = 0
  BY DEF Nested
<1>2. DepthBefore(n) = Before(ast[n])
  BY <1>1 DEF DepthBefore, Before
<1>3. CASE n = Len(ast)
  BY <1>1, <1>2, <1>3 DEF Nested, DepthBefore, Node
<1>4. CASE n \in 1 .. Len(ast) - 1
  <2>1. DepthBefore(n + 1) = Before(ast[n + 1])
    BY <1>1, <1>4 DEF DepthBefore, Before
  <2> QED
    BY <1>1, <1>2, <1>4, <2>1 DEF Nested, Node
<1> QED
  BY <1>1, <1>3, <1>4

\* A block that a node inside the procedure's own block is in ends, later, at
\* a marker: the first node after which fewer blocks are open.
LEMMA BlockCloses ==
  ASSUME Nested, nest = <<>>, NEW n \in 1 .. Len(ast),
         Before(ast[n]) = ast[n].lvl, Behind(ast[n]) = ast[n].lvl, ast[n].lvl > 0
  PROVE  \E m \in n + 1 .. Len(ast) : ast[m].k \in Markers /\ ast[m].lvl = ast[n].lvl - 1
<1> DEFINE l == ast[n].lvl
           S == {m \in n + 1 .. Len(ast) + 1 : DepthBefore(m) < l}
<1>1. /\ Len(ast) \in Nat /\ l \in Nat /\ l > 0
      /\ DepthBefore(n) = l /\ DepthBefore(n + 1) = l
  BY DepthStep DEF Nested
<1>2. Len(ast) + 1 \in S /\ S \subseteq Nat
  BY <1>1 DEF DepthBefore
<1> DEFINE m == Min(S)
<1>3. m \in S /\ \A y \in S : m <= y
  BY <1>2, MinIsLeast
<1> HIDE DEF m
<1>4. /\ m \in n + 1 .. Len(ast) + 1 /\ DepthBefore(m) < l
      /\ m # n + 1
  BY <1>1, <1>3
<1>5. m - 1 \in n + 1 .. Len(ast) /\ m - 1 \in 1 .. Len(ast)
  BY <1>1, <1>4
<1>6. /\ DepthBefore(m - 1) = Before(ast[m - 1])
      /\ DepthBefore(m) = Behind(ast[m - 1])
      /\ ast[m - 1].lvl \in Nat
  BY <1>4, <1>5, DepthStep
<1>7. ~(Before(ast[m - 1]) < l)
  BY <1>3, <1>4, <1>5, <1>6
<1>8. ast[m - 1].k \in Markers /\ ast[m - 1].lvl = l - 1
  BY <1>1, <1>4, <1>6, <1>7, SMTT(40) DEF Before, Behind, Markers, Clauses, Openers, Loops
<1> QED
  BY <1>5, <1>8

\* Where the walk goes after a return, it is in the block around the one it
\* has left, just before that block's end.
LEMMA BlockEndDepth ==
  ASSUME Nested, nest = <<>>, NEW n \in 1 .. Len(ast),
         Before(ast[n]) = ast[n].lvl, Behind(ast[n]) = ast[n].lvl
  PROVE  /\ BlockEnd(n) \in 1 .. Len(ast) + 1
         /\ DepthBefore(BlockEnd(n)) = ast[n].lvl
<1> DEFINE l == ast[n].lvl
           E == {m \in n + 1 .. Len(ast) : ast[m].k \in Markers /\ ast[m].lvl = l - 1}
           S == E \cup {Len(ast) + 1}
<1>1. Len(ast) \in Nat /\ l \in Nat /\ \A m \in 1 .. Len(ast) : ast[m].lvl \in Nat
  BY DepthStep DEF Nested
<1>2. BlockEnd(n) = Min(S)
  BY DEF BlockEnd
<1>3. S \subseteq Nat /\ S # {}
  BY <1>1
<1>4. BlockEnd(n) \in S /\ \A y \in S : BlockEnd(n) <= y
  BY <1>2, <1>3, MinIsLeast
<1>5. BlockEnd(n) \in 1 .. Len(ast) + 1
  BY <1>1, <1>4
<1>6. CASE l = 0
  <2>1. E = {}
    BY <1>1, <1>6
  <2>2. BlockEnd(n) = Len(ast) + 1
    BY <1>4, <2>1
  <2> QED
    BY <1>1, <1>5, <1>6, <2>2 DEF DepthBefore
<1>7. CASE l > 0
  <2>1. PICK m \in E : TRUE
    BY <1>7, BlockCloses
  <2>2. BlockEnd(n) \in E
    BY <1>1, <1>4, <2>1
  <2>3. BlockEnd(n) \in 1 .. Len(ast)
    BY <1>1, <2>2
  <2>4. DepthBefore(BlockEnd(n)) = Before(ast[BlockEnd(n)])
    BY <2>3, DepthStep
  <2> QED
    BY <1>1, <1>5, <2>2, <2>4 DEF Before
<1> QED
  BY <1>1, <1>6, <1>7

-------------------------------------------------------------------------------
(* The parser's steps.                                                     *)

LEMMA SetLast ==
  ASSUME NEW K, NEW s \in Seq(K), s # <<>>, NEW k \in K
  PROVE  /\ [s EXCEPT ![Len(s)] = k] \in Seq(K)
         /\ Len([s EXCEPT ![Len(s)] = k]) = Len(s)
<1> DEFINE u == [s EXCEPT ![Len(s)] = k]
<1>1. Len(s) \in Nat /\ s \in [1 .. Len(s) -> K]
  OBVIOUS
<1>2. u \in [1 .. Len(s) -> K]
  BY <1>1
<1> QED
  BY <1>1, <1>2

LEMMA DropLast ==
  ASSUME NEW K, NEW s \in Seq(K), s # <<>>
  PROVE  /\ SubSeq(s, 1, Len(s) - 1) \in Seq(K)
         /\ Len(SubSeq(s, 1, Len(s) - 1)) = Len(s) - 1
<1> DEFINE n == Len(s) - 1
<1>1. n \in Nat /\ n <= Len(s)
  OBVIOUS
<1> HIDE DEF n
<1>2. SubSeq(s, 1, n) \in Seq(K) /\ Len(SubSeq(s, 1, n)) = n
  BY <1>1
<1> QED
  BY <1>2 DEF n

LEMMA ParseNested ==
  ASSUME WalkInv, Parse
  PROVE  Nested' /\ phase' \in {"parse", "typecheck"}
<1> USE DEF AllKinds, Leaves, Openers, Loops, Markers, Clauses
<1>1. Nested /\ nest \in Seq(AllKinds) /\ Len(nest) \in Nat
  BY DEF WalkInv, Nested
<1>2. CASE ParseParam
  <2>1. PICK v \in NodesOf("param") : ast' = Append(ast, v)
    BY <1>2 DEF ParseParam, Add
  <2>2. v \in Node /\ v.k = "param" /\ Declares(v) /\ Before(v) = Len(nest)
    BY <1>1, NodeMade
  <2>3. Len(nest') = Behind(v) /\ nest' \in Seq(AllKinds)
    BY <1>1, <1>2, <2>2 DEF ParseParam, Before, Behind
  <2> QED
    BY <1>1, <1>2, <2>1, <2>2, <2>3, AppendNested DEF ParseParam
<1>3. CASE ParseStatement
  <2>0. PICK k \in Leaves : \E v \in NodesOf(k) : ast' = Append(ast, v)
    BY <1>3 DEF ParseStatement, Add
  <2>1. PICK v \in NodesOf(k) : ast' = Append(ast, v)
    BY <2>0
  <2>2. v \in Node /\ v.k = k /\ Declares(v) /\ Before(v) = Len(nest)
    BY <1>1, NodeMade
  <2>3. Len(nest') = Behind(v) /\ nest' \in Seq(AllKinds)
    BY <1>1, <1>3, <2>2 DEF ParseStatement, Before, Behind
  <2> QED
    BY <1>1, <1>3, <2>1, <2>2, <2>3, AppendNested DEF ParseStatement
<1>4. CASE ParseOpener
  <2>0. PICK k \in Openers : \E v \in NodesOf(k) :
          ast' = Append(ast, v) /\ nest' = Append(nest, k)
    BY <1>4 DEF ParseOpener, Add
  <2>1. PICK v \in NodesOf(k) :
          ast' = Append(ast, v) /\ nest' = Append(nest, k)
    BY <2>0
  <2>2. v \in Node /\ v.k = k /\ Declares(v) /\ Before(v) = Len(nest)
    BY <1>1, NodeMade
  <2>3. Len(nest') = Behind(v) /\ nest' \in Seq(AllKinds)
    <3>1. k \in AllKinds
      OBVIOUS
    <3>2. nest' \in Seq(AllKinds) /\ Len(nest') = Len(nest) + 1
      BY <1>1, <2>1, <3>1
    <3> QED
      BY <2>2, <3>2 DEF Before, Behind
  <2> QED
    BY <1>1, <1>4, <2>1, <2>2, <2>3, AppendNested DEF ParseOpener
<1>5. CASE ParseClause
  <2>0. PICK k \in Clauses : \E v \in NodesOf(k) :
          ast' = Append(ast, v) /\ nest' = [nest EXCEPT ![Len(nest)] = k]
    BY <1>5 DEF ParseClause, Add
  <2>1. PICK v \in NodesOf(k) :
          ast' = Append(ast, v) /\ nest' = [nest EXCEPT ![Len(nest)] = k]
    BY <2>0
  <2>2. v \in Node /\ v.k = k /\ Declares(v) /\ Before(v) = Len(nest)
    BY <1>1, <1>5, NodeMade DEF ParseClause
  <2>3. Len(nest') = Behind(v) /\ nest' \in Seq(AllKinds)
    <3>1. k \in AllKinds
      OBVIOUS
    <3>2. nest' \in Seq(AllKinds) /\ Len(nest') = Len(nest)
      <4> HIDE DEF AllKinds
      <4> QED
        BY <1>1, <1>5, <2>1, <3>1, SetLast DEF ParseClause
    <3>3. Behind(v) = v.lvl + 1 /\ Before(v) = v.lvl + 1
      BY <2>2 DEF Before, Behind
    <3> QED
      BY <2>2, <3>2, <3>3
  <2> QED
    BY <1>1, <1>5, <2>1, <2>2, <2>3, AppendNested DEF ParseClause
<1>6. CASE ParseEnd
  <2>1. PICK v \in NodesOf("end") : ast' = Append(ast, v)
    BY <1>6 DEF ParseEnd, Add
  <2>2. v \in Node /\ v.k = "end" /\ Declares(v) /\ Before(v) = Len(nest)
    BY <1>1, <1>6, NodeMade DEF ParseEnd
  <2>3. Len(nest') = Behind(v) /\ nest' \in Seq(AllKinds)
    <3>1. nest # <<>> /\ nest' = SubSeq(nest, 1, Len(nest) - 1)
      BY <1>6 DEF ParseEnd
    <3>2. nest' \in Seq(AllKinds) /\ Len(nest') = Len(nest) - 1
      <4> HIDE DEF AllKinds
      <4> QED
        BY <1>1, <3>1, DropLast
    <3>3. Behind(v) = v.lvl /\ Before(v) = v.lvl + 1 /\ v.lvl \in Nat
      BY <2>2 DEF Before, Behind, Node
    <3> QED
      BY <2>2, <3>2, <3>3
  <2> QED
    BY <1>1, <1>6, <2>1, <2>2, <2>3, AppendNested DEF ParseEnd
<1>7. CASE ParseDone
  BY <1>1, <1>7 DEF ParseDone, Nested
<1>8. phase' \in {"parse", "typecheck"}
  BY DEF Parse, ParseParam, ParseStatement, ParseOpener, ParseClause, ParseEnd, ParseDone
<1> QED
  BY <1>2, <1>3, <1>4, <1>5, <1>6, <1>7, <1>8 DEF Parse

LEMMA ParseStep ==
  ASSUME WalkInv, Parse, UNCHANGED <<tcPc, table, attributes>>
  PROVE  WalkInv'
<1>1. Nested' /\ phase' \in {"parse", "typecheck"}
  BY ParseNested
<1>2. phase = "parse" /\ tcPc = 1 /\ table = NewTable /\ tcPc' = 1 /\ table' = NewTable
  BY DEF Parse, ParseParam, ParseStatement, ParseOpener, ParseClause, ParseEnd, ParseDone,
         WalkInv
<1>3. TableSound'
  BY <1>2 DEF WalkInv, TableSound
<1>4. tcPc' \in 1 .. Len(ast') + 1
  BY <1>1, <1>2 DEF Nested
<1>5. ASSUME phase' = "typecheck"
      PROVE  /\ nest' = <<>>
             /\ Len(table'.scopes) = 1 + DepthBefore(tcPc)'
  <2>1. ParseDone /\ ast' = ast /\ nest' = nest /\ nest = <<>>
    BY <1>2, <1>5 DEF Parse, ParseParam, ParseStatement, ParseOpener, ParseClause,
                      ParseEnd, ParseDone
  <2>2. DepthBefore(1) = 0
    BY DEF WalkInv, Nested, DepthBefore, Before
  <2>3. DepthBefore(tcPc)' = 0
    BY <1>2, <2>1, <2>2 DEF DepthBefore
  <2>4. Len(NewTable.scopes) = 1
    BY DEF NewTable
  <2> QED
    BY <1>2, <2>1, <2>3, <2>4
<1> QED
  BY <1>1, <1>2, <1>3, <1>4, <1>5 DEF WalkInv, Phases, ScopesMatchBlocks

-------------------------------------------------------------------------------
(* The walk's steps.                                                       *)

\* Where the walk stands at a node, and where it would go next.
LEMMA AtNode ==
  ASSUME WalkInv, NEW kinds, At(kinds)
  PROVE  /\ phase = "typecheck" /\ nest = <<>> /\ Nested
         /\ tcPc \in 1 .. Len(ast) /\ tcPc + 1 \in 1 .. Len(ast) + 1
         /\ Visited.k \in kinds /\ Visited.lvl \in Nat /\ Declares(Visited)
         /\ TableOK(table)
         /\ Len(table.scopes) = 1 + Before(Visited) /\ Len(table.scopes) > 0
         /\ DepthBefore(tcPc + 1) = Behind(Visited)
<1>1. /\ phase = "typecheck" /\ nest = <<>> /\ Nested
      /\ tcPc \in 1 .. Len(ast) /\ tcPc + 1 \in 1 .. Len(ast) + 1
      /\ Visited.k \in kinds /\ TableOK(table)
      /\ Len(table.scopes) = 1 + DepthBefore(tcPc)
  BY DEF WalkInv, At, TableSound, ScopesMatchBlocks, Nested
<1>2. /\ DepthBefore(tcPc) = Before(Visited)
      /\ DepthBefore(tcPc + 1) = Behind(Visited)
      /\ Visited.lvl \in Nat /\ Declares(Visited)
  BY <1>1, DepthStep DEF Visited
<1> QED
  BY <1>1, <1>2 DEF Before

\* A step that goes on keeps the invariant if the table it leaves is right
\* for the place it goes to.
LEMMA GoOnStep ==
  ASSUME WalkInv, phase = "typecheck", NEW ok, NEW t, NEW next, GoOn(ok, t, next),
         TableOK(t), next \in 1 .. Len(ast) + 1, Len(t.scopes) = 1 + DepthBefore(next)
  PROVE  WalkInv'
<1>1. /\ phase' = phase /\ ast' = ast /\ nest' = nest /\ table' = t /\ tcPc' = next
  BY DEF GoOn
<1>2. Nested'
  BY <1>1 DEF WalkInv, Nested
<1>3. DepthBefore(tcPc)' = DepthBefore(next)
  BY <1>1 DEF DepthBefore
<1> QED
  BY <1>1, <1>2, <1>3 DEF WalkInv, TableSound, ScopesMatchBlocks, Phases

\* A step that leaves the phase for another after it leaves the rest alone.
LEMMA LeaveStep ==
  ASSUME WalkInv, phase' \in Phases \ {"parse", "typecheck"}, UNCHANGED <<ast, nest, tcPc, table>>
  PROVE  WalkInv'
<1>1. Nested'
  BY DEF WalkInv, Nested
<1> QED
  BY <1>1 DEF WalkInv, TableSound, ScopesMatchBlocks

LEMMA RejectStep ==
  ASSUME WalkInv, NEW ok, Reject(ok)
  PROVE  WalkInv'
BY LeaveStep DEF Reject, Phases

LEMMA VisitStep ==
  ASSUME WalkInv, TcVisit
  PROVE  WalkInv'
<1> USE DEF Before, Behind, Markers, Clauses, Openers, Loops
<1> DEFINE v == Visited
\* The declarations.
<1>1. CASE TcParam \/ TcDeclaration \/ TcVarInit
  <2> DEFINE t == DeclareVariable(table, v.id, v.ty)
  <2>1. At({"param", "decl", "init"})
    BY <1>1 DEF TcParam, TcDeclaration, TcVarInit, At
  <2>2. v.id \in Ids /\ v.ty \in Types /\ Len(table.scopes) = 1 + v.lvl
        /\ DepthBefore(tcPc + 1) = v.lvl
    BY <2>1, AtNode DEF Declares, Declarers
  <2>3. CASE \E ok : GoOn(ok /\ CanDeclare(table, v.id), t, tcPc + 1)
    <3>1. PICK ok : GoOn(ok /\ CanDeclare(table, v.id), t, tcPc + 1)
      BY <2>3
    <3>2. CanDeclare(table, v.id)
      BY <3>1 DEF GoOn
    <3>3. TableOK(t) /\ Len(t.scopes) = Len(table.scopes)
      BY <2>1, <2>2, <3>2, AtNode, DeclareVariableOK
    <3> QED
      BY <2>1, <2>2, <3>1, <3>3, AtNode, GoOnStep
  <2>4. CASE \E ok : Reject(ok)
    BY <2>4, RejectStep
  <2> QED
    BY <1>1, <2>3, <2>4 DEF TcParam, TcDeclaration, TcVarInit, GoOn
\* The statements that only look names up.
<1>2. CASE TcAssignment \/ TcExpression \/ TcBreak
  <2>1. At({"asst", "expr", "print", "delete", "break"})
    BY <1>2 DEF TcAssignment, TcExpression, TcBreak, At
  <2>2. Len(table.scopes) = 1 + v.lvl /\ DepthBefore(tcPc + 1) = v.lvl
    BY <2>1, AtNode
  <2>3. CASE \E ok : GoOn(ok, table, tcPc + 1)
    BY <2>1, <2>2, <2>3, AtNode, GoOnStep
  <2>4. CASE \E ok : Reject(ok)
    BY <2>4, RejectStep
  <2> QED
    BY <1>2, <2>3, <2>4 DEF TcAssignment, TcExpression, TcBreak
<1>3. CASE TcReturn
  <2>1. At({"return"})
    BY <1>3 DEF TcReturn
  <2>2. Before(ast[tcPc]) = ast[tcPc].lvl /\ Behind(ast[tcPc]) = ast[tcPc].lvl
    BY <2>1, AtNode DEF Visited
  <2>3. /\ BlockEnd(tcPc) \in 1 .. Len(ast) + 1
        /\ DepthBefore(BlockEnd(tcPc)) = v.lvl
    BY <2>1, <2>2, AtNode, BlockEndDepth DEF Visited
  <2>4. CASE \E ok : GoOn(ok, table, BlockEnd(tcPc))
    BY <2>1, <2>2, <2>3, <2>4, AtNode, GoOnStep DEF Visited
  <2>5. CASE \E ok : Reject(ok)
    BY <2>5, RejectStep
  <2> QED
    BY <1>3, <2>4, <2>5 DEF TcReturn, AfterReturnStatement
\* The statements that open a block, and the markers that close one.
<1>4. CASE TcBranch \/ TcForAssignment
  <2>1. At({"if", "while", "forasst"})
    BY <1>4 DEF TcBranch, TcForAssignment, At
  <2>2. Len(table.scopes) = 1 + v.lvl /\ DepthBefore(tcPc + 1) = v.lvl + 1
    BY <2>1, AtNode
  <2>3. TableOK(EnterScope(table)) /\ Len(EnterScope(table).scopes) = Len(table.scopes) + 1
    BY <2>1, AtNode, EnterScopeOK
  <2>4. CASE \E ok : GoOn(ok, EnterScope(table), tcPc + 1)
    BY <2>1, <2>2, <2>3, <2>4, AtNode, GoOnStep
  <2>5. CASE \E ok : Reject(ok)
    BY <2>5, RejectStep
  <2> QED
    BY <1>4, <2>4, <2>5 DEF TcBranch, TcForAssignment
<1>5. CASE TcForDeclaration
  <2> DEFINE s == EnterScope(table)
             t == DeclareVariable(s, v.id, v.ty)
  <2>1. At({"fordcl"})
    BY <1>5 DEF TcForDeclaration
  <2>2. v.id \in Ids /\ v.ty \in Types /\ Len(table.scopes) = 1 + v.lvl
        /\ DepthBefore(tcPc + 1) = v.lvl + 1
    BY <2>1, AtNode DEF Declares, Declarers
  <2>3. TableOK(s) /\ Len(s.scopes) = Len(table.scopes) + 1 /\ Len(s.scopes) > 0
    BY <2>1, AtNode, EnterScopeOK
  <2>4. CASE \E ok : GoOn(ok /\ CanDeclare(s, v.id), t, tcPc + 1)
    <3>1. PICK ok : GoOn(ok /\ CanDeclare(s, v.id), t, tcPc + 1)
      BY <2>4
    <3>2. CanDeclare(s, v.id)
      BY <3>1 DEF GoOn
    <3>3. TableOK(t) /\ Len(t.scopes) = Len(s.scopes)
      BY <2>2, <2>3, <3>2, DeclareVariableOK
    <3> QED
      BY <2>1, <2>2, <2>3, <3>1, <3>3, AtNode, GoOnStep
  <2>5. CASE \E ok : Reject(ok)
    BY <2>5, RejectStep
  <2> QED
    BY <1>5, <2>4, <2>5 DEF TcForDeclaration, GoOn
<1>6. CASE TcClause
  <2> DEFINE s == ExitScope(table)
  <2>1. At(Clauses)
    BY <1>6 DEF TcClause
  <2>2. Len(table.scopes) = 2 + v.lvl /\ DepthBefore(tcPc + 1) = v.lvl + 1
    BY <2>1, AtNode
  <2>3. TableOK(s) /\ Len(s.scopes) = Len(table.scopes) - 1
    BY <2>1, AtNode, ExitScopeOK
  <2>4. TableOK(EnterScope(s)) /\ Len(EnterScope(s).scopes) = Len(s.scopes) + 1
    BY <2>3, EnterScopeOK
  <2>5. CASE \E ok : GoOn(ok, EnterScope(s), tcPc + 1)
    BY <2>1, <2>2, <2>3, <2>4, <2>5, AtNode, GoOnStep
  <2>6. CASE \E ok : Reject(ok)
    BY <2>6, RejectStep
  <2> QED
    BY <1>6, <2>5, <2>6 DEF TcClause
<1>7. CASE TcEnd
  <2>1. At({"end"})
    BY <1>7 DEF TcEnd
  <2>2. Len(table.scopes) = 2 + v.lvl /\ DepthBefore(tcPc + 1) = v.lvl
    BY <2>1, AtNode
  <2>3. TableOK(ExitScope(table)) /\ Len(ExitScope(table).scopes) = Len(table.scopes) - 1
    BY <2>1, AtNode, ExitScopeOK
  <2>4. \E ok : GoOn(ok, ExitScope(table), tcPc + 1)
    BY <1>7 DEF TcEnd
  <2> QED
    BY <2>1, <2>2, <2>3, <2>4, AtNode, GoOnStep
<1>8. CASE TcDone
  BY <1>8, LeaveStep DEF TcDone, Phases
<1> QED
  BY <1>1, <1>2, <1>3, <1>4, <1>5, <1>6, <1>7, <1>8 DEF TcVisit

-------------------------------------------------------------------------------
(* The theorems.                                                           *)

LEMMA WalkInvInit == TcInit => WalkInv
<1> SUFFICES ASSUME TcInit PROVE WalkInv
  OBVIOUS
<1>1. phase = "parse" /\ ast = <<>> /\ nest = <<>> /\ tcPc = 1 /\ table = NewTable
  BY DEF TcInit, ParseInit
<1>2. Nested
  BY <1>1 DEF Nested
<1>3. TableSound
  BY <1>1, NewTableOK DEF TableSound
<1> QED
  BY <1>1, <1>2, <1>3 DEF WalkInv, Phases, ScopesMatchBlocks

LEMMA WalkInvNext == WalkInv /\ [TcNext]_tcVars => WalkInv'
<1> SUFFICES ASSUME WalkInv, [TcNext]_tcVars PROVE WalkInv'
  OBVIOUS
<1>1. CASE Parse /\ UNCHANGED <<tcPc, table, attributes>>
  BY <1>1, ParseStep
<1>2. CASE TcVisit
  BY <1>2, VisitStep
<1>3. CASE UNCHANGED tcVars
  <2>1. UNCHANGED <<phase, ast, nest, tcPc, table>>
    BY <1>3 DEF tcVars
  <2>2. Nested' /\ DepthBefore(tcPc)' = DepthBefore(tcPc)
    BY <2>1 DEF WalkInv, Nested, DepthBefore
  <2> QED
    BY <2>1, <2>2 DEF WalkInv, TableSound, ScopesMatchBlocks
<1> QED
  BY <1>1, <1>2, <1>3 DEF TcNext

LEMMA WalkInvariant == TcSpec => []WalkInv
BY WalkInvInit, WalkInvNext, PTL DEF TcSpec

\* Whatever a program declares and wherever, its symbol table gives distinct,
\* aligned slots and keeps the latest symbols in the innermost scopes
\* (SymbolTable, as TypeChecker calls it).
THEOREM TableIsSound == TcSpec => []TableSound
<1>1. WalkInv => TableSound
  BY DEF WalkInv
<1> QED
  BY <1>1, WalkInvariant, PTL

\* At every node the scopes of the table are the blocks around the node:
\* every enter_scope meets its exit_scope on every path TypeChecker takes,
\* the early exits of BlockNode included.
THEOREM ScopesAreBlocks == TcSpec => []ScopesMatchBlocks
<1>1. WalkInv => ScopesMatchBlocks
  BY DEF WalkInv
<1> QED
  BY <1>1, WalkInvariant, PTL

-------------------------------------------------------------------------------
(* A break that TypeChecker has checked targets the innermost loop around  *)
(* it, whatever if trees and ended loops lie between them, and however the *)
(* walk's returns have cut blocks short.                                   *)

\* There is room for every node and for the ends of the open blocks.
Fits == Len(ast) + Len(nest) <= MaxNodes

\* Each break the walk has passed, unless a return cut it off, has its target.
Targets ==
  \A n \in 1 .. Len(ast) :
    ast[n].k = "break" /\ Checked(n) =>
      loop_target[n] = EnclosingLoop(n) /\ LoopsAround(n) # {}

BreakInv ==
  /\ WalkInv
  /\ Fits
  /\ DOMAIN loop_target = 1 .. MaxNodes
  /\ phase # "parse" => Targets

-------------------------------------------------------------------------------
(* Its consequence.                                                        *)

LEMMA NodesTyped ==
  ASSUME Nested
  PROVE  Len(ast) \in Nat /\ \A i \in 1 .. Len(ast) : ast[i] \in Node /\ ast[i].lvl \in Nat
<1>1. Len(ast) \in Nat /\ \A i \in 1 .. Len(ast) : ast[i] \in Node
  BY DEF Nested
<1> QED
  BY <1>1 DEF Node

\* A block that has ended before n, inside which n would otherwise be, has its
\* end marker before n.
LEMMA EndsBefore ==
  ASSUME Nested, NEW n \in 1 .. Len(ast), ast[n].k \notin Markers,
         NEW m \in 1 .. n - 1, ast[m].k \in Loops,
         \E j \in m + 1 .. n : ~(ast[j].lvl > ast[m].lvl)
  PROVE  BodyEnd(m) < n
<1> DEFINE l == ast[m].lvl
           S == {j \in m + 1 .. n : ~(ast[j].lvl > l)}
           j == Min(S)
<1>1. Len(ast) \in Nat /\ \A i \in 1 .. Len(ast) : ast[i] \in Node /\ ast[i].lvl \in Nat
  BY NodesTyped
<1>2. S \subseteq Nat /\ S # {}
  BY <1>1
<1>3. j \in S /\ \A y \in S : j <= y
  BY <1>2, MinIsLeast
<1> HIDE DEF j
<1>4. j \in m + 1 .. n /\ ~(ast[j].lvl > l) /\ j \in 1 .. Len(ast) /\ j - 1 \in 1 .. Len(ast) - 1
      /\ l \in Nat /\ ast[j].lvl \in Nat
  BY <1>1, <1>3
<1>5. Before(ast[j]) = Behind(ast[j - 1])
  <2>1. (j - 1) + 1 = j
    BY <1>4
  <2> QED
    BY <1>4, <2>1 DEF Nested
<1>6. Behind(ast[j - 1]) > l
  <2>1. CASE j = m + 1
    <3>1. j - 1 = m
      BY <2>1
    <3> QED
      BY <1>4, <3>1 DEF Behind, Openers
  <2>2. CASE j # m + 1
    <3>1. j - 1 \in m + 1 .. n /\ j - 1 \notin S
      BY <1>3, <1>4, <2>2, SMTT(40)
    <3>2. ast[j - 1].lvl > l /\ ast[j - 1].lvl \in Nat
      BY <1>1, <1>4, <3>1
    <3> QED
      BY <1>4, <3>2, SMTT(40) DEF Behind
  <2> QED
    BY <2>1, <2>2
<1>7. ast[j].k \in Markers /\ ast[j].lvl = l
  BY <1>4, <1>5, <1>6 DEF Before
<1>8. j < n
  BY <1>4, <1>7
<1> DEFINE E == {i \in m + 1 .. Len(ast) : ast[i].k \in Markers /\ ast[i].lvl = l}
                \cup {Len(ast) + 1}
<1>9. j \in E /\ E \subseteq Nat
  BY <1>1, <1>4, <1>7
<1>10. Min(E) <= j /\ Min(E) \in Nat
  BY <1>9, MinIsLeast
<1>11. BodyEnd(m) = Min(E)
  BY DEF BodyEnd
<1> QED
  BY <1>4, <1>8, <1>10, <1>11

\* The loop that BreakNode's walk up the parents stops at.
LEMMA InnermostLoop ==
  ASSUME Nested, NEW n \in 1 .. Len(ast), ast[n].k = "break", LoopsAround(n) # {}
  PROVE  LET target == EnclosingLoop(n)
         IN  /\ target \in 1 .. n - 1 /\ ast[target].k \in Loops /\ n < BodyEnd(target)
             /\ \A m \in target + 1 .. n - 1 : ast[m].k \in Loops => BodyEnd(m) < n
<1> DEFINE t == EnclosingLoop(n)
<1>1. Len(ast) \in Nat /\ \A i \in 1 .. Len(ast) : ast[i] \in Node /\ ast[i].lvl \in Nat
  BY NodesTyped
<1>2. LoopsAround(n) \subseteq 1 .. n - 1 /\ n - 1 \in Nat
  BY <1>1 DEF LoopsAround, Around
<1>3. t \in LoopsAround(n) /\ \A y \in LoopsAround(n) : y <= t
  BY <1>2, MaxIsGreatest DEF EnclosingLoop
<1> HIDE DEF t
<1>4. /\ t \in 1 .. n - 1 /\ ast[t].k \in Loops
      /\ \A j \in t + 1 .. n : ast[j].lvl > ast[t].lvl
  BY <1>3 DEF LoopsAround, Around
<1>5. n < BodyEnd(t)
  <2> DEFINE E == {i \in t + 1 .. Len(ast) : ast[i].k \in Markers /\ ast[i].lvl = ast[t].lvl}
                  \cup {Len(ast) + 1}
  <2>1. E \subseteq Nat /\ E # {}
    BY <1>1, <1>4
  <2>2. Min(E) \in E
    BY <2>1, MinIsLeast
  <2>3. \A i \in E : n < i
    <3> TAKE i \in E
    <3>1. CASE i = Len(ast) + 1
      BY <1>1, <3>1
    <3>2. CASE i \in t + 1 .. Len(ast) /\ ast[i].lvl = ast[t].lvl
      <4>1. i \in 1 .. Len(ast) /\ ~(ast[i].lvl > ast[t].lvl)
        BY <1>1, <1>4, <3>2
      <4> QED
        BY <1>1, <1>4, <3>2, <4>1
    <3> QED
      BY <3>1, <3>2
  <2>4. BodyEnd(t) = Min(E)
    BY DEF BodyEnd
  <2> QED
    BY <2>2, <2>3, <2>4
<1>6. ASSUME NEW m \in t + 1 .. n - 1, ast[m].k \in Loops
      PROVE  BodyEnd(m) < n
  <2>1. m \in 1 .. n - 1 /\ m \notin LoopsAround(n)
    BY <1>1, <1>3, <1>4
  <2>2. \E j \in m + 1 .. n : ~(ast[j].lvl > ast[m].lvl)
    BY <1>6, <2>1 DEF LoopsAround, Around, Openers
  <2>3. ast[n].k \notin Markers
    BY DEF Markers, Clauses
  <2> QED
    BY <1>6, <2>1, <2>2, <2>3, EndsBefore
<1> QED
  BY <1>4, <1>5, <1>6 DEF t

-------------------------------------------------------------------------------
(* The steps.                                                              *)

LEMMA ParseFits ==
  ASSUME WalkInv, Fits, Parse
  PROVE  Fits'
<1>1. Len(ast) \in Nat /\ Len(nest) \in Nat /\ ast \in Seq(Node) /\ nest \in Seq(AllKinds)
      /\ MaxNodes \in Nat
  BY AstAssumption DEF WalkInv, Nested
<1>2. CASE ParseParam \/ ParseStatement
  <2>1. PICK v : ast' = Append(ast, v)
    BY <1>2 DEF ParseParam, ParseStatement, Add
  <2>2. nest' = nest /\ Len(ast) + Len(nest) + 1 <= MaxNodes
    BY <1>2 DEF ParseParam, ParseStatement, Room
  <2>3. Len(ast') = Len(ast) + 1
    BY <1>1, <2>1
  <2> QED
    BY <1>1, <2>2, <2>3 DEF Fits
<1>3. CASE ParseOpener
  <2>1. PICK v, k : ast' = Append(ast, v) /\ nest' = Append(nest, k)
    BY <1>3 DEF ParseOpener, Add
  <2>2. Len(ast) + Len(nest) + 2 <= MaxNodes
    BY <1>3 DEF ParseOpener, Room
  <2>3. Len(ast') = Len(ast) + 1 /\ Len(nest') = Len(nest) + 1
    BY <1>1, <2>1
  <2> QED
    BY <1>1, <2>2, <2>3 DEF Fits
<1>4. CASE ParseClause
  <2>1. PICK v, k : k \in AllKinds /\ ast' = Append(ast, v) /\ nest' = [nest EXCEPT ![Len(nest)] = k]
    BY <1>4 DEF ParseClause, Add, AllKinds, Markers
  <2>2. Len(ast) + Len(nest) + 1 <= MaxNodes /\ nest # <<>>
    BY <1>4 DEF ParseClause, Room
  <2>3. Len(ast') = Len(ast) + 1 /\ Len(nest') = Len(nest)
    BY <1>1, <2>1, <2>2, SetLast
  <2> QED
    BY <1>1, <2>2, <2>3 DEF Fits
<1>5. CASE ParseEnd
  <2>1. PICK v : ast' = Append(ast, v)
    BY <1>5 DEF ParseEnd, Add
  <2>2. nest # <<>> /\ nest' = SubSeq(nest, 1, Len(nest) - 1)
    BY <1>5 DEF ParseEnd
  <2>3. Len(ast') = Len(ast) + 1 /\ Len(nest') = Len(nest) - 1
    BY <1>1, <2>1, <2>2, DropLast
  <2> QED
    BY <1>1, <2>3 DEF Fits
<1>6. CASE ParseDone
  BY <1>6 DEF ParseDone, Fits
<1> QED
  BY <1>2, <1>3, <1>4, <1>5, <1>6 DEF Parse

\* What is checked, and what it should be, is read off the tree and tcPc.
LEMMA TargetsKeep ==
  ASSUME Targets, UNCHANGED <<ast, loop_target>>, Len(ast) \in Nat, tcPc \in Nat, tcPc' \in Nat,
         \A n \in 1 .. Len(ast) : tcPc <= n /\ n < tcPc' => ast[n].k # "break" \/ AfterReturn(n)
  PROVE  Targets'
<1>1. ASSUME NEW n \in 1 .. Len(ast), ast[n].k = "break", Checked(n)'
      PROVE  loop_target[n] = EnclosingLoop(n) /\ LoopsAround(n) # {}
  <2>1. n < tcPc' /\ ~AfterReturn(n)
    BY <1>1 DEF Checked, AfterReturn, After, BlockEnd
  <2>2. n < tcPc
    BY <1>1, <2>1
  <2> QED
    BY <1>1, <2>1, <2>2 DEF Targets, Checked
<1>2. \A n : LoopsAround(n)' = LoopsAround(n) /\ EnclosingLoop(n)' = EnclosingLoop(n)
  BY DEF LoopsAround, Around, EnclosingLoop
<1> QED
  BY <1>1, <1>2 DEF Targets

\* A return goes on where its block ends: the breaks it skips are after it.
LEMMA ReturnSkips ==
  ASSUME Nested, NEW r \in 1 .. Len(ast), ast[r].k = "return"
  PROVE  /\ BlockEnd(r) \in Nat
         /\ \A n \in 1 .. Len(ast) : r <= n /\ n < BlockEnd(r) => ast[n].k # "break" \/ AfterReturn(n)
<1>1. Len(ast) \in Nat
  BY NodesTyped
<1> DEFINE S == {m \in r + 1 .. Len(ast) : ast[m].k \in Markers /\ ast[m].lvl = ast[r].lvl - 1}
                \cup {Len(ast) + 1}
<1>2. S \subseteq Nat /\ S # {}
  BY <1>1
<1>3. BlockEnd(r) \in S
  BY <1>2, MinIsLeast DEF BlockEnd
<1>4. ASSUME NEW n \in 1 .. Len(ast), r <= n, n < BlockEnd(r), ast[n].k = "break"
      PROVE  AfterReturn(n)
  <2>1. r \in 1 .. n - 1
    BY <1>1, <1>4
  <2> QED
    BY <1>4, <2>1 DEF AfterReturn, After
<1> QED
  BY <1>2, <1>3, <1>4

LEMMA BreakVisit ==
  ASSUME BreakInv, phase = "typecheck", TcBreak
  PROVE  (DOMAIN loop_target = 1 .. MaxNodes)' /\ Targets'
<1>1. WalkInv /\ Nested /\ Targets /\ DOMAIN loop_target = 1 .. MaxNodes
  BY DEF BreakInv, WalkInv
<1>2. tcPc \in 1 .. Len(ast) /\ Visited.k = "break"
  BY <1>1, AtNode DEF TcBreak
<1>3. Len(ast) \in Nat /\ tcPc \in Nat
  BY <1>1, <1>2, NodesTyped
<1>4. CASE EnclosingLoop(tcPc) # 0
  <2>1. /\ ast' = ast /\ tcPc' = tcPc + 1
        /\ loop_target' = [loop_target EXCEPT ![tcPc] = EnclosingLoop(tcPc)]
    BY <1>4 DEF TcBreak, GoOn, Reject
  <2>2. tcPc \in DOMAIN loop_target
    <3>1. Len(nest) \in Nat /\ MaxNodes \in Nat
      BY <1>1, AstAssumption DEF Nested
    <3> QED
      BY <1>1, <1>2, <1>3, <3>1 DEF BreakInv, Fits
  <2>3. \A n : LoopsAround(n)' = LoopsAround(n) /\ EnclosingLoop(n)' = EnclosingLoop(n)
    BY <2>1 DEF LoopsAround, Around, EnclosingLoop
  <2>4. ASSUME NEW n \in 1 .. Len(ast), ast[n].k = "break", Checked(n)'
        PROVE  loop_target'[n] = EnclosingLoop(n) /\ LoopsAround(n) # {}
    <3>1. CASE n = tcPc
      BY <1>4, <2>1, <2>2, <3>1 DEF EnclosingLoop
    <3>2. CASE n # tcPc
      <4>1. n < tcPc' /\ ~AfterReturn(n)
        BY <2>1, <2>4 DEF Checked, AfterReturn, After, BlockEnd
      <4>2. n < tcPc
        BY <1>3, <2>1, <3>2, <4>1
      <4>3. loop_target[n] = EnclosingLoop(n) /\ LoopsAround(n) # {}
        BY <1>1, <2>4, <4>1, <4>2 DEF Targets, Checked
      <4> QED
        BY <2>1, <3>2, <4>3
    <3> QED
      BY <3>1, <3>2
  <2>5. Targets'
    BY <2>1, <2>3, <2>4 DEF Targets
  <2> QED
    BY <1>1, <2>1, <2>5
<1>5. CASE EnclosingLoop(tcPc) = 0
  <2>1. UNCHANGED <<ast, tcPc, loop_target>>
    BY <1>5 DEF TcBreak, GoOn, Reject, attributes
  <2> QED
    BY <1>1, <1>3, <2>1, TargetsKeep
<1> QED
  BY <1>4, <1>5

LEMMA OtherVisits ==
  ASSUME BreakInv, phase = "typecheck", TcVisit, ~TcBreak
  PROVE  (DOMAIN loop_target = 1 .. MaxNodes)' /\ Targets'
<1>1. WalkInv /\ Nested /\ Targets /\ DOMAIN loop_target = 1 .. MaxNodes
  BY DEF BreakInv, WalkInv
<1>2. Len(ast) \in Nat /\ tcPc \in Nat
  BY <1>1, NodesTyped DEF WalkInv
<1>3. UNCHANGED <<ast, loop_target>>
  BY DEF TcVisit, TcParam, TcDeclaration, TcVarInit, TcAssignment, TcExpression, TcReturn,
         TcBranch, TcClause, TcForDeclaration, TcForAssignment, TcEnd, TcDone,
         GoOn, Reject, attributes
<1>4. CASE tcPc' = tcPc
  BY <1>1, <1>2, <1>3, <1>4, TargetsKeep
<1>5. CASE tcPc' = tcPc + 1 /\ ast[tcPc].k # "break"
  <2>1. \A n \in 1 .. Len(ast) : tcPc <= n /\ n < tcPc' => n = tcPc
    BY <1>2, <1>5
  <2>2. \A n \in 1 .. Len(ast) : tcPc <= n /\ n < tcPc' => ast[n].k # "break" \/ AfterReturn(n)
    BY <1>5, <2>1
  <2>3. tcPc' \in Nat
    BY <1>2, <1>5
  <2> QED
    BY <1>1, <1>2, <1>3, <2>2, <2>3, TargetsKeep
<1>6. CASE tcPc' = BlockEnd(tcPc) /\ tcPc \in 1 .. Len(ast) /\ ast[tcPc].k = "return"
  <2>1. tcPc' \in Nat
    BY <1>1, <1>6, ReturnSkips
  <2>2. \A n \in 1 .. Len(ast) : tcPc <= n /\ n < tcPc' => ast[n].k # "break" \/ AfterReturn(n)
    BY <1>1, <1>6, ReturnSkips
  <2> QED
    BY <1>1, <1>2, <1>3, <2>1, <2>2, TargetsKeep
<1>7. \/ tcPc' = tcPc
      \/ tcPc' = tcPc + 1 /\ ast[tcPc].k # "break"
      \/ tcPc' = BlockEnd(tcPc) /\ tcPc \in 1 .. Len(ast) /\ ast[tcPc].k = "return"
  <2>1. ASSUME TcReturn
        PROVE  \/ tcPc' = tcPc
               \/ tcPc' = BlockEnd(tcPc) /\ tcPc \in 1 .. Len(ast) /\ ast[tcPc].k = "return"
    <3>1. tcPc \in 1 .. Len(ast) /\ ast[tcPc].k = "return"
      BY <1>1, <2>1, AtNode DEF TcReturn, Visited
    <3> QED
      BY <2>1, <3>1 DEF TcReturn, AfterReturnStatement, GoOn, Reject
  <2>2. ASSUME TcParam \/ TcDeclaration \/ TcVarInit \/ TcAssignment \/ TcExpression
        PROVE  tcPc' = tcPc \/ (tcPc' = tcPc + 1 /\ ast[tcPc].k # "break")
    BY <2>2 DEF TcParam, TcDeclaration, TcVarInit, TcAssignment, TcExpression,
                At, Visited, GoOn, Reject
  <2>3. ASSUME TcBranch \/ TcClause \/ TcForDeclaration \/ TcForAssignment \/ TcEnd
        PROVE  tcPc' = tcPc \/ (tcPc' = tcPc + 1 /\ ast[tcPc].k # "break")
    BY <2>3 DEF TcBranch, TcClause, TcForDeclaration, TcForAssignment, TcEnd,
                At, Visited, Clauses, GoOn, Reject
  <2>4. ASSUME TcDone PROVE tcPc' = tcPc
    BY <2>4 DEF TcDone
  <2> QED
    BY <2>1, <2>2, <2>3, <2>4 DEF TcVisit
<1> QED
  BY <1>1, <1>3, <1>4, <1>5, <1>6, <1>7

LEMMA BreakStep ==
  BreakInv /\ [TcNext]_tcVars => BreakInv'
<1> SUFFICES ASSUME BreakInv, [TcNext]_tcVars
             PROVE  BreakInv'
  OBVIOUS
<1>1. WalkInv'
  BY WalkInvNext DEF BreakInv
<1>2. CASE Parse /\ UNCHANGED <<tcPc, table, attributes>>
  <2>1. Fits'
    BY <1>2, ParseFits DEF BreakInv
  <2>2. phase = "parse" /\ UNCHANGED <<tcPc, loop_target>>
    BY <1>2 DEF Parse, ParseParam, ParseStatement, ParseOpener, ParseClause, ParseEnd,
                ParseDone, attributes
  <2>3. tcPc' = 1
    BY <2>2 DEF BreakInv, WalkInv
  <2>4. Targets'
    BY <2>3 DEF Targets, Checked
  <2> QED
    BY <1>1, <2>1, <2>2, <2>4 DEF BreakInv
<1>3. CASE TcVisit
  <2>1. phase = "typecheck"
    BY <1>3 DEF TcVisit, TcParam, TcDeclaration, TcVarInit, TcAssignment, TcExpression, TcReturn,
                TcBranch, TcClause, TcForDeclaration, TcForAssignment, TcEnd, TcBreak, TcDone, At
  <2>2. (DOMAIN loop_target = 1 .. MaxNodes)' /\ Targets'
    BY <1>3, <2>1, BreakVisit, OtherVisits
  <2>3. UNCHANGED <<ast, nest>>
    BY <1>3 DEF TcVisit, TcParam, TcDeclaration, TcVarInit, TcAssignment, TcExpression, TcReturn,
                TcBranch, TcClause, TcForDeclaration, TcForAssignment, TcEnd, TcBreak, TcDone,
                GoOn, Reject
  <2>4. Fits'
    BY <2>3 DEF BreakInv, Fits
  <2> QED
    BY <1>1, <2>2, <2>4 DEF BreakInv
<1>4. CASE UNCHANGED tcVars
  <2>1. UNCHANGED <<phase, ast, nest, tcPc, loop_target>>
    BY <1>4 DEF tcVars
  <2>2. Len(ast) \in Nat /\ tcPc \in Nat
    BY NodesTyped DEF BreakInv, WalkInv
  <2>3. Targets => Targets'
    BY <2>1, <2>2, TargetsKeep
  <2> QED
    BY <1>1, <2>1, <2>3 DEF BreakInv, Fits
<1> QED
  BY <1>2, <1>3, <1>4 DEF TcNext

LEMMA BreakInit == TcInit => BreakInv
<1> SUFFICES ASSUME TcInit PROVE BreakInv
  OBVIOUS
<1>1. WalkInv
  BY WalkInvInit
<1>2. Fits
  BY AstAssumption DEF TcInit, ParseInit, Fits
<1> QED
  BY <1>1, <1>2 DEF TcInit, ParseInit, BreakInv

(***************************************************************************)
(* For every program of any length and depth: BreakNode's walk up the      *)
(* parents gives each break that is reached the loop it is in that holds   *)
(* no other loop with it.                                                  *)
(***************************************************************************)
THEOREM BreaksAreInnermost == TcSpec => []BreakTargetsInnermost
<1>1. BreakInv => BreakTargetsInnermost
  <2> SUFFICES ASSUME BreakInv, NEW n \in 1 .. Len(ast), ast[n].k = "break", Checked(n)
               PROVE  LET target == loop_target[n]
                      IN  /\ target \in 1 .. n - 1 /\ ast[target].k \in Loops
                          /\ n < BodyEnd(target)
                          /\ \A m \in target + 1 .. n - 1 : ast[m].k \in Loops => BodyEnd(m) < n
    BY DEF BreakTargetsInnermost
  <2>1. Nested /\ Targets
    BY NodesTyped DEF BreakInv, WalkInv, Checked
  <2>2. loop_target[n] = EnclosingLoop(n) /\ LoopsAround(n) # {}
    BY <2>1 DEF Targets
  <2> QED
    BY <2>1, <2>2, InnermostLoop
<1>2. TcSpec => []BreakInv
  BY BreakInit, BreakStep, PTL DEF TcSpec
<1> QED
  BY <1>1, <1>2, PTL

-------------------------------------------------------------------------------
(* The declarations that the source makes visible.                         *)

\* The scope of a declaration, counted from the procedure's own. A for
\* statement's declaration is in the scope that the statement opens.
Own(m) == ast[m].lvl + (IF ast[m].k = "fordcl" THEN 2 ELSE 1)

\* The declarations whose block is still open after node p - 1.
Visible(p) ==
  {m \in 1 .. p - 1 :
     /\ ast[m].k \in Declarers /\ ~AfterReturn(m)
     /\ \A j \in m + 1 .. p - 1 : Own(m) <= ast[j].lvl + 1}

\* The frame offset of a declaration: a parameter's is in the table only, its
\* node has the size the caller passes.
Slot(t, fo, m) ==
  IF ast[m].k = "param" THEN t.all_syms[m].frame_offset ELSE fo[m]

EntryOf(t, fo, m) ==
  [id |-> ast[m].id, type |-> ast[m].ty, frame_offset |-> Slot(t, fo, m)]

\* The scopes of a table have the entries of these declarations and no more.
Shows(t, fo, V) ==
  /\ \A m \in V : Own(m) \in 1 .. Len(t.scopes) /\ EntryOf(t, fo, m) \in t.scopes[Own(m)]
  /\ \A i \in 1 .. Len(t.scopes) : \A e \in t.scopes[i] :
       \E m \in V : Own(m) = i /\ e = EntryOf(t, fo, m)

\* Up to node p, a declaration that was visited has an offset of its own.
Slots(t, fo, p) ==
  /\ \A n \in 1 .. Len(ast) :
       /\ n >= p => fo[n] = 0
       /\ ast[n].k = "param" => fo[n] >= 0
       /\ fo[n] < 0 => ast[n].k \in Declarers /\ t.current_stack_offset <= fo[n]
       /\ n < p /\ ast[n].k = "param" => n \in 1 .. Len(t.all_syms)
       /\ n = p /\ ast[n].k = "param" => Len(t.all_syms) = n - 1
       /\ n < p /\ ast[n].k \in Declarers \ {"param"} /\ ~AfterReturn(n) => fo[n] < 0
  /\ \A m, n \in 1 .. Len(ast) : m < n /\ fo[m] < 0 => fo[n] # fo[m]
  /\ \A m, n \in 1 .. Len(ast) :
       ast[m].k = "param" /\ m \in 1 .. Len(t.all_syms) /\ fo[n] < 0
         => fo[n] < t.all_syms[m].frame_offset

-------------------------------------------------------------------------------
(* The tree.                                                               *)

\* The parameters are the first nodes.
ParamsFirst ==
  \A n \in 1 .. Len(ast) : ast[n].k = "param" => \A m \in 1 .. n : ast[m].k = "param"

\* The operands that a visit of a node resolves.
Reading(k) ==
  CASE k \in {"init", "expr", "print", "delete", "return"} -> {"rd"}
    [] k \in {"if", "elif", "while"} -> {"cd"}
    [] k = "asst" -> {"id", "rd"}
    [] k = "fordcl" -> {"rd", "cd", "ep"}
    [] k = "forasst" -> Roles
    [] OTHER -> {}

\* No other operand of a node names a variable, but the name it declares.
Shaped(v) ==
  \A r \in Roles : v[r] \in Ids => r \in Reading(v.k) \/ (r = "id" /\ v.k \in Declarers)

\* A return that was visited took the walk past the rest of its block.
ReturnsPassed ==
  \A r \in 1 .. Len(ast) : ast[r].k = "return" /\ r < tcPc => BlockEnd(r) <= tcPc

-------------------------------------------------------------------------------
(* The invariant.                                                          *)

\* What a use of x at node n was annotated with.
Found(t, fo, off, x, n) ==
  IF InScope(x, n) # {} THEN off = Slot(t, fo, Max(InScope(x, n)))
                        ELSE off = 1 /\ x \in Globals

UsesFound ==
  \A u \in Uses :
    Checked(u[1]) => Found(table, frame_offset, offset[u[1]][u[2]], ast[u[1]][u[2]], u[1])

NameInv ==
  /\ BreakInv
  /\ TypeOK
  /\ ParamsFirst
  /\ \A n \in 1 .. Len(ast) : Shaped(ast[n])
  /\ ReturnsPassed
  /\ Shows(table, frame_offset, Visible(tcPc))
  /\ Slots(table, frame_offset, tcPc)
  /\ phase = "parse" => frame_offset = [n \in 1 .. MaxNodes |-> 0]
  /\ phase # "parse" => nest = <<>>
  /\ UsesFound
  /\ RejectsOnlyErrors

-------------------------------------------------------------------------------
(* Blocks and returns.                                                     *)

\* Until its block ends, what follows a statement is in that block.
LEMMA InBlock ==
  ASSUME Nested, nest = <<>>, NEW r \in 1 .. Len(ast),
         Before(ast[r]) = ast[r].lvl, Behind(ast[r]) = ast[r].lvl
  PROVE  /\ BlockEnd(r) \in r + 1 .. Len(ast) + 1
         /\ BlockEnd(r) <= Len(ast)
              => ast[BlockEnd(r)].k \in Markers /\ ast[BlockEnd(r)].lvl = ast[r].lvl - 1
         /\ \A j \in r + 1 .. Len(ast) : j < BlockEnd(r) => ast[j].lvl >= ast[r].lvl
<1> DEFINE l == ast[r].lvl
           b == BlockEnd(r)
           E == {m \in r + 1 .. Len(ast) : ast[m].k \in Markers /\ ast[m].lvl = l - 1}
           F == {m \in r + 1 .. b : DepthBefore(m) < l}
<1>1. Len(ast) \in Nat /\ l \in Nat /\ \A m \in 1 .. Len(ast) : ast[m].lvl \in Nat
  BY NodesTyped
<1>2. b \in E \cup {Len(ast) + 1} /\ \A y \in E : b <= y
  <2>1. E \cup {Len(ast) + 1} \subseteq Nat /\ b = Min(E \cup {Len(ast) + 1})
    BY <1>1 DEF BlockEnd
  <2> QED
    BY <2>1, MinIsLeast
<1> HIDE DEF b
<1>3. b \in r + 1 .. Len(ast) + 1
  BY <1>1, <1>2
<1>4. F = {}
  <2> SUFFICES ASSUME F # {} PROVE FALSE
    OBVIOUS
  <2>1. F \subseteq Nat
    BY <1>1, <1>3
  <2> DEFINE m == Min(F)
  <2>2. m \in F /\ \A y \in F : m <= y
    BY <2>1, MinIsLeast
  <2> HIDE DEF m
  <2>3. DepthBefore(r + 1) = l
    BY DepthStep
  <2>4. m \in r + 1 .. b /\ DepthBefore(m) < l /\ m # r + 1
    BY <1>1, <2>2, <2>3
  <2>5. m - 1 \in r + 1 .. Len(ast) /\ m - 1 \in 1 .. Len(ast) /\ m - 1 < b /\ (m - 1) + 1 = m
    BY <1>1, <1>3, <2>4
  <2>6. DepthBefore(m - 1) = Before(ast[m - 1]) /\ DepthBefore(m) = Behind(ast[m - 1])
    BY <2>5, DepthStep
  <2>7. ~(DepthBefore(m - 1) < l)
    BY <1>3, <2>2, <2>4, <2>5
  <2>8. ast[m - 1].lvl \in Nat
    BY <1>1, <2>5
  <2>9. ast[m - 1].k \in Markers /\ ast[m - 1].lvl = l - 1
    <3> DEFINE v == ast[m - 1]
    <3>1. /\ v.lvl \in Nat /\ l \in Nat
          /\ Behind(v) < l /\ ~(Before(v) < l)
      BY <1>1, <2>4, <2>6, <2>7, <2>8
    <3> HIDE DEF v
    <3>2. /\ Behind(v) \in {v.lvl, v.lvl + 1}
          /\ Before(v) = IF v.k \in Markers THEN v.lvl + 1 ELSE v.lvl
      BY DEF Behind, Before
    <3>3. v.k \in Markers /\ v.lvl = l - 1
      BY ONLY <3>1, <3>2
    <3> QED
      BY <3>3 DEF v
  <2>10. m - 1 \in E
    BY <2>5, <2>9
  <2> QED
    BY <1>1, <1>3, <1>2, <2>4, <2>10, SMTT(40)
<1>5. ASSUME NEW j \in r + 1 .. Len(ast), j < b
      PROVE  ast[j].lvl >= l
  <2>1. j \in 1 .. Len(ast) /\ j \in r + 1 .. b
    BY <1>1, <1>3, <1>5
  <2>2. DepthBefore(j) = Before(ast[j]) /\ ast[j].lvl \in Nat
    BY <2>1, DepthStep
  <2>3. ~(DepthBefore(j) < l)
    BY <1>4, <2>1
  <2>4. j \notin E
    BY <1>2, <1>3, <1>5
  <2> QED
    BY <1>1, <1>5, <2>2, <2>3, <2>4 DEF Before
<1> QED
  BY <1>2, <1>3, <1>5 DEF b

\* A return has its place in the text alone.
LEMMA ReturnIsLeaf ==
  ASSUME NEW v, v.k \in Declarers \cup {"return"}, v.k # "fordcl"
  PROVE  Before(v) = v.lvl /\ Behind(v) = v.lvl
BY DEF Before, Behind, Declarers, Markers, Clauses, Openers, Loops

\* The block a return ends cannot be outlived by a block inside it.
LEMMA BlocksNest ==
  ASSUME Nested, nest = <<>>, NEW q \in 1 .. Len(ast), NEW r \in 1 .. Len(ast),
         ast[q].k = "return", ast[r].k = "return", q < r, r < BlockEnd(q)
  PROVE  BlockEnd(r) <= BlockEnd(q)
<1>1. /\ Len(ast) \in Nat /\ ast[q].lvl \in Nat /\ ast[r].lvl \in Nat
      /\ \A m \in 1 .. Len(ast) : ast[m].lvl \in Nat
  BY NodesTyped
<1>2. /\ Before(ast[q]) = ast[q].lvl /\ Behind(ast[q]) = ast[q].lvl
      /\ Before(ast[r]) = ast[r].lvl /\ Behind(ast[r]) = ast[r].lvl
  BY ReturnIsLeaf
<1>3. /\ BlockEnd(q) \in q + 1 .. Len(ast) + 1
      /\ BlockEnd(q) <= Len(ast) => ast[BlockEnd(q)].lvl = ast[q].lvl - 1
      /\ \A j \in q + 1 .. Len(ast) : j < BlockEnd(q) => ast[j].lvl >= ast[q].lvl
  BY <1>2, InBlock
<1>4. /\ BlockEnd(r) \in r + 1 .. Len(ast) + 1
      /\ \A j \in r + 1 .. Len(ast) : j < BlockEnd(r) => ast[j].lvl >= ast[r].lvl
  BY <1>2, InBlock
<1>5. ast[r].lvl >= ast[q].lvl
  BY <1>1, <1>3
<1>6. ASSUME BlockEnd(q) < BlockEnd(r)
      PROVE  FALSE
  <2>1. BlockEnd(q) \in r + 1 .. Len(ast) /\ BlockEnd(q) \in 1 .. Len(ast) /\ BlockEnd(q) <= Len(ast)
    BY <1>1, <1>3, <1>4, <1>6
  <2>2. ast[BlockEnd(q)].lvl = ast[q].lvl - 1 /\ ast[BlockEnd(q)].lvl >= ast[r].lvl
    BY <1>3, <1>4, <1>6, <2>1
  <2> QED
    BY <1>1, <1>5, <2>1, <2>2
<1> QED
  BY <1>3, <1>4, <1>6

\* The walk never stands where a return keeps it from coming.
LEMMA NotAfterReturn ==
  ASSUME Nested, ReturnsPassed, tcPc \in 1 .. Len(ast)
  PROVE  ~AfterReturn(tcPc)
<1> SUFFICES ASSUME NEW r \in 1 .. tcPc - 1, ast[r].k = "return", tcPc < BlockEnd(r)
             PROVE  FALSE
  BY DEF AfterReturn, After
<1>1. Len(ast) \in Nat
  BY NodesTyped
<1>2. r \in 1 .. Len(ast) /\ r < tcPc
  BY <1>1
<1>3. BlockEnd(r) <= tcPc /\ BlockEnd(r) \in Nat
  BY <1>2, ReturnSkips DEF ReturnsPassed
<1> QED
  BY <1>1, <1>3

-------------------------------------------------------------------------------
(* What is visible.                                                        *)

LEMMA OwnIs ==
  ASSUME Nested, NEW m \in 1 .. Len(ast)
  PROVE  /\ ast[m].lvl \in Nat /\ Own(m) \in Nat
         /\ Own(m) = ast[m].lvl + (IF ast[m].k = "fordcl" THEN 2 ELSE 1)
BY NodesTyped DEF Own

\* A declaration stays visible up to a node of lower level, and is then
\* joined by the node's own.
LEMMA VisibleNext ==
  ASSUME Nested, NEW n \in 1 .. Len(ast), ~AfterReturn(n)
  PROVE  Visible(n + 1) = {m \in Visible(n) : Own(m) <= ast[n].lvl + 1}
                          \cup (IF ast[n].k \in Declarers THEN {n} ELSE {})
<1>1. Len(ast) \in Nat /\ (n + 1) - 1 = n
  BY NodesTyped
<1>2. ASSUME NEW m \in 1 .. n
      PROVE  m \in Visible(n + 1)
               <=> \/ m \in Visible(n) /\ Own(m) <= ast[n].lvl + 1
                   \/ m = n /\ ast[n].k \in Declarers
  <2>1. CASE m = n
    BY <1>1, <2>1 DEF Visible
  <2>2. CASE m # n
    <3>1. m \in 1 .. n - 1 /\ n \in m + 1 .. n
      BY <1>1, <2>2
    <3>2. \A j : j \in m + 1 .. n <=> j \in m + 1 .. n - 1 \/ j = n
      BY <1>1, <3>1
    <3> QED
      BY <1>1, <2>2, <3>1, <3>2 DEF Visible
  <2> QED
    BY <2>1, <2>2
<1>3. Visible(n + 1) \subseteq 1 .. n /\ Visible(n) \subseteq 1 .. n
  BY <1>1 DEF Visible
<1> QED
  BY <1>1, <1>2, <1>3

\* Nothing becomes visible, and nothing ceases to be, where the walk goes on
\* after a return.
LEMMA VisibleAfterReturn ==
  ASSUME Nested, nest = <<>>, NEW r \in 1 .. Len(ast), ast[r].k = "return"
  PROVE  Visible(BlockEnd(r)) = Visible(r + 1)
<1> DEFINE b == BlockEnd(r)
<1>1. Len(ast) \in Nat /\ (r + 1) - 1 = r /\ ast[r].lvl \in Nat
  BY NodesTyped
<1>2. /\ b \in r + 1 .. Len(ast) + 1
      /\ \A j \in r + 1 .. Len(ast) : j < b => ast[j].lvl >= ast[r].lvl
  BY InBlock, ReturnIsLeaf
<1> HIDE DEF b
<1>3. ASSUME NEW m \in 1 .. b - 1, ~AfterReturn(m)
      PROVE  m \in 1 .. r
  <2>1. CASE m > r
    <3>1. r \in 1 .. m - 1 /\ m < BlockEnd(r)
      BY <1>1, <1>2, <2>1 DEF b
    <3> QED
      BY <1>3, <3>1 DEF AfterReturn, After
  <2> QED
    BY <1>1, <1>2, <2>1
<1>4. ASSUME NEW m \in 1 .. r, NEW j \in r + 1 .. b - 1, ast[m].k \in Declarers,
             \A i \in m + 1 .. r : Own(m) <= ast[i].lvl + 1
      PROVE  Own(m) <= ast[j].lvl + 1
  <2>1. j \in 1 .. Len(ast) /\ j \in r + 1 .. Len(ast) /\ j < b
    BY <1>1, <1>2
  <2>2. ast[j].lvl >= ast[r].lvl /\ ast[j].lvl \in Nat
    BY <1>2, <2>1, NodesTyped
  <2>3. m \in 1 .. Len(ast) /\ m # r
    BY <1>1, <1>4 DEF Declarers
  <2>4. Own(m) \in Nat
    BY <2>3, OwnIs
  <2>5. Own(m) <= ast[r].lvl + 1
    BY <1>1, <1>4, <2>3
  <2> QED
    BY <1>1, <2>2, <2>4, <2>5
<1>5. ASSUME NEW m \in 1 .. r, ast[m].k \in Declarers
      PROVE  (\A j \in m + 1 .. b - 1 : Own(m) <= ast[j].lvl + 1)
               <=> (\A j \in m + 1 .. r : Own(m) <= ast[j].lvl + 1)
  <2>1. \A j : j \in m + 1 .. b - 1 <=> j \in m + 1 .. r \/ j \in r + 1 .. b - 1
    BY <1>1, <1>2
  <2> QED
    BY <1>4, <1>5, <2>1
<1>6. 1 .. r \subseteq 1 .. b - 1
  BY <1>1, <1>2
<1>7. Visible(b) = Visible(r + 1)
  BY <1>1, <1>3, <1>5, <1>6 DEF Visible
<1> QED
  BY <1>7 DEF b

\* The source's words for where a declaration reaches, and its scope's.
LEMMA ReachIsOwn ==
  ASSUME Nested, NEW n \in 1 .. Len(ast), NEW m \in 1 .. n
  PROVE  (\A j \in m + 1 .. n : IF ast[m].k = "fordcl" THEN ast[j].lvl > ast[m].lvl
                                                       ELSE ast[j].lvl >= ast[m].lvl)
         <=> (\A j \in m + 1 .. n : Own(m) <= ast[j].lvl + 1)
<1>1. Len(ast) \in Nat
  BY NodesTyped
<1>2. ASSUME NEW j \in m + 1 .. n
      PROVE  (IF ast[m].k = "fordcl" THEN ast[j].lvl > ast[m].lvl ELSE ast[j].lvl >= ast[m].lvl)
             <=> Own(m) <= ast[j].lvl + 1
  <2>1. j \in 1 .. Len(ast) /\ m \in 1 .. Len(ast)
    BY <1>1
  <2> DEFINE lj == ast[j].lvl
             lm == ast[m].lvl
  <2>2. lj \in Nat /\ lm \in Nat /\ Own(m) = lm + (IF ast[m].k = "fordcl" THEN 2 ELSE 1)
    BY <2>1, OwnIs
  <2> HIDE DEF lj, lm
  <2>3. CASE ast[m].k = "fordcl"
    <3>1. Own(m) = lm + 2
      BY <2>2, <2>3
    <3>2. lj > lm <=> Own(m) <= lj + 1
      BY ONLY <2>2, <3>1
    <3> QED
      BY <2>3, <3>2 DEF lj, lm
  <2>4. CASE ast[m].k # "fordcl"
    <3>1. Own(m) = lm + 1
      BY <2>2, <2>4
    <3>2. lj >= lm <=> Own(m) <= lj + 1
      BY ONLY <2>2, <3>1
    <3> QED
      BY <2>4, <3>2 DEF lj, lm
  <2> QED
    BY <2>3, <2>4
<1> QED
  BY <1>2

\* The declarations that the source puts in scope of a node that is reached.
LEMMA InScopeIsVisible ==
  ASSUME Nested, nest = <<>>, NEW n \in 1 .. Len(ast), ~AfterReturn(n), NEW x
  PROVE  InScope(x, n) = {m \in Visible(n + 1) : ast[m].id = x}
<1>1. Len(ast) \in Nat /\ (n + 1) - 1 = n
  BY NodesTyped
<1>2. \A i \in 1 .. n : i \in 1 .. Len(ast)
  BY <1>1
<1>3. \A m \in 1 .. n :
        (\A j \in m + 1 .. n : IF ast[m].k = "fordcl" THEN ast[j].lvl > ast[m].lvl
                                                      ELSE ast[j].lvl >= ast[m].lvl)
        <=> (\A j \in m + 1 .. n : Own(m) <= ast[j].lvl + 1)
  BY ReachIsOwn
<1>4. ASSUME NEW m \in 1 .. n, \A j \in m + 1 .. n : Own(m) <= ast[j].lvl + 1
      PROVE  ~AfterReturn(m)
  <2> SUFFICES ASSUME NEW r \in 1 .. m - 1, ast[r].k = "return", m < BlockEnd(r)
               PROVE  FALSE
    BY DEF AfterReturn, After
  <2>1. r \in 1 .. Len(ast) /\ r \in 1 .. n - 1 /\ m \in r + 1 .. Len(ast) /\ m \in 1 .. Len(ast)
        /\ n \in r + 1 .. Len(ast)
    BY <1>1
  <2>2. /\ BlockEnd(r) \in r + 1 .. Len(ast) + 1
        /\ BlockEnd(r) <= Len(ast) => ast[BlockEnd(r)].lvl = ast[r].lvl - 1
        /\ \A j \in r + 1 .. Len(ast) : j < BlockEnd(r) => ast[j].lvl >= ast[r].lvl
    BY <2>1, InBlock, ReturnIsLeaf
  <2>3. ~(n < BlockEnd(r))
    BY <2>1 DEF AfterReturn, After
  <2>4. BlockEnd(r) \in m + 1 .. n /\ BlockEnd(r) <= Len(ast)
    BY <1>1, <2>1, <2>2, <2>3
  <2> DEFINE lm == ast[m].lvl
             lr == ast[r].lvl
             lb == ast[BlockEnd(r)].lvl
  <2>5. Own(m) <= lb + 1 /\ lm >= lr /\ lb = lr - 1
    BY <1>4, <2>1, <2>2, <2>4
  <2>6. lm \in Nat /\ lr \in Nat /\ (Own(m) = lm + 1 \/ Own(m) = lm + 2)
    BY <2>1, OwnIs
  <2> HIDE DEF lm, lr, lb
  <2> QED
    BY ONLY <2>5, <2>6
<1> QED
  BY <1>1, <1>3, <1>4 DEF InScope, Visible

-------------------------------------------------------------------------------
(* The table shows what is visible.                                        *)

\* A search from the innermost scope outwards ends at the latest declaration.
LEMMA LookShown ==
  ASSUME Nested, NEW t, TableOK(t), NEW fo, NEW p \in 1 .. Len(ast) + 1,
         Shows(t, fo, Visible(p)), NEW x
  PROVE  LET S == {m \in Visible(p) : ast[m].id = x}
         IN  /\ Known(t, x) <=> S # {}
             /\ S # {} => LookupVariable(t, x) = EntryOf(t, fo, Max(S)) /\ Max(S) \in S
<1> DEFINE V == Visible(p)
           S == {m \in V : ast[m].id = x}
           D == Declaring(t, x)
<1>1. Len(ast) \in Nat /\ Len(t.scopes) \in Nat /\ p - 1 \in Nat
  BY NodesTyped DEF TableOK, Table
<1>2. V \subseteq 1 .. p - 1 /\ \A m \in V : m \in 1 .. Len(ast)
  BY <1>1 DEF Visible
<1>3. \A m : EntryOf(t, fo, m).id = ast[m].id
  BY DEF EntryOf
<1>4. \A m \in S : Own(m) \in D
  BY <1>3 DEF Shows, Declaring
<1>5. \A i \in D : \E m \in S : Own(m) = i
  <2> TAKE i \in D
  <2>1. PICK e \in t.scopes[i] : e.id = x
    BY DEF Declaring
  <2>2. PICK m \in V : Own(m) = i /\ e = EntryOf(t, fo, m)
    BY DEF Shows, Declaring
  <2> QED
    BY <1>3, <2>1, <2>2
<1>6. Known(t, x) <=> S # {}
  BY <1>4, <1>5 DEF Known
<1>7. ASSUME S # {}
      PROVE  LookupVariable(t, x) = EntryOf(t, fo, Max(S)) /\ Max(S) \in S
  <2> DEFINE top == Max(S)
  <2>1. top \in S /\ \A m \in S : m <= top
    BY <1>1, <1>2, <1>7, MaxIsGreatest
  <2> HIDE DEF top
  <2>2. ASSUME NEW m \in S PROVE Own(m) <= Own(top)
    <3>1. m \in 1 .. Len(ast) /\ top \in 1 .. Len(ast) /\ m <= top
      BY <1>2, <2>1
    <3>2. CASE m = top
      BY <3>1, <3>2, OwnIs
    <3>3. CASE m # top
      <4>1. top \in m + 1 .. p - 1
        BY <1>1, <1>2, <2>1, <3>1, <3>3
      <4>2. Own(m) <= ast[top].lvl + 1
        BY <4>1 DEF Visible
      <4>3. Own(m) \in Nat
        BY <3>1, OwnIs
      <4>4. ast[top].lvl \in Nat /\ Own(top) = ast[top].lvl + (IF ast[top].k = "fordcl" THEN 2 ELSE 1)
        BY <3>1, OwnIs
      <4> QED
        BY <4>2, <4>3, <4>4
    <3> QED
      BY <3>2, <3>3
  <2>3. D \subseteq 1 .. Len(t.scopes) /\ D # {}
    BY <1>4, <2>1 DEF Declaring
  <2>4. Max(D) \in D /\ \A i \in D : i <= Max(D)
    BY <1>1, <2>3, MaxIsGreatest
  <2>5. PICK m \in S : Own(m) = Max(D)
    BY <1>5, <2>4
  <2>6. Own(top) \in D /\ Own(top) <= Max(D) /\ Max(D) <= Own(top)
    BY <1>4, <2>1, <2>2, <2>4, <2>5
  <2>7. Own(top) = Max(D)
    BY <2>3, <2>4, <2>6
  <2> DEFINE e == EntryOf(t, fo, top)
  <2>8. e \in t.scopes[Max(D)] /\ e.id = x
    BY <1>3, <2>1, <2>7 DEF Shows
  <2>9. \A f \in t.scopes[Max(D)] : f.id = x => f = e
    BY <2>3, <2>4, <2>8 DEF TableOK, NamesDistinct
  <2> HIDE DEF e
  <2>10. LookupVariable(t, x) \in t.scopes[Max(D)] /\ LookupVariable(t, x).id = x
    BY <2>8 DEF LookupVariable
  <2>11. LookupVariable(t, x) = e
    BY <2>9, <2>10
  <2> QED
    BY <2>1, <2>11 DEF e, top
<1> QED
  BY <1>6, <1>7

LEMMA EnterShows ==
  ASSUME NEW t, TableOK(t), NEW fo, NEW V, Shows(t, fo, V)
  PROVE  /\ Shows(EnterScope(t), fo, V)
         /\ EnterScope(t).all_syms = t.all_syms
         /\ EnterScope(t).current_stack_offset = t.current_stack_offset
<1> DEFINE u == EnterScope(t)
<1>1. /\ u.scopes = Append(t.scopes, {}) /\ u.all_syms = t.all_syms
      /\ u.current_stack_offset = t.current_stack_offset
      /\ t.scopes \in Seq(Scope) /\ Len(t.scopes) \in Nat
  BY DEF EnterScope, TableOK, Table
<1>2. /\ Len(u.scopes) = Len(t.scopes) + 1
      /\ \A i \in 1 .. Len(t.scopes) : u.scopes[i] = t.scopes[i]
      /\ u.scopes[Len(t.scopes) + 1] = {}
  BY <1>1
<1> HIDE DEF u
<1>3. \A m : EntryOf(u, fo, m) = EntryOf(t, fo, m)
  BY <1>1 DEF EntryOf, Slot
<1>4. \A m \in V : Own(m) \in 1 .. Len(u.scopes) /\ EntryOf(u, fo, m) \in u.scopes[Own(m)]
  BY <1>1, <1>2, <1>3 DEF Shows
<1>5. ASSUME NEW i \in 1 .. Len(u.scopes), NEW e \in u.scopes[i]
      PROVE  \E m \in V : Own(m) = i /\ e = EntryOf(u, fo, m)
  <2>1. i \in 1 .. Len(t.scopes) /\ e \in t.scopes[i]
    BY <1>1, <1>2
  <2> QED
    BY <1>3, <2>1 DEF Shows
<1>6. Shows(u, fo, V)
  BY <1>4, <1>5 DEF Shows
<1> QED
  BY <1>1, <1>6 DEF u

LEMMA ExitShows ==
  ASSUME NEW t, TableOK(t), Len(t.scopes) > 0, NEW fo, NEW V, Shows(t, fo, V)
  PROVE  /\ Shows(ExitScope(t), fo, {m \in V : Own(m) <= Len(t.scopes) - 1})
         /\ ExitScope(t).all_syms = t.all_syms
         /\ ExitScope(t).current_stack_offset = t.current_stack_offset
<1> DEFINE u == ExitScope(t)
           n == Len(t.scopes) - 1
           W == {m \in V : Own(m) <= n}
<1>1. t \in Table /\ t.scopes \in Seq(Scope) /\ t.scopes # <<>> /\ n \in Nat
  BY DEF TableOK, Table
<1>2. u = [t EXCEPT !.scopes = SubSeq(@, 1, n)]
  BY <1>1 DEF ExitScope
<1>3. /\ Len(SubSeq(t.scopes, 1, n)) = n
      /\ \A i \in 1 .. n : SubSeq(t.scopes, 1, n)[i] = t.scopes[i]
  BY <1>1
<1>4. /\ u.all_syms = t.all_syms /\ u.current_stack_offset = t.current_stack_offset
      /\ Len(u.scopes) = n /\ \A i \in 1 .. n : i \in 1 .. Len(t.scopes) /\ u.scopes[i] = t.scopes[i]
  BY <1>1, <1>2, <1>3 DEF Table
<1> HIDE DEF u
<1>5. \A m : EntryOf(u, fo, m) = EntryOf(t, fo, m)
  BY <1>4 DEF EntryOf, Slot
<1>6. \A m \in W : Own(m) \in 1 .. Len(u.scopes) /\ EntryOf(u, fo, m) \in u.scopes[Own(m)]
  BY <1>1, <1>4, <1>5 DEF Shows
<1>7. ASSUME NEW i \in 1 .. Len(u.scopes), NEW e \in u.scopes[i]
      PROVE  \E m \in W : Own(m) = i /\ e = EntryOf(u, fo, m)
  <2>1. i \in 1 .. n
    BY <1>4
  <2>2. i \in 1 .. Len(t.scopes) /\ e \in t.scopes[i] /\ i <= n
    BY <1>1, <1>4, <1>7, <2>1
  <2> QED
    BY <1>5, <2>2 DEF Shows
<1>8. Shows(u, fo, W)
  BY <1>6, <1>7 DEF Shows
<1> QED
  BY <1>4, <1>8 DEF u

\* u is t with one symbol more, e, in its current scope: what lookup_variable
\* then finds for e's name.
Adds(t, u, e) ==
  LET L == Len(t.scopes)
      N == Len(t.all_syms)
  IN  /\ TableOK(u)
      /\ L \in Nat /\ Len(u.scopes) = L /\ u.scopes[L] = t.scopes[L] \cup {e}
      /\ \A i \in 1 .. L : i # L => u.scopes[i] = t.scopes[i]
      /\ N \in Nat /\ Len(u.all_syms) = N + 1 /\ u.all_syms[N + 1] = e
      /\ \A i \in 1 .. N : u.all_syms[i] = t.all_syms[i]
      /\ t.current_stack_offset \in Int /\ u.current_stack_offset = e.frame_offset
      /\ e.frame_offset \in Int /\ e.frame_offset < t.current_stack_offset /\ e.frame_offset < 0
      /\ LookupVariable(u, e.id) = e

\* What declare_variable does to the table.
LEMMA Declared ==
  ASSUME NEW t, TableOK(t), Len(t.scopes) > 0, NEW id \in Ids, NEW ty \in Types,
         CanDeclare(t, id)
  PROVE  Adds(t, DeclareVariable(t, id, ty),
              [id |-> id, type |-> ty, frame_offset |-> FreshOffset(t, ty)])
<1> DEFINE off == FreshOffset(t, ty)
           e   == [id |-> id, type |-> ty, frame_offset |-> off]
           u   == DeclareVariable(t, id, ty)
           N   == Len(t.all_syms)
           L   == Len(t.scopes)
<1>1. /\ t \in Table /\ t.scopes \in Seq(Scope) /\ t.all_syms \in Seq(Entry)
      /\ t.current_stack_offset \in Int /\ t.current_stack_offset <= 0 /\ N \in Nat /\ L \in Nat
  BY DEF TableOK, Table, OffsetsFall
<1>2. off \in Int /\ off < t.current_stack_offset /\ off < 0
  BY <1>1, FreshIsBelow
<1>3. e \in Entry
  BY <1>2 DEF Entry
<1>4. /\ u.scopes = [t.scopes EXCEPT ![L] = @ \cup {e}]
      /\ u.all_syms = Append(t.all_syms, e)
      /\ u.current_stack_offset = off
  BY DEF DeclareVariable
<1>5. /\ Len(u.scopes) = L /\ u.scopes[L] = t.scopes[L] \cup {e}
      /\ \A i \in 1 .. L : i # L => u.scopes[i] = t.scopes[i]
  BY <1>1, <1>3, <1>4 DEF Scope
<1>6. /\ Len(u.all_syms) = N + 1 /\ u.all_syms[N + 1] = e
      /\ \A i \in 1 .. N : u.all_syms[i] = t.all_syms[i]
  BY <1>1, <1>3, <1>4
<1>7. TableOK(u)
  BY DeclareVariableOK
<1>8. e.id = id
  OBVIOUS
<1>13. e.frame_offset = off
  OBVIOUS
<1> HIDE DEF u, e, off, N
<1> DEFINE D == Declaring(u, id)
<1>9. L \in D /\ D \subseteq 1 .. L
  BY <1>1, <1>5, <1>8 DEF Declaring
<1>10. Max(D) = L
  <2>1. Max(D) \in D /\ L <= Max(D)
    BY <1>1, <1>9, MaxIsGreatest
  <2> QED
    BY <1>1, <1>9, <2>1
<1>11. e \in u.scopes[L] /\ \A f \in u.scopes[L] : f.id = id => f = e
  BY <1>1, <1>5, <1>7, <1>8 DEF TableOK, NamesDistinct
<1>12. LookupVariable(u, id) = e
  BY <1>8, <1>10, <1>11 DEF LookupVariable
<1> QED
  BY <1>1, <1>2, <1>4, <1>5, <1>6, <1>7, <1>8, <1>12, <1>13 DEF Adds, u, e, off, N

LEMMA DeclareShows ==
  ASSUME NEW t, NEW u, NEW fo, NEW gn, NEW V, NEW n, NEW e,
         Shows(t, fo, V), Len(t.scopes) \in Nat, Len(t.scopes) > 0,
         Len(u.scopes) = Len(t.scopes),
         u.scopes[Len(t.scopes)] = t.scopes[Len(t.scopes)] \cup {e},
         \A i \in 1 .. Len(t.scopes) : i # Len(t.scopes) => u.scopes[i] = t.scopes[i],
         Own(n) = Len(t.scopes), EntryOf(u, gn, n) = e,
         \A m \in V : EntryOf(u, gn, m) = EntryOf(t, fo, m)
  PROVE  Shows(u, gn, V \cup {n})
<1> DEFINE L == Len(t.scopes)
<1>1. \A i \in 1 .. L : \A f : f \in u.scopes[i] <=> f \in t.scopes[i] \/ (i = L /\ f = e)
  OBVIOUS
<1>2. L \in 1 .. L
  OBVIOUS
<1> HIDE DEF L
<1>3. \A m \in V \cup {n} : Own(m) \in 1 .. Len(u.scopes) /\ EntryOf(u, gn, m) \in u.scopes[Own(m)]
  BY <1>1, <1>2 DEF Shows, L
<1>4. ASSUME NEW i \in 1 .. Len(u.scopes), NEW f \in u.scopes[i]
      PROVE  \E m \in V \cup {n} : Own(m) = i /\ f = EntryOf(u, gn, m)
  <2>1. i \in 1 .. L
    BY <1>4 DEF L
  <2>2. CASE i = L /\ f = e
    BY <2>2 DEF L
  <2>3. CASE f \in t.scopes[i]
    BY <2>1, <2>3 DEF Shows, L
  <2> QED
    BY <1>1, <2>1, <2>2, <2>3
<1> QED
  BY <1>3, <1>4 DEF Shows

-------------------------------------------------------------------------------
(* The size of the parameters.                                             *)

\* Running totals exist: those of the first n numbers do for every n, and
\* they agree with one another.
LEMMA RunningTotal ==
  ASSUME NEW s
  PROVE  \E f : f = [n \in Nat |-> IF n = 0 THEN 0 ELSE f[n - 1] + s[n]]
<1> DEFINE Total(g, n) == \A k \in 0 .. n : g[k] = IF k = 0 THEN 0 ELSE g[k - 1] + s[k]
<1>1. \A n \in Nat : \E g : Total(g, n)
  <2> DEFINE S == {n \in Nat : ~ \E g : Total(g, n)}
  <2> SUFFICES ASSUME S # {} PROVE FALSE
    OBVIOUS
  <2> DEFINE n == Min(S)
  <2> HIDE DEF Total
  <2>1. n \in S /\ \A y \in S : n <= y
    BY MinIsLeast
  <2> HIDE DEF n
  <2>2. CASE n = 0
    <3> DEFINE g == [k \in Nat |-> 0]
    <3>1. Total(g, 0)
      BY DEF Total
    <3> QED
      BY <2>1, <2>2, <3>1
  <2>3. CASE n # 0
    <3>1. n - 1 \in Nat /\ ~(n <= n - 1)
      BY <2>1, <2>3
    <3>2. PICK g : Total(g, n - 1)
      BY <2>1, <3>1
    <3> DEFINE h == [k \in Nat |-> IF k = n THEN g[n - 1] + s[n] ELSE g[k]]
    <3>3. ASSUME NEW k \in 0 .. n
          PROVE  h[k] = IF k = 0 THEN 0 ELSE h[k - 1] + s[k]
      <4>1. CASE k = n
        <5>1. h[k] = g[n - 1] + s[n] /\ h[n - 1] = g[n - 1]
          BY <2>1, <3>1, <4>1
        <5> QED
          BY <2>3, <4>1, <5>1
      <4>2. CASE k # n
        <5>1. k \in 0 .. n - 1 /\ h[k] = g[k] /\ (k # 0 => h[k - 1] = g[k - 1])
          BY <2>1, <4>2
        <5>2. g[k] = IF k = 0 THEN 0 ELSE g[k - 1] + s[k]
          BY <3>2, <5>1 DEF Total
        <5> QED
          BY <5>1, <5>2
      <4> QED
        BY <4>1, <4>2
    <3> HIDE DEF h
    <3>4. Total(h, n)
      BY <3>3 DEF Total
    <3> QED
      BY <2>1, <3>4
  <2> QED
    BY <2>2, <2>3
<1>2. ASSUME NEW g, NEW h, NEW m \in Nat, NEW n \in Nat, m <= n, Total(g, m), Total(h, n)
      PROVE  g[m] = h[m]
  <2> DEFINE S == {k \in 0 .. m : g[k] # h[k]}
  <2>1. S = {}
    <3> SUFFICES ASSUME S # {} PROVE FALSE
      OBVIOUS
    <3> DEFINE k == Min(S)
    <3>1. k \in S /\ \A y \in S : k <= y
      <4>1. S \subseteq Nat
        OBVIOUS
      <4> QED
        BY <4>1, MinIsLeast
    <3> HIDE DEF k
    <3>2. k \in 0 .. m /\ k \in 0 .. n /\ g[k] # h[k]
      BY <1>2, <3>1
    <3>3. /\ g[k] = IF k = 0 THEN 0 ELSE g[k - 1] + s[k]
          /\ h[k] = IF k = 0 THEN 0 ELSE h[k - 1] + s[k]
      BY <1>2, <3>2
    <3>4. k # 0 /\ g[k - 1] # h[k - 1]
      BY <3>2, <3>3
    <3>5. k - 1 \in 0 .. m /\ ~(k <= k - 1)
      BY <3>2, <3>4
    <3> QED
      BY <3>1, <3>4, <3>5
  <2>2. m \in 0 .. m
    OBVIOUS
  <2> QED
    BY <2>1, <2>2
<1> DEFINE g(n) == CHOOSE g : Total(g, n)
           f == [n \in Nat |-> g(n)[n]]
<1>3. \A n \in Nat : Total(g(n), n)
  <2> HIDE DEF Total
  <2> QED
    BY <1>1
<1> HIDE DEF g
<1>4. ASSUME NEW n \in Nat
      PROVE  f[n] = IF n = 0 THEN 0 ELSE f[n - 1] + s[n]
  <2>1. g(n)[n] = IF n = 0 THEN 0 ELSE g(n)[n - 1] + s[n]
    <3>1. n \in 0 .. n
      OBVIOUS
    <3> QED
      BY <1>3, <3>1
  <2>2. CASE n # 0
    <3>1. n - 1 \in Nat /\ n - 1 <= n
      BY <2>2
    <3>2. g(n - 1)[n - 1] = g(n)[n - 1]
      <4> HIDE DEF Total
      <4> QED
        BY <1>2, <1>3, <3>1
    <3> QED
      BY <2>1, <3>1, <3>2
  <2> QED
    BY <2>1, <2>2
<1>5. f = [n \in Nat |-> IF n = 0 THEN 0 ELSE f[n - 1] + s[n]]
  BY <1>4
<1> QED
  BY <1>5

LEMMA ParamSizeIs ==
  ASSUME NEW n \in Nat
  PROVE  ParamSize[n] = IF n = 0 THEN 0 ELSE ParamSize[n - 1] + SizeOf[ast[n].ty]
<1> DEFINE s == [k \in Nat |-> SizeOf[ast[k].ty]]
<1>1. PICK f : f = [k \in Nat |-> IF k = 0 THEN 0 ELSE f[k - 1] + s[k]]
  BY RunningTotal
<1>2. f = [k \in Nat |-> IF k = 0 THEN 0 ELSE f[k - 1] + SizeOf[ast[k].ty]]
  BY <1>1
<1>3. ParamSize = [k \in Nat |-> IF k = 0 THEN 0 ELSE ParamSize[k - 1] + SizeOf[ast[k].ty]]
  BY <1>2, Zenon DEF ParamSize
<1> HIDE DEF ParamSize
<1> QED
  BY <1>3

LEMMA ParamSizeNat ==
  ASSUME NEW n \in Nat, \A k \in 1 .. n : ast[k].ty \in Types
  PROVE  ParamSize[n] \in Nat
<1> DEFINE S == {k \in 0 .. n : ParamSize[k] \notin Nat}
<1>1. S = {}
  <2> SUFFICES ASSUME S # {} PROVE FALSE
    OBVIOUS
  <2> DEFINE k == Min(S)
  <2>1. k \in S /\ \A y \in S : k <= y
    <3>1. S \subseteq Nat
      OBVIOUS
    <3> QED
      BY <3>1, MinIsLeast
  <2> HIDE DEF k
  <2>2. k \in 0 .. n /\ k \in Nat
    BY <2>1
  <2>3. ParamSize[k] = IF k = 0 THEN 0 ELSE ParamSize[k - 1] + SizeOf[ast[k].ty]
    BY <2>2, ParamSizeIs
  <2>4. k # 0
    BY <2>1, <2>3
  <2>5. k - 1 \in 0 .. n /\ ~(k <= k - 1) /\ k \in 1 .. n
    BY <2>2, <2>4
  <2>6. ParamSize[k - 1] \in Nat /\ SizeOf[ast[k].ty] \in Nat
    BY <2>1, <2>5, TypeAssumption
  <2> QED
    BY <2>1, <2>3, <2>4, <2>6
<1> QED
  BY <1>1

-------------------------------------------------------------------------------
(* The parts of a step.                                                    *)

\* What is said of the tree does not change while the tree does not.
LEMMA SameText ==
  ASSUME ast' = ast
  PROVE  /\ \A p : Visible(p)' = Visible(p)
         /\ \A t, fo, m : Slot(t, fo, m)' = Slot(t, fo, m)
         /\ \A t, fo, V : Shows(t, fo, V)' <=> Shows(t, fo, V)
         /\ \A t, fo, p : Slots(t, fo, p)' <=> Slots(t, fo, p)
         /\ \A x, n : InScope(x, n)' = InScope(x, n) /\ Around(n)' = Around(n)
         /\ \A n : AfterReturn(n)' <=> AfterReturn(n)
         /\ \A n : BlockEnd(n)' = BlockEnd(n)
         /\ \A t, fo, off, x, n : Found(t, fo, off, x, n)' <=> Found(t, fo, off, x, n)
<1>1. \A m : Own(m)' = Own(m)
  BY DEF Own
<1>2. \A n : BlockEnd(n)' = BlockEnd(n)
  BY DEF BlockEnd
<1>3. \A n : AfterReturn(n)' <=> AfterReturn(n)
  BY <1>2 DEF AfterReturn, After
<1>4. \A p : Visible(p)' = Visible(p)
  BY <1>1, <1>3 DEF Visible
<1>5. \A t, fo, m : Slot(t, fo, m)' = Slot(t, fo, m) /\ EntryOf(t, fo, m)' = EntryOf(t, fo, m)
  BY DEF Slot, EntryOf
<1>6. \A t, fo, V : Shows(t, fo, V)' <=> Shows(t, fo, V)
  BY <1>1, <1>5 DEF Shows
<1>7. \A t, fo, p : Slots(t, fo, p)' <=> Slots(t, fo, p)
  BY <1>3 DEF Slots
<1>8. \A x, n : InScope(x, n)' = InScope(x, n) /\ Around(n)' = Around(n)
  BY DEF InScope, Around
<1>9. \A t, fo, off, x, n : Found(t, fo, off, x, n)' <=> Found(t, fo, off, x, n)
  BY <1>5, <1>8 DEF Found
<1> QED
  BY <1>2, <1>3, <1>4, <1>5, <1>6, <1>7, <1>8, <1>9

\* Where the walk stands.
LEMMA AtName ==
  ASSUME NameInv, NEW kinds, At(kinds)
  PROVE  /\ phase = "typecheck" /\ nest = <<>> /\ Nested
         /\ tcPc \in 1 .. Len(ast) /\ tcPc \in 1 .. MaxNodes /\ Len(ast) \in Nat
         /\ Visited = ast[tcPc] /\ Visited.k \in kinds /\ Declares(ast[tcPc])
         /\ ast[tcPc].lvl \in Nat /\ ~AfterReturn(tcPc)
         /\ TableOK(table) /\ Len(table.scopes) = 1 + Before(ast[tcPc])
         /\ Shows(table, frame_offset, Visible(tcPc))
         /\ Slots(table, frame_offset, tcPc)
<1>1. WalkInv /\ Fits /\ ReturnsPassed
  BY DEF NameInv, BreakInv
<1>2. /\ phase = "typecheck" /\ nest = <<>> /\ Nested /\ tcPc \in 1 .. Len(ast)
      /\ Visited.k \in kinds /\ Declares(Visited)
      /\ TableOK(table) /\ Len(table.scopes) = 1 + Before(Visited)
  BY <1>1, AtNode
<1>3. Len(ast) \in Nat /\ ast[tcPc].lvl \in Nat
  BY <1>2, NodesTyped
<1>4. tcPc \in 1 .. MaxNodes
  BY <1>1, <1>2, <1>3, AstAssumption DEF Fits
<1>5. ~AfterReturn(tcPc)
  BY <1>1, <1>2, NotAfterReturn
<1> QED
  BY <1>2, <1>3, <1>4, <1>5 DEF Visited, NameInv

\* A table that shows what is visible resolves a name as the source means it.
LEMMA Resolved ==
  ASSUME Nested, nest = <<>>, NEW n \in 1 .. Len(ast), ~AfterReturn(n),
         NEW t, TableOK(t), NEW fo, Shows(t, fo, Visible(n + 1)), NEW x \in Ids
  PROVE  /\ Known(t, x) <=> InScope(x, n) # {}
         /\ Resolves(t, x) => Found(t, fo, OffsetOf(t, x), x, n)
         /\ ~Resolves(t, x) => Meant(x, n) = None
<1> DEFINE S == {m \in Visible(n + 1) : ast[m].id = x}
<1>1. n + 1 \in 1 .. Len(ast) + 1
  BY NodesTyped
<1>2. InScope(x, n) = S
  BY InScopeIsVisible
<1>3. /\ Known(t, x) <=> S # {}
      /\ S # {} => LookupVariable(t, x) = EntryOf(t, fo, Max(S)) /\ Max(S) \in S
  BY <1>1, LookShown, ZenonT(60)
<1> HIDE DEF S
<1>4. S # {} => LookupVariable(t, x).frame_offset = Slot(t, fo, Max(S))
  BY <1>3 DEF EntryOf
<1> QED
  BY <1>2, <1>3, <1>4 DEF Resolves, Found, OffsetOf, Meant

\* What is known has an offset.
LEMMA OffsetTyped ==
  ASSUME NEW t, TableOK(t), NEW x
  PROVE  OffsetOf(t, x) \in Int
<1>1. CASE x \in Ids /\ Known(t, x)
  <2> DEFINE D == Declaring(t, x)
  <2>1. t.scopes \in Seq(Scope) /\ Len(t.scopes) \in Nat
    BY DEF TableOK, Table
  <2>2. D \subseteq 1 .. Len(t.scopes) /\ D # {}
    BY <1>1 DEF Known, Declaring
  <2>3. Max(D) \in D
    BY <2>1, <2>2, MaxIsGreatest
  <2>4. \E e \in t.scopes[Max(D)] : e.id = x
    BY <2>3 DEF Declaring
  <2>5. LookupVariable(t, x) \in t.scopes[Max(D)]
    BY <2>4 DEF LookupVariable
  <2>6. t.scopes[Max(D)] \in Scope
    BY <2>1, <2>2, <2>3
  <2>7. LookupVariable(t, x).frame_offset \in Int
    BY <2>5, <2>6 DEF Scope, Entry
  <2> QED
    BY <1>1, <2>7 DEF OffsetOf
<1> QED
  BY <1>1 DEF OffsetOf

\* Annotate writes the operands of the visited node and no others.
LEMMA Annotated ==
  ASSUME NEW t, TableOK(t), NEW roles \in SUBSET Roles, Annotate(t, roles),
         tcPc \in 1 .. MaxNodes, offset \in [1 .. MaxNodes -> [Roles -> Int]]
  PROVE  /\ offset' \in [1 .. MaxNodes -> [Roles -> Int]]
         /\ \A n \in 1 .. MaxNodes : n # tcPc => offset'[n] = offset[n]
         /\ \A r \in roles : offset'[tcPc][r] = OffsetOf(t, Visited[r])
<1>1. \A r \in Roles : OffsetOf(t, Visited[r]) \in Int
  BY OffsetTyped
<1> DEFINE row == [r \in Roles |-> IF r \in roles THEN OffsetOf(t, Visited[r]) ELSE offset[tcPc][r]]
<1>2. row \in [Roles -> Int] /\ \A r \in roles : row[r] = OffsetOf(t, Visited[r])
  BY <1>1
<1>3. offset' = [offset EXCEPT ![tcPc] = row]
  BY DEF Annotate
<1> HIDE DEF row
<1> QED
  BY <1>2, <1>3

\* The declarations among the nodes passed keep their slots.
Kept(t, fo, u, gn) ==
  \A m \in 1 .. tcPc - 1 :
    ast[m].k \in Declarers /\ ~AfterReturn(m) => Slot(u, gn, m) = Slot(t, fo, m)

\* The visited node is annotated from a table that shows what is visible there.
Annotations(t, off) ==
  /\ off \in [1 .. MaxNodes -> [Roles -> Int]]
  /\ \A n \in 1 .. MaxNodes : n # tcPc => off[n] = offset[n]
  /\ \A r \in Reading(ast[tcPc].k) :
       Resolves(t, ast[tcPc][r]) /\ off[tcPc][r] = OffsetOf(t, ast[tcPc][r])

\* Where the walk goes on after node n.
Onward(n) == IF ast[n].k = "return" THEN BlockEnd(n) ELSE n + 1

LEMMA OnwardIs ==
  ASSUME Nested, nest = <<>>, ReturnsPassed, ParamsFirst, tcPc \in 1 .. Len(ast),
         NEW u, NEW gn, Slots(u, gn, tcPc + 1)
  PROVE  /\ Onward(tcPc) \in tcPc + 1 .. Len(ast) + 1
         /\ Visible(Onward(tcPc)) = Visible(tcPc + 1)
         /\ \A n \in 1 .. Len(ast) : n < Onward(tcPc) /\ ~AfterReturn(n) => n <= tcPc
         /\ \A r \in 1 .. Len(ast) :
              ast[r].k = "return" /\ r < Onward(tcPc) => BlockEnd(r) <= Onward(tcPc)
         /\ Slots(u, gn, Onward(tcPc))
<1> DEFINE b == Onward(tcPc)
<1>1. Len(ast) \in Nat /\ tcPc \in Nat
  BY NodesTyped
<1>2. CASE ast[tcPc].k # "return"
  <2>1. b = tcPc + 1
    BY <1>2 DEF Onward
  <2>2. ASSUME NEW r \in 1 .. Len(ast), ast[r].k = "return", r < tcPc + 1
        PROVE  BlockEnd(r) <= tcPc + 1
    <3>1. r < tcPc
      BY <1>1, <1>2, <2>2
    <3>2. BlockEnd(r) <= tcPc /\ BlockEnd(r) \in Nat
      BY <2>2, <3>1, ReturnSkips DEF ReturnsPassed
    <3> QED
      BY <1>1, <3>2
  <2> QED
    BY <1>1, <2>1, <2>2
<1>3. CASE ast[tcPc].k = "return"
  <2>1. b = BlockEnd(tcPc)
    BY <1>3 DEF Onward
  <2>2. BlockEnd(tcPc) \in tcPc + 1 .. Len(ast) + 1
    BY <1>3, InBlock, ReturnIsLeaf
  <2>3. Visible(b) = Visible(tcPc + 1)
    BY <1>3, <2>1, VisibleAfterReturn
  <2> HIDE DEF b
  <2>4. ASSUME NEW n \in 1 .. Len(ast), n < b, ~AfterReturn(n)
        PROVE  n <= tcPc
    <3>1. CASE n > tcPc
      <4>1. tcPc \in 1 .. n - 1 /\ n < BlockEnd(tcPc)
        BY <1>1, <2>1, <2>4, <3>1
      <4> QED
        BY <1>3, <2>4, <4>1 DEF AfterReturn, After
    <3> QED
      BY <1>1, <3>1
  <2>5. ASSUME NEW r \in 1 .. Len(ast), ast[r].k = "return", r < b
        PROVE  BlockEnd(r) <= b
    <3>1. CASE r < tcPc
      <4>1. BlockEnd(r) <= tcPc /\ BlockEnd(r) \in Nat
        BY <2>5, <3>1, ReturnSkips DEF ReturnsPassed
      <4> QED
        BY <1>1, <2>1, <2>2, <4>1
    <3>2. CASE r = tcPc
      BY <2>1, <2>2, <3>2
    <3>3. CASE r > tcPc
      BY <1>3, <2>1, <2>5, <3>3, BlocksNest
    <3> QED
      BY <1>1, <3>1, <3>2, <3>3
  <2>6. \A n \in 1 .. Len(ast) : ast[n].k = "param" => n < tcPc
    <3> SUFFICES ASSUME NEW n \in 1 .. Len(ast), ast[n].k = "param", ~(n < tcPc)
                 PROVE  FALSE
      OBVIOUS
    <3>1. tcPc \in 1 .. n
      BY <1>1
    <3> QED
      BY <1>3, <3>1 DEF ParamsFirst
  <2>7. Slots(u, gn, b)
    <3> SUFFICES ASSUME NEW n \in 1 .. Len(ast)
                 PROVE  /\ n >= b => gn[n] = 0
                        /\ n < b /\ ast[n].k = "param" => n \in 1 .. Len(u.all_syms)
                        /\ n = b /\ ast[n].k = "param" => Len(u.all_syms) = n - 1
                        /\ n < b /\ ast[n].k \in Declarers \ {"param"} /\ ~AfterReturn(n) => gn[n] < 0
      BY DEF Slots
    <3>1. n >= b => n >= tcPc + 1
      BY <1>1, <2>1, <2>2
    <3>2. ast[n].k = "param" => n < tcPc + 1 /\ n # b
      BY <1>1, <2>1, <2>2, <2>6
    <3>3. n < b /\ ~AfterReturn(n) => n < tcPc + 1
      BY <1>1, <2>4
    <3> QED
      BY <3>1, <3>2, <3>3 DEF Slots
  <2> QED
    BY <2>1, <2>2, <2>3, <2>4, <2>5, <2>7 DEF b
<1> QED
  BY <1>2, <1>3

\* A step that goes on keeps the invariant, if the table it leaves and the
\* one it annotates from show what is visible.
LEMMA GoOnNames ==
  ASSUME NameInv, NEW kinds, At(kinds), NEW ok, NEW u, GoOn(ok, u, Onward(tcPc)), BreakInv',
         frame_offset' \in [1 .. MaxNodes -> Int], loop_target' \in [1 .. MaxNodes -> Nat],
         NEW t, TableOK(t), TableOK(u), u.all_syms = t.all_syms,
         Shows(t, frame_offset', Visible(tcPc + 1)), Shows(u, frame_offset', Visible(tcPc + 1)),
         Slots(u, frame_offset', tcPc + 1), Kept(table, frame_offset, u, frame_offset'),
         Annotations(t, offset')
  PROVE  NameInv'
<1> DEFINE gn == frame_offset'
           n == tcPc
<1>1. /\ phase = "typecheck" /\ nest = <<>> /\ Nested
      /\ n \in 1 .. Len(ast) /\ n \in 1 .. MaxNodes /\ Len(ast) \in Nat
      /\ ~AfterReturn(n)
  BY AtName
<1>2. /\ ast' = ast /\ nest' = nest /\ phase' = phase /\ table' = u /\ tcPc' = Onward(n)
  BY DEF GoOn
<1>3. /\ TypeOK /\ ParamsFirst /\ ReturnsPassed /\ UsesFound /\ \A i \in 1 .. Len(ast) : Shaped(ast[i])
  BY DEF NameInv
<1>4. /\ Onward(n) \in n + 1 .. Len(ast) + 1
      /\ Visible(Onward(n)) = Visible(n + 1)
      /\ \A i \in 1 .. Len(ast) : i < Onward(n) /\ ~AfterReturn(i) => i <= n
      /\ \A r \in 1 .. Len(ast) : ast[r].k = "return" /\ r < Onward(n) => BlockEnd(r) <= Onward(n)
      /\ Slots(u, gn, Onward(n))
  BY <1>1, <1>3, OnwardIs
<1> HIDE DEF n
<1>5. TypeOK'
  <2>1. Onward(n) \in Nat \ {0} /\ u \in Table
    BY <1>1, <1>4 DEF TableOK
  <2> QED
    BY <1>2, <1>3, <2>1 DEF TypeOK, Annotations, n
<1>6. ParamsFirst' /\ (\A i \in 1 .. Len(ast) : Shaped(ast[i]))' /\ ReturnsPassed'
  <2>1. ReturnsPassed'
    BY <1>2, <1>4, SameText DEF ReturnsPassed, n
  <2> QED
    BY <1>2, <1>3, <2>1 DEF ParamsFirst, Shaped
<1>7. Shows(table, frame_offset, Visible(tcPc))' /\ Slots(table, frame_offset, tcPc)'
  <2>1. Shows(u, gn, Visible(Onward(n)))
    BY <1>4 DEF n
  <2> QED
    BY <1>2, <1>4, <2>1, SameText DEF n
<1>8. ASSUME NEW i \in 1 .. Len(ast), NEW r \in Roles, ast[i][r] \in Ids,
             ~(r = "id" /\ ast[i].k \in Declarers), i < Onward(n), ~AfterReturn(i)
      PROVE  Found(u, gn, offset'[i][r], ast[i][r], i)
  <2>1. i <= n /\ i \in Nat /\ n \in Nat
    BY <1>1, <1>4, <1>8
  <2>2. CASE i = n
    <3>1. r \in Reading(ast[n].k)
      BY <1>3, <1>8, <2>2 DEF Shaped
    <3>2. Resolves(t, ast[n][r]) /\ offset'[n][r] = OffsetOf(t, ast[n][r])
      BY <3>1 DEF Annotations, n
    <3>3. Found(t, gn, offset'[n][r], ast[n][r], n)
      BY <1>1, <1>8, <2>2, <3>2, Resolved DEF n
    <3>4. \A m : Slot(t, gn, m) = Slot(u, gn, m)
      BY DEF Slot
    <3> QED
      BY <2>2, <3>3, <3>4 DEF Found
  <2>3. CASE i # n
    <3>1. i < n /\ i \in 1 .. MaxNodes
      BY <1>1, <2>1, <2>3, AstAssumption
    <3>2. offset'[i] = offset[i]
      BY <2>3, <3>1 DEF Annotations, n
    <3>3. <<i, r>> \in Uses /\ Checked(i)
      BY <1>8, <3>1 DEF Uses, Checked, n
    <3>4. Found(table, frame_offset, offset[i][r], ast[i][r], i)
      BY <1>3, <3>3 DEF UsesFound
    <3> DEFINE S == InScope(ast[i][r], i)
    <3>5. S = {m \in Visible(i + 1) : ast[m].id = ast[i][r]}
      BY <1>1, <1>8, InScopeIsVisible
    <3>6. \A m \in S : m \in 1 .. i /\ ast[m].k \in Declarers /\ ~AfterReturn(m)
      BY <2>1, <3>5 DEF Visible
    <3> HIDE DEF S
    <3>7. S # {} => Max(S) \in S
      BY <2>1, <3>6, MaxIsGreatest
    <3>8. \A m \in S : Slot(u, gn, m) = Slot(table, frame_offset, m)
      <4>1. \A m \in S : m \in 1 .. n - 1
        BY <2>1, <3>1, <3>6
      <4> QED
        BY <3>6, <4>1 DEF Kept, n
    <3> QED
      BY <3>2, <3>4, <3>7, <3>8 DEF Found, S
  <2> QED
    BY <2>2, <2>3
<1>9. UsesFound'
  <2> SUFFICES ASSUME NEW w \in Uses', Checked(w[1])'
               PROVE  Found(u, gn, offset'[w[1]][w[2]], ast[w[1]][w[2]], w[1])
    BY <1>2, SameText DEF UsesFound
  <2>1. /\ w \in (1 .. Len(ast)) \X Roles /\ ast[w[1]][w[2]] \in Ids
        /\ ~(w[2] = "id" /\ ast[w[1]].k \in Declarers)
    BY <1>2 DEF Uses
  <2>2. w[1] < Onward(n) /\ ~AfterReturn(w[1])
    BY <1>2, SameText DEF Checked
  <2> QED
    BY <1>8, <2>1, <2>2
<1>10. RejectsOnlyErrors' /\ phase' # "parse" /\ nest' = <<>>
  BY <1>1, <1>2 DEF RejectsOnlyErrors
<1> QED
  BY <1>5, <1>6, <1>7, <1>9, <1>10 DEF NameInv

\* A step that changes the phase leaves everything the invariant speaks of as
\* it was.
LEMMA SameNames ==
  ASSUME NameInv, UNCHANGED <<ast, nest, tcPc, table, frame_offset, offset, loop_target>>,
         phase' \in Phases, phase = "parse" <=> phase' = "parse", BreakInv', RejectsOnlyErrors'
  PROVE  NameInv'
<1>1. TypeOK'
  BY DEF NameInv, TypeOK
<1>2. ParamsFirst' /\ (\A n \in 1 .. Len(ast) : Shaped(ast[n]))'
  BY DEF NameInv, ParamsFirst, Shaped
<1>3. ReturnsPassed'
  BY SameText DEF NameInv, ReturnsPassed
<1>4. Shows(table, frame_offset, Visible(tcPc))' /\ Slots(table, frame_offset, tcPc)'
  BY SameText DEF NameInv
<1>5. UsesFound'
  <2>1. Uses' = Uses /\ \A n : Checked(n)' <=> Checked(n)
    BY SameText DEF Uses, Checked
  <2> QED
    BY <2>1, SameText DEF NameInv, UsesFound
<1>6. /\ phase' = "parse" => frame_offset' = [n \in 1 .. MaxNodes |-> 0]
      /\ phase' # "parse" => nest' = <<>>
  BY DEF NameInv
<1> QED
  BY <1>1, <1>2, <1>3, <1>4, <1>5, <1>6 DEF NameInv

LEMMA RejectNames ==
  ASSUME NameInv, NEW kinds, At(kinds), NEW ok, Reject(ok), BreakInv', RejectsOnlyErrors'
  PROVE  NameInv'
<1>1. /\ phase = "typecheck" /\ phase' = "rejected"
      /\ UNCHANGED <<ast, nest, tcPc, table, frame_offset, offset, loop_target>>
  BY DEF At, Reject, attributes
<1>2. phase' \in Phases /\ (phase = "parse" <=> phase' = "parse")
  BY <1>1 DEF Phases
<1> QED
  BY <1>1, <1>2, SameNames

\* The table the walk stands with shows, but for the declarations of a block
\* that ends here, what is visible at the node.
LEMMA ShowsHere ==
  ASSUME NameInv, NEW kinds, At(kinds)
  PROVE  LET s == IF Visited.k \in Markers THEN ExitScope(table) ELSE table
             V == {m \in Visible(tcPc) : Own(m) <= Visited.lvl + 1}
         IN  /\ TableOK(s) /\ Len(s.scopes) = Visited.lvl + 1 /\ Visited.lvl \in Nat
             /\ s.all_syms = table.all_syms /\ s.current_stack_offset = table.current_stack_offset
             /\ Shows(s, frame_offset, V)
             /\ Visible(tcPc + 1) = V \cup (IF Visited.k \in Declarers THEN {tcPc} ELSE {})
<1> DEFINE n == tcPc
           V == {m \in Visible(n) : Own(m) <= ast[n].lvl + 1}
<1>1. /\ nest = <<>> /\ Nested /\ n \in 1 .. Len(ast) /\ Visited = ast[n]
      /\ ast[n].lvl \in Nat /\ ~AfterReturn(n) /\ TableOK(table)
      /\ Len(table.scopes) = 1 + Before(ast[n])
      /\ Shows(table, frame_offset, Visible(n))
  BY AtName
<1>2. Visible(n + 1) = V \cup (IF ast[n].k \in Declarers THEN {n} ELSE {})
  BY <1>1, VisibleNext
<1>3. CASE ast[n].k \in Markers
  <2>1. Len(table.scopes) = ast[n].lvl + 2 /\ Len(table.scopes) > 0
    BY <1>1, <1>3 DEF Before
  <2>a. TableOK(ExitScope(table)) /\ Len(ExitScope(table).scopes) = Len(table.scopes) - 1
    BY <1>1, <2>1, ExitScopeOK
  <2>2. /\ TableOK(ExitScope(table)) /\ Len(ExitScope(table).scopes) = ast[n].lvl + 1
    BY <1>1, <2>1, <2>a
  <2>3. V = {m \in Visible(n) : Own(m) <= Len(table.scopes) - 1}
    BY <1>1, <2>1
  <2>4. /\ Shows(ExitScope(table), frame_offset, V)
        /\ ExitScope(table).all_syms = table.all_syms
        /\ ExitScope(table).current_stack_offset = table.current_stack_offset
    BY <1>1, <2>1, <2>3, ExitShows
  <2> QED
    BY <1>1, <1>2, <1>3, <2>2, <2>4
<1>4. CASE ast[n].k \notin Markers
  <2>1. Len(table.scopes) = ast[n].lvl + 1
    BY <1>1, <1>4 DEF Before
  <2>2. \A m \in Visible(n) : Own(m) <= ast[n].lvl + 1
    BY <1>1, <2>1 DEF Shows
  <2>3. V = Visible(n)
    BY <2>2
  <2> QED
    BY <1>1, <1>2, <1>4, <2>1, <2>3
<1> QED
  BY <1>3, <1>4

\* A node that declares nothing leaves the slots as they are.
LEMMA SlotsOn ==
  ASSUME Nested, ParamsFirst, tcPc \in 1 .. Len(ast), ast[tcPc].k \notin Declarers,
         NEW u, u.all_syms = table.all_syms, u.current_stack_offset = table.current_stack_offset,
         Slots(table, frame_offset, tcPc)
  PROVE  Slots(u, frame_offset, tcPc + 1)
<1> DEFINE n == tcPc
<1>1. Len(ast) \in Nat /\ n \in Nat
  BY NodesTyped
<1>2. \A m \in 1 .. Len(ast) : ast[m].k = "param" => m < n
  <2> SUFFICES ASSUME NEW m \in 1 .. Len(ast), ast[m].k = "param", ~(m < n)
               PROVE  FALSE
    OBVIOUS
  <2>1. n \in 1 .. m
    BY <1>1
  <2> QED
    BY <2>1 DEF ParamsFirst, Declarers
<1>3. ASSUME NEW m \in 1 .. Len(ast)
      PROVE  /\ m >= n + 1 => frame_offset[m] = 0
             /\ m < n + 1 /\ ast[m].k = "param" => m \in 1 .. Len(u.all_syms)
             /\ m = n + 1 /\ ast[m].k = "param" => Len(u.all_syms) = m - 1
             /\ m < n + 1 /\ ast[m].k \in Declarers \ {"param"} /\ ~AfterReturn(m)
                  => frame_offset[m] < 0
  <2>1. m >= n + 1 => m >= n
    BY <1>1
  <2>2. ast[m].k = "param" => m < n /\ m # n + 1
    BY <1>1, <1>2
  <2>3. m < n + 1 /\ ast[m].k \in Declarers => m < n
    BY <1>1
  <2> QED
    BY <2>1, <2>2, <2>3 DEF Slots
<1> QED
  BY <1>3 DEF Slots

\* What declaring the visited node's name in table s does, when the frame
\* offsets of the variables' nodes stay what they were and the node's own is
\* the symbol's.
LEMMA DeclareHere ==
  ASSUME NameInv, NEW kinds, At(kinds), Visited.k \in Declarers,
         NEW s, TableOK(s), Len(s.scopes) = Own(tcPc),
         s.all_syms = table.all_syms, s.current_stack_offset = table.current_stack_offset,
         Shows(s, frame_offset, {m \in Visible(tcPc) : Own(m) <= Visited.lvl + 1}),
         CanDeclare(s, Visited.id),
         NEW gn,
         \A m \in 1 .. Len(ast) :
           IF ast[m].k = "param"
           THEN gn[m] \in Int /\ gn[m] >= 0 /\ (m > tcPc => gn[m] = 0)
           ELSE gn[m] = IF m = tcPc THEN FreshOffset(s, Visited.ty) ELSE frame_offset[m]
  PROVE  LET u == DeclareVariable(s, Visited.id, Visited.ty)
         IN  /\ TableOK(u) /\ Len(u.scopes) = Len(s.scopes)
             /\ Shows(u, gn, Visible(tcPc + 1)) /\ Slots(u, gn, tcPc + 1)
             /\ Kept(table, frame_offset, u, gn)
             /\ LookupVariable(u, Visited.id).frame_offset = FreshOffset(s, Visited.ty)
<1> DEFINE n == tcPc
           V == {m \in Visible(n) : Own(m) <= ast[n].lvl + 1}
           off == FreshOffset(s, Visited.ty)
           u == DeclareVariable(s, Visited.id, Visited.ty)
           e == [id |-> Visited.id, type |-> Visited.ty, frame_offset |-> off]
           N == Len(table.all_syms)
           fo == frame_offset
<1>1. /\ Nested /\ n \in 1 .. Len(ast) /\ Visited = ast[n] /\ Len(ast) \in Nat /\ Declares(ast[n])
      /\ ast[n].lvl \in Nat /\ Slots(table, fo, n) /\ TableOK(table) /\ n \in Nat
      /\ Visible(n + 1) = V \cup {n} /\ ParamsFirst
  <2>1. /\ Nested /\ n \in 1 .. Len(ast) /\ Visited = ast[n] /\ Len(ast) \in Nat /\ Declares(ast[n])
        /\ ast[n].lvl \in Nat /\ Slots(table, fo, n) /\ TableOK(table)
    BY AtName
  <2>2. Visible(n + 1) = V \cup {n}
    BY <2>1, ShowsHere
  <2> QED
    BY <2>1, <2>2 DEF NameInv
<1>2. Visited.id \in Ids /\ Visited.ty \in Types /\ Len(s.scopes) > 0
  <2>1. Own(n) \in Nat /\ Own(n) = ast[n].lvl + (IF ast[n].k = "fordcl" THEN 2 ELSE 1)
    BY <1>1, OwnIs
  <2>2. Own(n) > 0
    BY <1>1, <2>1
  <2> QED
    BY <1>1, <2>2 DEF Declares
<1>3. /\ TableOK(u) /\ Len(s.scopes) \in Nat
      /\ Len(u.scopes) = Len(s.scopes) /\ u.scopes[Len(s.scopes)] = s.scopes[Len(s.scopes)] \cup {e}
      /\ \A i \in 1 .. Len(s.scopes) : i # Len(s.scopes) => u.scopes[i] = s.scopes[i]
      /\ N \in Nat /\ Len(u.all_syms) = N + 1 /\ u.all_syms[N + 1] = e
      /\ \A i \in 1 .. N : u.all_syms[i] = table.all_syms[i]
      /\ table.current_stack_offset \in Int /\ u.current_stack_offset = off
      /\ off \in Int /\ off < table.current_stack_offset /\ off < 0
      /\ LookupVariable(u, Visited.id) = e
  <2>1. Adds(s, u, e)
    BY <1>2, Declared
  <2>2. e.frame_offset = off /\ e.id = Visited.id
    OBVIOUS
  <2> HIDE DEF u, e, off
  <2> QED
    BY <2>1, <2>2 DEF Adds
<1>4. e.frame_offset = off
  OBVIOUS
<1> HIDE DEF n, u, e, off, N, V
<1>5. \A m \in 1 .. Len(ast) : fo[m] \in Int
  <2>1. Fits /\ Len(nest) \in Nat /\ fo \in [1 .. MaxNodes -> Int]
    BY DEF NameInv, BreakInv, WalkInv, Nested, TypeOK
  <2> QED
    BY <1>1, <2>1, AstAssumption DEF Fits
<1>6. \A m \in 1 .. Len(ast) :
        /\ gn[m] \in Int
        /\ ast[m].k = "param" => gn[m] >= 0 /\ (m > n => gn[m] = 0)
        /\ ast[m].k # "param" => gn[m] = IF m = n THEN off ELSE fo[m]
  BY <1>3, <1>5 DEF n, off
\* The slots of the nodes passed.
<1>7. ast[n].k = "param" => N = n - 1
  BY <1>1 DEF Slots, N
<1>8. \A m \in 1 .. Len(ast) : m < n /\ ast[m].k = "param" => m \in 1 .. N
  BY <1>1 DEF Slots, N
<1>9. ASSUME NEW m \in 1 .. n - 1, ast[m].k \in Declarers, ~AfterReturn(m)
      PROVE  Slot(u, gn, m) = Slot(table, fo, m)
  <2>1. m \in 1 .. Len(ast) /\ m < n
    BY <1>1
  <2>2. CASE ast[m].k = "param"
    BY <1>3, <1>8, <2>1, <2>2 DEF Slot
  <2>3. CASE ast[m].k # "param"
    BY <1>6, <2>1, <2>3 DEF Slot
  <2> QED
    BY <2>2, <2>3
<1>10. Slot(u, gn, n) = off
  BY <1>1, <1>3, <1>4, <1>6, <1>7 DEF Slot
\* The scopes.
<1>11. Shows(u, gn, V \cup {n})
  <2>1. Shows(s, fo, V)
    BY <1>1 DEF V, n
  <2>2. EntryOf(u, gn, n) = e
    BY <1>1, <1>10 DEF EntryOf, e
  <2>3. ASSUME NEW m \in V PROVE EntryOf(u, gn, m) = EntryOf(s, fo, m)
    <3>1. m \in 1 .. n - 1 /\ ast[m].k \in Declarers /\ ~AfterReturn(m)
      BY DEF V, Visible
    <3>2. Slot(u, gn, m) = Slot(table, fo, m)
      BY <1>9, <3>1
    <3>3. Slot(table, fo, m) = Slot(s, fo, m)
      BY DEF Slot
    <3> QED
      BY <3>2, <3>3 DEF EntryOf
  <2>4. Own(n) = Len(s.scopes)
    BY DEF n
  <2> QED
    BY <1>2, <1>3, <2>1, <2>2, <2>3, <2>4, DeclareShows
\* The slots.
<1>12. ASSUME NEW m \in 1 .. Len(ast)
       PROVE  /\ m >= n + 1 => gn[m] = 0
              /\ ast[m].k = "param" => gn[m] >= 0
              /\ gn[m] < 0 => ast[m].k \in Declarers /\ off <= gn[m]
              /\ m < n + 1 /\ ast[m].k = "param" => m \in 1 .. N + 1
              /\ m = n + 1 /\ ast[m].k = "param" => N + 1 = m - 1
              /\ m < n + 1 /\ ast[m].k \in Declarers \ {"param"} /\ ~AfterReturn(m) => gn[m] < 0
  <2>1. CASE m = n
    BY <1>1, <1>3, <1>6, <1>7, <2>1
  <2>2. CASE m # n /\ ast[m].k # "param"
    <3>1. gn[m] = fo[m] /\ fo[m] \in Int
      BY <1>5, <1>6, <2>2
    <3>2. m >= n + 1 => m >= n
      BY <1>1
    <3>3. m < n + 1 => m < n
      BY <1>1, <2>2
    <3>4. fo[m] < 0 => ast[m].k \in Declarers /\ table.current_stack_offset <= fo[m]
      BY <1>1 DEF Slots
    <3>5. fo[m] < 0 => off <= fo[m]
      BY <1>3, <3>1, <3>4
    <3>6. /\ m >= n => fo[m] = 0
          /\ m < n /\ ast[m].k \in Declarers \ {"param"} /\ ~AfterReturn(m) => fo[m] < 0
      BY <1>1 DEF Slots
    <3> QED
      BY <2>2, <3>1, <3>2, <3>3, <3>4, <3>5, <3>6
  <2>3. CASE m # n /\ ast[m].k = "param"
    <3>1. gn[m] \in Int /\ gn[m] >= 0 /\ (m >= n + 1 => gn[m] = 0)
      BY <1>1, <1>6, <2>3
    <3>2. m < n + 1 => m \in 1 .. N + 1
      BY <1>1, <1>3, <1>8, <2>3
    <3>3. m = n + 1 => N + 1 = m - 1
      <4>1. m = n + 1 => n \in 1 .. m
        BY <1>1
      <4>2. m = n + 1 => ast[n].k = "param"
        BY <1>1, <2>3, <4>1 DEF ParamsFirst
      <4> QED
        BY <1>1, <1>7, <4>2
    <3> QED
      BY <2>3, <3>1, <3>2, <3>3
  <2> QED
    BY <2>1, <2>2, <2>3
<1>13. ASSUME NEW m \in 1 .. Len(ast), NEW o \in 1 .. Len(ast), m < o, gn[m] < 0
       PROVE  gn[o] # gn[m]
  <2>1. ast[m].k # "param" /\ gn[m] \in Int /\ gn[o] \in Int
    BY <1>6, <1>13
  <2>2. CASE ast[o].k = "param"
    BY <1>6, <1>13, <2>1, <2>2
  <2>3. CASE ast[o].k # "param" /\ m = n
    <3>1. o >= n + 1
      BY <1>1, <1>13, <2>3
    <3> QED
      BY <1>12, <1>13, <2>1, <3>1
  <2>4. CASE ast[o].k # "param" /\ m # n
    <3>1. gn[m] = fo[m] /\ fo[m] \in Int
      BY <1>5, <1>6, <2>1, <2>4
    <3>2. table.current_stack_offset <= fo[m] /\ fo[o] # fo[m]
      BY <1>1, <1>13, <3>1 DEF Slots
    <3>3. gn[o] = IF o = n THEN off ELSE fo[o]
      BY <1>6, <2>4
    <3> QED
      BY <1>3, <3>1, <3>2, <3>3
  <2> QED
    BY <2>2, <2>3, <2>4
<1>14. ASSUME NEW m \in 1 .. Len(ast), NEW o \in 1 .. Len(ast), ast[m].k = "param",
              m \in 1 .. N + 1, gn[o] < 0
       PROVE  gn[o] < u.all_syms[m].frame_offset
  <2>1. ast[o].k # "param" /\ gn[o] = (IF o = n THEN off ELSE fo[o]) /\ fo[o] \in Int
    BY <1>5, <1>6, <1>14
  <2>2. CASE m \in 1 .. N
    <3>1. u.all_syms[m] = table.all_syms[m]
      BY <1>3, <2>2
    <3>a. table.all_syms \in Seq(Entry) /\ m \in 1 .. Len(table.all_syms)
      BY <1>1, <2>2 DEF TableOK, Table, N
    <3>b. table.all_syms[m] \in Entry
      BY <3>a
    <3>2. table.current_stack_offset <= table.all_syms[m].frame_offset
          /\ table.all_syms[m].frame_offset \in Int
      BY <1>1, <3>a, <3>b DEF TableOK, OffsetsFall, Entry
    <3>3. fo[o] < 0 => fo[o] < table.all_syms[m].frame_offset
      BY <1>1, <1>14, <2>2 DEF Slots, N
    <3> QED
      BY <1>3, <1>14, <2>1, <3>1, <3>2, <3>3
  <2>3. CASE m = N + 1
    <3>1. ~(m < n)
      BY <1>3, <1>8, <1>14, <2>3
    <3>2. n \in 1 .. m
      BY <1>1, <3>1
    <3>3. ast[n].k = "param"
      BY <1>1, <1>14, <3>2 DEF ParamsFirst
    <3>4. N = n - 1 /\ o # n
      BY <1>7, <2>1, <3>3
    <3>5. ~(o < n)
      <4> SUFFICES ASSUME o < n PROVE FALSE
        OBVIOUS
      <4>1. o \in 1 .. n
        BY <1>1
      <4> QED
        BY <1>1, <2>1, <3>3, <4>1 DEF ParamsFirst
    <3>6. fo[o] = 0
      BY <1>1, <3>5 DEF Slots
    <3> QED
      BY <1>14, <2>1, <3>4, <3>6
  <2> QED
    BY <1>3, <1>14, <2>2, <2>3
<1>15. Slots(u, gn, n + 1)
  BY <1>3, <1>12, <1>13, <1>14 DEF Slots
<1>16. Kept(table, fo, u, gn)
  BY <1>9 DEF Kept, n
<1> QED
  BY <1>1, <1>3, <1>4, <1>11, <1>15, <1>16 DEF u, off, n

-------------------------------------------------------------------------------
(* The steps.                                                              *)

\* The table a visit starts with: a marker leaves its block's scope first.
Entered == IF Visited.k \in Markers THEN ExitScope(table) ELSE table

LEMMA SlotSame ==
  ASSUME NEW t, NEW u, NEW fo, u.all_syms = t.all_syms
  PROVE  \A m : Slot(u, fo, m) = Slot(t, fo, m)
BY DEF Slot

\* A node that declares nothing, with or without a block of its own.
LEMMA PlainNames ==
  ASSUME NameInv, NEW kinds, At(kinds), Visited.k \notin Declarers, BreakInv',
         NEW t \in {Entered, EnterScope(Entered)}, NEW u \in {Entered, EnterScope(Entered)},
         NEW ok, GoOn(ok, u, Onward(tcPc)),
         frame_offset' = frame_offset, loop_target' \in [1 .. MaxNodes -> Nat],
         Annotations(t, offset')
  PROVE  NameInv'
<1> DEFINE e == EnterScope(Entered)
<1>1. /\ tcPc \in 1 .. Len(ast) /\ Visited = ast[tcPc] /\ Nested /\ Slots(table, frame_offset, tcPc)
      /\ ParamsFirst /\ frame_offset \in [1 .. MaxNodes -> Int]
  BY AtName DEF NameInv, TypeOK
<1>2. /\ TableOK(Entered) /\ Entered.all_syms = table.all_syms
      /\ Entered.current_stack_offset = table.current_stack_offset
      /\ Shows(Entered, frame_offset, Visible(tcPc + 1))
  BY ShowsHere DEF Entered
<1>3. /\ TableOK(e) /\ e.all_syms = table.all_syms
      /\ e.current_stack_offset = table.current_stack_offset
      /\ Shows(e, frame_offset, Visible(tcPc + 1))
  BY <1>2, EnterScopeOK, EnterShows
<1> HIDE DEF e
<1>4. t \in {Entered, e} /\ u \in {Entered, e}
  BY DEF e
<1> HIDE DEF Entered
<1>5. /\ TableOK(t) /\ TableOK(u) /\ u.all_syms = table.all_syms /\ t.all_syms = table.all_syms
      /\ u.current_stack_offset = table.current_stack_offset
      /\ Shows(t, frame_offset, Visible(tcPc + 1)) /\ Shows(u, frame_offset, Visible(tcPc + 1))
  BY <1>2, <1>3, <1>4
<1>6. Slots(u, frame_offset, tcPc + 1)
  BY <1>1, <1>5, SlotsOn
<1>7. Kept(table, frame_offset, u, frame_offset)
  BY <1>5, SlotSame DEF Kept
<1> QED
  BY <1>1, <1>5, <1>6, <1>7, GoOnNames

\* A node that declares its name, in the current scope or in one of its own.
LEMMA DeclareNames ==
  ASSUME NameInv, NEW kinds, At(kinds), Visited.k \in Declarers, BreakInv',
         NEW s \in {table, EnterScope(table)}, Len(s.scopes) = Own(tcPc),
         CanDeclare(s, Visited.id),
         NEW ok, GoOn(ok, DeclareVariable(s, Visited.id, Visited.ty), tcPc + 1),
         frame_offset' \in [1 .. MaxNodes -> Int], loop_target' \in [1 .. MaxNodes -> Nat],
         \A m \in 1 .. Len(ast) :
           IF ast[m].k = "param"
           THEN frame_offset'[m] \in Int /\ frame_offset'[m] >= 0
                /\ (m > tcPc => frame_offset'[m] = 0)
           ELSE frame_offset'[m] = IF m = tcPc THEN FreshOffset(s, Visited.ty) ELSE frame_offset[m],
         Annotations(DeclareVariable(s, Visited.id, Visited.ty), offset')
  PROVE  NameInv'
<1> DEFINE u == DeclareVariable(s, Visited.id, Visited.ty)
           V == {m \in Visible(tcPc) : Own(m) <= Visited.lvl + 1}
<1>1. Visited.k \notin Markers /\ Visited = ast[tcPc]
  BY AtName DEF Declarers, Markers, Clauses
<1>2. TableOK(table) /\ Shows(table, frame_offset, V)
  BY <1>1, ShowsHere
<1>3. /\ TableOK(EnterScope(table)) /\ Shows(EnterScope(table), frame_offset, V)
      /\ EnterScope(table).all_syms = table.all_syms
      /\ EnterScope(table).current_stack_offset = table.current_stack_offset
  BY <1>2, EnterScopeOK, EnterShows
<1>4. /\ TableOK(s) /\ Shows(s, frame_offset, V)
      /\ s.all_syms = table.all_syms /\ s.current_stack_offset = table.current_stack_offset
  BY <1>2, <1>3
<1>5. /\ TableOK(u) /\ Shows(u, frame_offset', Visible(tcPc + 1))
      /\ Slots(u, frame_offset', tcPc + 1) /\ Kept(table, frame_offset, u, frame_offset')
  BY <1>4, DeclareHere
<1> HIDE DEF u
<1>6. Onward(tcPc) = tcPc + 1
  BY <1>1 DEF Onward, Declarers
<1>7. GoOn(ok, u, Onward(tcPc))
  BY <1>6 DEF u
<1>8. Annotations(u, offset')
  BY DEF u
<1> QED
  BY <1>5, <1>7, <1>8, GoOnNames

\* Annotate is all of a step that resolves what a node reads.
LEMMA AnnotateAll ==
  ASSUME NameInv, NEW kinds, At(kinds), NEW t, TableOK(t), NEW roles \in SUBSET Roles,
         Annotate(t, roles), Reading(Visited.k) \subseteq roles,
         \A r \in Reading(Visited.k) : Resolves(t, Visited[r])
  PROVE  Annotations(t, offset')
<1>1. /\ tcPc \in 1 .. MaxNodes /\ Visited = ast[tcPc]
      /\ offset \in [1 .. MaxNodes -> [Roles -> Int]]
  BY AtName DEF NameInv, TypeOK
<1>2. /\ offset' \in [1 .. MaxNodes -> [Roles -> Int]]
      /\ \A n \in 1 .. MaxNodes : n # tcPc => offset'[n] = offset[n]
      /\ \A r \in roles : offset'[tcPc][r] = OffsetOf(t, Visited[r])
  BY <1>1, Annotated
<1> QED
  BY <1>1, <1>2 DEF Annotations

LEMMA NothingRead ==
  ASSUME NameInv, NEW kinds, At(kinds), Reading(Visited.k) = {}, offset' = offset
  PROVE  \A t : Annotations(t, offset')
BY AtName DEF NameInv, TypeOK, Annotations

\* The operands that the kinds of nodes read.
LEMMA ReadingIs ==
  /\ Reading("param") = {} /\ Reading("decl") = {} /\ Reading("break") = {}
  /\ Reading("else") = {} /\ Reading("end") = {}
  /\ \A k \in {"init", "expr", "print", "delete", "return"} : Reading(k) = {"rd"}
  /\ \A k \in {"if", "elif", "while"} : Reading(k) = {"cd"}
  /\ Reading("asst") = {"id", "rd"} /\ Reading("fordcl") = {"rd", "cd", "ep"}
  /\ Reading("forasst") = Roles
<1>1. /\ Reading("param") = {} /\ Reading("decl") = {} /\ Reading("break") = {}
      /\ Reading("else") = {} /\ Reading("end") = {}
  BY DEF Reading
<1>2. Reading("asst") = {"id", "rd"} /\ Reading("fordcl") = {"rd", "cd", "ep"}
      /\ Reading("forasst") = Roles
  BY DEF Reading
<1>3. \A k \in {"init", "expr", "print", "delete", "return"} : Reading(k) = {"rd"}
  BY DEF Reading
<1>4. \A k \in {"if", "elif", "while"} : Reading(k) = {"cd"}
  BY DEF Reading
<1> QED
  BY <1>1, <1>2, <1>3, <1>4

\* A condition that does not resolve means nothing there.
LEMMA RejectedCondition ==
  ASSUME NameInv, NEW kinds, At(kinds), Visited.k \in {"if", "elif", "while"},
         ~Resolves(Entered, Visited.cd), NEW ok, Reject(ok), BreakInv'
  PROVE  NameInv'
<1>1. /\ Nested /\ nest = <<>> /\ tcPc \in 1 .. Len(ast) /\ ~AfterReturn(tcPc)
      /\ Visited = ast[tcPc]
  BY AtName
<1>2. TableOK(Entered) /\ Shows(Entered, frame_offset, Visible(tcPc + 1))
  BY ShowsHere DEF Entered, Declarers
<1>3. Visited.cd \in Ids
  BY DEF Resolves
<1>4. Meant(Visited.cd, tcPc) = None
  BY <1>1, <1>2, <1>3, Resolved
<1>5. RejectsOnlyErrors'
  <2>1. ast' = ast /\ tcPc' = tcPc /\ Visited' = Visited
    BY DEF Reject, Visited
  <2>2. Meant(Visited.cd, tcPc)' = Meant(Visited.cd, tcPc)
    BY <2>1, SameText DEF Meant
  <2> QED
    BY <1>4, <2>1, <2>2 DEF RejectsOnlyErrors
<1> QED
  BY <1>5, RejectNames

\* A visible declaration in the scope of node n is in n's own block, or in the
\* for statement whose block that is.
LEMMA SameBlock ==
  ASSUME Nested, NEW n \in 1 .. Len(ast), NEW m \in 1 .. n - 1,
         ast[m].k \in Declarers, Own(m) = ast[n].lvl + 1,
         \A j \in m + 1 .. n - 1 : Own(m) <= ast[j].lvl + 1
  PROVE  Around(m) = Around(n) \/ Around(n) = Around(m) \cup {m}
<1> DEFINE L(j) == ast[j].lvl
<1>1. /\ n \in Nat /\ m \in Nat /\ m < n /\ \A j \in 1 .. n : L(j) \in Nat
      /\ \A j \in 1 .. n : j \in m + 1 .. n => j \in m + 1 .. n - 1 \/ j = n
  BY NodesTyped
<1>2. Own(m) = L(m) + (IF ast[m].k = "fordcl" THEN 2 ELSE 1) /\ Own(m) = L(n) + 1
  BY NodesTyped, OwnIs
<1>3. \A j \in m + 1 .. n - 1 : Own(m) <= L(j) + 1
  OBVIOUS
<1>4. m \in 1 .. n /\ n \in 1 .. n /\ L(m) \in Nat /\ L(n) \in Nat
  BY <1>1
<1> HIDE DEF L
<1>5. ASSUME NEW j \in m + 1 .. n
      PROVE  j \in 1 .. n /\ L(j) \in Nat /\ L(j) >= L(n)
  <2>1. j \in 1 .. n /\ (j \in m + 1 .. n - 1 \/ j = n)
    BY <1>1
  <2>2. L(j) \in Nat
    BY <1>1, <2>1
  <2>3. j # n => L(n) + 1 <= L(j) + 1
    BY <1>2, <1>3, <2>1
  <2>4. j # n => L(j) >= L(n)
    BY <1>4, <2>2, <2>3
  <2> QED
    BY <1>4, <2>1, <2>2, <2>4
<1>6. /\ ast[m].k = "fordcl" => L(m) + 1 = L(n)
      /\ ast[m].k # "fordcl" => L(m) = L(n)
  <2>1. ast[m].k = "fordcl" => L(m) + 2 = L(n) + 1
    BY <1>2
  <2>2. ast[m].k # "fordcl" => L(m) + 1 = L(n) + 1
    BY <1>2
  <2> QED
    BY <1>4, <2>1, <2>2
<1>7. \A p : Around(p) = {i \in 1 .. p - 1 : /\ ast[i].k \in Openers \cup Clauses
                                             /\ \A j \in i + 1 .. p : L(j) > L(i)}
  BY DEF Around, L
\* The statements between them have ended.
<1>8. ASSUME NEW i \in m + 1 .. n - 1
      PROVE  i \notin Around(n)
  <2>1. n \in i + 1 .. n /\ i \in m + 1 .. n /\ i \in 1 .. n
    BY <1>1
  <2>2. ~(L(n) > L(i))
    BY <1>1, <1>4, <1>5, <2>1
  <2> QED
    BY <1>7, <2>1, <2>2
\* Those around m hold n too.
<1>9. ASSUME NEW i \in 1 .. m - 1
      PROVE  i \in Around(n) <=> i \in Around(m)
  <2>1. /\ i \in 1 .. n - 1 /\ i \in 1 .. n /\ m \in i + 1 .. m
        /\ \A j : j \in i + 1 .. n <=> j \in i + 1 .. m \/ j \in m + 1 .. n
    BY <1>1
  <2>2. L(i) \in Nat
    BY <1>1, <2>1
  <2>3. ASSUME L(m) > L(i), NEW j \in m + 1 .. n
        PROVE  L(j) > L(i)
    <3>1. L(j) \in Nat /\ L(j) >= L(n)
      BY <1>1, <1>5
    <3>2. L(n) = L(m) \/ L(m) + 1 = L(n)
      BY <1>6
    <3> QED
      BY <1>4, <2>2, <2>3, <3>1, <3>2
  <2>4. (\A j \in i + 1 .. n : L(j) > L(i)) <=> (\A j \in i + 1 .. m : L(j) > L(i))
    BY <2>1, <2>3
  <2> QED
    BY <1>7, <2>1, <2>4
<1>10. /\ Around(n) \subseteq 1 .. n - 1 /\ Around(m) \subseteq 1 .. m - 1
       /\ \A i \in 1 .. n - 1 : i \in 1 .. m - 1 \/ i = m \/ i \in m + 1 .. n - 1
       /\ 1 .. m - 1 \subseteq 1 .. n - 1
  BY <1>1, <1>7
<1>11. ASSUME ast[m].k # "fordcl"
       PROVE  m \notin Around(n)
  <2>1. ast[m].k \notin Openers \cup Clauses
    BY <1>11 DEF Declarers, Openers, Loops, Clauses
  <2> QED
    BY <1>7, <2>1
<1>12. ASSUME ast[m].k = "fordcl"
       PROVE  m \in Around(n)
  <2>1. \A j \in m + 1 .. n : L(j) > L(m)
    <3> TAKE j \in m + 1 .. n
    <3>1. L(j) \in Nat /\ L(j) >= L(n)
      BY <1>1, <1>5
    <3> QED
      BY <1>4, <1>6, <1>12, <3>1
  <2>2. ast[m].k \in Openers
    BY <1>12 DEF Openers, Loops
  <2> QED
    BY <1>7, <2>1, <2>2
<1> QED
  BY <1>8, <1>9, <1>10, <1>11, <1>12

\* A declaration is rejected when its own block, or the for statement whose
\* block it is in, declares the name before it.
LEMMA RejectedDeclaration ==
  ASSUME NameInv, NEW kinds, At(kinds), Visited.k \in {"decl", "param"},
         ~CanDeclare(table, Visited.id), NEW ok, Reject(ok), BreakInv'
  PROVE  NameInv'
<1>1. /\ Nested /\ nest = <<>> /\ tcPc \in 1 .. Len(ast) /\ ~AfterReturn(tcPc)
      /\ Visited = ast[tcPc] /\ ast[tcPc].lvl \in Nat
  BY AtName
<1>2. Len(table.scopes) = 1 + ast[tcPc].lvl /\ Shows(table, frame_offset, Visible(tcPc))
  BY AtName DEF Before, Markers, Clauses
<1>3. PICK e \in table.scopes[Len(table.scopes)] : e.id = Visited.id
  BY DEF CanDeclare, Current
<1>4. PICK m \in Visible(tcPc) :
        Own(m) = Len(table.scopes) /\ e = EntryOf(table, frame_offset, m)
  <2>1. Len(table.scopes) \in 1 .. Len(table.scopes)
    BY <1>1, <1>2
  <2> QED
    BY <1>2, <1>3, <2>1 DEF Shows
<1>5. Own(m) = ast[tcPc].lvl + 1 /\ ast[m].id = Visited.id
  BY <1>1, <1>2, <1>3, <1>4 DEF EntryOf
<1>6. /\ m \in 1 .. tcPc - 1 /\ ast[m].k \in Declarers
      /\ \A j \in m + 1 .. tcPc - 1 : Own(m) <= ast[j].lvl + 1
  BY DEF Visible
<1>7. Around(m) = Around(tcPc) \/ Around(tcPc) = Around(m) \cup {m}
  BY <1>1, <1>5, <1>6, SameBlock
<1>8. m \in InScope(Visited.id, tcPc) \ {tcPc}
  <2>1. /\ Visible(tcPc + 1) = {i \in Visible(tcPc) : Own(i) <= ast[tcPc].lvl + 1}
                               \cup (IF ast[tcPc].k \in Declarers THEN {tcPc} ELSE {})
        /\ InScope(Visited.id, tcPc) = {i \in Visible(tcPc + 1) : ast[i].id = Visited.id}
    BY <1>1, VisibleNext, InScopeIsVisible
  <2>2. Own(m) <= ast[tcPc].lvl + 1 /\ m # tcPc
    BY <1>1, <1>5, <1>6
  <2> QED
    BY <1>5, <2>1, <2>2
<1>9. RejectsOnlyErrors'
  <2>1. ast' = ast /\ tcPc' = tcPc /\ Visited' = Visited
    BY DEF Reject, Visited
  <2>2. /\ InScope(Visited.id, tcPc)' = InScope(Visited.id, tcPc)
        /\ \A i : Around(i)' = Around(i)
    BY <2>1, SameText
  <2>3. Visited.k \notin {"if", "elif", "while"}
    OBVIOUS
  <2> QED
    BY <1>7, <1>8, <2>1, <2>2, <2>3 DEF RejectsOnlyErrors
<1> QED
  BY <1>9, RejectNames

\* Nothing is said of what the other nodes are rejected for.
LEMMA RejectedOther ==
  ASSUME NameInv, NEW kinds, At(kinds),
         Visited.k \notin {"if", "elif", "while", "decl", "param"},
         NEW ok, Reject(ok), BreakInv'
  PROVE  NameInv'
<1>1. Visited' = Visited
  BY DEF Reject, Visited
<1>2. RejectsOnlyErrors'
  BY <1>1 DEF RejectsOnlyErrors
<1> QED
  BY <1>2, RejectNames

-------------------------------------------------------------------------------
(* The visits.                                                             *)

\* Everywhere but at a return the walk goes on with the next node, and what
\* it goes on from is TableOK.
LEMMA HereIs ==
  ASSUME NameInv, NEW kinds, At(kinds)
  PROVE  /\ Visited.k \in kinds
         /\ Visited.k # "return" => Onward(tcPc) = tcPc + 1
         /\ Visited.k = "return" => Onward(tcPc) = BlockEnd(tcPc)
         /\ Visited.k \notin Markers => Entered = table
         /\ Visited.k \in Markers => Entered = ExitScope(table)
         /\ TableOK(Entered) /\ TableOK(EnterScope(Entered))
         /\ loop_target \in [1 .. MaxNodes -> Nat] /\ frame_offset \in [1 .. MaxNodes -> Int]
<1>1. Visited = ast[tcPc] /\ Visited.k \in kinds
  BY AtName
<1>2. TableOK(Entered)
  BY ShowsHere DEF Entered
<1>3. TableOK(EnterScope(Entered))
  BY <1>2, EnterScopeOK
<1>4. loop_target \in [1 .. MaxNodes -> Nat] /\ frame_offset \in [1 .. MaxNodes -> Int]
  BY DEF NameInv, TypeOK
<1> QED
  BY <1>1, <1>2, <1>3, <1>4 DEF Onward, Entered

LEMMA VisitAssignment ==
  ASSUME NameInv, TcAssignment, BreakInv'
  PROVE  NameInv'
<1> DEFINE ok == AssignmentOk(table, Visited)
<1>1. At({"asst"}) /\ Visited.k = "asst"
  BY HereIs DEF TcAssignment
<1>2. /\ Onward(tcPc) = tcPc + 1 /\ Entered = table /\ TableOK(table)
      /\ Visited.k \notin Declarers /\ loop_target \in [1 .. MaxNodes -> Nat]
  BY <1>1, HereIs DEF Markers, Clauses, Declarers
<1>3. CASE GoOn(ok, table, tcPc + 1) /\ Annotate(table, {"id", "rd"})
           /\ UNCHANGED <<frame_offset, loop_target>>
  <2>1. Resolves(table, Visited["id"]) /\ Resolves(table, Visited["rd"])
    BY <1>3 DEF GoOn, AssignmentOk, Assignable
  <2>2. Annotations(table, offset')
    BY <1>1, <1>2, <1>3, <2>1, ReadingIs, AnnotateAll DEF Roles
  <2>3. GoOn(ok, table, Onward(tcPc))
    BY <1>2, <1>3
  <2> HIDE DEF ok
  <2> QED
    BY <1>1, <1>2, <1>3, <2>2, <2>3, PlainNames
<1>4. CASE Reject(ok)
  BY <1>1, <1>4, RejectedOther
<1> QED
  BY <1>3, <1>4 DEF TcAssignment

LEMMA VisitExpression ==
  ASSUME NameInv, TcExpression, BreakInv'
  PROVE  NameInv'
<1> DEFINE ok == OperandOk(table, Visited)
<1>1. At({"expr", "print", "delete"}) /\ Visited.k \in {"expr", "print", "delete"}
  BY HereIs DEF TcExpression
<1>2. /\ Onward(tcPc) = tcPc + 1 /\ Entered = table /\ TableOK(table)
      /\ Visited.k \notin Declarers /\ loop_target \in [1 .. MaxNodes -> Nat]
  BY <1>1, HereIs DEF Markers, Clauses, Declarers
<1>3. CASE GoOn(ok, table, tcPc + 1) /\ Annotate(table, {"rd"})
           /\ UNCHANGED <<frame_offset, loop_target>>
  <2>1. Resolves(table, Visited["rd"])
    BY <1>3 DEF GoOn, OperandOk
  <2>2. Reading(Visited.k) = {"rd"}
    BY <1>1, ReadingIs
  <2>3. Annotations(table, offset')
    BY <1>1, <1>2, <1>3, <2>1, <2>2, AnnotateAll DEF Roles
  <2>4. GoOn(ok, table, Onward(tcPc))
    BY <1>2, <1>3
  <2> HIDE DEF ok
  <2> QED
    BY <1>1, <1>2, <1>3, <2>3, <2>4, PlainNames
<1>4. CASE Reject(ok)
  BY <1>1, <1>4, RejectedOther
<1> QED
  BY <1>3, <1>4 DEF TcExpression

LEMMA VisitReturn ==
  ASSUME NameInv, TcReturn, BreakInv'
  PROVE  NameInv'
<1> DEFINE ok == ReturnOk(table, Visited)
<1>1. At({"return"}) /\ Visited.k = "return"
  BY HereIs DEF TcReturn
<1>2. /\ Onward(tcPc) = BlockEnd(tcPc) /\ Entered = table /\ TableOK(table)
      /\ Visited.k \notin Declarers /\ loop_target \in [1 .. MaxNodes -> Nat]
  BY <1>1, HereIs DEF Markers, Clauses, Declarers
<1>3. CASE GoOn(ok, table, BlockEnd(tcPc)) /\ Annotate(table, {"rd"})
           /\ UNCHANGED <<frame_offset, loop_target>>
  <2>1. Resolves(table, Visited["rd"])
    BY <1>3, AstAssumption DEF GoOn, ReturnOk, Assignable, Resolves
  <2>2. Reading(Visited.k) = {"rd"}
    BY <1>1, ReadingIs
  <2>3. Annotations(table, offset')
    BY <1>1, <1>2, <1>3, <2>1, <2>2, AnnotateAll DEF Roles
  <2>4. GoOn(ok, table, Onward(tcPc))
    BY <1>2, <1>3
  <2> HIDE DEF ok
  <2> QED
    BY <1>1, <1>2, <1>3, <2>3, <2>4, PlainNames
<1>4. CASE Reject(ok)
  BY <1>1, <1>4, RejectedOther
<1> QED
  BY <1>3, <1>4 DEF TcReturn, AfterReturnStatement

LEMMA VisitBreak ==
  ASSUME NameInv, TcBreak, BreakInv'
  PROVE  NameInv'
<1> DEFINE target == EnclosingLoop(tcPc)
           ok     == target # 0
<1>1. At({"break"}) /\ Visited.k = "break"
  BY HereIs DEF TcBreak
<1>2. /\ Onward(tcPc) = tcPc + 1 /\ Entered = table
      /\ Visited.k \notin Declarers /\ loop_target \in [1 .. MaxNodes -> Nat]
      /\ Reading(Visited.k) = {} /\ tcPc \in 1 .. MaxNodes
  BY <1>1, AtName, HereIs, ReadingIs DEF Markers, Clauses, Declarers
<1>3. target \in Nat
  <2>1. LoopsAround(tcPc) \subseteq 1 .. tcPc - 1 /\ tcPc - 1 \in Nat
    BY <1>1, AtName DEF LoopsAround, Around
  <2> QED
    BY <2>1, MaxIsGreatest DEF EnclosingLoop
<1> HIDE DEF target
<1>4. CASE GoOn(ok, table, tcPc + 1) /\ loop_target' = [loop_target EXCEPT ![tcPc] = target]
           /\ UNCHANGED <<frame_offset, offset>>
  <2>1. loop_target' \in [1 .. MaxNodes -> Nat]
    BY <1>2, <1>3, <1>4
  <2>2. Annotations(table, offset')
    BY <1>1, <1>2, <1>4, NothingRead
  <2>3. GoOn(ok, table, Onward(tcPc))
    BY <1>2, <1>4
  <2> HIDE DEF ok
  <2> QED
    BY <1>1, <1>2, <1>4, <2>1, <2>2, <2>3, PlainNames
<1>5. CASE Reject(ok)
  BY <1>1, <1>5, RejectedOther
<1> QED
  BY <1>4, <1>5 DEF TcBreak, target

LEMMA VisitBranch ==
  ASSUME NameInv, TcBranch, BreakInv'
  PROVE  NameInv'
<1> DEFINE ok == Resolves(table, Visited.cd)
<1>1. At({"if", "while"}) /\ Visited.k \in {"if", "while"}
  BY HereIs DEF TcBranch
<1>2. /\ Onward(tcPc) = tcPc + 1 /\ Entered = table /\ TableOK(table)
      /\ Visited.k \notin Declarers /\ loop_target \in [1 .. MaxNodes -> Nat]
  BY <1>1, HereIs DEF Markers, Clauses, Declarers
<1>3. CASE GoOn(ok, EnterScope(table), tcPc + 1) /\ Annotate(table, {"cd"})
           /\ UNCHANGED <<frame_offset, loop_target>>
  <2>1. Resolves(table, Visited["cd"])
    BY <1>3 DEF GoOn
  <2>2. Reading(Visited.k) = {"cd"}
    BY <1>1, ReadingIs
  <2>3. Annotations(table, offset')
    BY <1>1, <1>2, <1>3, <2>1, <2>2, AnnotateAll DEF Roles
  <2>4. GoOn(ok, EnterScope(Entered), Onward(tcPc))
    BY <1>2, <1>3
  <2> HIDE DEF ok
  <2> QED
    BY <1>1, <1>2, <1>3, <2>3, <2>4, PlainNames
<1>4. CASE Reject(ok)
  BY <1>1, <1>2, <1>4, RejectedCondition DEF Reject
<1> QED
  BY <1>3, <1>4 DEF TcBranch

LEMMA VisitClause ==
  ASSUME NameInv, TcClause, BreakInv'
  PROVE  NameInv'
<1> DEFINE t  == ExitScope(table)
           ok == Visited.k = "elif" => Resolves(t, Visited.cd)
<1>1. At(Clauses) /\ Visited.k \in {"elif", "else"}
  BY HereIs DEF TcClause, Clauses
<1>2. /\ Onward(tcPc) = tcPc + 1 /\ Entered = t /\ TableOK(t)
      /\ Visited.k \notin Declarers /\ loop_target \in [1 .. MaxNodes -> Nat]
  BY <1>1, HereIs DEF Markers, Clauses, Declarers
<1>3. CASE GoOn(ok, EnterScope(t), tcPc + 1)
           /\ (IF Visited.k = "elif" THEN Annotate(t, {"cd"}) ELSE UNCHANGED offset)
           /\ UNCHANGED <<frame_offset, loop_target>>
  <2>1. Annotations(t, offset')
    <3>1. CASE Visited.k = "elif"
      <4>1. Resolves(t, Visited["cd"]) /\ Reading(Visited.k) = {"cd"}
        BY <1>3, <3>1, ReadingIs DEF GoOn
      <4> QED
        BY <1>1, <1>2, <1>3, <3>1, <4>1, AnnotateAll DEF Roles
    <3>2. CASE Visited.k = "else"
      BY <1>1, <1>3, <3>2, NothingRead, ReadingIs
    <3> QED
      BY <1>1, <3>1, <3>2
  <2>2. GoOn(ok, EnterScope(Entered), Onward(tcPc))
    BY <1>2, <1>3
  <2> HIDE DEF ok
  <2> QED
    BY <1>1, <1>2, <1>3, <2>1, <2>2, PlainNames
<1>4. CASE Reject(ok)
  BY <1>1, <1>2, <1>4, RejectedCondition DEF Reject
<1> QED
  BY <1>3, <1>4 DEF TcClause

LEMMA VisitForAssignment ==
  ASSUME NameInv, TcForAssignment, BreakInv'
  PROVE  NameInv'
<1> DEFINE s  == EnterScope(table)
           ok == AssignmentOk(s, Visited) /\ Resolves(s, Visited.cd) /\ Resolves(s, Visited.ep)
<1>1. At({"forasst"}) /\ Visited.k = "forasst"
  BY HereIs DEF TcForAssignment
<1>2. /\ Onward(tcPc) = tcPc + 1 /\ Entered = table /\ TableOK(s)
      /\ Visited.k \notin Declarers /\ loop_target \in [1 .. MaxNodes -> Nat]
  BY <1>1, HereIs DEF Markers, Clauses, Declarers
<1>3. CASE GoOn(ok, s, tcPc + 1) /\ Annotate(s, Roles) /\ UNCHANGED <<frame_offset, loop_target>>
  <2>1. \A r \in Roles : Resolves(s, Visited[r])
    BY <1>3 DEF GoOn, AssignmentOk, Assignable, Roles
  <2>2. Reading(Visited.k) = Roles
    BY <1>1, ReadingIs
  <2>3. Annotations(s, offset')
    BY <1>1, <1>2, <1>3, <2>1, <2>2, AnnotateAll
  <2>4. GoOn(ok, EnterScope(Entered), Onward(tcPc))
    BY <1>2, <1>3
  <2>5. s = EnterScope(Entered)
    BY <1>2
  <2> HIDE DEF ok, s
  <2> QED
    BY <1>1, <1>2, <1>3, <2>3, <2>4, <2>5, PlainNames
<1>4. CASE Reject(ok)
  BY <1>1, <1>4, RejectedOther
<1> QED
  BY <1>3, <1>4 DEF TcForAssignment

LEMMA VisitEnd ==
  ASSUME NameInv, TcEnd, BreakInv'
  PROVE  NameInv'
<1>1. At({"end"}) /\ Visited.k = "end"
  BY HereIs DEF TcEnd
<1>2. /\ Onward(tcPc) = tcPc + 1 /\ Entered = ExitScope(table)
      /\ Visited.k \notin Declarers /\ loop_target \in [1 .. MaxNodes -> Nat]
      /\ Reading(Visited.k) = {}
  BY <1>1, HereIs, ReadingIs DEF Markers, Clauses, Declarers
<1>3. UNCHANGED <<frame_offset, offset, loop_target>>
  BY DEF TcEnd, attributes
<1>4. Annotations(Entered, offset')
  BY <1>1, <1>2, <1>3, NothingRead
<1>5. GoOn(TRUE, Entered, Onward(tcPc))
  BY <1>2 DEF TcEnd
<1> QED
  BY <1>1, <1>2, <1>3, <1>4, <1>5, PlainNames

\* A declaring node finds the symbol it has declared, at the fresh offset.
LEMMA FreshFound ==
  ASSUME NEW t, TableOK(t), Len(t.scopes) > 0, NEW id \in Ids, NEW ty \in Types,
         CanDeclare(t, id)
  PROVE  /\ LookupVariable(DeclareVariable(t, id, ty), id).frame_offset = FreshOffset(t, ty)
         /\ FreshOffset(t, ty) \in Int
         /\ TableOK(DeclareVariable(t, id, ty))
<1> DEFINE off == FreshOffset(t, ty)
           u == DeclareVariable(t, id, ty)
           e == [id |-> id, type |-> ty, frame_offset |-> off]
<1>1. Adds(t, u, e)
  BY Declared
<1>2. e.id = id /\ e.frame_offset = off
  OBVIOUS
<1> HIDE DEF u, e, off
<1>3. LookupVariable(u, id) = e /\ e.frame_offset \in Int /\ TableOK(u)
  BY <1>1, <1>2 DEF Adds
<1> QED
  BY <1>2, <1>3 DEF u, off

\* Of the scopes in which the walk declares, the current one is the visited
\* node's own.
LEMMA DeclaresIn ==
  ASSUME NameInv, NEW kinds, At(kinds), Visited.k \in Declarers,
         NEW s, s = IF Visited.k = "fordcl" THEN EnterScope(table) ELSE table
  PROVE  /\ TableOK(s) /\ Len(s.scopes) = Own(tcPc) /\ Len(s.scopes) > 0
         /\ Visited.id \in Ids /\ Visited.ty \in Types
<1>1. /\ Visited = ast[tcPc] /\ ast[tcPc].lvl \in Nat /\ TableOK(table) /\ Declares(ast[tcPc])
      /\ Len(table.scopes) = ast[tcPc].lvl + 1
  BY AtName DEF Before, Declarers, Markers, Clauses
<1>2. TableOK(EnterScope(table)) /\ Len(EnterScope(table).scopes) = ast[tcPc].lvl + 2
  <2>1. TableOK(EnterScope(table)) /\ Len(EnterScope(table).scopes) = Len(table.scopes) + 1
    BY <1>1, EnterScopeOK
  <2> QED
    BY <1>1, <2>1
<1>3. /\ ast[tcPc].k = "fordcl" => Own(tcPc) = ast[tcPc].lvl + 2
      /\ ast[tcPc].k # "fordcl" => Own(tcPc) = ast[tcPc].lvl + 1
  BY DEF Own
<1>4. Visited.id \in Ids /\ Visited.ty \in Types
  BY <1>1 DEF Declares
<1>5. ast[tcPc].lvl + 1 > 0 /\ ast[tcPc].lvl + 2 > 0
  BY <1>1
<1> QED
  BY <1>1, <1>2, <1>3, <1>4, <1>5

\* The frame offsets after a declaration that is not a parameter's.
LEMMA PlacedOne ==
  ASSUME NameInv, NEW kinds, At(kinds), Visited.k # "param", NEW off \in Int,
         frame_offset' = [frame_offset EXCEPT ![tcPc] = off]
  PROVE  /\ frame_offset' \in [1 .. MaxNodes -> Int]
         /\ \A m \in 1 .. Len(ast) :
              IF ast[m].k = "param"
              THEN frame_offset'[m] \in Int /\ frame_offset'[m] >= 0
                   /\ (m > tcPc => frame_offset'[m] = 0)
              ELSE frame_offset'[m] = IF m = tcPc THEN off ELSE frame_offset[m]
<1>1. /\ frame_offset \in [1 .. MaxNodes -> Int] /\ tcPc \in 1 .. MaxNodes
      /\ Visited = ast[tcPc] /\ Slots(table, frame_offset, tcPc) /\ 1 .. Len(ast) \subseteq 1 .. MaxNodes
  <2>1. Fits /\ Len(nest) \in Nat /\ Len(ast) \in Nat
    BY AtName DEF NameInv, BreakInv, Nested
  <2>2. 1 .. Len(ast) \subseteq 1 .. MaxNodes
    BY <2>1, AstAssumption DEF Fits
  <2> QED
    BY <2>2, AtName DEF NameInv, TypeOK
<1>2. frame_offset' \in [1 .. MaxNodes -> Int]
  BY <1>1
<1>3. \A m \in 1 .. MaxNodes : frame_offset'[m] = IF m = tcPc THEN off ELSE frame_offset[m]
  BY <1>1
<1>4. ASSUME NEW m \in 1 .. Len(ast), ast[m].k = "param"
      PROVE  frame_offset'[m] \in Int /\ frame_offset'[m] >= 0 /\ (m > tcPc => frame_offset'[m] = 0)
  <2>1. frame_offset'[m] = frame_offset[m] /\ frame_offset'[m] \in Int
    BY <1>1, <1>2, <1>3, <1>4
  <2>2. frame_offset[m] >= 0 /\ (m >= tcPc => frame_offset[m] = 0)
    BY <1>1, <1>4 DEF Slots
  <2>3. m > tcPc => m >= tcPc
    BY <1>1
  <2> QED
    BY <2>1, <2>2, <2>3
<1> QED
  BY <1>1, <1>2, <1>3, <1>4

LEMMA VisitDeclaration ==
  ASSUME NameInv, TcDeclaration, BreakInv'
  PROVE  NameInv'
<1> DEFINE v  == Visited
           ok == CanDeclare(table, v.id)
           t  == DeclareVariable(table, v.id, v.ty)
           off == LookupVariable(t, v.id).frame_offset
<1>1. At({"decl"}) /\ Visited.k = "decl"
  BY HereIs DEF TcDeclaration
<1>2. /\ TableOK(table) /\ Len(table.scopes) = Own(tcPc) /\ Len(table.scopes) > 0
      /\ v.id \in Ids /\ v.ty \in Types /\ Visited.k \in Declarers
  BY <1>1, DeclaresIn DEF Declarers
<1>3. loop_target \in [1 .. MaxNodes -> Nat] /\ Reading(Visited.k) = {}
  BY <1>1, HereIs, ReadingIs
<1>4. CASE GoOn(ok, t, tcPc + 1) /\ frame_offset' = [frame_offset EXCEPT ![tcPc] = off]
           /\ UNCHANGED <<offset, loop_target>>
  <2>1. CanDeclare(table, v.id)
    BY <1>4 DEF GoOn
  <2>2. off = FreshOffset(table, v.ty) /\ off \in Int
    BY <1>2, <2>1, FreshFound
  <2>3. Annotations(t, offset')
    BY <1>1, <1>3, <1>4, NothingRead
  <2> HIDE DEF off
  <2>4. /\ frame_offset' \in [1 .. MaxNodes -> Int]
        /\ \A m \in 1 .. Len(ast) :
             IF ast[m].k = "param"
             THEN frame_offset'[m] \in Int /\ frame_offset'[m] >= 0
                  /\ (m > tcPc => frame_offset'[m] = 0)
             ELSE frame_offset'[m] = IF m = tcPc THEN off ELSE frame_offset[m]
    BY <1>1, <1>4, <2>2, PlacedOne
  <2> HIDE DEF ok
  <2> QED
    BY <1>1, <1>2, <1>3, <1>4, <2>1, <2>2, <2>3, <2>4, DeclareNames
<1>5. CASE Reject(ok)
  BY <1>1, <1>5, RejectedDeclaration DEF Reject
<1> QED
  BY <1>4, <1>5 DEF TcDeclaration

LEMMA VisitVarInit ==
  ASSUME NameInv, TcVarInit, BreakInv'
  PROVE  NameInv'
<1> DEFINE v  == Visited
           t  == DeclareVariable(table, v.id, v.ty)
           ok == CanDeclare(table, v.id) /\ Assignable(t, v.ty, v.rd)
           off == LookupVariable(t, v.id).frame_offset
<1>1. At({"init"}) /\ Visited.k = "init"
  BY HereIs DEF TcVarInit
<1>2. /\ TableOK(table) /\ Len(table.scopes) = Own(tcPc) /\ Len(table.scopes) > 0
      /\ v.id \in Ids /\ v.ty \in Types /\ Visited.k \in Declarers
  BY <1>1, DeclaresIn DEF Declarers
<1>3. loop_target \in [1 .. MaxNodes -> Nat] /\ Reading(Visited.k) = {"rd"}
  BY <1>1, HereIs, ReadingIs
<1>4. CASE GoOn(ok, t, tcPc + 1) /\ frame_offset' = [frame_offset EXCEPT ![tcPc] = off]
           /\ Annotate(t, {"rd"}) /\ UNCHANGED loop_target
  <2>1. CanDeclare(table, v.id) /\ Resolves(t, v["rd"])
    BY <1>4 DEF GoOn, Assignable
  <2>2. off = FreshOffset(table, v.ty) /\ off \in Int /\ TableOK(t)
    BY <1>2, <2>1, FreshFound
  <2>3. Annotations(t, offset')
    BY <1>1, <1>3, <1>4, <2>1, <2>2, AnnotateAll DEF Roles
  <2> HIDE DEF off
  <2>4. /\ frame_offset' \in [1 .. MaxNodes -> Int]
        /\ \A m \in 1 .. Len(ast) :
             IF ast[m].k = "param"
             THEN frame_offset'[m] \in Int /\ frame_offset'[m] >= 0
                  /\ (m > tcPc => frame_offset'[m] = 0)
             ELSE frame_offset'[m] = IF m = tcPc THEN off ELSE frame_offset[m]
    BY <1>1, <1>4, <2>2, PlacedOne
  <2> HIDE DEF ok
  <2> QED
    BY <1>1, <1>2, <1>3, <1>4, <2>1, <2>2, <2>3, <2>4, DeclareNames
<1>5. CASE Reject(ok)
  BY <1>1, <1>5, RejectedOther
<1> QED
  BY <1>4, <1>5 DEF TcVarInit

LEMMA VisitForDeclaration ==
  ASSUME NameInv, TcForDeclaration, BreakInv'
  PROVE  NameInv'
<1> DEFINE v  == Visited
           s  == EnterScope(table)
           t  == DeclareVariable(s, v.id, v.ty)
           ok == /\ CanDeclare(s, v.id) /\ Assignable(t, v.ty, v.rd)
                 /\ Resolves(t, v.cd) /\ Resolves(t, v.ep)
           off == LookupVariable(t, v.id).frame_offset
<1>1. At({"fordcl"}) /\ Visited.k = "fordcl"
  BY HereIs DEF TcForDeclaration
<1>2. /\ TableOK(s) /\ Len(s.scopes) = Own(tcPc) /\ Len(s.scopes) > 0
      /\ v.id \in Ids /\ v.ty \in Types /\ Visited.k \in Declarers
  BY <1>1, DeclaresIn DEF Declarers
<1>3. loop_target \in [1 .. MaxNodes -> Nat] /\ Reading(Visited.k) = {"rd", "cd", "ep"}
  BY <1>1, HereIs, ReadingIs
<1>4. CASE GoOn(ok, t, tcPc + 1) /\ frame_offset' = [frame_offset EXCEPT ![tcPc] = off]
           /\ Annotate(t, {"rd", "cd", "ep"}) /\ UNCHANGED loop_target
  <2>1. CanDeclare(s, v.id) /\ \A r \in {"rd", "cd", "ep"} : Resolves(t, v[r])
    BY <1>4 DEF GoOn, Assignable
  <2>2. off = FreshOffset(s, v.ty) /\ off \in Int /\ TableOK(t)
    BY <1>2, <2>1, FreshFound
  <2>3. Annotations(t, offset')
    BY <1>1, <1>3, <1>4, <2>1, <2>2, AnnotateAll DEF Roles
  <2> HIDE DEF off
  <2>4. /\ frame_offset' \in [1 .. MaxNodes -> Int]
        /\ \A m \in 1 .. Len(ast) :
             IF ast[m].k = "param"
             THEN frame_offset'[m] \in Int /\ frame_offset'[m] >= 0
                  /\ (m > tcPc => frame_offset'[m] = 0)
             ELSE frame_offset'[m] = IF m = tcPc THEN off ELSE frame_offset[m]
    BY <1>1, <1>4, <2>2, PlacedOne
  <2> HIDE DEF ok
  <2>5. s \in {table, EnterScope(table)}
    OBVIOUS
  <2> HIDE DEF s
  <2> QED
    BY <1>1, <1>2, <1>3, <1>4, <2>1, <2>2, <2>3, <2>4, <2>5, DeclareNames
<1>5. CASE Reject(ok)
  BY <1>1, <1>5, RejectedOther
<1> QED
  BY <1>4, <1>5 DEF TcForDeclaration

\* The frame offsets after a parameter: what the caller passes, for all of
\* them, is only added up once.
LEMMA PlacedParam ==
  ASSUME NameInv, NEW kinds, At(kinds), Visited.k = "param", NEW off,
         frame_offset' =
           LET placed == [frame_offset EXCEPT ![tcPc] = SizeOf[Visited.ty]]
           IN  IF IsLastParam(tcPc)
               THEN [n \in DOMAIN placed |->
                       IF n <= tcPc THEN placed[n] + ParamSize[tcPc] ELSE placed[n]]
               ELSE placed
  PROVE  /\ frame_offset' \in [1 .. MaxNodes -> Int]
         /\ \A m \in 1 .. Len(ast) :
              IF ast[m].k = "param"
              THEN frame_offset'[m] \in Int /\ frame_offset'[m] >= 0
                   /\ (m > tcPc => frame_offset'[m] = 0)
              ELSE frame_offset'[m] = IF m = tcPc THEN off ELSE frame_offset[m]
<1>1. /\ frame_offset \in [1 .. MaxNodes -> Int] /\ tcPc \in 1 .. MaxNodes
      /\ tcPc \in 1 .. Len(ast) /\ ParamsFirst
      /\ Visited = ast[tcPc] /\ Slots(table, frame_offset, tcPc) /\ 1 .. Len(ast) \subseteq 1 .. MaxNodes
      /\ Nested /\ Declares(ast[tcPc]) /\ MaxNodes \in Nat /\ Len(ast) \in Nat
  <2>1. Fits /\ Len(nest) \in Nat /\ Len(ast) \in Nat
    BY AtName DEF NameInv, BreakInv, Nested
  <2>2. 1 .. Len(ast) \subseteq 1 .. MaxNodes
    BY <2>1, AstAssumption DEF Fits
  <2> QED
    BY <2>1, <2>2, AtName, AstAssumption DEF NameInv, TypeOK
<1> DEFINE size == SizeOf[Visited.ty]
           all == ParamSize[tcPc]
           placed == [frame_offset EXCEPT ![tcPc] = size]
<1>2. \A k \in 1 .. tcPc : k \in 1 .. Len(ast) /\ ast[k].k = "param" /\ ast[k].ty \in Types
  <2>1. \A k \in 1 .. tcPc : k \in 1 .. Len(ast) /\ ast[k].k = "param"
    BY <1>1 DEF ParamsFirst
  <2> QED
    BY <1>1, <2>1 DEF Nested, Declares, Declarers
<1>3. all \in Nat
  BY <1>1, <1>2, ParamSizeNat
<1>4. size \in Nat
  <2>1. tcPc \in 1 .. tcPc
    BY <1>1
  <2> QED
    BY <1>1, <1>2, <2>1, TypeAssumption
<1>5. /\ placed \in [1 .. MaxNodes -> Int]
      /\ \A m \in 1 .. MaxNodes : placed[m] = IF m = tcPc THEN size ELSE frame_offset[m]
  BY <1>1, <1>4
<1>6. frame_offset' = IF IsLastParam(tcPc)
                      THEN [n \in DOMAIN placed |-> IF n <= tcPc THEN placed[n] + all ELSE placed[n]]
                      ELSE placed
  OBVIOUS
<1> HIDE DEF placed, all, size
<1>7. /\ frame_offset' \in [1 .. MaxNodes -> Int]
      /\ \A m \in 1 .. MaxNodes :
           \/ frame_offset'[m] = placed[m]
           \/ m <= tcPc /\ frame_offset'[m] = placed[m] + all
  <2>1. CASE IsLastParam(tcPc)
    <3>1. frame_offset' = [n \in 1 .. MaxNodes |-> IF n <= tcPc THEN placed[n] + all ELSE placed[n]]
      BY <1>5, <1>6, <2>1
    <3>2. \A n \in 1 .. MaxNodes : placed[n] \in Int /\ placed[n] + all \in Int
      BY <1>3, <1>5
    <3> QED
      BY <3>1, <3>2
  <2>2. CASE ~IsLastParam(tcPc)
    BY <1>5, <1>6, <2>2
  <2> QED
    BY <2>1, <2>2
<1>8. ASSUME NEW m \in 1 .. Len(ast), ast[m].k = "param"
      PROVE  frame_offset'[m] \in Int /\ frame_offset'[m] >= 0 /\ (m > tcPc => frame_offset'[m] = 0)
  <2>1. m \in 1 .. MaxNodes
    BY <1>1
  <2>2. frame_offset[m] \in Int /\ frame_offset[m] >= 0 /\ (m >= tcPc => frame_offset[m] = 0)
    BY <1>1, <1>8, <2>1 DEF Slots
  <2>3. placed[m] = (IF m = tcPc THEN size ELSE frame_offset[m])
    BY <1>5, <2>1
  <2>4. placed[m] \in Int /\ placed[m] >= 0 /\ (m > tcPc => placed[m] = 0)
    BY <1>1, <1>4, <2>2, <2>3
  <2>5. m <= tcPc => ~(m > tcPc)
    BY <1>1
  <2>6. placed[m] + all \in Int /\ placed[m] + all >= 0
    BY <1>3, <2>4
  <2> QED
    BY <1>7, <2>1, <2>4, <2>5, <2>6
<1>9. ASSUME NEW m \in 1 .. Len(ast), ast[m].k # "param"
      PROVE  frame_offset'[m] = frame_offset[m] /\ m # tcPc
  <2>1. m \in 1 .. MaxNodes /\ m \notin 1 .. tcPc
    BY <1>1, <1>2, <1>9
  <2>2. m # tcPc /\ ~(m <= tcPc)
    BY <1>1, <2>1
  <2> QED
    BY <1>5, <1>7, <2>1, <2>2
<1> QED
  BY <1>7, <1>8, <1>9

LEMMA VisitParam ==
  ASSUME NameInv, TcParam, BreakInv'
  PROVE  NameInv'
<1> DEFINE v  == Visited
           ok == CanDeclare(table, v.id)
           t  == DeclareVariable(table, v.id, v.ty)
           off == FreshOffset(table, v.ty)
           placed == [frame_offset EXCEPT ![tcPc] = SizeOf[v.ty]]
           fo == IF IsLastParam(tcPc)
                 THEN [n \in DOMAIN placed |->
                         IF n <= tcPc THEN placed[n] + ParamSize[tcPc] ELSE placed[n]]
                 ELSE placed
<1>1. At({"param"}) /\ Visited.k = "param"
  BY HereIs DEF TcParam
<1>2. /\ TableOK(table) /\ Len(table.scopes) = Own(tcPc) /\ Len(table.scopes) > 0
      /\ v.id \in Ids /\ v.ty \in Types /\ Visited.k \in Declarers
  BY <1>1, DeclaresIn DEF Declarers
<1>3. loop_target \in [1 .. MaxNodes -> Nat] /\ Reading(Visited.k) = {}
  BY <1>1, HereIs, ReadingIs
<1>4. CASE GoOn(ok, t, tcPc + 1) /\ frame_offset' = fo /\ UNCHANGED <<offset, loop_target>>
  <2>1. CanDeclare(table, v.id)
    BY <1>4 DEF GoOn
  <2>2. Annotations(t, offset')
    BY <1>1, <1>3, <1>4, NothingRead
  <2>3. /\ frame_offset' \in [1 .. MaxNodes -> Int]
        /\ \A m \in 1 .. Len(ast) :
             IF ast[m].k = "param"
             THEN frame_offset'[m] \in Int /\ frame_offset'[m] >= 0
                  /\ (m > tcPc => frame_offset'[m] = 0)
             ELSE frame_offset'[m] = IF m = tcPc THEN off ELSE frame_offset[m]
    BY <1>1, <1>4, PlacedParam
  <2>4. GoOn(ok, t, tcPc + 1) /\ UNCHANGED loop_target
    BY <1>4
  <2> HIDE DEF ok, fo
  <2> QED
    BY <1>1, <1>2, <1>3, <2>1, <2>2, <2>3, <2>4, DeclareNames
<1>5. CASE Reject(ok)
  BY <1>1, <1>5, RejectedDeclaration DEF Reject
<1> QED
  BY <1>4, <1>5 DEF TcParam

LEMMA VisitDone ==
  ASSUME NameInv, TcDone, BreakInv'
  PROVE  NameInv'
<1>1. /\ phase = "typecheck" /\ phase' = "codegen"
      /\ UNCHANGED <<ast, nest, tcPc, table, frame_offset, offset, loop_target>>
  BY DEF TcDone, attributes
<1>2. phase' \in Phases /\ (phase = "parse" <=> phase' = "parse") /\ RejectsOnlyErrors'
  BY <1>1 DEF Phases, RejectsOnlyErrors
<1> QED
  BY <1>1, <1>2, SameNames

-------------------------------------------------------------------------------
(* Before the walk.                                                        *)

LEMMA ShapedMade ==
  ASSUME NEW k \in AllKinds, NEW v \in NodesOf(k)
  PROVE  Shaped(v)
<1> USE DEF AllKinds, Leaves, Openers, Loops, Markers, Clauses
<1>1. k = v.k /\ Lit \notin Ids /\ None \notin Ids
  <2>1. \E id, ty, rd, cd, ep : v = Made(k, id, ty, rd, cd, ep)
    <3>1. CASE k \in {"param", "decl"}
      BY <3>1 DEF NodesOf
    <3>2. CASE k \in {"init", "asst"}
      BY <3>2 DEF NodesOf
    <3>3. CASE k \in {"expr", "print", "delete", "return"}
      BY <3>3 DEF NodesOf
    <3>4. CASE k \in {"if", "elif", "while"}
      BY <3>4 DEF NodesOf
    <3>5. CASE k \in {"fordcl", "forasst"}
      BY <3>5 DEF NodesOf
    <3>6. CASE k \in {"else", "end", "break"}
      BY <3>6 DEF NodesOf
    <3> QED
      BY <3>1, <3>2, <3>3, <3>4, <3>5, <3>6
  <2> QED
    BY <2>1, AstAssumption DEF Made
<1>2. CASE k \in {"param", "decl"}
  <2>1. v.rd = None /\ v.cd = None /\ v.ep = None /\ v.k \in Declarers
    BY <1>1, <1>2 DEF NodesOf, Made, Declarers
  <2> QED
    BY <1>1, <2>1 DEF Shaped, Roles
<1>3. CASE k = "init"
  <2>1. v.cd = None /\ v.ep = None /\ v.k \in Declarers
    BY <1>1, <1>3 DEF NodesOf, Made, Declarers
  <2>2. Reading(v.k) = {"rd"}
    BY <1>1, <1>3, ReadingIs
  <2> QED
    BY <1>1, <2>1, <2>2 DEF Shaped, Roles
<1>4. CASE k = "asst"
  <2>1. v.cd = None /\ v.ep = None
    BY <1>1, <1>4 DEF NodesOf, Made
  <2>2. Reading(v.k) = {"id", "rd"}
    BY <1>1, <1>4, ReadingIs
  <2> QED
    BY <1>1, <2>1, <2>2 DEF Shaped, Roles
<1>5. CASE k \in {"expr", "print", "delete", "return"}
  <2>1. v.id = None /\ v.cd = None /\ v.ep = None
    BY <1>1, <1>5 DEF NodesOf, Made
  <2>2. Reading(v.k) = {"rd"}
    BY <1>1, <1>5, ReadingIs
  <2> QED
    BY <1>1, <2>1, <2>2 DEF Shaped, Roles
<1>6. CASE k \in {"if", "elif", "while"}
  <2>1. v.id = None /\ v.rd = None /\ v.ep = None
    BY <1>1, <1>6 DEF NodesOf, Made
  <2>2. Reading(v.k) = {"cd"}
    BY <1>1, <1>6, ReadingIs
  <2> QED
    BY <1>1, <2>1, <2>2 DEF Shaped, Roles
<1>7. CASE k = "fordcl"
  <2>1. Reading(v.k) = {"rd", "cd", "ep"} /\ v.k \in Declarers
    BY <1>1, <1>7, ReadingIs DEF Declarers
  <2> QED
    BY <2>1 DEF Shaped, Roles
<1>8. CASE k = "forasst"
  <2>1. Reading(v.k) = Roles
    BY <1>1, <1>8, ReadingIs
  <2> QED
    BY <2>1 DEF Shaped
<1>9. CASE k \in {"else", "end", "break"}
  <2>1. v.id = None /\ v.rd = None /\ v.cd = None /\ v.ep = None
    BY <1>1, <1>9 DEF NodesOf, Made
  <2> QED
    BY <1>1, <2>1 DEF Shaped, Roles
<1> QED
  BY <1>2, <1>3, <1>4, <1>5, <1>6, <1>7, <1>8, <1>9

\* What the parser adds leaves the parameters first, and every node with the
\* operands of its kind.
LEMMA ParseShapes ==
  ASSUME WalkInv, ParamsFirst, \A n \in 1 .. Len(ast) : Shaped(ast[n]), Parse
  PROVE  ParamsFirst' /\ (\A n \in 1 .. Len(ast) : Shaped(ast[n]))'
<1>1. ast \in Seq(Node) /\ Len(ast) \in Nat /\ nest \in Seq(AllKinds)
  BY DEF WalkInv, Nested
<1>2. ASSUME NEW k \in AllKinds, k \in Markers => nest # <<>>, Add(k),
             k = "param" => \A n \in 1 .. Len(ast) : ast[n].k = "param"
      PROVE  ParamsFirst' /\ (\A n \in 1 .. Len(ast) : Shaped(ast[n]))'
  <2>1. PICK v \in NodesOf(k) : ast' = Append(ast, v)
    BY <1>2 DEF Add
  <2>2. v \in Node /\ v.k = k
    BY <1>1, <1>2, NodeMade
  <2>3. Shaped(v)
    BY ShapedMade
  <2>4. /\ Len(ast') = Len(ast) + 1 /\ ast'[Len(ast) + 1] = v
        /\ \A n \in 1 .. Len(ast) : ast'[n] = ast[n]
        /\ \A n \in 1 .. Len(ast) + 1 : n \in 1 .. Len(ast) \/ n = Len(ast) + 1
    BY <1>1, <2>1, <2>2
  <2>5. ASSUME NEW n \in 1 .. Len(ast'), ast'[n].k = "param", NEW m \in 1 .. n
        PROVE  ast'[m].k = "param"
    <3>1. CASE n \in 1 .. Len(ast)
      <4>1. m \in 1 .. Len(ast)
        BY <1>1, <3>1
      <4> QED
        BY <2>4, <2>5, <3>1, <4>1 DEF ParamsFirst
    <3>2. CASE n = Len(ast) + 1
      <4>1. m \in 1 .. Len(ast) \/ m = n
        BY <1>1, <3>2
      <4> QED
        BY <1>2, <2>2, <2>4, <2>5, <3>2, <4>1
    <3> QED
      BY <2>4, <3>1, <3>2
  <2>6. \A n \in 1 .. Len(ast') : Shaped(ast'[n])
    BY <1>2, <2>3, <2>4 DEF Shaped
  <2> QED
    BY <2>5, <2>6 DEF ParamsFirst, Shaped
<1> USE DEF AllKinds, Leaves, Openers, Loops, Markers, Clauses
<1>3. CASE ParseParam
  BY <1>2, <1>3 DEF ParseParam
<1>4. CASE ParseStatement
  <2>1. PICK k \in Leaves : Add(k)
    BY <1>4 DEF ParseStatement
  <2>2. k \in AllKinds /\ k \notin Markers /\ k # "param"
    OBVIOUS
  <2> QED
    BY <1>2, <2>1, <2>2
<1>5. CASE ParseOpener
  <2>1. PICK k \in Openers : Add(k)
    BY <1>5 DEF ParseOpener
  <2>2. k \in AllKinds /\ k \notin Markers /\ k # "param"
    OBVIOUS
  <2> QED
    BY <1>2, <2>1, <2>2
<1>6. CASE ParseClause
  <2>1. PICK k \in Clauses : Add(k)
    BY <1>6 DEF ParseClause
  <2>2. k \in AllKinds /\ k # "param" /\ nest # <<>>
    BY <1>6 DEF ParseClause
  <2> QED
    BY <1>2, <2>1, <2>2
<1>7. CASE ParseEnd
  BY <1>2, <1>7 DEF ParseEnd
<1>8. CASE ParseDone
  BY <1>8 DEF ParseDone, ParamsFirst, Shaped
<1> QED
  BY <1>3, <1>4, <1>5, <1>6, <1>7, <1>8 DEF Parse

\* Before the first visit the table is empty and nothing is visible.
FreshState ==
  /\ BreakInv /\ TypeOK /\ ParamsFirst /\ \A n \in 1 .. Len(ast) : Shaped(ast[n])
  /\ phase \in {"parse", "typecheck"} /\ tcPc = 1 /\ table = NewTable
  /\ frame_offset = [n \in 1 .. MaxNodes |-> 0]

LEMMA FreshNames == FreshState => NameInv
<1> SUFFICES ASSUME FreshState PROVE NameInv
  OBVIOUS
<1>1. /\ tcPc = 1 /\ table.all_syms = <<>> /\ table.scopes = <<{}>>
      /\ phase \in {"parse", "typecheck"} /\ frame_offset = [n \in 1 .. MaxNodes |-> 0]
      /\ WalkInv /\ Fits
  BY DEF FreshState, BreakInv, NewTable
<1>2. \A n \in 1 .. Len(ast) : n \in 1 .. MaxNodes /\ frame_offset[n] = 0
  <2>1. Len(ast) \in Nat /\ Len(nest) \in Nat
    BY <1>1 DEF WalkInv, Nested
  <2> QED
    BY <1>1, <2>1, AstAssumption DEF Fits
<1>3. Visible(tcPc) = {}
  BY <1>1 DEF Visible
<1>4. Shows(table, frame_offset, Visible(tcPc))
  BY <1>1, <1>3 DEF Shows
<1>5. Slots(table, frame_offset, tcPc)
  <2>1. Len(table.all_syms) = 0 /\ \A m : m \notin 1 .. Len(table.all_syms)
    BY <1>1
  <2>2. \A n \in 1 .. Len(ast) : ~(n < 1) /\ ~(frame_offset[n] < 0) /\ frame_offset[n] >= 0
    BY <1>2
  <2>3. \A n \in 1 .. Len(ast) : n = 1 => Len(table.all_syms) = n - 1
    BY <2>1
  <2> QED
    BY <1>1, <1>2, <2>1, <2>2, <2>3 DEF Slots
<1>6. \A n \in 1 .. Len(ast) : ~(n < tcPc)
  BY <1>1
<1>7. UsesFound
  <2>1. \A u \in Uses : u[1] \in 1 .. Len(ast)
    BY DEF Uses
  <2> QED
    BY <1>6, <2>1 DEF UsesFound, Checked
<1>8. ReturnsPassed /\ RejectsOnlyErrors /\ (phase # "parse" => nest = <<>>)
  BY <1>1, <1>6 DEF ReturnsPassed, RejectsOnlyErrors, WalkInv
<1> QED
  BY <1>1, <1>4, <1>5, <1>7, <1>8 DEF FreshState, NameInv

LEMMA NameInvInit == TcInit => NameInv
<1> SUFFICES ASSUME TcInit PROVE NameInv
  OBVIOUS
<1>1. BreakInv
  BY BreakInit
<1>2. TypeOK
  <2>1. table \in Table
    BY NewTableOK DEF TcInit, TableOK
  <2> QED
    BY <2>1 DEF TcInit, ParseInit, TypeOK, Phases
<1>3. ParamsFirst /\ \A n \in 1 .. Len(ast) : Shaped(ast[n])
  BY DEF TcInit, ParseInit, ParamsFirst
<1>4. FreshState
  BY <1>1, <1>2, <1>3 DEF TcInit, ParseInit, FreshState
<1> QED
  BY <1>4, FreshNames

LEMMA ParseNames ==
  ASSUME NameInv, Parse, UNCHANGED <<tcPc, table, attributes>>, BreakInv'
  PROVE  NameInv'
<1>1. WalkInv /\ WalkInv'
  BY DEF NameInv, BreakInv
<1>2. phase = "parse" /\ UNCHANGED <<tcPc, table, frame_offset, offset, loop_target>>
  BY DEF Parse, ParseParam, ParseStatement, ParseOpener, ParseClause, ParseEnd, ParseDone,
         attributes
<1>3. /\ tcPc = 1 /\ table = NewTable /\ frame_offset = [n \in 1 .. MaxNodes |-> 0]
  BY <1>1, <1>2 DEF WalkInv, NameInv
<1>4. phase' \in {"parse", "typecheck"}
  BY <1>1, ParseNested
<1>5. TypeOK'
  <2>1. ast' \in Seq(Node) /\ nest' \in Seq(AllKinds) /\ phase' \in Phases
    BY <1>1 DEF WalkInv, Nested
  <2> QED
    BY <1>2, <2>1 DEF NameInv, TypeOK
<1>6. ParamsFirst' /\ (\A n \in 1 .. Len(ast) : Shaped(ast[n]))'
  BY <1>1, ParseShapes DEF NameInv
<1>7. FreshState'
  BY <1>2, <1>3, <1>4, <1>5, <1>6 DEF FreshState
<1>8. FreshState' => NameInv'
  BY FreshNames, PTL
<1> QED
  BY <1>7, <1>8

-------------------------------------------------------------------------------
(* The theorems.                                                           *)

LEMMA NameInvNext == NameInv /\ [TcNext]_tcVars => NameInv'
<1> SUFFICES ASSUME NameInv, [TcNext]_tcVars
             PROVE  NameInv'
  OBVIOUS
<1>1. BreakInv'
  BY BreakStep DEF NameInv
<1>2. CASE Parse /\ UNCHANGED <<tcPc, table, attributes>>
  BY <1>1, <1>2, ParseNames
<1>3. CASE TcVisit
  BY <1>1, <1>3, VisitParam, VisitDeclaration, VisitVarInit, VisitAssignment, VisitExpression,
     VisitReturn, VisitBranch, VisitClause, VisitForDeclaration, VisitForAssignment, VisitEnd,
     VisitBreak, VisitDone DEF TcVisit
<1>4. CASE UNCHANGED tcVars
  <2>1. UNCHANGED <<phase, ast, nest, tcPc, table, frame_offset, offset, loop_target>>
    BY <1>4 DEF tcVars
  <2>2. RejectsOnlyErrors'
    BY <2>1, SameText DEF NameInv, RejectsOnlyErrors, Meant, Visited
  <2>3. phase' \in Phases
    BY <2>1 DEF NameInv, TypeOK
  <2> QED
    BY <1>1, <2>1, <2>2, <2>3, SameNames
<1> QED
  BY <1>2, <1>3, <1>4 DEF TcNext

LEMMA NameInvariant == TcSpec => []NameInv
BY NameInvInit, NameInvNext, PTL DEF TcSpec

\* The offset of a declaration that was visited names that declaration.
LEMMA SlotNames ==
  ASSUME NameInv, NEW m \in 1 .. Len(ast), m < tcPc, ast[m].k \in Declarers, ~AfterReturn(m)
  PROVE  SymbolNode(Slot(table, frame_offset, m)) = m
<1> DEFINE off == Slot(table, frame_offset, m)
           syms == table.all_syms
           params == {n \in 1 .. Len(ast) \cap 1 .. Len(syms) :
                        ast[n].k = "param" /\ syms[n].frame_offset = off}
<1>1. /\ Slots(table, frame_offset, tcPc) /\ OffsetsFall(table) /\ table \in Table
      /\ frame_offset \in [1 .. MaxNodes -> Int] /\ Nested /\ Fits
  BY DEF NameInv, TypeOK, BreakInv, WalkInv, TableSound, TableOK
<1>2. /\ Len(ast) \in Nat /\ Len(nest) \in Nat /\ MaxNodes \in Nat
      /\ syms \in Seq(Entry) /\ Len(syms) \in Nat
  BY <1>1, AstAssumption DEF Nested, Table
<1>3. /\ \A n \in 1 .. Len(ast) : frame_offset[n] \in Int
      /\ \A n \in 1 .. Len(syms) : syms[n].frame_offset \in Int
  <2>1. \A n \in 1 .. Len(syms) : syms[n] \in Entry
    BY <1>2
  <2>2. 1 .. Len(ast) \subseteq 1 .. MaxNodes
    BY <1>1, <1>2 DEF Fits
  <2> QED
    BY <1>1, <2>1, <2>2 DEF Entry
<1>4. CASE ast[m].k = "param"
  <2>1. m \in 1 .. Len(syms) /\ off = syms[m].frame_offset
    BY <1>1, <1>4 DEF Slots, Slot
  <2>2. off < 0 /\ off \in Int
    BY <1>1, <1>3, <2>1 DEF OffsetsFall
  <2>3. m \in params
    BY <1>4, <2>1
  <2>4. \A n \in params : n = m
    <3> SUFFICES ASSUME NEW n \in params, n # m PROVE FALSE
      OBVIOUS
    <3>1. n \in 1 .. Len(syms) /\ syms[n].frame_offset = off
      OBVIOUS
    <3>2. n < m \/ m < n
      BY <1>2, <2>1, <3>1
    <3>3. syms[n].frame_offset < syms[m].frame_offset \/ syms[m].frame_offset < syms[n].frame_offset
      BY <1>1, <2>1, <3>1, <3>2 DEF OffsetsFall
    <3> QED
      BY <2>1, <2>2, <3>1, <3>3
  <2>5. Max(params) \in params
    <3>1. params \subseteq 1 .. Len(ast) /\ params # {}
      BY <2>3
    <3> QED
      BY <1>2, <3>1, MaxIsGreatest
  <2>6. ~(off >= 0)
    BY <2>2
  <2> QED
    BY <2>3, <2>4, <2>5, <2>6 DEF SymbolNode
<1>5. CASE ast[m].k # "param"
  <2>1. off = frame_offset[m] /\ off < 0 /\ off \in Int
    BY <1>1, <1>3, <1>5 DEF Slots, Slot
  <2>2. params = {}
    <3> SUFFICES ASSUME NEW n \in params PROVE FALSE
      OBVIOUS
    <3>1. n \in 1 .. Len(ast) /\ ast[n].k = "param" /\ n \in 1 .. Len(syms) /\ syms[n].frame_offset = off
      OBVIOUS
    <3>2. off < syms[n].frame_offset
      BY <1>1, <2>1, <3>1 DEF Slots
    <3> QED
      BY <2>1, <3>1, <3>2
  <2>3. \A n \in 1 .. Len(ast) : frame_offset[n] = off => n = m
    <3> SUFFICES ASSUME NEW n \in 1 .. Len(ast), frame_offset[n] = off, n # m PROVE FALSE
      OBVIOUS
    <3>1. n < m \/ m < n
      BY <1>2
    <3> QED
      BY <1>1, <2>1, <3>1 DEF Slots
  <2>4. ~(off >= 0)
    BY <2>1
  <2> QED
    BY <2>1, <2>2, <2>3, <2>4 DEF SymbolNode
<1> QED
  BY <1>4, <1>5

\* For every program: the variable that a use is given is the one that the
\* block structure of the source makes it mean, or the global when no block
\* around it declares the name (TypeChecker::visit of IDNode, with the scopes
\* that the statements with blocks and BlockNode's early exit leave).
THEOREM UsesAreLexical == TcSpec => []UsesResolveLexically
<1>1. NameInv => UsesResolveLexically
  <2> SUFFICES ASSUME NameInv, NEW u \in Uses, Checked(u[1])
               PROVE  SymbolNode(offset[u[1]][u[2]]) = Meant(ast[u[1]][u[2]], u[1])
    BY DEF UsesResolveLexically
  <2> DEFINE n == u[1]
             x == ast[u[1]][u[2]]
             off == offset[u[1]][u[2]]
             S == InScope(x, n)
  <2>1. /\ n \in 1 .. Len(ast) /\ n < tcPc /\ ~AfterReturn(n) /\ n \in Nat
        /\ Found(table, frame_offset, off, x, n)
    BY DEF Uses, Checked, NameInv, UsesFound
  <2>2. WalkInv /\ Nested /\ tcPc \in Nat
    BY DEF NameInv, BreakInv, WalkInv, TypeOK
  <2>3. nest = <<>>
    <3>1. phase # "parse"
      BY <2>1, <2>2 DEF WalkInv
    <3> QED
      BY <3>1 DEF NameInv
  <2> HIDE DEF n, x, off
  <2>4. CASE S = {}
    <3>1. off = 1 /\ x \in Globals
      BY <2>1, <2>4 DEF Found
    <3>2. SymbolNode(off) = 0
      BY <3>1 DEF SymbolNode
    <3> QED
      BY <2>4, <3>1, <3>2 DEF Meant, n, x, off
  <2>5. CASE S # {}
    <3>1. S = {m \in Visible(n + 1) : ast[m].id = x}
      BY <2>1, <2>2, <2>3, InScopeIsVisible
    <3>2. \A m \in S : m \in 1 .. n /\ ast[m].k \in Declarers /\ ~AfterReturn(m)
      BY <2>1, <3>1 DEF Visible
    <3>3. S \subseteq 1 .. n
      BY <3>2
    <3> HIDE DEF S
    <3>4. Max(S) \in S
      BY <2>1, <2>5, <3>3, MaxIsGreatest
    <3> DEFINE top == Max(S)
    <3>5. top \in 1 .. n /\ ast[top].k \in Declarers /\ ~AfterReturn(top)
      BY <3>2, <3>4
    <3> HIDE DEF top
    <3>6. top \in 1 .. Len(ast) /\ top < tcPc
      <4>1. Len(ast) \in Nat
        BY <2>2, NodesTyped
      <4> QED
        BY <2>1, <2>2, <3>5, <4>1
    <3>7. SymbolNode(Slot(table, frame_offset, top)) = top
      BY <3>5, <3>6, SlotNames
    <3>8. off = Slot(table, frame_offset, top)
      BY <2>1, <2>5 DEF Found, S, top
    <3> QED
      BY <2>5, <3>7, <3>8 DEF Meant, S, top, n, x, off
  <2> QED
    BY <2>4, <2>5
<1> QED
  BY <1>1, NameInvariant, PTL

\* For every program: a condition is rejected only if its variable is declared
\* nowhere in scope, and a declaration only if its own block, or the for
\* statement of that block, declares the name before it (the throws of
\* TypeChecker::visit of IDNode and of SymbolTable::declare_variable).
THEOREM RejectionsAreErrors == TcSpec => []RejectsOnlyErrors
<1>1. NameInv => RejectsOnlyErrors
  BY DEF NameInv
<1> QED
  BY <1>1, NameInvariant, PTL

\* For every program the walk's variables keep their types: no lookup that
\* fails reaches an annotation, no annotation is outside the tree.
THEOREM WalkIsTyped == TcSpec => []TypeOK
<1>1. NameInv => TypeOK
  BY DEF NameInv
<1> QED
  BY <1>1, NameInvariant, PTL

===============================================================================
