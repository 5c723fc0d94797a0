----------------------------- MODULE ProgramProofs -----------------------------
(***************************************************************************)
(* For all definitions: the structs that TypeChecker has given a size are  *)
(* laid out soundly, and what it accepts holds no struct inside itself,    *)
(* in whatever order the map is iterated.                                  *)
(*                                                                         *)
(* Then the names: what the maps hold of the text, that TypeChecker's      *)
(* program node rejects only its faults, that CodeGen's fails on nothing   *)
(* TypeChecker looks at, and what the names in the bodies reach.           *)
(***************************************************************************)
EXTENDS Program, FiniteSetTheorems, TLAPS

-------------------------------------------------------------------------------
(* The inductive invariant.                                                *)

TreeTyped ==
  /\ IsFiniteSet(DOMAIN struct_defs) /\ IsFiniteSet(DOMAIN procedures)
  /\ \A s \in DOMAIN struct_defs :
       /\ s \in STRING \ Basic
       /\ DOMAIN struct_defs[s] # {} /\ DOMAIN struct_defs[s] \subseteq Nat
       /\ \A f \in DOMAIN struct_defs[s] : struct_defs[s][f] \in Type
  /\ global_vars \in Seq(GlobalDef)
  /\ \A p \in DOMAIN procedures : p \in STRING /\ procedures[p] \in ProcedureDef
  /\ main \in Body

SizesTyped ==
  /\ Basic \subseteq DOMAIN type_sizes
  /\ DOMAIN type_sizes \subseteq Basic \cup DOMAIN struct_defs
  /\ \A t \in DOMAIN type_sizes : type_sizes[t] \in Nat \ {0}

KnownIn(t, sizes) == t.ptr \/ t.name \in DOMAIN sizes

SizeIn(t, sizes) == IF t.ptr THEN SIZE_PTR ELSE sizes[t.name]

\* The fields that have been visited lie in their order in n bytes.
Placed(at, fields, sizes, n) ==
  \A f \in DOMAIN at :
    /\ KnownIn(fields[f], sizes)
    /\ at[f] \in Int
    /\ -at[f] >= 0
    /\ -at[f] + SizeIn(fields[f], sizes) <= n
    /\ SizeIn(fields[f], sizes) >= SIZE_INT => (-at[f]) % SIZE_INT = 0
    /\ \A g \in DOMAIN at : f < g => -at[f] + SizeIn(fields[f], sizes) <= -at[g]

Sized == DOMAIN type_sizes \ Basic

SizedPlaced ==
  \A s \in Sized :
    /\ s \in DOMAIN frame_offset
    /\ type_sizes[s] % SIZE_INT = 0
    /\ DOMAIN frame_offset[s] = DOMAIN struct_defs[s]
    /\ Placed(frame_offset[s], struct_defs[s], type_sizes, type_sizes[s])

\* Every set of sized structs has one that holds none of the set.
Founded ==
  \A C \in SUBSET Sized : C # {} => \E s \in C : \A t \in C : ~HoldsByValue(s, t)

\* The struct whose fields are being visited.
UnderWay(s) ==
  /\ size \in Nat
  /\ s \in DOMAIN frame_offset
  /\ DOMAIN frame_offset[s] \subseteq DOMAIN struct_defs[s]
  /\ DOMAIN frame_offset[s] # {} => size > 0
  /\ Placed(frame_offset[s], struct_defs[s], type_sizes, size)
  /\ \A f \in DOMAIN frame_offset[s], g \in FieldsLeft(s) : f < g

Visits == [visit : {"struct", "fields", "global", "procedure", "item"},
           id : STRING \cup {"main"}, n : Nat]

OfStruct(v) == v.visit \in {"struct", "fields"}

\* The structs without a size are those still to be visited, each once.
VisitsSound ==
  /\ todo \in Seq(Visits)
  /\ \A i \in 1 .. Len(todo) :
       /\ OfStruct(todo[i]) => todo[i].id \in DOMAIN struct_defs \ DOMAIN type_sizes
       /\ todo[i].visit = "fields" => i = 1 /\ UnderWay(todo[i].id)
       /\ todo[i].visit = "procedure" => todo[i].id \in DOMAIN procedures \cup {"main"}
  /\ \A i, j \in 1 .. Len(todo) :
       OfStruct(todo[i]) /\ OfStruct(todo[j]) /\ i # j => todo[i].id # todo[j].id
  /\ \A s \in DOMAIN struct_defs \ DOMAIN type_sizes :
       \E i \in 1 .. Len(todo) : OfStruct(todo[i]) /\ todo[i].id = s

LayoutInv ==
  /\ TreeTyped /\ SizesTyped /\ SizedPlaced /\ Founded
  /\ phase = "parsing" => type_sizes = BasicSizes /\ frame_offset = Nothing
  /\ phase = "checking" => VisitsSound
  /\ phase \in {"generating", "compiled"} => DOMAIN struct_defs \subseteq DOMAIN type_sizes

-------------------------------------------------------------------------------
LEMMA InitLayout == PrInit => LayoutInv
<1> SUFFICES ASSUME PrInit PROVE LayoutInv
  OBVIOUS
<1>1. DOMAIN Nothing = {} /\ IsFiniteSet({})
  BY FS_EmptySet DEF Nothing
<1>2. TreeTyped
  BY <1>1, DefsAssumption DEF PrInit, TreeTyped
<1>3. DOMAIN BasicSizes = Basic /\ \A b \in Basic : BasicSizes[b] \in Nat \ {0}
  BY DEF BasicSizes, SIZE_INT
<1>4. SizesTyped
  BY <1>3 DEF PrInit, SizesTyped
<1>5. Sized = {}
  BY <1>3 DEF PrInit, Sized
<1> QED
  BY <1>2, <1>4, <1>5 DEF PrInit, LayoutInv, SizedPlaced, Founded

LEMMA ElementIn ==
  ASSUME NEW S, NEW s \in Seq(S), NEW i \in DOMAIN s
  PROVE  s[i] \in S
OBVIOUS

\* ByName of a list of declarations that is not empty.
LEMMA ByNameTyped ==
  ASSUME NEW T, NEW I, NEW dcls \in Seq([id : I, type : T])
  PROVE  /\ DOMAIN ByName(dcls) \subseteq I
         /\ dcls # <<>> => DOMAIN ByName(dcls) # {}
         /\ \A x \in DOMAIN ByName(dcls) : ByName(dcls)[x] \in T
<1>1. DOMAIN ByName(dcls) = {dcls[i].id : i \in DOMAIN dcls}
  BY DEF ByName
<1>2. ASSUME NEW i \in DOMAIN dcls
      PROVE  dcls[i].id \in I /\ dcls[i].type \in T
  <2>1. dcls[i] \in [id : I, type : T]
    BY ElementIn
  <2> QED
    BY <2>1
<1>3. ASSUME NEW x \in DOMAIN ByName(dcls)
      PROVE  ByName(dcls)[x] \in T
  <2> DEFINE k == CHOOSE i \in DOMAIN dcls : dcls[i].id = x
  <2>1. \E i \in DOMAIN dcls : dcls[i].id = x
    BY <1>1, <1>3
  <2>2. k \in DOMAIN dcls
    BY <2>1
  <2>3. ByName(dcls)[x] = dcls[k].type
    BY <1>1, <1>3 DEF ByName
  <2> QED
    BY <1>2, <2>2, <2>3
<1>4. dcls # <<>> => 1 \in DOMAIN dcls
  OBVIOUS
<1> QED
  BY <1>1, <1>2, <1>3, <1>4

LEMMA AlignUpIs ==
  ASSUME NEW n \in Nat
  PROVE  AlignUp(n) \in Nat /\ AlignUp(n) >= n /\ AlignUp(n) % SIZE_INT = 0
BY DEF AlignUp, SIZE_INT

LEMMA PlacedLater ==
  ASSUME NEW at, NEW fields, NEW sizes, NEW sizes2, NEW n,
         Placed(at, fields, sizes, n),
         \A t \in DOMAIN sizes : t \in DOMAIN sizes2 /\ sizes2[t] = sizes[t]
  PROVE  Placed(at, fields, sizes2, n)
<1>1. ASSUME NEW f \in DOMAIN at
      PROVE  /\ KnownIn(fields[f], sizes2)
             /\ SizeIn(fields[f], sizes2) = SizeIn(fields[f], sizes)
  BY DEF Placed, KnownIn, SizeIn
<1> QED
  BY <1>1 DEF Placed

\* The sizes of the visited fields are numbers.
LEMMA SizesAreNumbers ==
  ASSUME NEW t, NEW sizes, KnownIn(t, sizes),
         \A u \in DOMAIN sizes : sizes[u] \in Nat \ {0}
  PROVE  SizeIn(t, sizes) \in Nat \ {0}
BY DEF KnownIn, SizeIn, SIZE_PTR

LEMMA PlacedRounded ==
  ASSUME NEW at, NEW fields, NEW sizes, NEW n \in Nat,
         \A u \in DOMAIN sizes : sizes[u] \in Nat \ {0},
         Placed(at, fields, sizes, n)
  PROVE  Placed(at, fields, sizes, AlignUp(n))
<1>1. ASSUME NEW f \in DOMAIN at
      PROVE  -at[f] + SizeIn(fields[f], sizes) <= AlignUp(n)
  <2>1. at[f] \in Int /\ -at[f] + SizeIn(fields[f], sizes) <= n
    BY DEF Placed
  <2>2. SizeIn(fields[f], sizes) \in Nat
    BY SizesAreNumbers DEF Placed
  <2> QED
    BY <2>1, <2>2, AlignUpIs
<1> QED
  BY <1>1, Zenon DEF Placed

\* A field after the others goes after them.
LEMMA PlacedNext ==
  ASSUME NEW at, NEW fields, NEW sizes, NEW n \in Nat, NEW f \in Nat \ DOMAIN at,
         DOMAIN at \subseteq Nat, \A g \in DOMAIN at : g < f,
         \A u \in DOMAIN sizes : sizes[u] \in Nat \ {0},
         Placed(at, fields, sizes, n), KnownIn(fields[f], sizes),
         NEW start, start = IF SizeIn(fields[f], sizes) >= SIZE_INT THEN AlignUp(n) ELSE n
  PROVE  /\ start + SizeIn(fields[f], sizes) \in Nat \ {0}
         /\ Placed(Put(at, f, -start), fields, sizes, start + SizeIn(fields[f], sizes))
<1> DEFINE z == SizeIn(fields[f], sizes)
           new == Put(at, f, -start)
<1>1. z \in Nat \ {0}
  BY SizesAreNumbers
<1>2. start \in Nat /\ start >= n /\ (z >= SIZE_INT => start % SIZE_INT = 0)
  BY AlignUpIs
<1>3. DOMAIN new = DOMAIN at \cup {f} /\ new[f] = -start
      /\ \A g \in DOMAIN at : new[g] = at[g]
  <2>1. \A g \in DOMAIN at : g # f
    OBVIOUS
  <2>2. /\ DOMAIN new = DOMAIN at \cup {f} /\ new[f] = -start
        /\ \A g \in DOMAIN at : g # f => new[g] = at[g]
    BY DEF Put
  <2> QED
    BY <2>1, <2>2
<1> HIDE DEF new
<1>4. ASSUME NEW g \in DOMAIN at
      PROVE  /\ KnownIn(fields[g], sizes) /\ SizeIn(fields[g], sizes) \in Nat
             /\ new[g] \in Int /\ -new[g] >= 0
             /\ -new[g] + SizeIn(fields[g], sizes) <= n
             /\ SizeIn(fields[g], sizes) >= SIZE_INT => (-new[g]) % SIZE_INT = 0
             /\ \A h \in DOMAIN at : g < h => -new[g] + SizeIn(fields[g], sizes) <= -new[h]
  <2>1. /\ KnownIn(fields[g], sizes)
        /\ at[g] \in Int /\ -at[g] >= 0
        /\ -at[g] + SizeIn(fields[g], sizes) <= n
        /\ SizeIn(fields[g], sizes) >= SIZE_INT => (-at[g]) % SIZE_INT = 0
        /\ \A h \in DOMAIN at : g < h => -at[g] + SizeIn(fields[g], sizes) <= -at[h]
    BY DEF Placed
  <2>2. SizeIn(fields[g], sizes) \in Nat
    BY <2>1, SizesAreNumbers
  <2> QED
    BY <1>3, <2>1, <2>2
<1>5. -(-start) = start
  BY <1>2
<1>6. ASSUME NEW g \in DOMAIN new
      PROVE  /\ KnownIn(fields[g], sizes)
             /\ new[g] \in Int
             /\ -new[g] >= 0
             /\ -new[g] + SizeIn(fields[g], sizes) <= start + z
             /\ SizeIn(fields[g], sizes) >= SIZE_INT => (-new[g]) % SIZE_INT = 0
             /\ \A h \in DOMAIN new : g < h => -new[g] + SizeIn(fields[g], sizes) <= -new[h]
  <2>1. CASE g = f
    BY <1>1, <1>2, <1>3, <1>5, <2>1
  <2>2. CASE g \in DOMAIN at
    <3>1. /\ KnownIn(fields[g], sizes) /\ SizeIn(fields[g], sizes) \in Nat
          /\ new[g] \in Int /\ -new[g] >= 0
          /\ -new[g] + SizeIn(fields[g], sizes) <= n
          /\ SizeIn(fields[g], sizes) >= SIZE_INT => (-new[g]) % SIZE_INT = 0
          /\ \A h \in DOMAIN at : g < h => -new[g] + SizeIn(fields[g], sizes) <= -new[h]
      BY <1>4, <2>2
    <3>2. -new[g] + SizeIn(fields[g], sizes) <= start + z
      BY <1>1, <1>2, <3>1
    <3>3. -new[g] + SizeIn(fields[g], sizes) <= -new[f]
      BY <1>2, <1>3, <1>5, <3>1
    <3> QED
      BY <1>3, <3>1, <3>2, <3>3
  <2> QED
    BY <1>3, <2>1, <2>2
<1>7. Placed(new, fields, sizes, start + z)
  BY <1>6, Zenon DEF Placed
<1> QED
  BY <1>1, <1>2, <1>7 DEF new

-------------------------------------------------------------------------------
(* Sequences of visits.                                                    *)

LEMMA SeqsOf ==
  ASSUME NEW S, IsFiniteSet(S), NEW s \in SetToSeqs(S)
  PROVE  /\ s \in Seq(S)
         /\ \A i, j \in 1 .. Len(s) : i # j => s[i] # s[j]
         /\ \A x \in S : \E i \in 1 .. Len(s) : s[i] = x
<1> DEFINE D == 1 .. Cardinality(S)
<1>1. Cardinality(S) \in Nat
  BY FS_CardinalityType
<1>2. s \in [D -> S] /\ \A i, j \in D : i # j => s[i] # s[j]
  BY DEF SetToSeqs
<1>3. s \in Seq(S) /\ Len(s) = Cardinality(S)
  BY <1>1, <1>2
<1>4. s \in Injection(D, S)
  BY <1>2 DEF Injection, IsInjective
<1>5. IsFiniteSet(D) /\ Cardinality(D) = Cardinality(S)
  BY <1>1, FS_Interval
<1>6. s \in Surjection(D, S)
  BY <1>4, <1>5, FS_Injection
<1>7. \A x \in S : \E i \in D : s[i] = x
  BY <1>6 DEF Surjection
<1> QED
  BY <1>2, <1>3, <1>7

\* A sequence whose elements from some point on are in R, and more from R.
LEMMA MoreOfRest ==
  ASSUME NEW V, NEW R \in SUBSET V, NEW s \in Seq(V), NEW n \in Nat, n <= Len(s),
         \A i \in 1 .. Len(s) : i > n => s[i] \in R,
         NEW r \in Seq(R), NEW t, t = s \o r
  PROVE  /\ t \in Seq(V) /\ n <= Len(t)
         /\ \A i \in 1 .. n : t[i] = s[i]
         /\ \A i \in 1 .. Len(t) : i > n => t[i] \in R
<1>1. r \in Seq(V) /\ \A i \in 1 .. Len(r) : r[i] \in R
  OBVIOUS
<1>2. t \in Seq(V) /\ Len(t) = Len(s) + Len(r)
  BY <1>1
<1>3. ASSUME NEW i \in 1 .. Len(t)
      PROVE  t[i] = IF i <= Len(s) THEN s[i] ELSE r[i - Len(s)]
  BY <1>1, <1>2
<1>4. ASSUME NEW i \in 1 .. Len(t), i > n
      PROVE  t[i] \in R
  <2>1. CASE i <= Len(s)
    BY <1>3, <1>4, <2>1
  <2>2. CASE i > Len(s)
    <3>1. i - Len(s) \in 1 .. Len(r)
      BY <1>2, <2>2
    <3> QED
      BY <1>1, <1>3, <2>2, <3>1
  <2> QED
    BY <2>1, <2>2
<1> QED
  BY <1>2, <1>3, <1>4

\* What Continue makes of a sequence of visits.
LEMMA Continued ==
  ASSUME NEW V, NEW s \in Seq(V), s # <<>>, NEW r \in Seq(V), NEW t, t = r \o Tail(s)
  PROVE  /\ t \in Seq(V) /\ Len(t) = Len(r) + Len(s) - 1
         /\ \A i \in 1 .. Len(r) : t[i] = r[i]
         /\ \A i \in 1 .. Len(t) : i > Len(r) => t[i] = s[i - Len(r) + 1]
         /\ \A i \in 2 .. Len(s) : t[i + Len(r) - 1] = s[i]
<1>1. /\ Tail(s) \in Seq(V) /\ Len(Tail(s)) = Len(s) - 1 /\ Len(s) \in Nat \ {0}
      /\ \A i \in 1 .. Len(s) - 1 : Tail(s)[i] = s[i + 1]
  OBVIOUS
<1>2. t \in Seq(V) /\ Len(t) = Len(r) + Len(s) - 1 /\ Len(r) \in Nat
  BY <1>1
<1>3. ASSUME NEW i \in 1 .. Len(t)
      PROVE  t[i] = IF i <= Len(r) THEN r[i] ELSE Tail(s)[i - Len(r)]
  BY <1>1, <1>2
<1>4. ASSUME NEW i \in 1 .. Len(t), i > Len(r)
      PROVE  t[i] = s[i - Len(r) + 1]
  <2>1. i - Len(r) \in 1 .. Len(s) - 1
    BY <1>2, <1>4
  <2> QED
    BY <1>1, <1>3, <1>4, <2>1
<1>5. ASSUME NEW i \in 2 .. Len(s)
      PROVE  t[i + Len(r) - 1] = s[i]
  <2>1. i + Len(r) - 1 \in 1 .. Len(t) /\ i + Len(r) - 1 > Len(r)
        /\ (i + Len(r) - 1) - Len(r) + 1 = i
    BY <1>1, <1>2
  <2> QED
    BY <1>4, <2>1
<1>6. \A i \in 1 .. Len(r) : i \in 1 .. Len(t) /\ i <= Len(r)
  BY <1>1, <1>2
<1> QED
  BY <1>2, <1>3, <1>4, <1>5, <1>6

\* The visits of a program's children: its structs, and then others.
Others ==
  {v \in Visits : /\ ~OfStruct(v)
                  /\ v.visit = "procedure" => v.id \in DOMAIN procedures \cup {"main"}}

LEMMA OtherVisits ==
  ASSUME NEW id \in STRING \cup {"main"}, NEW n \in Nat
  PROVE  /\ Visit("global", id, n) \in Others
         /\ id \in DOMAIN procedures \cup {"main"} => Visit("procedure", id, n) \in Others
<1> USE DEF Visit
<1>1. Visit("global", id, n) \in Visits /\ Visit("procedure", id, n) \in Visits
  BY DEF Visits
<1>2. ~OfStruct(Visit("global", id, n)) /\ ~OfStruct(Visit("procedure", id, n))
  BY DEF OfStruct
<1> QED
  BY <1>1, <1>2 DEF Others

LEMMA ChildrenAre ==
  ASSUME TreeTyped, NEW o, o.structs \in Seq(DOMAIN struct_defs),
         o.procedures \in Seq(DOMAIN procedures), NEW t, t = Children(o)
  PROVE  /\ t \in Seq(Visits) /\ Len(o.structs) <= Len(t)
         /\ \A i \in 1 .. Len(o.structs) : t[i] = Visit("struct", o.structs[i], 0)
         /\ \A i \in 1 .. Len(t) : i > Len(o.structs) => t[i] \in Others
<1> DEFINE a == [i \in 1 .. Len(o.structs) |-> Visit("struct", o.structs[i], 0)]
           b == [i \in 1 .. Len(global_vars) |-> Visit("global", global_vars[i].id, i)]
           c == [i \in 1 .. Len(o.procedures) |-> Visit("procedure", o.procedures[i], 0)]
           d == <<Visit("procedure", "main", 0)>>
           n == Len(o.structs)
<1>1. a \in Seq(Visits) /\ Len(a) = n /\ n \in Nat
      /\ \A i \in 1 .. n : a[i] = Visit("struct", o.structs[i], 0)
  <2>1. \A i \in 1 .. n : Visit("struct", o.structs[i], 0) \in Visits
    <3> TAKE i \in 1 .. n
    <3>1. o.structs[i] \in STRING
      BY DEF TreeTyped
    <3> QED
      BY <3>1 DEF Visit, Visits
  <2> QED
    BY <2>1
<1>2. b \in Seq(Others)
  <2>1. Len(global_vars) \in Nat
    BY DEF TreeTyped
  <2>2. ASSUME NEW i \in 1 .. Len(global_vars)
        PROVE  Visit("global", global_vars[i].id, i) \in Others
    <3>1. global_vars[i] \in GlobalDef
      BY ElementIn DEF TreeTyped
    <3>2. global_vars[i].id \in STRING
      BY <3>1 DEF GlobalDef
    <3>3. i \in Nat /\ global_vars[i].id \in STRING \cup {"main"}
      BY <2>1, <3>2
    <3> QED
      BY <3>3, OtherVisits
  <2> QED
    BY <2>1, <2>2
<1>3. c \in Seq(Others)
  <2>1. \A i \in 1 .. Len(o.procedures) : Visit("procedure", o.procedures[i], 0) \in Others
    <3> TAKE i \in 1 .. Len(o.procedures)
    <3>1. o.procedures[i] \in STRING /\ o.procedures[i] \in DOMAIN procedures
      BY DEF TreeTyped
    <3> QED
      BY <3>1, OtherVisits
  <2> QED
    BY <2>1
<1>4. d \in Seq(Others)
  <2>1. Visit("procedure", "main", 0) \in Others
    BY OtherVisits
  <2> QED
    BY <2>1
<1>5. t = ((a \o b) \o c) \o d
  BY DEF Children
<1> HIDE DEF a, b, c, d, n
<1>6. Others \in SUBSET Visits
  BY DEF Others
<1>7. /\ a \o b \in Seq(Visits) /\ n <= Len(a \o b)
      /\ \A i \in 1 .. n : (a \o b)[i] = a[i]
      /\ \A i \in 1 .. Len(a \o b) : i > n => (a \o b)[i] \in Others
  <2> DEFINE u == a \o b
  <2>1. /\ u \in Seq(Visits) /\ n <= Len(u)
        /\ \A i \in 1 .. n : u[i] = a[i]
        /\ \A i \in 1 .. Len(u) : i > n => u[i] \in Others
    <3> HIDE DEF u
    <3>1. u = a \o b
      BY DEF u
    <3> QED
      BY <1>1, <1>2, <1>6, <3>1, MoreOfRest
  <2> QED
    BY <2>1
<1>8. PICK u : u = a \o b
  OBVIOUS
<1>9. PICK w : w = u \o c
  OBVIOUS
<1>10. /\ w \in Seq(Visits) /\ n <= Len(w)
       /\ \A i \in 1 .. n : w[i] = u[i]
       /\ \A i \in 1 .. Len(w) : i > n => w[i] \in Others
  BY <1>1, <1>3, <1>6, <1>7, <1>8, <1>9, MoreOfRest
<1>11. t = w \o d
  BY <1>5, <1>8, <1>9
<1>12. /\ t \in Seq(Visits) /\ n <= Len(t)
       /\ \A i \in 1 .. n : t[i] = w[i]
       /\ \A i \in 1 .. Len(t) : i > n => t[i] \in Others
  BY <1>1, <1>4, <1>6, <1>10, <1>11, MoreOfRest
<1> QED
  BY <1>1, <1>7, <1>8, <1>10, <1>12 DEF n

-------------------------------------------------------------------------------
(* The steps.                                                              *)

\* The tree and the layouts, whatever the visits do.
LEMMA TreeKeeps ==
  ASSUME LayoutInv, UNCHANGED <<treeVars, type_sizes, frame_offset>>
  PROVE  (TreeTyped /\ SizesTyped /\ SizedPlaced /\ Founded)'
<1> USE DEF treeVars
<1>1. TreeTyped'
  BY DEF LayoutInv, TreeTyped
<1>2. SizesTyped'
  BY DEF LayoutInv, SizesTyped
<1>3. SizedPlaced'
  BY DEF LayoutInv, SizedPlaced, Sized
<1>4. Founded'
  <2>1. Sized' = Sized
    BY DEF Sized
  <2>2. ASSUME NEW s, NEW t
        PROVE  HoldsByValue(s, t)' <=> HoldsByValue(s, t)
    BY DEF HoldsByValue
  <2>3. Founded
    BY DEF LayoutInv
  <2> QED
    BY <2>1, <2>2, <2>3 DEF Founded
<1> QED
  BY <1>1, <1>2, <1>3, <1>4

LEMMA StopKeeps ==
  ASSUME LayoutInv, UNCHANGED <<treeVars, type_sizes, frame_offset>>,
         phase' \notin {"parsing", "checking", "generating", "compiled"}
  PROVE  LayoutInv'
BY TreeKeeps DEF LayoutInv

\* While the tree is built no struct has a size.
LEMMA ParsingKeeps ==
  ASSUME LayoutInv, phase = "parsing", UNCHANGED <<type_sizes, frame_offset>>,
         phase' \in {"parsing", "unparsed"}, TreeTyped'
  PROVE  LayoutInv'
<1>1. type_sizes = BasicSizes /\ frame_offset = Nothing /\ DOMAIN type_sizes = Basic
      /\ \A t \in DOMAIN type_sizes : type_sizes[t] \in Nat \ {0}
  BY DEF LayoutInv, BasicSizes, SizesTyped
<1>2. Sized' = {}
  BY <1>1 DEF Sized
<1> QED
  BY <1>1, <1>2 DEF LayoutInv, SizesTyped, SizedPlaced, Founded

LEMMA ReduceKeeps ==
  ASSUME LayoutInv, NEW d \in Definitions,
         ReduceStruct(d) \/ ReduceGlobal(d) \/ ReduceProcedure(d)
  PROVE  LayoutInv'
<1>1. phase = "parsing" /\ UNCHANGED <<type_sizes, frame_offset, main>>
  BY DEF ReduceStruct, ReduceGlobal, ReduceProcedure, Read, checkVars
<1>2. d.id \notin Basic /\ (d.def = "struct" => d.fields # <<>>)
  BY DefsAssumption
<1>3. TreeTyped
  BY DEF LayoutInv
<1>4. CASE ReduceStruct(d)
  <2>1. UNCHANGED <<global_vars, procedures>> /\ phase' \in {"parsing", "unparsed"}
    BY <1>1, <1>4 DEF ReduceStruct, Read
  <2>2. \/ UNCHANGED struct_defs
        \/ struct_defs' = Insert(struct_defs, d.id, ByName(d.fields))
    BY <1>4 DEF ReduceStruct
  <2>3. CASE UNCHANGED struct_defs
    <3>1. TreeTyped'
      BY <1>1, <1>3, <2>1, <2>3 DEF TreeTyped
    <3> QED
      BY <1>1, <2>1, <3>1, ParsingKeeps
  <2>4. CASE struct_defs' = Insert(struct_defs, d.id, ByName(d.fields))
    <3>1. d \in StructDef
      BY <1>4 DEF ReduceStruct
    <3>2. d.id \in STRING /\ d.fields \in Seq([id : Nat, type : Type]) /\ d.fields # <<>>
      BY <1>2, <3>1 DEF StructDef
    <3>3. /\ DOMAIN ByName(d.fields) \subseteq Nat /\ DOMAIN ByName(d.fields) # {}
          /\ \A x \in DOMAIN ByName(d.fields) : ByName(d.fields)[x] \in Type
      BY <3>2, ByNameTyped
    <3>4. /\ DOMAIN struct_defs' = DOMAIN struct_defs \cup {d.id}
          /\ d.id \notin DOMAIN struct_defs => struct_defs'[d.id] = ByName(d.fields)
          /\ \A x \in DOMAIN struct_defs : struct_defs'[x] = struct_defs[x]
      BY <2>4 DEF Insert, Put
    <3>5. IsFiniteSet(DOMAIN struct_defs')
      BY <1>3, <3>4, FS_AddElement DEF TreeTyped
    <3>6. ASSUME NEW s \in DOMAIN struct_defs'
          PROVE  /\ s \in STRING \ Basic
                 /\ DOMAIN struct_defs'[s] # {} /\ DOMAIN struct_defs'[s] \subseteq Nat
                 /\ \A f \in DOMAIN struct_defs'[s] : struct_defs'[s][f] \in Type
      <4>1. CASE s \in DOMAIN struct_defs
        BY <1>3, <3>4, <4>1 DEF TreeTyped
      <4>2. CASE s \notin DOMAIN struct_defs
        <5>1. s = d.id /\ struct_defs'[s] = ByName(d.fields)
          BY <3>4, <3>6, <4>2
        <5> QED
          BY <1>2, <3>2, <3>3, <5>1
      <4> QED
        BY <4>1, <4>2
    <3>7. TreeTyped'
      BY <1>1, <1>3, <2>1, <3>5, <3>6 DEF TreeTyped
    <3> QED
      BY <1>1, <2>1, <3>7, ParsingKeeps
  <2> QED
    BY <2>2, <2>3, <2>4
<1>5. CASE ReduceGlobal(d)
  <2>1. UNCHANGED <<struct_defs, procedures, phase>> /\ d \in GlobalDef
        /\ global_vars' = <<d>> \o global_vars
    BY <1>5 DEF ReduceGlobal
  <2>2. global_vars' \in Seq(GlobalDef)
    BY <1>3, <2>1 DEF TreeTyped
  <2>3. TreeTyped'
    BY <1>1, <1>3, <2>1, <2>2 DEF TreeTyped
  <2> QED
    BY <1>1, <2>1, <2>3, ParsingKeeps
<1>6. CASE ReduceProcedure(d)
  <2>1. UNCHANGED <<struct_defs, global_vars, phase>> /\ d \in ProcedureDef
        /\ procedures' = Insert(procedures, d.id, d)
    BY <1>6 DEF ReduceProcedure, WithProcedure
  <2>2. d.id \in STRING
    BY <2>1 DEF ProcedureDef
  <2>3. /\ DOMAIN procedures' = DOMAIN procedures \cup {d.id}
        /\ d.id \notin DOMAIN procedures => procedures'[d.id] = d
        /\ \A x \in DOMAIN procedures : procedures'[x] = procedures[x]
    BY <2>1 DEF Insert, Put
  <2>4. IsFiniteSet(DOMAIN procedures')
    BY <1>3, <2>3, FS_AddElement DEF TreeTyped
  <2>5. \A p \in DOMAIN procedures' : p \in STRING /\ procedures'[p] \in ProcedureDef
    BY <1>3, <2>1, <2>2, <2>3 DEF TreeTyped
  <2>6. TreeTyped'
    BY <1>1, <1>3, <2>1, <2>4, <2>5 DEF TreeTyped
  <2> QED
    BY <1>1, <2>1, <2>6, ParsingKeeps
<1> QED
  BY <1>4, <1>5, <1>6

LEMMA ParsingEndsKeeps ==
  ASSUME LayoutInv, ParsingEnds
  PROVE  LayoutInv'
<1>1. PICK s \in SetToSeqs(DOMAIN struct_defs), p \in SetToSeqs(DOMAIN procedures) :
        order' = [structs |-> s, procedures |-> p]
  BY DEF ParsingEnds
<1>2. order'.structs = s /\ order'.procedures = p
  BY <1>1
<1>3. /\ phase = "parsing" /\ phase' = "checking" /\ todo' = Children(order')
      /\ UNCHANGED <<treeVars, type_sizes, size, frame_offset>>
  BY DEF ParsingEnds, checkVars
<1>4. TreeTyped /\ SizesTyped /\ DOMAIN type_sizes = Basic
  BY <1>3 DEF LayoutInv, BasicSizes
<1>5. /\ s \in Seq(DOMAIN struct_defs)
      /\ \A i, j \in 1 .. Len(s) : i # j => s[i] # s[j]
      /\ \A x \in DOMAIN struct_defs : \E i \in 1 .. Len(s) : s[i] = x
  BY <1>4, SeqsOf DEF TreeTyped
<1>6. p \in Seq(DOMAIN procedures)
  BY <1>4, SeqsOf DEF TreeTyped
<1>7. /\ todo' \in Seq(Visits) /\ Len(s) <= Len(todo')
      /\ \A i \in 1 .. Len(s) : todo'[i] = Visit("struct", s[i], 0)
      /\ \A i \in 1 .. Len(todo') : i > Len(s) => todo'[i] \in Others
  <2>1. order'.structs \in Seq(DOMAIN struct_defs) /\ order'.procedures \in Seq(DOMAIN procedures)
    BY <1>2, <1>5, <1>6
  <2>2. /\ todo' \in Seq(Visits) /\ Len(order'.structs) <= Len(todo')
        /\ \A i \in 1 .. Len(order'.structs) : todo'[i] = Visit("struct", order'.structs[i], 0)
        /\ \A i \in 1 .. Len(todo') : i > Len(order'.structs) => todo'[i] \in Others
    BY <1>3, <1>4, <2>1, ChildrenAre
  <2> QED
    BY <1>2, <2>2
<1>8. UNCHANGED <<struct_defs, procedures, type_sizes>>
  BY <1>3 DEF treeVars
<1>9. ASSUME NEW i \in 1 .. Len(todo')
      PROVE  \/ /\ i \in 1 .. Len(s) /\ todo'[i].visit = "struct" /\ todo'[i].id = s[i]
                /\ s[i] \in DOMAIN struct_defs \ DOMAIN type_sizes
             \/ /\ i \notin 1 .. Len(s) /\ ~OfStruct(todo'[i])
                /\ todo'[i].visit = "procedure" => todo'[i].id \in DOMAIN procedures \cup {"main"}
  <2>1. CASE i \in 1 .. Len(s)
    <3>1. s[i] \in DOMAIN struct_defs \ Basic
      BY <1>4, <1>5, <2>1 DEF TreeTyped
    <3>2. todo'[i] = Visit("struct", s[i], 0)
      BY <1>7, <2>1
    <3>3. todo'[i].visit = "struct" /\ todo'[i].id = s[i]
      BY <3>2 DEF Visit
    <3> QED
      BY <1>4, <2>1, <3>1, <3>3
  <2>2. CASE i \notin 1 .. Len(s)
    <3>1. Len(s) \in Nat /\ i > Len(s)
      BY <1>5, <1>7, <2>2
    <3> QED
      BY <1>7, <2>2, <3>1 DEF Others
  <2> QED
    BY <2>1, <2>2
<1>10. \A i \in 1 .. Len(s) : i \in 1 .. Len(todo')
  BY <1>5, <1>7
<1>11. VisitsSound'
  <2>1. ASSUME NEW i \in 1 .. Len(todo')
        PROVE  /\ OfStruct(todo'[i]) => todo'[i].id \in DOMAIN struct_defs' \ DOMAIN type_sizes'
               /\ todo'[i].visit # "fields"
               /\ todo'[i].visit = "procedure" => todo'[i].id \in DOMAIN procedures' \cup {"main"}
    BY <1>8, <1>9, <2>1 DEF OfStruct
  <2>2. ASSUME NEW i \in 1 .. Len(todo'), NEW j \in 1 .. Len(todo'),
               OfStruct(todo'[i]), OfStruct(todo'[j]), i # j
        PROVE  todo'[i].id # todo'[j].id
    BY <1>5, <1>9, <2>2, ZenonT(60)
  <2>3. ASSUME NEW x \in DOMAIN struct_defs' \ DOMAIN type_sizes'
        PROVE  \E i \in 1 .. Len(todo') : OfStruct(todo'[i]) /\ todo'[i].id = x
    <3>1. PICK i \in 1 .. Len(s) : s[i] = x
      BY <1>5, <1>8
    <3> QED
      BY <1>9, <1>10, <3>1 DEF OfStruct
  <2> QED
    BY <1>7, <2>1, <2>2, <2>3 DEF VisitsSound
<1> QED
  BY <1>3, <1>11, TreeKeeps DEF LayoutInv

\* The visit of what is no struct leaves the visits of structs as they are.
LEMMA OtherKeeps ==
  ASSUME LayoutInv, phase = "checking", todo # <<>>, ~OfStruct(Head(todo)),
         NEW nested \in Seq(Visits), \A i \in 1 .. Len(nested) : nested[i].visit = "item",
         Continue(nested), UNCHANGED <<treeVars, type_sizes, size, frame_offset>>
  PROVE  LayoutInv'
<1>1. VisitsSound /\ phase' = "checking" /\ todo' = nested \o Tail(todo)
      /\ UNCHANGED <<struct_defs, procedures, type_sizes>>
  BY DEF LayoutInv, Continue, treeVars
<1>2. todo \in Seq(Visits) /\ Head(todo) = todo[1] /\ Len(todo) \in Nat \ {0}
      /\ Len(nested) \in Nat
  BY <1>1 DEF VisitsSound
<1>3. /\ todo' \in Seq(Visits) /\ Len(todo') = Len(nested) + Len(todo) - 1
      /\ \A i \in 1 .. Len(nested) : todo'[i] = nested[i]
      /\ \A i \in 1 .. Len(todo') : i > Len(nested) => todo'[i] = todo[i - Len(nested) + 1]
      /\ \A i \in 2 .. Len(todo) : todo'[i + Len(nested) - 1] = todo[i]
  BY <1>1, <1>2, Continued
<1> DEFINE old(i) == i - Len(nested) + 1
<1>4. ASSUME NEW i \in 1 .. Len(todo')
      PROVE  \/ todo'[i].visit = "item"
             \/ i > Len(nested) /\ old(i) \in 2 .. Len(todo) /\ todo'[i] = todo[old(i)]
  BY <1>2, <1>3, SMTT(40)
<1>5. ASSUME NEW i \in 1 .. Len(todo')
      PROVE  /\ OfStruct(todo'[i]) => todo'[i].id \in DOMAIN struct_defs' \ DOMAIN type_sizes'
             /\ todo'[i].visit # "fields"
             /\ todo'[i].visit = "procedure" => todo'[i].id \in DOMAIN procedures' \cup {"main"}
  <2>1. CASE todo'[i].visit = "item"
    BY <2>1 DEF OfStruct
  <2>2. CASE old(i) \in 2 .. Len(todo) /\ todo'[i] = todo[old(i)]
    <3>1. old(i) \in 1 .. Len(todo) /\ old(i) # 1
      BY <1>2, <2>2
    <3> HIDE DEF old
    <3> QED
      BY <1>1, <2>2, <3>1 DEF VisitsSound
  <2> QED
    BY <1>4, <2>1, <2>2
<1>6. ASSUME NEW i \in 1 .. Len(todo'), NEW j \in 1 .. Len(todo'),
             OfStruct(todo'[i]), OfStruct(todo'[j]), i # j
      PROVE  todo'[i].id # todo'[j].id
  <2>1. todo'[i].visit # "item" /\ todo'[j].visit # "item"
    BY <1>6 DEF OfStruct
  <2>2. PICK a \in 1 .. Len(todo) : a = old(i) /\ todo'[i] = todo[a]
    BY <1>2, <1>4, <2>1, SMTT(40)
  <2>3. PICK b \in 1 .. Len(todo) : b = old(j) /\ todo'[j] = todo[b]
    BY <1>2, <1>4, <2>1
  <2>4. a # b
    BY <1>2, <1>3, <1>6, <2>2, <2>3
  <2>5. OfStruct(todo[a]) /\ OfStruct(todo[b])
    BY <1>6, <2>2, <2>3
  <2>6. todo[a].id # todo[b].id
    BY <1>1, <2>4, <2>5 DEF VisitsSound
  <2> QED
    BY <2>2, <2>3, <2>6
<1>7. ASSUME NEW x \in DOMAIN struct_defs' \ DOMAIN type_sizes'
      PROVE  \E i \in 1 .. Len(todo') : OfStruct(todo'[i]) /\ todo'[i].id = x
  <2>1. PICK i \in 1 .. Len(todo) : OfStruct(todo[i]) /\ todo[i].id = x
    BY <1>1 DEF VisitsSound
  <2>2. i \in 2 .. Len(todo)
    BY <1>2, <2>1
  <2>3. i + Len(nested) - 1 \in 1 .. Len(todo') /\ todo'[i + Len(nested) - 1] = todo[i]
    BY <1>2, <1>3, <2>2, SMTT(40)
  <2> QED
    BY <2>1, <2>3
<1>8. VisitsSound'
  BY <1>3, <1>5, <1>6, <1>7 DEF VisitsSound
<1> QED
  BY <1>1, <1>8, TreeKeeps DEF LayoutInv

LEMMA TcStructKeeps ==
  ASSUME LayoutInv, TcStruct
  PROVE  LayoutInv'
<1>0. PICK s : s = Head(todo).id
  OBVIOUS
<1>1. /\ phase = "checking" /\ phase' = "checking" /\ todo # <<>>
      /\ Head(todo).visit = "struct" /\ todo' = <<Visit("fields", s, 0)>> \o Tail(todo)
      /\ frame_offset' = Put(frame_offset, s, Nothing) /\ size' = 0
      /\ UNCHANGED <<treeVars, type_sizes>>
  BY <1>0 DEF TcStruct, Visiting, Continue
<1>2. VisitsSound /\ UNCHANGED <<struct_defs, procedures, global_vars, main, type_sizes>>
  BY <1>1 DEF LayoutInv, treeVars
<1>3. todo \in Seq(Visits) /\ Head(todo) = todo[1] /\ Len(todo) \in Nat \ {0}
      /\ s \in STRING \cup {"main"}
  <2>1. todo \in Seq(Visits) /\ Head(todo) = todo[1] /\ Len(todo) \in Nat \ {0}
    BY <1>1, <1>2 DEF VisitsSound
  <2>2. todo[1] \in Visits
    BY <2>1
  <2> QED
    BY <1>0, <2>1, <2>2 DEF Visits
<1>4. s \in DOMAIN struct_defs \ DOMAIN type_sizes
  BY <1>0, <1>1, <1>2, <1>3 DEF VisitsSound, OfStruct
<1>5. /\ frame_offset'[s] = Nothing /\ DOMAIN frame_offset' = DOMAIN frame_offset \cup {s}
      /\ \A u \in DOMAIN frame_offset : u # s => frame_offset'[u] = frame_offset[u]
  BY <1>1 DEF Put
<1>6. <<Visit("fields", s, 0)>> \in Seq(Visits)
  BY <1>3 DEF Visit, Visits
<1>7. /\ todo' \in Seq(Visits) /\ Len(todo') = Len(todo)
      /\ todo'[1] = Visit("fields", s, 0)
      /\ \A i \in 2 .. Len(todo) : todo'[i] = todo[i]
  BY <1>1, <1>3, <1>6
<1>8. UnderWay(s)'
  <2>1. DOMAIN Nothing = {}
    BY DEF Nothing
  <2> QED
    BY <1>1, <1>2, <1>5, <2>1 DEF UnderWay, Placed
<1>9. todo'[1].visit = "fields" /\ todo'[1].id = todo[1].id /\ todo[1].id = s
  BY <1>0, <1>3, <1>7 DEF Visit
<1>10. \A i \in 1 .. Len(todo) : OfStruct(todo'[i]) => OfStruct(todo[i]) /\ todo'[i].id = todo[i].id
  BY <1>1, <1>3, <1>7, <1>9 DEF OfStruct
<1>11. \A i \in 1 .. Len(todo) : OfStruct(todo[i]) => OfStruct(todo'[i]) /\ todo'[i].id = todo[i].id
  BY <1>1, <1>3, <1>7, <1>9 DEF OfStruct
<1>12. VisitsSound'
  <2>1. ASSUME NEW i \in 1 .. Len(todo')
        PROVE  /\ OfStruct(todo'[i]) => todo'[i].id \in DOMAIN struct_defs' \ DOMAIN type_sizes'
               /\ todo'[i].visit = "fields" => i = 1
               /\ todo'[i].visit = "procedure" => todo'[i].id \in DOMAIN procedures' \cup {"main"}
    <3>1. CASE i = 1
      BY <1>2, <1>4, <1>9, <3>1
    <3>2. CASE i \in 2 .. Len(todo)
      BY <1>2, <1>3, <1>7, <3>2 DEF VisitsSound
    <3> QED
      BY <1>3, <1>7, <3>1, <3>2
  <2>2. \A i, j \in 1 .. Len(todo') :
          OfStruct(todo'[i]) /\ OfStruct(todo'[j]) /\ i # j => todo'[i].id # todo'[j].id
    BY <1>2, <1>7, <1>10 DEF VisitsSound
  <2>3. \A x \in DOMAIN struct_defs' \ DOMAIN type_sizes' :
          \E i \in 1 .. Len(todo') : OfStruct(todo'[i]) /\ todo'[i].id = x
    BY <1>2, <1>7, <1>11 DEF VisitsSound
  <2>4. \A i \in 1 .. Len(todo') :
          (todo[i].visit = "fields" => i = 1 /\ UnderWay(todo[i].id))'
    BY <1>8, <1>9, <2>1 DEF UnderWay, FieldsLeft
  <2> QED
    BY <1>7, <2>1, <2>2, <2>3, <2>4 DEF VisitsSound
<1>13. SizedPlaced'
  BY <1>2, <1>4, <1>5 DEF LayoutInv, SizedPlaced, Sized
<1>14. TreeTyped' /\ SizesTyped' /\ Founded'
  <2>1. Sized' = Sized
    BY <1>2 DEF Sized
  <2>2. ASSUME NEW u, NEW t
        PROVE  HoldsByValue(u, t)' <=> HoldsByValue(u, t)
    BY <1>2 DEF HoldsByValue
  <2> QED
    BY <1>2, <2>1, <2>2 DEF LayoutInv, TreeTyped, SizesTyped, Founded
<1> QED
  BY <1>1, <1>12, <1>13, <1>14 DEF LayoutInv

\* The struct under way is the first visit's; of the other parts of the
\* invariant about visits only its own changes with its fields.
LEMMA FirstUnderWay ==
  ASSUME VisitsSound, todo # <<>>, Head(todo).visit = "fields"
  PROVE  /\ Head(todo).id \in DOMAIN struct_defs \ DOMAIN type_sizes
         /\ UnderWay(Head(todo).id)
         /\ Head(todo) = todo[1] /\ Len(todo) \in Nat \ {0}
<1>1. Head(todo) = todo[1] /\ Len(todo) \in Nat \ {0}
  BY DEF VisitsSound
<1>2. OfStruct(todo[1])
  BY <1>1 DEF OfStruct
<1> QED
  BY <1>1, <1>2 DEF VisitsSound

LEMMA TcFieldKeeps ==
  ASSUME LayoutInv, NEW s, NEW f, TcField(s, f)
  PROVE  LayoutInv'
<1>1. /\ phase = "checking" /\ todo # <<>> /\ Head(todo).visit = "fields"
      /\ Head(todo).id = s /\ f \in FieldsLeft(s) /\ \A g \in FieldsLeft(s) : f <= g
      /\ UNCHANGED <<treeVars, type_sizes>>
  BY DEF TcField, Visiting
<1>2. VisitsSound /\ UNCHANGED <<struct_defs, procedures, global_vars, main, type_sizes>>
  BY <1>1 DEF LayoutInv, treeVars
<1>3. /\ s \in DOMAIN struct_defs \ DOMAIN type_sizes /\ UnderWay(s)
      /\ Len(todo) \in Nat \ {0} /\ todo[1].id = s
  BY <1>1, <1>2, FirstUnderWay
<1> DEFINE t == struct_defs[s][f]
           at == frame_offset[s]
           fields == struct_defs[s]
<1>4. CASE HasSize(t)
  <2>1. /\ frame_offset' = [frame_offset EXCEPT ![s] = Put(@, f, -FieldStart(t))]
        /\ size' = FieldStart(t) + SizeOf(t)
        /\ UNCHANGED <<phase, todo>>
    BY <1>4 DEF TcField
  <2>2. /\ frame_offset'[s] = Put(at, f, -FieldStart(t))
        /\ DOMAIN frame_offset' = DOMAIN frame_offset
        /\ \A u \in DOMAIN frame_offset : u # s => frame_offset'[u] = frame_offset[u]
    BY <1>3, <2>1 DEF UnderWay
  <2>3. /\ size \in Nat /\ DOMAIN at \subseteq DOMAIN fields
        /\ Placed(at, fields, type_sizes, size)
        /\ \A g \in DOMAIN at, h \in FieldsLeft(s) : g < h
        /\ s \in DOMAIN frame_offset
    BY <1>3 DEF UnderWay
  <2>4. DOMAIN fields \subseteq Nat /\ \A u \in DOMAIN type_sizes : type_sizes[u] \in Nat \ {0}
    BY <1>3 DEF LayoutInv, TreeTyped, SizesTyped
  <2>5. f \in Nat \ DOMAIN at /\ f \in DOMAIN fields
    BY <1>1, <2>4 DEF FieldsLeft
  <2>6. KnownIn(t, type_sizes) /\ SizeOf(t) = SizeIn(t, type_sizes)
    BY <1>4 DEF HasSize, KnownIn, SizeOf, SizeIn
  <2>7. FieldStart(t) = IF SizeIn(t, type_sizes) >= SIZE_INT THEN AlignUp(size) ELSE size
    BY <2>6 DEF FieldStart
  <2>8. /\ size' \in Nat \ {0}
        /\ Placed(frame_offset'[s], fields, type_sizes, size')
    <3>1. DOMAIN at \subseteq Nat /\ \A g \in DOMAIN at : g < f
      BY <1>1, <2>3, <2>4
    <3>2. PICK start : start = FieldStart(t)
      OBVIOUS
    <3>3. /\ start + SizeIn(t, type_sizes) \in Nat \ {0}
          /\ Placed(Put(at, f, -start), fields, type_sizes, start + SizeIn(t, type_sizes))
      BY <2>3, <2>4, <2>5, <2>6, <2>7, <3>1, <3>2, PlacedNext
    <3> QED
      BY <2>1, <2>2, <2>6, <3>2, <3>3
  <2>9. DOMAIN frame_offset'[s] = DOMAIN at \cup {f}
    BY <2>2 DEF Put
  <2>10. \A g \in DOMAIN frame_offset'[s], h \in FieldsLeft(s)' : g < h
    <3>1. FieldsLeft(s)' = FieldsLeft(s) \ {f} /\ FieldsLeft(s) \subseteq Nat
      BY <1>2, <1>3, <2>4, <2>9 DEF FieldsLeft
    <3>2. \A h \in FieldsLeft(s)' : f < h
      BY <1>1, <2>5, <3>1
    <3> QED
      BY <2>3, <2>9, <3>1, <3>2
  <2>11. UnderWay(s)'
    BY <1>2, <2>2, <2>3, <2>5, <2>8, <2>9, <2>10 DEF UnderWay
  <2>12. VisitsSound'
    <3>1. \A i \in 1 .. Len(todo) : todo[i].visit = "fields" => todo[i].id = s
      BY <1>2, <1>3 DEF VisitsSound
    <3>2. \A i \in 1 .. Len(todo') :
            (todo[i].visit = "fields" => i = 1 /\ UnderWay(todo[i].id))'
      BY <1>2, <2>1, <2>11, <3>1 DEF VisitsSound, UnderWay, FieldsLeft
    <3> QED
      BY <1>2, <2>1, <3>2 DEF VisitsSound
  <2>13. SizedPlaced'
    BY <1>2, <1>3, <2>2 DEF LayoutInv, SizedPlaced, Sized
  <2>14. TreeTyped' /\ SizesTyped' /\ Founded'
    <3>1. Sized' = Sized
      BY <1>2 DEF Sized
    <3>2. ASSUME NEW u, NEW v
          PROVE  HoldsByValue(u, v)' <=> HoldsByValue(u, v)
      BY <1>2 DEF HoldsByValue
    <3> QED
      BY <1>2, <3>1, <3>2 DEF LayoutInv, TreeTyped, SizesTyped, Founded
  <2> QED
    BY <1>1, <2>1, <2>12, <2>13, <2>14 DEF LayoutInv
<1>5. CASE ~HasSize(t)
  <2>1. phase' = "rejected" /\ UNCHANGED frame_offset
    BY <1>5 DEF TcField, Stop
  <2> QED
    BY <1>1, <2>1, StopKeeps
<1> QED
  BY <1>4, <1>5

LEMMA TcStructEndsKeeps ==
  ASSUME LayoutInv, TcStructEnds
  PROVE  LayoutInv'
<1>1. PICK s : s = Head(todo).id
  OBVIOUS
<1>2. /\ phase = "checking" /\ phase' = "checking" /\ todo # <<>>
      /\ Head(todo).visit = "fields" /\ FieldsLeft(s) = {}
      /\ type_sizes' = Insert(type_sizes, s, AlignUp(size))
      /\ todo' = <<>> \o Tail(todo)
      /\ UNCHANGED <<struct_defs, procedures, global_vars, main, frame_offset>>
  BY <1>1 DEF TcStructEnds, Visiting, Continue, treeVars
<1>3. VisitsSound /\ TreeTyped /\ SizesTyped /\ SizedPlaced /\ Founded
  BY <1>2 DEF LayoutInv
<1>4. /\ s \in DOMAIN struct_defs \ DOMAIN type_sizes /\ UnderWay(s)
      /\ Len(todo) \in Nat \ {0} /\ todo[1].id = s /\ OfStruct(todo[1])
  BY <1>1, <1>2, <1>3, FirstUnderWay DEF OfStruct
<1>5. /\ DOMAIN type_sizes' = DOMAIN type_sizes \cup {s}
      /\ type_sizes'[s] = AlignUp(size)
      /\ \A u \in DOMAIN type_sizes : type_sizes'[u] = type_sizes[u]
  BY <1>2, <1>4 DEF Insert, Put
<1>6. DOMAIN frame_offset[s] = DOMAIN struct_defs[s] /\ size \in Nat \ {0}
  <2>1. DOMAIN struct_defs[s] # {}
    BY <1>3, <1>4 DEF TreeTyped
  <2>2. DOMAIN frame_offset[s] = DOMAIN struct_defs[s]
    BY <1>2, <1>4 DEF UnderWay, FieldsLeft
  <2>3. size \in Nat /\ (DOMAIN frame_offset[s] # {} => size > 0)
    BY <1>4 DEF UnderWay
  <2> QED
    BY <2>1, <2>2, <2>3
<1>7. AlignUp(size) \in Nat \ {0} /\ AlignUp(size) % SIZE_INT = 0
  BY <1>6, AlignUpIs
<1>8. \A u \in DOMAIN type_sizes : type_sizes[u] \in Nat \ {0}
  BY <1>3 DEF SizesTyped
<1>9. SizesTyped'
  BY <1>2, <1>3, <1>4, <1>5, <1>7 DEF SizesTyped
<1>10. s \notin Basic /\ Sized' = Sized \cup {s} /\ s \notin Sized
  BY <1>3, <1>4, <1>5 DEF Sized, TreeTyped
<1>11. SizedPlaced'
  <2>1. ASSUME NEW u \in Sized
        PROVE  /\ u \in DOMAIN frame_offset' /\ type_sizes'[u] % SIZE_INT = 0
               /\ DOMAIN frame_offset'[u] = DOMAIN struct_defs'[u]
               /\ Placed(frame_offset'[u], struct_defs'[u], type_sizes', type_sizes'[u])
    <3>1. /\ u \in DOMAIN frame_offset /\ type_sizes[u] % SIZE_INT = 0
          /\ DOMAIN frame_offset[u] = DOMAIN struct_defs[u]
          /\ Placed(frame_offset[u], struct_defs[u], type_sizes, type_sizes[u])
      BY <1>3 DEF SizedPlaced
    <3>2. type_sizes'[u] = type_sizes[u]
      BY <1>5 DEF Sized
    <3>3. Placed(frame_offset[u], struct_defs[u], type_sizes', type_sizes[u])
      BY <1>5, <3>1, PlacedLater
    <3> QED
      BY <1>2, <3>1, <3>2, <3>3
  <2>2. /\ s \in DOMAIN frame_offset' /\ type_sizes'[s] % SIZE_INT = 0
        /\ DOMAIN frame_offset'[s] = DOMAIN struct_defs'[s]
        /\ Placed(frame_offset'[s], struct_defs'[s], type_sizes', type_sizes'[s])
    <3>1. s \in DOMAIN frame_offset /\ Placed(frame_offset[s], struct_defs[s], type_sizes, size)
      BY <1>4 DEF UnderWay
    <3>2. Placed(frame_offset[s], struct_defs[s], type_sizes, AlignUp(size))
      BY <1>6, <1>8, <3>1, PlacedRounded
    <3>3. Placed(frame_offset[s], struct_defs[s], type_sizes', AlignUp(size))
      BY <1>5, <3>2, PlacedLater
    <3> QED
      BY <1>2, <1>5, <1>6, <1>7, <3>1, <3>3
  <2> QED
    BY <1>10, <2>1, <2>2 DEF SizedPlaced
<1>12. Founded'
  <2>1. \A u, v : HoldsByValue(u, v)' <=> HoldsByValue(u, v)
    BY <1>2 DEF HoldsByValue
  <2>2. \A v : HoldsByValue(s, v) => v \in DOMAIN type_sizes
    <3>1. \A f \in DOMAIN struct_defs[s] : KnownIn(struct_defs[s][f], type_sizes)
      BY <1>4, <1>6 DEF UnderWay, Placed
    <3> QED
      BY <3>1 DEF HoldsByValue, KnownIn
  <2>3. \A u \in Sized : \A v : HoldsByValue(u, v) => v \in DOMAIN type_sizes
    <3>1. \A u \in Sized : \A f \in DOMAIN struct_defs[u] : KnownIn(struct_defs[u][f], type_sizes)
      BY <1>3 DEF SizedPlaced, Placed
    <3> QED
      BY <3>1 DEF HoldsByValue, KnownIn
  <2>4. ASSUME NEW C \in SUBSET (Sized \cup {s}), C # {}
        PROVE  \E u \in C : \A v \in C : ~HoldsByValue(u, v)
    <3>1. CASE C \ {s} = {}
      BY <1>4, <2>2, <2>4, <3>1
    <3>2. CASE C \ {s} # {}
      <4>1. PICK u \in C \ {s} : \A v \in C \ {s} : ~HoldsByValue(u, v)
        BY <1>3, <2>4, <3>2 DEF Founded
      <4>2. ~HoldsByValue(u, s)
        BY <1>4, <2>3, <2>4, <4>1
      <4> QED
        BY <4>1, <4>2
    <3> QED
      BY <3>1, <3>2
  <2> QED
    BY <1>10, <2>1, <2>4 DEF Founded
<1>13. VisitsSound'
  <2>1. /\ todo \in Seq(Visits) /\ todo' \in Seq(Visits) /\ Len(todo') = Len(todo) - 1
        /\ \A i \in 1 .. Len(todo') : i + 1 \in 2 .. Len(todo) /\ todo'[i] = todo[i + 1]
        /\ \A i \in 2 .. Len(todo) : i - 1 \in 1 .. Len(todo') /\ todo'[i - 1] = todo[i]
    <3>1. todo \in Seq(Visits) /\ todo # <<>>
      BY <1>2, <1>3 DEF VisitsSound
    <3> QED
      BY <1>2, <3>1
  <2>2. \A i \in 2 .. Len(todo) : OfStruct(todo[i]) => todo[i].id # s
    BY <1>3, <1>4 DEF VisitsSound
  <2>3. ASSUME NEW i \in 1 .. Len(todo')
        PROVE  /\ OfStruct(todo'[i]) => todo'[i].id \in DOMAIN struct_defs' \ DOMAIN type_sizes'
               /\ todo'[i].visit # "fields"
               /\ todo'[i].visit = "procedure" => todo'[i].id \in DOMAIN procedures' \cup {"main"}
    <3>1. PICK a \in 2 .. Len(todo) : a = i + 1 /\ todo'[i] = todo[a]
      BY <2>1
    <3>2. a \in 1 .. Len(todo) /\ a # 1
      BY <1>4
    <3> QED
      BY <1>2, <1>3, <1>5, <2>2, <3>1, <3>2 DEF VisitsSound
  <2>4. ASSUME NEW i \in 1 .. Len(todo'), NEW j \in 1 .. Len(todo'),
               OfStruct(todo'[i]), OfStruct(todo'[j]), i # j
        PROVE  todo'[i].id # todo'[j].id
    <3>1. PICK a \in 1 .. Len(todo) : a = i + 1 /\ todo'[i] = todo[a]
      BY <1>4, <2>1
    <3>2. PICK b \in 1 .. Len(todo) : b = j + 1 /\ todo'[j] = todo[b]
      BY <1>4, <2>1
    <3>3. a # b
      BY <2>4, <3>1, <3>2
    <3> QED
      BY <1>3, <2>4, <3>1, <3>2, <3>3, SMTT(40) DEF VisitsSound
  <2>5. ASSUME NEW x \in DOMAIN struct_defs' \ DOMAIN type_sizes'
        PROVE  \E i \in 1 .. Len(todo') : OfStruct(todo'[i]) /\ todo'[i].id = x
    <3>1. x \in DOMAIN struct_defs \ DOMAIN type_sizes /\ x # s
      BY <1>2, <1>5
    <3>2. PICK a \in 1 .. Len(todo) : OfStruct(todo[a]) /\ todo[a].id = x
      BY <1>3, <3>1 DEF VisitsSound
    <3>3. a \in 2 .. Len(todo)
      BY <1>4, <3>1, <3>2
    <3> QED
      BY <2>1, <3>2, <3>3
  <2> QED
    BY <2>1, <2>3, <2>4, <2>5 DEF VisitsSound
<1> QED
  BY <1>2, <1>3, <1>9, <1>11, <1>12, <1>13 DEF LayoutInv, TreeTyped

\* Globals, procedures and what bodies ask for.
LEMMA TcOthersKeep ==
  ASSUME LayoutInv, TcGlobal \/ TcProcedure \/ TcItem
  PROVE  LayoutInv'
<1>1. /\ phase = "checking" /\ todo # <<>>
      /\ UNCHANGED <<treeVars, type_sizes, size, frame_offset>>
  BY DEF TcGlobal, TcProcedure, TcItem, Visiting, checkVars
<1>2. ~OfStruct(Head(todo))
  BY DEF TcGlobal, TcProcedure, TcItem, Visiting, OfStruct
<1>3. VisitsSound /\ TreeTyped
  BY <1>1 DEF LayoutInv
<1>4. CASE phase' \in {"rejected", "crashed"}
  BY <1>1, <1>4, StopKeeps
<1>5. CASE Continue(<<>>)
  <2>1. <<>> \in Seq(Visits) /\ \A i \in 1 .. Len(<<>>) : <<>>[i].visit = "item"
    OBVIOUS
  <2> QED
    BY <1>1, <1>2, <1>5, <2>1, OtherKeeps
<1>6. CASE TcProcedure /\ Continue(Items(Head(todo).id))
  <2>1. PICK p : p = Head(todo).id
    OBVIOUS
  <2>2. p \in DOMAIN procedures \cup {"main"}
    <3>1. Head(todo) = todo[1] /\ 1 \in 1 .. Len(todo)
      BY <1>1, <1>3 DEF VisitsSound
    <3> QED
      BY <1>3, <1>6, <2>1, <3>1 DEF TcProcedure, Visiting, VisitsSound
  <2>3. p \in STRING \cup {"main"} /\ BodyOf(p) \in Body
    BY <1>3, <2>2 DEF TreeTyped, BodyOf, ProcedureDef
  <2>4. Len(BodyOf(p)) \in Nat
    BY <2>3 DEF Body
  <2>5. \A n \in 1 .. Len(BodyOf(p)) :
          Visit("item", p, n) \in Visits /\ Visit("item", p, n).visit = "item"
    BY <2>3, <2>4 DEF Visit, Visits
  <2>6. Items(p) \in Seq(Visits) /\ \A i \in 1 .. Len(Items(p)) : Items(p)[i].visit = "item"
    BY <2>4, <2>5 DEF Items
  <2> QED
    BY <1>1, <1>2, <1>6, <2>1, <2>6, OtherKeeps
<1>7. \/ phase' \in {"rejected", "crashed"}
      \/ Continue(<<>>)
      \/ TcProcedure /\ Continue(Items(Head(todo).id))
  <2>1. ASSUME TcGlobal PROVE phase' \in {"rejected", "crashed"} \/ Continue(<<>>)
    BY <2>1 DEF TcGlobal, Stop
  <2>2. CASE TcProcedure
    BY <2>2 DEF TcProcedure, Stop
  <2>3. ASSUME TcItem PROVE phase' \in {"rejected", "crashed"} \/ Continue(<<>>)
    BY <2>3 DEF TcItem, TcCall, TcLoad, Stop
  <2> QED
    BY <2>1, <2>2, <2>3
<1> QED
  BY <1>4, <1>5, <1>6, <1>7

\* CodeGen changes nothing of the tree or of TypeChecker's findings.
LEMMA GeneratingKeeps ==
  ASSUME LayoutInv, \/ CheckingEnds
                    \/ CgStruct \/ CgGlobal \/ CgProcedure \/ CgProcedureEnds \/ CgItem
                    \/ GeneratingEnds
  PROVE  LayoutInv'
<1>1. CASE CheckingEnds
  <2>1. /\ phase = "checking" /\ todo = <<>> /\ phase' = "generating"
        /\ UNCHANGED <<treeVars, type_sizes, frame_offset>>
    BY <1>1 DEF CheckingEnds, checkVars
  <2>2. DOMAIN struct_defs \subseteq DOMAIN type_sizes
    BY <2>1 DEF LayoutInv, VisitsSound
  <2>3. UNCHANGED <<struct_defs, type_sizes>>
    BY <2>1 DEF treeVars
  <2> QED
    BY <2>1, <2>2, <2>3, TreeKeeps DEF LayoutInv
<1>2. CASE CgStruct \/ CgGlobal \/ CgProcedure \/ CgProcedureEnds \/ CgItem \/ GeneratingEnds
  <2>1. /\ phase = "generating" /\ UNCHANGED <<treeVars, type_sizes, frame_offset>>
    BY <1>2 DEF CgStruct, CgGlobal, CgProcedure, CgProcedureEnds, CgItem, GeneratingEnds,
                Visiting, checkVars
  <2>2. phase' \in {"generating", "failed", "crashed", "compiled"}
    <3>1. ASSUME CgStruct PROVE phase' \in {"generating", "failed"}
      BY <2>1, <3>1 DEF CgStruct, Continue, Stop
    <3>2. ASSUME CgGlobal PROVE phase' \in {"generating", "failed", "crashed"}
      BY <2>1, <3>2, SMTT(40) DEF CgGlobal, Continue, Stop
    <3>3. ASSUME CgProcedure \/ CgProcedureEnds PROVE phase' \in {"generating", "failed"}
      BY <2>1, <3>3 DEF CgProcedure, CgProcedureEnds, Continue, Stop
    <3>4. ASSUME CgItem PROVE phase' \in {"generating", "failed"}
      BY <2>1, <3>4 DEF CgItem, CgCall, CgLoad, CgLibrary, Continue, Stop
    <3>5. ASSUME GeneratingEnds PROVE phase' = "compiled"
      BY <3>5 DEF GeneratingEnds
    <3> QED
      BY <1>2, <3>1, <3>2, <3>3, <3>4, <3>5
  <2>3. UNCHANGED <<struct_defs, type_sizes>>
    BY <2>1 DEF treeVars
  <2> QED
    BY <2>1, <2>2, <2>3, TreeKeeps, SMTT(40) DEF LayoutInv
<1> QED
  BY <1>1, <1>2

LEMMA LayoutStep ==
  LayoutInv /\ [PrNext]_vars => LayoutInv'
<1> SUFFICES ASSUME LayoutInv, [PrNext]_vars
             PROVE  LayoutInv'
  OBVIOUS
<1>1. CASE \E d \in Definitions : ReduceStruct(d) \/ ReduceGlobal(d) \/ ReduceProcedure(d)
  BY <1>1, ReduceKeeps
<1>2. CASE ParsingEnds
  BY <1>2, ParsingEndsKeeps
<1>3. CASE TcStruct
  BY <1>3, TcStructKeeps
<1>4. CASE \E s \in DOMAIN struct_defs : \E f \in DOMAIN struct_defs[s] : TcField(s, f)
  BY <1>4, TcFieldKeeps
<1>5. CASE TcStructEnds
  BY <1>5, TcStructEndsKeeps
<1>6. CASE TcGlobal \/ TcProcedure \/ TcItem
  BY <1>6, TcOthersKeep
<1>7. CASE \/ CheckingEnds
           \/ CgStruct \/ CgGlobal \/ CgProcedure \/ CgProcedureEnds \/ CgItem
           \/ GeneratingEnds
  BY <1>7, GeneratingKeeps
<1>8. CASE UNCHANGED vars
  <2>1. UNCHANGED <<treeVars, type_sizes, size, frame_offset, phase, todo>>
    BY <1>8 DEF vars, checkVars
  <2>2. UNCHANGED <<struct_defs, procedures, type_sizes, size, frame_offset, phase, todo>>
    BY <2>1 DEF treeVars
  <2>3. VisitsSound => VisitsSound'
    BY <2>2 DEF VisitsSound, UnderWay, FieldsLeft
  <2> QED
    BY <2>1, <2>2, <2>3, TreeKeeps DEF LayoutInv
<1> QED
  BY <1>1, <1>2, <1>3, <1>4, <1>5, <1>6, <1>7, <1>8 DEF PrNext

LEMMA LayoutAlways == PrSpec => []LayoutInv
BY InitLayout, LayoutStep, PTL DEF PrSpec

-------------------------------------------------------------------------------
(* What follows of it.                                                     *)

(***************************************************************************)
(* For all definitions and every order in which the map is iterated:       *)
(* every struct that StructDefNode's visit has given a size has its fields *)
(* one after the other, aligned, inside that size.                         *)
(***************************************************************************)
THEOREM LayoutsAreSound == PrSpec => []LayoutSound
<1>1. LayoutInv => LayoutSound
  <2> SUFFICES ASSUME LayoutInv, NEW s \in Sized
               PROVE  /\ type_sizes[s] > 0 /\ type_sizes[s] % SIZE_INT = 0
                      /\ DOMAIN frame_offset[s] = DOMAIN struct_defs[s]
                      /\ \A f \in DOMAIN struct_defs[s] :
                           /\ HasSize(struct_defs[s][f])
                           /\ FieldAt(s, f) >= 0
                           /\ FieldAt(s, f) + SizeOf(struct_defs[s][f]) <= type_sizes[s]
                           /\ SizeOf(struct_defs[s][f]) >= SIZE_INT =>
                                FieldAt(s, f) % SIZE_INT = 0
                           /\ \A g \in DOMAIN struct_defs[s] :
                                f < g => FieldAt(s, f) + SizeOf(struct_defs[s][f]) <= FieldAt(s, g)
    BY DEF LayoutSound, Sized
  <2>1. /\ type_sizes[s] \in Nat \ {0} /\ type_sizes[s] % SIZE_INT = 0
        /\ DOMAIN frame_offset[s] = DOMAIN struct_defs[s]
        /\ Placed(frame_offset[s], struct_defs[s], type_sizes, type_sizes[s])
    BY DEF LayoutInv, SizesTyped, SizedPlaced, Sized
  <2>2. \A t : (HasSize(t) <=> KnownIn(t, type_sizes)) /\ SizeOf(t) = SizeIn(t, type_sizes)
    BY DEF HasSize, KnownIn, SizeOf, SizeIn
  <2>3. ASSUME NEW f \in DOMAIN struct_defs[s]
        PROVE  /\ HasSize(struct_defs[s][f])
               /\ FieldAt(s, f) >= 0
               /\ FieldAt(s, f) + SizeOf(struct_defs[s][f]) <= type_sizes[s]
               /\ SizeOf(struct_defs[s][f]) >= SIZE_INT => FieldAt(s, f) % SIZE_INT = 0
               /\ \A g \in DOMAIN struct_defs[s] :
                    f < g => FieldAt(s, f) + SizeOf(struct_defs[s][f]) <= FieldAt(s, g)
    BY <2>1, <2>2 DEF Placed, FieldAt
  <2> QED
    BY <2>1, <2>3
<1> QED
  BY <1>1, LayoutAlways, PTL

(***************************************************************************)
(* For all definitions and every order in which the map is iterated:       *)
(* TypeChecker's program node accepts no struct that holds itself.         *)
(***************************************************************************)
THEOREM AcceptedStructsAreFinite == PrSpec => []ContainmentWellFounded
<1>1. LayoutInv => ContainmentWellFounded
  <2> SUFFICES ASSUME LayoutInv, phase \in {"generating", "compiled"},
                      NEW C \in (SUBSET DOMAIN struct_defs) \ {{}}
               PROVE  \E s \in C : \A t \in C : ~HoldsByValue(s, t)
    BY DEF ContainmentWellFounded
  <2>1. C \in SUBSET Sized
    BY DEF LayoutInv, TreeTyped, Sized
  <2> QED
    BY <2>1 DEF LayoutInv, Founded
<1> QED
  BY <1>1, LayoutAlways, PTL

-------------------------------------------------------------------------------
(* The text and the tree.                                                  *)

IsOf(i, def, id) == source[i].def = def /\ source[i].id = id

Latest(def, id, d) ==
  \E i \in DOMAIN source :
    source[i] = d /\ IsOf(i, def, id) /\ \A j \in DOMAIN source : IsOf(j, def, id) => j <= i

StructsText ==
  /\ \A s \in DOMAIN struct_defs :
       \E i \in DOMAIN source : IsOf(i, "struct", s) /\ struct_defs[s] = ByName(source[i].fields)
  /\ phase # "unparsed" =>
       \A i \in DOMAIN source : source[i].def = "struct" =>
         /\ source[i].id \in DOMAIN struct_defs
         /\ struct_defs[source[i].id] = ByName(source[i].fields)
         /\ ~Repeats(source[i].fields)

ProceduresText ==
  /\ \A i \in DOMAIN source :
       source[i].def = "procedure" => source[i].id \in DOMAIN procedures
  /\ \A p \in DOMAIN procedures : Latest("procedure", p, procedures[p])

GlobalsText ==
  /\ \A i \in DOMAIN source :
       source[i].def = "global" => \E j \in DOMAIN global_vars : global_vars[j] = source[i]
  /\ \A j \in DOMAIN global_vars :
       \E i \in DOMAIN source : source[i].def = "global" /\ global_vars[j] = source[i]
  /\ \A j \in DOMAIN global_vars : global_vars[j].id \in DOMAIN symbol_table
  /\ \A g \in DOMAIN symbol_table :
       \E i \in DOMAIN source : IsOf(i, "global", g) /\ symbol_table[g] = source[i].type

\* s is a set in some order.
Orders(s, S) ==
  /\ s \in Seq(S)
  /\ \A i, j \in 1 .. Len(s) : i # j => s[i] # s[j]
  /\ \A x \in S : \E i \in 1 .. Len(s) : s[i] = x

MapsOrdered ==
  Orders(order.structs, DOMAIN struct_defs) /\ Orders(order.procedures, DOMAIN procedures)

TextInv ==
  /\ source \in Seq(Definitions) /\ main \in Mains
  /\ StructsText /\ ProceduresText /\ GlobalsText
  /\ phase \notin {"parsing", "unparsed"} => MapsOrdered

LEMMA InitText == PrInit => TextInv
<1> SUFFICES ASSUME PrInit PROVE TextInv
  OBVIOUS
<1>1. source = <<>> /\ global_vars = <<>> /\ DOMAIN source = {} /\ DOMAIN global_vars = {}
      /\ struct_defs = Nothing /\ procedures = Nothing /\ symbol_table = Nothing
  BY DEF PrInit
<1>2. DOMAIN Nothing = {}
  BY DEF Nothing
<1>3. StructsText /\ ProceduresText
  BY <1>1, <1>2 DEF StructsText, ProceduresText
<1>4. GlobalsText
  BY <1>1, <1>2 DEF GlobalsText
<1> QED
  BY <1>1, <1>3, <1>4 DEF PrInit, TextInv

LEMMA Prepended ==
  ASSUME NEW D, NEW s \in Seq(D), NEW d \in D, NEW t, t = <<d>> \o s
  PROVE  /\ t \in Seq(D) /\ Len(t) = Len(s) + 1
         /\ DOMAIN t = 1 .. Len(s) + 1 /\ DOMAIN s = 1 .. Len(s)
         /\ t[1] = d
         /\ \A i \in DOMAIN s : i + 1 \in DOMAIN t /\ t[i + 1] = s[i]
         /\ \A i \in DOMAIN t : i # 1 => i - 1 \in DOMAIN s /\ t[i] = s[i - 1]
<1>1. t \in Seq(D) /\ Len(t) = Len(s) + 1 /\ Len(s) \in Nat
  OBVIOUS
<1>2. \A i \in 1 .. Len(s) + 1 : t[i] = IF i <= 1 THEN d ELSE s[i - 1]
  OBVIOUS
<1> QED
  BY <1>1, <1>2

\* What a reduction does to the text.
LEMMA SourceLater ==
  ASSUME source \in Seq(Definitions), NEW d \in Definitions, source' = <<d>> \o source
  PROVE  /\ source' \in Seq(Definitions)
         /\ DOMAIN source' \subseteq Nat /\ DOMAIN source \subseteq Nat
         /\ 1 \in DOMAIN source' /\ source'[1] = d
         /\ \A i \in DOMAIN source : i + 1 \in DOMAIN source' /\ source'[i + 1] = source[i]
         /\ \A i \in DOMAIN source' : i # 1 => i - 1 \in DOMAIN source /\ source'[i] = source[i - 1]
<1>1. /\ source' \in Seq(Definitions) /\ Len(source) \in Nat
      /\ DOMAIN source' = 1 .. Len(source) + 1 /\ DOMAIN source = 1 .. Len(source)
      /\ source'[1] = d
      /\ \A i \in DOMAIN source : i + 1 \in DOMAIN source' /\ source'[i + 1] = source[i]
      /\ \A i \in DOMAIN source' : i # 1 => i - 1 \in DOMAIN source /\ source'[i] = source[i - 1]
  BY Prepended
<1>2. DOMAIN source' \subseteq Nat /\ DOMAIN source \subseteq Nat /\ 1 \in DOMAIN source'
  BY <1>1
<1> QED
  BY <1>1, <1>2

\* A definition that is no procedure leaves the procedures alone.
LEMMA OtherReduced ==
  ASSUME source \in Seq(Definitions), NEW d \in Definitions, source' = <<d>> \o source,
         ProceduresText, UNCHANGED procedures, d.def # "procedure"
  PROVE  ProceduresText'
<1>1. /\ DOMAIN source' \subseteq Nat /\ DOMAIN source \subseteq Nat
      /\ 1 \in DOMAIN source' /\ source'[1] = d
      /\ \A i \in DOMAIN source : i + 1 \in DOMAIN source' /\ source'[i + 1] = source[i]
      /\ \A i \in DOMAIN source' : i # 1 => i - 1 \in DOMAIN source /\ source'[i] = source[i - 1]
  BY SourceLater
<1>2. \A i \in DOMAIN source' :
        source'[i].def = "procedure" => source'[i].id \in DOMAIN procedures
  BY <1>1 DEF ProceduresText
<1>3. ASSUME NEW p \in DOMAIN procedures
      PROVE  Latest("procedure", p, procedures[p])'
  <2>1. PICK i \in DOMAIN source :
          /\ source[i] = procedures[p] /\ IsOf(i, "procedure", p)
          /\ \A j \in DOMAIN source : IsOf(j, "procedure", p) => j <= i
    BY DEF ProceduresText, Latest
  <2>2. i + 1 \in DOMAIN source' /\ source'[i + 1] = procedures'[p]
        /\ IsOf(i + 1, "procedure", p)'
    BY <1>1, <2>1 DEF IsOf
  <2>3. ASSUME NEW j \in DOMAIN source', IsOf(j, "procedure", p)'
        PROVE  j <= i + 1
    <3>1. j # 1
      BY <1>1, <2>3 DEF IsOf
    <3>2. j - 1 \in DOMAIN source /\ IsOf(j - 1, "procedure", p)
      BY <1>1, <2>3, <3>1 DEF IsOf
    <3> QED
      BY <1>1, <2>1, <3>2
  <2> QED
    BY <2>2, <2>3 DEF Latest
<1> QED
  BY <1>2, <1>3 DEF ProceduresText

\* A definition that is no global leaves the globals alone.
LEMMA NoGlobalReduced ==
  ASSUME source \in Seq(Definitions), NEW d \in Definitions, source' = <<d>> \o source,
         GlobalsText, global_vars' = global_vars, symbol_table' = symbol_table, d.def # "global"
  PROVE  GlobalsText'
<1>1. /\ DOMAIN source \subseteq Nat
      /\ 1 \in DOMAIN source' /\ source'[1] = d
      /\ \A i \in DOMAIN source : i + 1 \in DOMAIN source' /\ source'[i + 1] = source[i]
      /\ \A i \in DOMAIN source' : i # 1 => i - 1 \in DOMAIN source /\ source'[i] = source[i - 1]
  BY SourceLater
<1>2. \A i \in DOMAIN source' :
        source'[i].def = "global" => \E j \in DOMAIN global_vars : global_vars[j] = source'[i]
  BY <1>1 DEF GlobalsText
<1>3. \A j \in DOMAIN global_vars :
        \E i \in DOMAIN source' : source'[i].def = "global" /\ global_vars[j] = source'[i]
  <2> TAKE j \in DOMAIN global_vars
  <2>1. PICK i \in DOMAIN source : source[i].def = "global" /\ global_vars[j] = source[i]
    BY DEF GlobalsText
  <2>2. i + 1 \in DOMAIN source' /\ source'[i + 1] = source[i]
    BY <1>1
  <2> QED
    BY <2>1, <2>2
<1>4. \A g \in DOMAIN symbol_table :
        \E i \in DOMAIN source' : IsOf(i, "global", g)' /\ symbol_table[g] = source'[i].type
  <2> TAKE g \in DOMAIN symbol_table
  <2>1. PICK i \in DOMAIN source : IsOf(i, "global", g) /\ symbol_table[g] = source[i].type
    BY DEF GlobalsText
  <2>2. i + 1 \in DOMAIN source' /\ source'[i + 1] = source[i]
    BY <1>1
  <2> QED
    BY <2>1, <2>2 DEF IsOf
<1>5. \A j \in DOMAIN global_vars : global_vars[j].id \in DOMAIN symbol_table
  BY DEF GlobalsText
<1> QED
  BY <1>2, <1>3, <1>4, <1>5 DEF GlobalsText

LEMMA StructReduced ==
  ASSUME TextInv, NEW d \in Definitions, ReduceStruct(d)
  PROVE  TextInv'
<1>1. /\ phase = "parsing" /\ source' = <<d>> \o source /\ source \in Seq(Definitions)
      /\ UNCHANGED <<main, procedures>>
      /\ global_vars' = global_vars /\ symbol_table' = symbol_table
      /\ d \in StructDef /\ d.def = "struct"
  BY DEF ReduceStruct, Read, TextInv, StructDef
<1>2. \/ /\ phase' = "unparsed" /\ struct_defs' = struct_defs
      \/ /\ phase' = "parsing" /\ ~Repeats(d.fields) /\ d.id \notin DOMAIN struct_defs
         /\ struct_defs' = Put(struct_defs, d.id, ByName(d.fields))
  BY <1>1 DEF ReduceStruct, Insert
<1>3. /\ source' \in Seq(Definitions)
      /\ 1 \in DOMAIN source' /\ source'[1] = d
      /\ \A i \in DOMAIN source : i + 1 \in DOMAIN source' /\ source'[i + 1] = source[i]
      /\ \A i \in DOMAIN source' : i # 1 => i - 1 \in DOMAIN source /\ source'[i] = source[i - 1]
  BY <1>1, SourceLater
<1>4. StructsText'
  <2>1. \A s \in DOMAIN struct_defs :
          \E i \in DOMAIN source' :
            IsOf(i, "struct", s)' /\ struct_defs[s] = ByName(source'[i].fields)
    <3> TAKE s \in DOMAIN struct_defs
    <3>1. PICK i \in DOMAIN source :
            IsOf(i, "struct", s) /\ struct_defs[s] = ByName(source[i].fields)
      BY DEF TextInv, StructsText
    <3> QED
      BY <1>3, <3>1 DEF IsOf
  <2>2. CASE phase' = "unparsed" /\ struct_defs' = struct_defs
    BY <2>1, <2>2 DEF StructsText
  <2>3. CASE /\ phase' = "parsing" /\ ~Repeats(d.fields) /\ d.id \notin DOMAIN struct_defs
             /\ struct_defs' = Put(struct_defs, d.id, ByName(d.fields))
    <3>1. /\ DOMAIN struct_defs' = DOMAIN struct_defs \cup {d.id}
          /\ struct_defs'[d.id] = ByName(d.fields)
          /\ \A s \in DOMAIN struct_defs : struct_defs'[s] = struct_defs[s]
      BY <2>3 DEF Put
    <3>2. \A s \in DOMAIN struct_defs' :
            \E i \in DOMAIN source' :
              IsOf(i, "struct", s)' /\ struct_defs'[s] = ByName(source'[i].fields)
      <4>1. IsOf(1, "struct", d.id)' /\ struct_defs'[d.id] = ByName(source'[1].fields)
        BY <1>1, <1>3, <3>1 DEF IsOf
      <4> QED
        BY <1>3, <2>1, <3>1, <4>1
    <3>3. ASSUME NEW i \in DOMAIN source', source'[i].def = "struct"
          PROVE  /\ source'[i].id \in DOMAIN struct_defs'
                 /\ struct_defs'[source'[i].id] = ByName(source'[i].fields)
                 /\ ~Repeats(source'[i].fields)
      <4>1. CASE i = 1
        BY <1>3, <2>3, <3>1, <4>1
      <4>2. CASE i # 1
        BY <1>1, <1>3, <3>1, <3>3, <4>2 DEF TextInv, StructsText
      <4> QED
        BY <4>1, <4>2
    <3> HIDE <2>3
    <3> QED
      BY <3>2, <3>3 DEF StructsText
  <2> QED
    BY <1>2, <2>2, <2>3
<1>5. ProceduresText'
  BY <1>1, OtherReduced DEF TextInv
<1>6. GlobalsText'
  BY <1>1, NoGlobalReduced DEF TextInv
<1>7. phase' \in {"parsing", "unparsed"}
  BY <1>2
<1> QED
  BY <1>1, <1>3, <1>4, <1>5, <1>6, <1>7 DEF TextInv

\* A definition that is no struct leaves the structs alone.
LEMMA NoStructReduced ==
  ASSUME source \in Seq(Definitions), NEW d \in Definitions, source' = <<d>> \o source,
         StructsText, UNCHANGED <<struct_defs, phase>>, d.def # "struct"
  PROVE  StructsText'
<1>1. /\ 1 \in DOMAIN source' /\ source'[1] = d
      /\ \A i \in DOMAIN source : i + 1 \in DOMAIN source' /\ source'[i + 1] = source[i]
      /\ \A i \in DOMAIN source' : i # 1 => i - 1 \in DOMAIN source /\ source'[i] = source[i - 1]
  BY SourceLater
<1>2. \A s \in DOMAIN struct_defs :
        \E i \in DOMAIN source' :
          IsOf(i, "struct", s)' /\ struct_defs[s] = ByName(source'[i].fields)
  <2> TAKE s \in DOMAIN struct_defs
  <2>1. PICK i \in DOMAIN source :
          IsOf(i, "struct", s) /\ struct_defs[s] = ByName(source[i].fields)
    BY DEF StructsText
  <2> QED
    BY <1>1, <2>1, ZenonT(60) DEF IsOf
<1>3. ASSUME phase # "unparsed", NEW i \in DOMAIN source', source'[i].def = "struct"
      PROVE  /\ source'[i].id \in DOMAIN struct_defs
             /\ struct_defs[source'[i].id] = ByName(source'[i].fields)
             /\ ~Repeats(source'[i].fields)
  BY <1>1, <1>3 DEF StructsText
<1> QED
  BY <1>2, <1>3 DEF StructsText

LEMMA GlobalReduced ==
  ASSUME LayoutInv, TextInv, NEW d \in Definitions, ReduceGlobal(d)
  PROVE  TextInv'
<1>1. /\ phase = "parsing" /\ source' = <<d>> \o source /\ source \in Seq(Definitions)
      /\ UNCHANGED <<main, struct_defs, procedures, phase>>
      /\ global_vars' = <<d>> \o global_vars
      /\ symbol_table' = Insert(symbol_table, d.id, d.type)
      /\ d \in GlobalDef /\ d.def = "global"
  BY DEF ReduceGlobal, WithGlobal, Read, TextInv, GlobalDef
<1>2. /\ source' \in Seq(Definitions)
      /\ 1 \in DOMAIN source' /\ source'[1] = d
      /\ \A i \in DOMAIN source : i + 1 \in DOMAIN source' /\ source'[i + 1] = source[i]
      /\ \A i \in DOMAIN source' : i # 1 => i - 1 \in DOMAIN source /\ source'[i] = source[i - 1]
  BY <1>1, SourceLater
<1>3. StructsText'
  BY <1>1, NoStructReduced DEF TextInv
<1>4. ProceduresText'
  BY <1>1, OtherReduced DEF TextInv
<1>5. GlobalsText'
  <2>1. global_vars \in Seq(GlobalDef)
    BY DEF LayoutInv, TreeTyped
  <2>2. /\ 1 \in DOMAIN global_vars' /\ global_vars'[1] = d
        /\ \A j \in DOMAIN global_vars :
             j + 1 \in DOMAIN global_vars' /\ global_vars'[j + 1] = global_vars[j]
        /\ \A j \in DOMAIN global_vars' : j # 1 =>
             j - 1 \in DOMAIN global_vars /\ global_vars'[j] = global_vars[j - 1]
    BY <1>1, <2>1, Prepended
  <2>3. ASSUME NEW i \in DOMAIN source', source'[i].def = "global"
        PROVE  \E j \in DOMAIN global_vars' : global_vars'[j] = source'[i]
    <3>1. CASE i = 1
      BY <1>2, <2>2, <3>1
    <3>2. CASE i # 1
      <4>1. PICK j \in DOMAIN global_vars : global_vars[j] = source[i - 1]
        BY <1>2, <2>3, <3>2 DEF TextInv, GlobalsText
      <4> QED
        BY <1>2, <2>2, <3>2, <4>1
    <3> QED
      BY <3>1, <3>2
  <2>4. ASSUME NEW j \in DOMAIN global_vars'
        PROVE  \E i \in DOMAIN source' :
                 source'[i].def = "global" /\ global_vars'[j] = source'[i]
    <3>1. CASE j = 1
      BY <1>1, <1>2, <2>2, <3>1
    <3>2. CASE j # 1
      <4>1. PICK i \in DOMAIN source :
              source[i].def = "global" /\ global_vars[j - 1] = source[i]
        BY <2>2, <2>4, <3>2 DEF TextInv, GlobalsText
      <4> QED
        BY <1>2, <2>2, <2>4, <3>2, <4>1
    <3> QED
      BY <3>1, <3>2
  <2>5. DOMAIN symbol_table' = DOMAIN symbol_table \cup {d.id}
    BY <1>1 DEF Insert, Put
  <2>6. \A j \in DOMAIN global_vars' : global_vars'[j].id \in DOMAIN symbol_table'
    <3>1. \A j \in DOMAIN global_vars : global_vars[j].id \in DOMAIN symbol_table
      BY DEF TextInv, GlobalsText
    <3> QED
      BY <2>2, <2>5, <3>1
  <2>7. ASSUME NEW g \in DOMAIN symbol_table'
        PROVE  \E i \in DOMAIN source' :
                 IsOf(i, "global", g)' /\ symbol_table'[g] = source'[i].type
    <3>1. CASE g \in DOMAIN symbol_table
      <4>1. symbol_table'[g] = symbol_table[g]
        BY <1>1, <3>1 DEF Insert, Put
      <4>2. PICK i \in DOMAIN source : IsOf(i, "global", g) /\ symbol_table[g] = source[i].type
        BY <3>1 DEF TextInv, GlobalsText
      <4> QED
        BY <1>2, <4>1, <4>2 DEF IsOf
    <3>2. CASE g \notin DOMAIN symbol_table
      <4>1. g = d.id /\ symbol_table'[g] = d.type
        BY <1>1, <2>5, <2>7, <3>2 DEF Insert, Put
      <4>2. IsOf(1, "global", g)' /\ symbol_table'[g] = source'[1].type
        BY <1>1, <1>2, <4>1 DEF IsOf
      <4> QED
        BY <1>2, <4>2
    <3> QED
      BY <3>1, <3>2
  <2> QED
    BY <2>3, <2>4, <2>6, <2>7 DEF GlobalsText
<1> QED
  BY <1>1, <1>2, <1>3, <1>4, <1>5 DEF TextInv

LEMMA ProcedureReduced ==
  ASSUME TextInv, NEW d \in Definitions, ReduceProcedure(d)
  PROVE  TextInv'
<1>1. /\ phase = "parsing" /\ source' = <<d>> \o source /\ source \in Seq(Definitions)
      /\ UNCHANGED <<main, struct_defs, phase>>
      /\ global_vars' = global_vars /\ symbol_table' = symbol_table
      /\ procedures' = Insert(procedures, d.id, d)
      /\ d \in ProcedureDef /\ d.def = "procedure"
  BY DEF ReduceProcedure, WithProcedure, Read, TextInv, ProcedureDef
<1>2. /\ source' \in Seq(Definitions)
      /\ DOMAIN source' \subseteq Nat /\ DOMAIN source \subseteq Nat
      /\ 1 \in DOMAIN source' /\ source'[1] = d
      /\ \A i \in DOMAIN source : i + 1 \in DOMAIN source' /\ source'[i + 1] = source[i]
      /\ \A i \in DOMAIN source' : i # 1 => i - 1 \in DOMAIN source /\ source'[i] = source[i - 1]
  BY <1>1, SourceLater
<1>3. StructsText'
  BY <1>1, NoStructReduced DEF TextInv
<1>4. /\ DOMAIN procedures' = DOMAIN procedures \cup {d.id}
      /\ \A p \in DOMAIN procedures : procedures'[p] = procedures[p]
      /\ d.id \notin DOMAIN procedures => procedures'[d.id] = d
  BY <1>1 DEF Insert, Put
<1>5. ProceduresText'
  <2>1. \A i \in DOMAIN source' :
          source'[i].def = "procedure" => source'[i].id \in DOMAIN procedures'
    BY <1>2, <1>4 DEF TextInv, ProceduresText
  <2>2. ASSUME NEW p \in DOMAIN procedures'
        PROVE  Latest("procedure", p, procedures[p])'
    <3>1. CASE p \in DOMAIN procedures
      <4>1. PICK i \in DOMAIN source :
              /\ source[i] = procedures[p] /\ IsOf(i, "procedure", p)
              /\ \A j \in DOMAIN source : IsOf(j, "procedure", p) => j <= i
        BY <3>1 DEF TextInv, ProceduresText, Latest
      <4>2. i + 1 \in DOMAIN source' /\ source'[i + 1] = procedures'[p]
            /\ IsOf(i + 1, "procedure", p)'
        BY <1>2, <1>4, <3>1, <4>1 DEF IsOf
      <4>3. ASSUME NEW j \in DOMAIN source', IsOf(j, "procedure", p)'
            PROVE  j <= i + 1
        <5>1. CASE j = 1
          BY <1>2, <4>1, <5>1
        <5>2. CASE j # 1
          <6>1. j - 1 \in DOMAIN source /\ IsOf(j - 1, "procedure", p)
            BY <1>2, <4>3, <5>2 DEF IsOf
          <6> QED
            BY <1>2, <4>1, <6>1, SMTT(40)
        <5> QED
          BY <5>1, <5>2
      <4> QED
        BY <4>2, <4>3 DEF Latest
    <3>2. CASE p \notin DOMAIN procedures
      <4>1. p = d.id /\ procedures'[p] = d
        BY <1>4, <2>2, <3>2
      <4>2. source'[1] = procedures'[p] /\ IsOf(1, "procedure", p)'
        BY <1>1, <1>2, <4>1 DEF IsOf
      <4>3. ASSUME NEW j \in DOMAIN source', IsOf(j, "procedure", p)'
            PROVE  j <= 1
        <5>1. j # 1 => j - 1 \in DOMAIN source /\ IsOf(j - 1, "procedure", p)
          BY <1>2, <4>3 DEF IsOf
        <5>2. ~(\E i \in DOMAIN source : IsOf(i, "procedure", p))
          BY <3>2 DEF TextInv, ProceduresText, IsOf
        <5> QED
          BY <5>1, <5>2
      <4> QED
        BY <1>2, <4>2, <4>3 DEF Latest
    <3> QED
      BY <3>1, <3>2
  <2> QED
    BY <2>1, <2>2 DEF ProceduresText
<1>6. GlobalsText'
  BY <1>1, NoGlobalReduced DEF TextInv
<1> QED
  BY <1>1, <1>2, <1>3, <1>5, <1>6 DEF TextInv

\* After the parse the tree and the orders stay.
LEMMA TextKept ==
  ASSUME TextInv, UNCHANGED <<treeVars, order>>,
         \/ phase' = phase
         \/ phase \notin {"parsing", "unparsed"} /\ phase' \notin {"parsing", "unparsed"}
  PROVE  TextInv'
<1> USE DEF treeVars
<1>1. StructsText'
  BY DEF TextInv, StructsText, IsOf
<1>2. ProceduresText'
  BY DEF TextInv, ProceduresText, Latest, IsOf
<1>3. GlobalsText'
  BY DEF TextInv, GlobalsText, IsOf
<1>4. phase' \notin {"parsing", "unparsed"} => MapsOrdered'
  BY DEF TextInv, MapsOrdered, Orders
<1> QED
  BY <1>1, <1>2, <1>3, <1>4 DEF TextInv

LEMMA TextOrdered ==
  ASSUME LayoutInv, TextInv, ParsingEnds
  PROVE  TextInv'
<1>1. phase = "parsing" /\ phase' = "checking" /\ UNCHANGED treeVars
  BY DEF ParsingEnds
<1>2. PICK s \in SetToSeqs(DOMAIN struct_defs), p \in SetToSeqs(DOMAIN procedures) :
        order' = [structs |-> s, procedures |-> p]
  BY DEF ParsingEnds
<1>3. IsFiniteSet(DOMAIN struct_defs) /\ IsFiniteSet(DOMAIN procedures)
  BY DEF LayoutInv, TreeTyped
<1>4. Orders(s, DOMAIN struct_defs) /\ Orders(p, DOMAIN procedures)
  <2>1. Orders(s, DOMAIN struct_defs)
    BY <1>3, SeqsOf, ZenonT(60) DEF Orders
  <2>2. Orders(p, DOMAIN procedures)
    BY <1>3, SeqsOf, ZenonT(60) DEF Orders
  <2> QED
    BY <2>1, <2>2
<1>5. MapsOrdered'
  BY <1>1, <1>2, <1>4 DEF MapsOrdered, treeVars
<1>6. StructsText'
  BY <1>1 DEF TextInv, StructsText, IsOf, treeVars
<1>7. ProceduresText'
  BY <1>1 DEF TextInv, ProceduresText, Latest, IsOf, treeVars
<1>8. GlobalsText'
  BY <1>1 DEF TextInv, GlobalsText, IsOf, treeVars
<1> QED
  BY <1>1, <1>5, <1>6, <1>7, <1>8 DEF TextInv, treeVars

LEMMA TextStep ==
  LayoutInv /\ TextInv /\ [PrNext]_vars => TextInv'
<1> SUFFICES ASSUME LayoutInv, TextInv, [PrNext]_vars
             PROVE  TextInv'
  OBVIOUS
<1>1. CASE \E d \in Definitions : ReduceStruct(d) \/ ReduceGlobal(d) \/ ReduceProcedure(d)
  BY <1>1, StructReduced, GlobalReduced, ProcedureReduced
<1>2. CASE ParsingEnds
  BY <1>2, TextOrdered
<1>3. CASE \/ TcStruct
           \/ \E s \in DOMAIN struct_defs : \E f \in DOMAIN struct_defs[s] : TcField(s, f)
           \/ TcStructEnds
  <2>1. phase = "checking" /\ phase' \in {"checking", "rejected"} /\ UNCHANGED <<treeVars, order>>
    BY <1>3 DEF TcStruct, TcField, TcStructEnds, Visiting, Continue, Stop
  <2> QED
    BY <2>1, TextKept
<1>4. CASE TcGlobal \/ TcProcedure \/ TcItem
  <2>1. phase = "checking" /\ UNCHANGED <<treeVars, order>>
    BY <1>4, SMTT(40) DEF TcGlobal, TcProcedure, TcItem, Visiting
  <2>2. phase' \in {"checking", "rejected", "crashed"}
    BY <1>4, <2>1 DEF TcGlobal, TcProcedure, TcItem, TcCall, TcLoad, Continue, Stop
  <2> QED
    BY <2>1, <2>2, TextKept
<1>5. CASE CheckingEnds
  <2>1. phase = "checking" /\ phase' = "generating" /\ UNCHANGED <<treeVars, order>>
    BY <1>5 DEF CheckingEnds
  <2> QED
    BY <2>1, TextKept
<1>6. CASE CgStruct \/ CgGlobal \/ CgProcedure \/ CgProcedureEnds \/ CgItem
  <2>1. phase = "generating" /\ UNCHANGED <<treeVars, order>>
    BY <1>6 DEF CgStruct, CgGlobal, CgProcedure, CgProcedureEnds, CgItem, Visiting
  <2>2. phase' \in {"generating", "failed", "crashed"}
    <3>1. ASSUME CgStruct PROVE phase' \in {"generating", "failed"}
      BY <2>1, <3>1 DEF CgStruct, Continue, Stop
    <3>2. ASSUME CgGlobal PROVE phase' \in {"generating", "failed", "crashed"}
      BY <2>1, <3>2 DEF CgGlobal, Continue, Stop
    <3>3. ASSUME CgProcedure \/ CgProcedureEnds PROVE phase' \in {"generating", "failed"}
      BY <2>1, <3>3 DEF CgProcedure, CgProcedureEnds, Continue, Stop
    <3>4. ASSUME CgItem PROVE phase' \in {"generating", "failed"}
      BY <2>1, <3>4 DEF CgItem, CgCall, CgLoad, CgLibrary, Continue, Stop
    <3> QED
      BY <1>6, <3>1, <3>2, <3>3, <3>4
  <2> QED
    BY <2>1, <2>2, TextKept
<1>7. CASE GeneratingEnds
  <2>1. phase = "generating" /\ phase' = "compiled" /\ UNCHANGED <<treeVars, order>>
    BY <1>7 DEF GeneratingEnds
  <2> QED
    BY <2>1, TextKept
<1>8. CASE UNCHANGED vars
  <2>1. phase = phase' /\ UNCHANGED <<treeVars, order>>
    BY <1>8 DEF vars
  <2> QED
    BY <2>1, TextKept
<1> QED
  BY <1>1, <1>2, <1>3, <1>4, <1>5, <1>6, <1>7, <1>8 DEF PrNext

-------------------------------------------------------------------------------
(* The visits ahead: the last m of the nested visits S of the child k, and *)
(* the children after it.                                                  *)

Rest(t, C, k, S, m) ==
  /\ k \in 0 .. Len(C) /\ m \in 0 .. Len(S)
  /\ Len(t) = m + (Len(C) - k)
  /\ \A i \in 1 .. m : t[i] = S[Len(S) - m + i]
  /\ \A i \in 1 .. Len(C) - k : t[m + i] = C[k + i]

LEMMA NextChild ==
  ASSUME NEW V, NEW C \in Seq(V), NEW S \in Seq(V), NEW t \in Seq(V), NEW k,
         Rest(t, C, k, S, 0), t # <<>>
  PROVE  /\ k \in 0 .. Len(C) - 1 /\ k + 1 \in 1 .. Len(C)
         /\ Head(t) = C[k + 1]
         /\ \A T \in Seq(V) : \A t2 : t2 = T \o Tail(t) =>
              t2 \in Seq(V) /\ Rest(t2, C, k + 1, T, Len(T))
<1>1. /\ k \in 0 .. Len(C) /\ Len(t) = Len(C) - k
      /\ \A i \in 1 .. Len(C) - k : t[i] = C[k + i]
  BY DEF Rest
<1>2. Len(t) \in Nat \ {0} /\ Len(C) \in Nat /\ Head(t) = t[1]
  OBVIOUS
<1>3. k \in 0 .. Len(C) - 1 /\ k + 1 \in 1 .. Len(C) /\ Head(t) = C[k + 1]
  BY <1>1, <1>2
<1>4. ASSUME NEW T \in Seq(V), NEW t2, t2 = T \o Tail(t)
      PROVE  t2 \in Seq(V) /\ Rest(t2, C, k + 1, T, Len(T))
  <2>1. /\ t2 \in Seq(V) /\ Len(t2) = Len(T) + Len(t) - 1
        /\ \A i \in 1 .. Len(T) : t2[i] = T[i]
        /\ \A i \in 2 .. Len(t) : t2[i + Len(T) - 1] = t[i]
    BY <1>4, Continued
  <2>2. Len(T) \in Nat
    OBVIOUS
  <2>3. ASSUME NEW i \in 1 .. Len(C) - (k + 1)
        PROVE  t2[Len(T) + i] = C[k + 1 + i]
    <3>1. i + 1 \in 2 .. Len(t) /\ (i + 1) + Len(T) - 1 = Len(T) + i /\ k + (i + 1) = k + 1 + i
          /\ i + 1 \in 1 .. Len(C) - k
      BY <1>1, <1>2, <2>2
    <3> QED
      BY <1>1, <2>1, <3>1, ZenonT(60)
  <2>4. Len(T) \in 0 .. Len(T) /\ Len(t2) = Len(T) + (Len(C) - (k + 1))
        /\ Len(T) - Len(T) = 0 /\ k + 1 \in 0 .. Len(C)
    BY <1>1, <1>2, <1>3, <2>1, <2>2
  <2>5. \A i \in 1 .. Len(T) : t2[i] = T[Len(T) - Len(T) + i]
    <3> TAKE i \in 1 .. Len(T)
    <3>1. Len(T) - Len(T) + i = i
      BY <2>2
    <3> QED
      BY <2>1, <3>1
  <2> QED
    BY <2>1, <2>3, <2>4, <2>5, Zenon DEF Rest
<1> QED
  BY <1>3, <1>4

LEMMA NextNested ==
  ASSUME NEW V, NEW C \in Seq(V), NEW S \in Seq(V), NEW t \in Seq(V), NEW k, NEW m,
         Rest(t, C, k, S, m), m # 0
  PROVE  /\ m \in 1 .. Len(S) /\ Len(S) - m + 1 \in 1 .. Len(S)
         /\ t # <<>> /\ Head(t) = S[Len(S) - m + 1]
         /\ \A t2 : t2 = <<>> \o Tail(t) => t2 \in Seq(V) /\ Rest(t2, C, k, S, m - 1)
<1>1. /\ k \in 0 .. Len(C) /\ m \in 1 .. Len(S) /\ Len(t) = m + (Len(C) - k)
      /\ \A i \in 1 .. m : t[i] = S[Len(S) - m + i]
      /\ \A i \in 1 .. Len(C) - k : t[m + i] = C[k + i]
      /\ Len(S) \in Nat /\ Len(C) \in Nat
  BY DEF Rest
<1>2. Len(t) \in Nat \ {0} /\ t # <<>>
  BY <1>1
<1>3. Head(t) = S[Len(S) - m + 1] /\ Len(S) - m + 1 \in 1 .. Len(S)
  BY <1>1, <1>2
<1>4. ASSUME NEW t2, t2 = <<>> \o Tail(t)
      PROVE  t2 \in Seq(V) /\ Rest(t2, C, k, S, m - 1)
  <2>1. /\ t2 \in Seq(V) /\ Len(t2) = Len(t) - 1
        /\ \A i \in 1 .. Len(t) - 1 : t2[i] = t[i + 1]
    BY <1>2, <1>4
  <2>2. ASSUME NEW i \in 1 .. m - 1
        PROVE  t2[i] = S[Len(S) - (m - 1) + i]
    <3>1. i \in 1 .. Len(t) - 1 /\ i + 1 \in 1 .. m /\ Len(S) - m + (i + 1) = Len(S) - (m - 1) + i
      BY <1>1
    <3> QED
      BY <1>1, <2>1, <3>1
  <2>3. ASSUME NEW i \in 1 .. Len(C) - k
        PROVE  t2[(m - 1) + i] = C[k + i]
    <3>1. (m - 1) + i \in 1 .. Len(t) - 1 /\ ((m - 1) + i) + 1 = m + i
      BY <1>1
    <3> QED
      BY <1>1, <2>1, <3>1
  <2> QED
    BY <1>1, <2>1, <2>2, <2>3 DEF Rest
<1> QED
  BY <1>1, <1>2, <1>3, <1>4

LEMMA NoRest ==
  ASSUME NEW V, NEW C \in Seq(V), NEW S \in Seq(V), NEW t, NEW k, NEW m,
         Rest(t, C, k, S, m), t = <<>>
  PROVE  m = 0 /\ k = Len(C)
BY DEF Rest

LEMMA AllOfThem ==
  ASSUME NEW V, NEW C \in Seq(V)
  PROVE  Rest(C, C, 0, <<>>, 0)
BY DEF Rest

-------------------------------------------------------------------------------
(* The children of the program.                                            *)

Names == STRING \cup {"main"}

AllVisits == [visit : {"struct", "fields", "global", "procedure", "item", "procedure_ends"},
              id : Names, n : Nat]

NS == Len(order.structs)
NG == Len(global_vars)
NP == Len(order.procedures)
Kids == Children(order)

Bodies == DOMAIN procedures \cup {"main"}

Joins(t, r, s) ==
  /\ Len(t) = Len(r) + Len(s)
  /\ \A i \in 1 .. Len(r) : t[i] = r[i]
  /\ \A i \in 1 .. Len(s) : t[Len(r) + i] = s[i]

LEMMA Joined ==
  ASSUME NEW V, NEW r \in Seq(V), NEW s \in Seq(V), NEW t, t = r \o s
  PROVE  t \in Seq(V) /\ Joins(t, r, s)
<1>1. t \in Seq(V) /\ Len(t) = Len(r) + Len(s) /\ Len(r) \in Nat /\ Len(s) \in Nat
  OBVIOUS
<1>2. \A i \in 1 .. Len(r) + Len(s) : t[i] = IF i <= Len(r) THEN r[i] ELSE s[i - Len(r)]
  OBVIOUS
<1>3. ASSUME NEW i \in 1 .. Len(s)
      PROVE  t[Len(r) + i] = s[i]
  <2>1. Len(r) + i \in 1 .. Len(r) + Len(s) /\ ~(Len(r) + i <= Len(r)) /\ (Len(r) + i) - Len(r) = i
    BY <1>1
  <2> QED
    BY <1>2, <2>1
<1>4. \A i \in 1 .. Len(r) : t[i] = r[i]
  BY <1>1, <1>2
<1> QED
  BY <1>1, <1>3, <1>4, Zenon DEF Joins

LEMMA VisitTyped ==
  ASSUME NEW v \in {"struct", "fields", "global", "procedure", "item", "procedure_ends"},
         NEW id \in Names, NEW n \in Nat
  PROVE  /\ Visit(v, id, n) \in AllVisits
         /\ Visit(v, id, n).visit = v /\ Visit(v, id, n).id = id /\ Visit(v, id, n).n = n
BY DEF Visit, AllVisits

LEMMA Named ==
  ASSUME LayoutInv, TextInv
  PROVE  /\ \A s \in DOMAIN struct_defs : s \in STRING /\ s \notin Basic
         /\ global_vars \in Seq(GlobalDef) /\ DOMAIN global_vars = 1 .. NG /\ NG \in Nat
         /\ \A i \in 1 .. NG : /\ global_vars[i] \in GlobalDef /\ global_vars[i].id \in STRING
                               /\ global_vars[i].id # "main" /\ global_vars[i].type \in Type
         /\ \A p \in DOMAIN procedures : p \in STRING /\ p # "main" /\ procedures[p] \in ProcedureDef
         /\ Bodies \subseteq Names
<1>1. \A s \in DOMAIN struct_defs : s \in STRING /\ s \notin Basic
  BY DEF LayoutInv, TreeTyped
<1>2. global_vars \in Seq(GlobalDef) /\ DOMAIN global_vars = 1 .. NG /\ NG \in Nat
  BY DEF LayoutInv, TreeTyped, NG
<1>3. ASSUME NEW i \in 1 .. NG
      PROVE  /\ global_vars[i] \in GlobalDef /\ global_vars[i].id \in STRING
             /\ global_vars[i].id # "main" /\ global_vars[i].type \in Type
  <2>1. global_vars[i] \in GlobalDef
    BY <1>2
  <2>2. PICK j \in DOMAIN source : global_vars[i] = source[j]
    BY <1>2 DEF TextInv, GlobalsText
  <2>3. source[j] \in Definitions
    BY DEF TextInv
  <2>4. global_vars[i].id # "main"
    BY <2>2, <2>3, DefsAssumption
  <2> QED
    BY <2>1, <2>4 DEF GlobalDef
<1>4. ASSUME NEW p \in DOMAIN procedures
      PROVE  p \in STRING /\ p # "main" /\ procedures[p] \in ProcedureDef
  <2>1. p \in STRING /\ procedures[p] \in ProcedureDef
    BY DEF LayoutInv, TreeTyped
  <2>2. PICK j \in DOMAIN source : IsOf(j, "procedure", p)
    BY DEF TextInv, ProceduresText, Latest
  <2>3. source[j] \in Definitions
    BY DEF TextInv
  <2> QED
    BY <2>1, <2>2, <2>3, DefsAssumption DEF IsOf
<1>5. Bodies \subseteq Names
  BY <1>4 DEF Bodies, Names
<1> QED
  BY <1>1, <1>2, <1>3, <1>4, <1>5, Zenon

LEMMA KidsAt ==
  ASSUME LayoutInv, TextInv, MapsOrdered
  PROVE  /\ NS \in Nat /\ NG \in Nat /\ NP \in Nat
         /\ Kids \in Seq(AllVisits) /\ Len(Kids) = NS + NG + NP + 1
         /\ \A i \in 1 .. NS : Kids[i] = Visit("struct", order.structs[i], 0)
         /\ \A i \in 1 .. NG : Kids[NS + i] = Visit("global", global_vars[i].id, i)
         /\ \A i \in 1 .. NP : Kids[NS + NG + i] = Visit("procedure", order.procedures[i], 0)
         /\ Kids[NS + NG + NP + 1] = Visit("procedure", "main", 0)
<1> DEFINE a == [i \in 1 .. Len(order.structs) |-> Visit("struct", order.structs[i], 0)]
           b == [i \in 1 .. Len(global_vars) |-> Visit("global", global_vars[i].id, i)]
           c == [i \in 1 .. Len(order.procedures) |-> Visit("procedure", order.procedures[i], 0)]
           d == <<Visit("procedure", "main", 0)>>
<1>1. NS \in Nat /\ NP \in Nat /\ NG \in Nat
  BY Named DEF NS, NP, MapsOrdered, Orders
<1>2. a \in Seq(AllVisits) /\ Len(a) = NS
      /\ \A i \in 1 .. NS : a[i] = Visit("struct", order.structs[i], 0)
  <2>1. \A i \in 1 .. NS : order.structs[i] \in Names
    BY Named DEF NS, MapsOrdered, Orders, Names
  <2>2. \A i \in 1 .. NS : Visit("struct", order.structs[i], 0) \in AllVisits
    BY <2>1, VisitTyped
  <2> QED
    BY <1>1, <2>2 DEF NS
<1>3. b \in Seq(AllVisits) /\ Len(b) = NG
      /\ \A i \in 1 .. NG : b[i] = Visit("global", global_vars[i].id, i)
  <2>1. \A i \in 1 .. NG : global_vars[i].id \in Names /\ i \in Nat
    BY Named DEF Names
  <2>2. \A i \in 1 .. NG : Visit("global", global_vars[i].id, i) \in AllVisits
    BY <2>1, VisitTyped
  <2> QED
    BY <1>1, <2>2 DEF NG
<1>4. c \in Seq(AllVisits) /\ Len(c) = NP
      /\ \A i \in 1 .. NP : c[i] = Visit("procedure", order.procedures[i], 0)
  <2>1. \A i \in 1 .. NP : order.procedures[i] \in Names
    BY Named DEF NP, MapsOrdered, Orders, Names
  <2>2. \A i \in 1 .. NP : Visit("procedure", order.procedures[i], 0) \in AllVisits
    BY <2>1, VisitTyped
  <2> QED
    BY <1>1, <2>2 DEF NP
<1>5. d \in Seq(AllVisits) /\ Len(d) = 1 /\ d[1] = Visit("procedure", "main", 0)
  <2>1. "main" \in Names
    BY DEF Names
  <2>2. Visit("procedure", "main", 0) \in AllVisits
    BY <2>1, VisitTyped
  <2> QED
    BY <2>2
<1>6. Kids = ((a \o b) \o c) \o d
  BY DEF Kids, Children
<1> HIDE DEF a, b, c, d
<1>7. PICK u : u = a \o b
  OBVIOUS
<1>8. PICK w : w = u \o c
  OBVIOUS
<1>9. /\ u \in Seq(AllVisits) /\ Len(u) = NS + NG
      /\ \A i \in 1 .. NS : u[i] = a[i]
      /\ \A i \in 1 .. NG : u[NS + i] = b[i]
  <2>1. u \in Seq(AllVisits) /\ Joins(u, a, b)
    BY <1>2, <1>3, <1>7, Joined
  <2> QED
    BY <1>2, <1>3, <2>1 DEF Joins
<1>10. /\ w \in Seq(AllVisits) /\ Len(w) = NS + NG + NP
       /\ \A i \in 1 .. NS + NG : w[i] = u[i]
       /\ \A i \in 1 .. NP : w[NS + NG + i] = c[i]
  <2>1. w \in Seq(AllVisits) /\ Joins(w, u, c)
    BY <1>4, <1>8, <1>9, Joined
  <2> QED
    BY <1>4, <1>9, <2>1 DEF Joins
<1>11. /\ Kids \in Seq(AllVisits) /\ Len(Kids) = NS + NG + NP + 1
       /\ \A i \in 1 .. NS + NG + NP : Kids[i] = w[i]
       /\ \A i \in 1 .. 1 : Kids[NS + NG + NP + i] = d[i]
  <2>1. Kids = w \o d
    BY <1>6, <1>7, <1>8
  <2>2. Kids \in Seq(AllVisits) /\ Joins(Kids, w, d)
    BY <1>5, <1>10, <2>1, Joined
  <2> QED
    BY <1>5, <1>10, <2>2 DEF Joins
<1>12. \A i \in 1 .. NS : Kids[i] = Visit("struct", order.structs[i], 0)
  <2> TAKE i \in 1 .. NS
  <2>1. i \in 1 .. NS + NG /\ i \in 1 .. NS + NG + NP
    BY <1>1
  <2> QED
    BY <1>2, <1>9, <1>10, <1>11, <2>1
<1>13. \A i \in 1 .. NG : Kids[NS + i] = Visit("global", global_vars[i].id, i)
  <2> TAKE i \in 1 .. NG
  <2>1. NS + i \in 1 .. NS + NG /\ NS + i \in 1 .. NS + NG + NP
    BY <1>1
  <2> QED
    BY <1>3, <1>9, <1>10, <1>11, <2>1
<1>14. \A i \in 1 .. NP : Kids[NS + NG + i] = Visit("procedure", order.procedures[i], 0)
  <2> TAKE i \in 1 .. NP
  <2>1. NS + NG + i \in 1 .. NS + NG + NP
    BY <1>1
  <2> QED
    BY <1>4, <1>10, <1>11, <2>1
<1>15. Kids[NS + NG + NP + 1] = Visit("procedure", "main", 0)
  BY <1>5, <1>11
<1> QED
  BY <1>1, <1>11, <1>12, <1>13, <1>14, <1>15

\* What a child visits, by where it stands.
LEMMA KidKinds ==
  ASSUME LayoutInv, TextInv, MapsOrdered, NEW k \in 1 .. Len(Kids)
  PROVE  /\ Kids[k] \in AllVisits /\ k \in Nat
         /\ Kids[k].visit \in {"struct", "global", "procedure"}
         /\ Kids[k].visit = "struct" <=> k <= NS
         /\ Kids[k].visit = "procedure" <=> k > NS + NG
         /\ k <= NS => Kids[k].id = order.structs[k] /\ Kids[k].id \in DOMAIN struct_defs
         /\ Kids[k].visit = "global" => /\ Kids[k].n = k - NS /\ Kids[k].n \in 1 .. NG
         /\ Kids[k].visit = "procedure" =>
              \/ k = Len(Kids) /\ Kids[k].id = "main"
              \/ /\ k - (NS + NG) \in 1 .. NP /\ Kids[k].id = order.procedures[k - (NS + NG)]
                 /\ Kids[k].id \in DOMAIN procedures /\ k < Len(Kids)
<1>1. /\ NS \in Nat /\ NG \in Nat /\ NP \in Nat
      /\ Kids \in Seq(AllVisits) /\ Len(Kids) = NS + NG + NP + 1
      /\ \A i \in 1 .. NS : Kids[i] = Visit("struct", order.structs[i], 0)
      /\ \A i \in 1 .. NG : Kids[NS + i] = Visit("global", global_vars[i].id, i)
      /\ \A i \in 1 .. NP : Kids[NS + NG + i] = Visit("procedure", order.procedures[i], 0)
      /\ Kids[NS + NG + NP + 1] = Visit("procedure", "main", 0)
  BY KidsAt
<1>2. /\ order.structs \in Seq(DOMAIN struct_defs) /\ NS = Len(order.structs)
      /\ order.procedures \in Seq(DOMAIN procedures) /\ NP = Len(order.procedures)
      /\ \A i \in 1 .. NS : order.structs[i] \in DOMAIN struct_defs
      /\ \A i \in 1 .. NP : order.procedures[i] \in DOMAIN procedures
  <2>1. /\ order.structs \in Seq(DOMAIN struct_defs) /\ NS = Len(order.structs)
        /\ order.procedures \in Seq(DOMAIN procedures) /\ NP = Len(order.procedures)
    BY DEF MapsOrdered, Orders, NS, NP
  <2>2. \A i \in 1 .. NS : order.structs[i] \in DOMAIN struct_defs
    BY <2>1
  <2>3. \A i \in 1 .. NP : order.procedures[i] \in DOMAIN procedures
    BY <2>1
  <2> QED
    BY <2>1, <2>2, <2>3
<1>3. Kids[k] \in AllVisits /\ k \in Nat
  BY <1>1
<1>4. CASE k \in 1 .. NS
  <2>1. Kids[k] = Visit("struct", order.structs[k], 0) /\ order.structs[k] \in DOMAIN struct_defs
    BY <1>1, <1>2, <1>4
  <2> QED
    BY <1>1, <1>3, <1>4, <2>1 DEF Visit
<1>5. CASE k \in NS + 1 .. NS + NG
  <2>1. PICK i \in 1 .. NG : i = k - NS
    BY <1>1, <1>5
  <2>2. NS + i = k
    BY <1>1, <2>1
  <2>3. Kids[k] = Visit("global", global_vars[i].id, i)
    BY <1>1, <2>2
  <2> QED
    BY <1>1, <1>3, <1>5, <2>1, <2>3 DEF Visit
<1>6. CASE k \in NS + NG + 1 .. NS + NG + NP
  <2>1. PICK i \in 1 .. NP : i = k - (NS + NG)
    BY <1>1, <1>6
  <2>2. NS + NG + i = k
    BY <1>1, <2>1
  <2>3. Kids[k] = Visit("procedure", order.procedures[i], 0)
        /\ order.procedures[i] \in DOMAIN procedures
    BY <1>1, <1>2, <2>2
  <2> QED
    BY <1>1, <1>3, <1>6, <2>1, <2>3 DEF Visit
<1>7. CASE k = NS + NG + NP + 1
  BY <1>1, <1>3, <1>7 DEF Visit
<1> QED
  BY <1>1, <1>4, <1>5, <1>6, <1>7

\* Every body is visited, and only once.
LEMMA BodiesVisited ==
  ASSUME LayoutInv, TextInv, MapsOrdered
  PROVE  /\ \A p \in Bodies : \E k \in 1 .. Len(Kids) :
              Kids[k].visit = "procedure" /\ Kids[k].id = p
         /\ \A k, l \in 1 .. Len(Kids) :
              Kids[k].visit = "procedure" /\ Kids[l].visit = "procedure"
              /\ Kids[k].id = Kids[l].id => k = l
<1>1. /\ NS \in Nat /\ NG \in Nat /\ NP \in Nat /\ Len(Kids) = NS + NG + NP + 1
      /\ \A i \in 1 .. NP : Kids[NS + NG + i] = Visit("procedure", order.procedures[i], 0)
      /\ Kids[NS + NG + NP + 1] = Visit("procedure", "main", 0)
  BY KidsAt
<1>2. ASSUME NEW p \in Bodies
      PROVE  \E k \in 1 .. Len(Kids) : Kids[k].visit = "procedure" /\ Kids[k].id = p
  <2>1. CASE p = "main"
    BY <1>1, <2>1 DEF Visit
  <2>2. CASE p \in DOMAIN procedures
    <3>1. PICK i \in 1 .. NP : order.procedures[i] = p
      BY <2>2 DEF MapsOrdered, Orders, NP
    <3>2. NS + NG + i \in 1 .. Len(Kids)
      BY <1>1
    <3>3. Kids[NS + NG + i] = Visit("procedure", p, 0)
      BY <1>1, <3>1
    <3>4. Kids[NS + NG + i].visit = "procedure" /\ Kids[NS + NG + i].id = p
      BY <3>3 DEF Visit
    <3> QED
      BY <3>2, <3>4
  <2> QED
    BY <2>1, <2>2 DEF Bodies
<1>3. ASSUME NEW k \in 1 .. Len(Kids), NEW l \in 1 .. Len(Kids),
             Kids[k].visit = "procedure", Kids[l].visit = "procedure", Kids[k].id = Kids[l].id
      PROVE  k = l
  <2>1. \A j \in 1 .. Len(Kids) : Kids[j].visit = "procedure" =>
          \/ j = Len(Kids) /\ Kids[j].id = "main"
          \/ /\ j - (NS + NG) \in 1 .. NP /\ Kids[j].id = order.procedures[j - (NS + NG)]
             /\ Kids[j].id \in DOMAIN procedures
    BY KidKinds
  <2>2. \A p \in DOMAIN procedures : p # "main"
    BY Named
  <2>3. CASE Kids[k].id = "main"
    BY <1>3, <2>1, <2>2, <2>3
  <2>4. CASE Kids[k].id # "main"
    <3>1. /\ k - (NS + NG) \in 1 .. NP /\ l - (NS + NG) \in 1 .. NP
          /\ order.procedures[k - (NS + NG)] = order.procedures[l - (NS + NG)]
      BY <1>3, <2>1, <2>4
    <3>2. k - (NS + NG) = l - (NS + NG)
      BY <3>1 DEF MapsOrdered, Orders, NP
    <3> QED
      BY <1>1, <3>2
  <2> QED
    BY <2>3, <2>4
<1> QED
  BY <1>2, <1>3

-------------------------------------------------------------------------------
(* What a pass sees of the text.                                           *)

Locals(p) == ByName(ParamsOf(p))

KnownType(t) == t.ptr \/ t.name \in Basic \cup DOMAIN struct_defs

LEMMA TextOf ==
  ASSUME LayoutInv, TextInv
  PROVE  /\ phase # "unparsed" => \A t : KnownType(t) <=> ~Undefined(t)
         /\ \A x : x \in DOMAIN symbol_table <=> Defines("global", x) # {}
         /\ \A x : x \in DOMAIN procedures <=> Defines("procedure", x) # {}
         /\ \A x \in DOMAIN struct_defs : Defines("struct", x) # {}
         /\ \A p \in DOMAIN procedures : LastOf("procedure", p) = procedures[p]
<1>1. \A x \in DOMAIN struct_defs : Defines("struct", x) # {}
  BY DEF TextInv, StructsText, IsOf, Defines
<1>2. ASSUME phase # "unparsed", NEW t
      PROVE  KnownType(t) <=> ~Undefined(t)
  <2>1. \A i \in Defines("struct", t.name) : t.name \in DOMAIN struct_defs
    BY <1>2 DEF TextInv, StructsText, Defines
  <2> QED
    BY <1>1, <2>1 DEF KnownType, Undefined
<1>3. ASSUME NEW x
      PROVE  x \in DOMAIN symbol_table <=> Defines("global", x) # {}
  <2>1. ASSUME x \in DOMAIN symbol_table PROVE Defines("global", x) # {}
    BY <2>1 DEF TextInv, GlobalsText, IsOf, Defines
  <2>2. ASSUME NEW i \in Defines("global", x) PROVE x \in DOMAIN symbol_table
    <3>1. i \in DOMAIN source /\ source[i].def = "global" /\ source[i].id = x
      BY <2>2 DEF Defines
    <3>2. PICK j \in DOMAIN global_vars : global_vars[j] = source[i]
      BY <3>1 DEF TextInv, GlobalsText
    <3> QED
      BY <3>1, <3>2 DEF TextInv, GlobalsText
  <2> QED
    BY <2>1, <2>2
<1>4. ASSUME NEW x
      PROVE  x \in DOMAIN procedures <=> Defines("procedure", x) # {}
  <2>1. ASSUME x \in DOMAIN procedures PROVE Defines("procedure", x) # {}
    BY <2>1 DEF TextInv, ProceduresText, Latest, IsOf, Defines
  <2>2. ASSUME NEW i \in Defines("procedure", x) PROVE x \in DOMAIN procedures
    BY <2>2 DEF TextInv, ProceduresText, Defines
  <2> QED
    BY <2>1, <2>2
<1>5. ASSUME NEW p \in DOMAIN procedures
      PROVE  LastOf("procedure", p) = procedures[p]
  <2>1. PICK i \in DOMAIN source :
          /\ source[i] = procedures[p] /\ IsOf(i, "procedure", p)
          /\ \A j \in DOMAIN source : IsOf(j, "procedure", p) => j <= i
    BY DEF TextInv, ProceduresText, Latest
  <2>2. DOMAIN source \subseteq Nat
    BY DEF TextInv
  <2>3. \A j : j \in Defines("procedure", p) <=> j \in DOMAIN source /\ IsOf(j, "procedure", p)
    BY DEF Defines, IsOf
  <2>4. i \in Defines("procedure", p) /\ \A j \in Defines("procedure", p) : i >= j
    BY <2>1, <2>2, <2>3
  <2>5. Defines("procedure", p) \subseteq Nat
    BY <2>2, <2>3
  <2>6. Max(Defines("procedure", p)) = i
    BY <2>4, <2>5 DEF Max
  <2> QED
    BY <2>1, <2>6 DEF LastOf
<1> QED
  BY <1>1, <1>2, <1>3, <1>4, <1>5

LEMMA LocalsAre ==
  ASSUME NEW p, NEW x
  PROVE  x \in DOMAIN Locals(p) <=> \E i \in DOMAIN ParamsOf(p) : ParamsOf(p)[i].id = x
BY DEF Locals, ByName

LEMMA BodyTyped ==
  ASSUME LayoutInv, NEW p \in Bodies
  PROVE  /\ BodyOf(p) \in Body
         /\ ParamsOf(p) \in Seq([id : STRING, type : Type])
         /\ Len(BodyOf(p)) \in Nat /\ DOMAIN BodyOf(p) = 1 .. Len(BodyOf(p))
         /\ \A n \in 1 .. Len(BodyOf(p)) :
              /\ BodyOf(p)[n].op \in {"call", "load"} \cup LibraryOps
              /\ BodyOf(p)[n].args \in Seq(Type)
<1>1. BodyOf(p) \in Body
  BY DEF LayoutInv, TreeTyped, Bodies, BodyOf, ProcedureDef
<1>2. ParamsOf(p) \in Seq([id : STRING, type : Type])
  <2>1. CASE p = "main"
    <3>1. ParamsOf(p) = <<>>
      BY <2>1 DEF ParamsOf
    <3> QED
      BY <3>1
  <2>2. CASE p # "main"
    <3>1. p \in DOMAIN procedures /\ ParamsOf(p) = procedures[p].params
      BY <2>2 DEF ParamsOf, Bodies
    <3>2. procedures[p] \in ProcedureDef
      BY <3>1 DEF LayoutInv, TreeTyped
    <3> QED
      BY <3>1, <3>2 DEF ProcedureDef
  <2> QED
    BY <2>1, <2>2
<1>3. Len(BodyOf(p)) \in Nat /\ DOMAIN BodyOf(p) = 1 .. Len(BodyOf(p))
  BY <1>1 DEF Body
<1>4. ASSUME NEW n \in 1 .. Len(BodyOf(p))
      PROVE  /\ BodyOf(p)[n].op \in {"call", "load"} \cup LibraryOps
             /\ BodyOf(p)[n].args \in Seq(Type)
  <2>1. BodyOf(p)[n] \in [op : {"call", "load"} \cup LibraryOps, id : STRING, args : Seq(Type)]
    BY <1>1, <1>3, ElementIn DEF Body
  <2> QED
    BY <2>1
<1> QED
  BY <1>1, <1>2, <1>3, <1>4

\* A call's arguments are the parameters' types.
LEMMA ArgsAre ==
  ASSUME NEW args \in Seq(Type), NEW params \in Seq([id : STRING, type : Type])
  PROVE  ArgsFit(args, params) <=> args = [i \in DOMAIN params |-> params[i].type]
<1>1. ASSUME ArgsFit(args, params) PROVE args = [i \in DOMAIN params |-> params[i].type]
  <2>1. DOMAIN args = 1 .. Len(args) /\ DOMAIN params = 1 .. Len(params) /\ Len(args) = Len(params)
    BY <1>1 DEF ArgsFit
  <2>2. args = [i \in 1 .. Len(args) |-> args[i]]
    OBVIOUS
  <2> QED
    BY <1>1, <2>1, <2>2 DEF ArgsFit
<1>2. ASSUME args = [i \in DOMAIN params |-> params[i].type] PROVE ArgsFit(args, params)
  <2>1. DOMAIN args = DOMAIN params /\ Len(args) = Len(params)
    BY <1>2
  <2> QED
    BY <1>2, <2>1 DEF ArgsFit
<1> QED
  BY <1>1, <1>2

-------------------------------------------------------------------------------
(* What TypeChecker asks of the program.                                   *)

GlobalPasses(i) ==
  \/ global_vars[i].val.kind = "none"
  \/ /\ global_vars[i].val.kind \notin {"id", "call"}
     /\ global_vars[i].val.type = global_vars[i].type

ParamsPass(p) ==
  (\A i \in DOMAIN ParamsOf(p) : KnownType(ParamsOf(p)[i].type)) /\ ~Repeats(ParamsOf(p))

CallPasses(p, item) ==
  /\ item.id \notin DOMAIN Locals(p) \cup DOMAIN symbol_table
  /\ item.id \in DOMAIN procedures
  /\ item.args = <<>> \/ ArgsFit(item.args, procedures[item.id].params)

ItemPasses(p, n) ==
  /\ BodyOf(p)[n].op = "call" => CallPasses(p, BodyOf(p)[n])
  /\ BodyOf(p)[n].op = "load" =>
       BodyOf(p)[n].id \in DOMAIN Locals(p) \cup DOMAIN symbol_table

BodyPasses(p) == ParamsPass(p) /\ \A n \in 1 .. Len(BodyOf(p)) : ItemPasses(p, n)

FieldsKnown(s) == \A f \in DOMAIN struct_defs[s] : KnownType(struct_defs[s][f])

LEMMA ParamsFaulty ==
  ASSUME LayoutInv, TextInv, phase # "unparsed", NEW p \in Bodies
  PROVE  ParamsPass(p) <=> /\ ~\E i \in DOMAIN ParamsOf(p) : Undefined(ParamsOf(p)[i].type)
                           /\ ~Repeats(ParamsOf(p))
BY TextOf DEF ParamsPass

LEMMA ItemFaulty ==
  ASSUME LayoutInv, TextInv, NEW p \in Bodies, NEW n \in 1 .. Len(BodyOf(p))
  PROVE  ItemPasses(p, n) <=>
           ~ \/ BodyOf(p)[n].op = "call" /\ FaultyCall(p, BodyOf(p)[n])
             \/ BodyOf(p)[n].op = "load" /\ FaultyLoad(p, BodyOf(p)[n])
<1> DEFINE item == BodyOf(p)[n]
<1>1. item.args \in Seq(Type)
  BY BodyTyped
<1>2. item.id \in DOMAIN Locals(p) <=> \E i \in DOMAIN ParamsOf(p) : ParamsOf(p)[i].id = item.id
  BY LocalsAre
<1>3. /\ item.id \in DOMAIN symbol_table <=> Defines("global", item.id) # {}
      /\ item.id \in DOMAIN procedures <=> Defines("procedure", item.id) # {}
      /\ item.id \in DOMAIN procedures =>
           LastOf("procedure", item.id) = procedures[item.id]
  BY TextOf
<1>4. ASSUME item.id \in DOMAIN procedures
      PROVE  item.args = <<>> \/ ArgsFit(item.args, procedures[item.id].params)
             <=> item.args \in {<<>>, [i \in DOMAIN LastOf("procedure", item.id).params |->
                                         LastOf("procedure", item.id).params[i].type]}
  <2>1. procedures[item.id].params \in Seq([id : STRING, type : Type])
    BY <1>4 DEF LayoutInv, TreeTyped, ProcedureDef
  <2>2. ArgsFit(item.args, procedures[item.id].params) <=>
          item.args = [i \in DOMAIN procedures[item.id].params |->
                         procedures[item.id].params[i].type]
    BY <1>1, <2>1, ArgsAre
  <2> QED
    BY <1>3, <1>4, <2>2
<1> HIDE DEF item
<1>5. CallPasses(p, item) <=> ~FaultyCall(p, item)
  BY <1>2, <1>3, <1>4, Zenon DEF CallPasses, FaultyCall
<1>6. item.id \in DOMAIN Locals(p) \cup DOMAIN symbol_table <=> ~FaultyLoad(p, item)
  BY <1>2, <1>3 DEF FaultyLoad
<1> QED
  BY <1>5, <1>6 DEF ItemPasses, item

AllPasses ==
  /\ \A s \in DOMAIN struct_defs : FieldsKnown(s)
  /\ \A i \in 1 .. NG : GlobalPasses(i)
  /\ \A p \in Bodies : BodyPasses(p)

LEMMA ProcedureFaulty ==
  ASSUME LayoutInv, TextInv, phase # "unparsed", NEW p \in Bodies
  PROVE  BodyPasses(p) <=> ~FaultyProcedure(p)
<1>1. ParamsPass(p) <=> /\ ~\E i \in DOMAIN ParamsOf(p) : Undefined(ParamsOf(p)[i].type)
                        /\ ~Repeats(ParamsOf(p))
  BY ParamsFaulty
<1>2. \A n \in 1 .. Len(BodyOf(p)) :
        ItemPasses(p, n) <=>
          ~ \/ BodyOf(p)[n].op = "call" /\ FaultyCall(p, BodyOf(p)[n])
            \/ BodyOf(p)[n].op = "load" /\ FaultyLoad(p, BodyOf(p)[n])
  BY ItemFaulty
<1>3. DOMAIN BodyOf(p) = 1 .. Len(BodyOf(p))
  BY BodyTyped
<1>4. FaultyProcedure(p) <=>
        \/ \E i \in DOMAIN ParamsOf(p) : Undefined(ParamsOf(p)[i].type)
        \/ Repeats(ParamsOf(p))
        \/ \E n \in DOMAIN BodyOf(p) :
             \/ BodyOf(p)[n].op = "call" /\ FaultyCall(p, BodyOf(p)[n])
             \/ BodyOf(p)[n].op = "load" /\ FaultyLoad(p, BodyOf(p)[n])
  BY Zenon DEF FaultyProcedure
<1> QED
  BY <1>1, <1>2, <1>3, <1>4, Zenon DEF BodyPasses

LEMMA StructFaulty ==
  ASSUME LayoutInv, TextInv, phase # "unparsed"
  PROVE  (\A s \in DOMAIN struct_defs : FieldsKnown(s)) <=>
           ~\E d \in Range(source) :
              d.def = "struct" /\ \E f \in Range(d.fields) : Undefined(f.type)
<1>1. \A t : KnownType(t) <=> ~Undefined(t)
  BY TextOf
<1>2. ASSUME NEW s \in DOMAIN struct_defs, ~FieldsKnown(s)
      PROVE  \E d \in Range(source) :
               d.def = "struct" /\ \E f \in Range(d.fields) : Undefined(f.type)
  <2>1. PICK f \in DOMAIN struct_defs[s] : Undefined(struct_defs[s][f])
    BY <1>1, <1>2 DEF FieldsKnown
  <2>2. PICK i \in DOMAIN source :
          IsOf(i, "struct", s) /\ struct_defs[s] = ByName(source[i].fields)
    BY SMTT(40) DEF TextInv, StructsText
  <2> DEFINE fields == source[i].fields
             j == CHOOSE j \in DOMAIN fields : fields[j].id = f
  <2>3. f \in {fields[n].id : n \in DOMAIN fields} /\ struct_defs[s][f] = fields[j].type
    BY <2>1, <2>2 DEF ByName
  <2>4. \E n \in DOMAIN fields : fields[n].id = f
    BY <2>3
  <2>5. j \in DOMAIN fields
    BY <2>4
  <2> HIDE DEF j
  <2>6. fields[j] \in Range(fields) /\ source[i] \in Range(source)
    BY <2>2, <2>5 DEF Range
  <2> QED
    BY <2>1, <2>2, <2>3, <2>6 DEF IsOf
<1>3. ASSUME \A s \in DOMAIN struct_defs : FieldsKnown(s),
             NEW d \in Range(source), d.def = "struct", NEW f \in Range(d.fields)
      PROVE  ~Undefined(f.type)
  <2>1. PICK i \in DOMAIN source : d = source[i]
    BY DEF Range
  <2>2. /\ d.id \in DOMAIN struct_defs /\ struct_defs[d.id] = ByName(d.fields)
        /\ ~Repeats(d.fields)
    BY <1>3, <2>1 DEF TextInv, StructsText
  <2>3. d \in StructDef
    <3>1. d \in Definitions
      BY <2>1 DEF TextInv
    <3> QED
      BY <1>3, <3>1, DefsAssumption DEF StructDef, GlobalDef, ProcedureDef
  <2>4. d.fields \in Seq([id : Nat, type : Type])
    BY <2>3 DEF StructDef
  <2>5. PICK j \in DOMAIN d.fields : f = d.fields[j]
    BY DEF Range
  <2> DEFINE k == CHOOSE k \in DOMAIN d.fields : d.fields[k].id = f.id
  <2>6. k \in DOMAIN d.fields /\ d.fields[k].id = f.id
    BY <2>5
  <2>7. DOMAIN d.fields = 1 .. Len(d.fields)
    BY <2>4
  <2> HIDE DEF k
  <2>8. k = j
    BY <2>2, <2>5, <2>6, <2>7 DEF Repeats
  <2>9. f.id \in DOMAIN struct_defs[d.id] /\ struct_defs[d.id][f.id] = f.type
    <3>1. f.id \in {d.fields[n].id : n \in DOMAIN d.fields}
      BY <2>5
    <3>2. f.id \in DOMAIN ByName(d.fields) /\ ByName(d.fields)[f.id] = d.fields[k].type
      BY <3>1 DEF ByName, k
    <3> QED
      BY <2>2, <2>5, <2>8, <3>2
  <2> QED
    BY <1>1, <1>3, <2>2, <2>9 DEF FieldsKnown
<1> QED
  BY <1>2, <1>3, Zenon

FaultyGlobal(d) ==
  /\ d.def = "global"
  /\ d.val.kind = "id" \/ (d.val.kind # "none" /\ d.val.type # d.type)

LEMMA GlobalFaulty ==
  ASSUME LayoutInv, TextInv
  PROVE  /\ (\A i \in 1 .. NG : GlobalPasses(i)) => ~\E d \in Range(source) : FaultyGlobal(d)
         /\ \A i \in 1 .. NG :
              ~GlobalPasses(i) /\ global_vars[i].val.kind # "call" =>
                \E d \in Range(source) : FaultyGlobal(d)
<1>1. DOMAIN global_vars = 1 .. NG
  BY Named
<1>2. ASSUME \A i \in 1 .. NG : GlobalPasses(i), NEW d \in Range(source), FaultyGlobal(d)
      PROVE  FALSE
  <2>1. PICK j \in DOMAIN source : d = source[j]
    BY DEF Range
  <2>2. PICK i \in 1 .. NG : global_vars[i] = d
    BY <1>1, <1>2, <2>1 DEF FaultyGlobal, TextInv, GlobalsText
  <2> QED
    BY <1>2, <2>2 DEF FaultyGlobal, GlobalPasses
<1>3. ASSUME NEW i \in 1 .. NG, ~GlobalPasses(i), global_vars[i].val.kind # "call"
      PROVE  \E d \in Range(source) : FaultyGlobal(d)
  <2>1. PICK j \in DOMAIN source : source[j].def = "global" /\ global_vars[i] = source[j]
    BY <1>1 DEF TextInv, GlobalsText
  <2>2. source[j] \in Range(source)
    BY DEF Range
  <2> QED
    BY <1>3, <2>1, <2>2 DEF FaultyGlobal, GlobalPasses
<1> QED
  BY <1>2, <1>3

\* A text without faults is one whose parts all pass.
LEMMA FaultsAre ==
  ASSUME LayoutInv, TextInv, phase # "unparsed"
  PROVE  /\ AllPasses => ~FaultyText
         /\ \A s \in DOMAIN struct_defs : ~FieldsKnown(s) => FaultyText
         /\ \A i \in 1 .. NG : ~GlobalPasses(i) /\ global_vars[i].val.kind # "call" => FaultyText
         /\ \A p \in Bodies : ~BodyPasses(p) => FaultyText
<1>1. (\A s \in DOMAIN struct_defs : FieldsKnown(s)) <=>
        ~\E d \in Range(source) :
           d.def = "struct" /\ \E f \in Range(d.fields) : Undefined(f.type)
  BY StructFaulty
<1>2. /\ (\A i \in 1 .. NG : GlobalPasses(i)) => ~\E d \in Range(source) : FaultyGlobal(d)
      /\ \A i \in 1 .. NG :
           ~GlobalPasses(i) /\ global_vars[i].val.kind # "call" =>
             \E d \in Range(source) : FaultyGlobal(d)
  BY GlobalFaulty
<1>3. \A p \in Bodies : BodyPasses(p) <=> ~FaultyProcedure(p)
  BY ProcedureFaulty
<1>4. \A p \in DOMAIN procedures : LastOf("procedure", p) = procedures[p]
  BY TextOf
<1>5. FaultyText <=>
        \/ \E d \in Range(source) :
             d.def = "struct" /\ \E f \in Range(d.fields) : Undefined(f.type)
        \/ \E d \in Range(source) : FaultyGlobal(d)
        \/ FaultyProcedure("main")
        \/ \E p \in DOMAIN procedures :
             LastOf("procedure", p) = procedures[p] /\ FaultyProcedure(p)
  BY Zenon DEF FaultyText, FaultyGlobal
<1>6. ("main" \in Bodies /\ \A p \in DOMAIN procedures : p \in Bodies)
      /\ \A p \in Bodies : p = "main" \/ p \in DOMAIN procedures
  BY DEF Bodies
<1>7. AllPasses => ~FaultyText
  BY <1>1, <1>2, <1>3, <1>5, <1>6, Zenon DEF AllPasses
<1>8. \A s \in DOMAIN struct_defs : ~FieldsKnown(s) => FaultyText
  BY <1>1, <1>5, Zenon
<1>9. \A i \in 1 .. NG : ~GlobalPasses(i) /\ global_vars[i].val.kind # "call" => FaultyText
  BY <1>2, <1>5, Zenon
<1>10. \A p \in Bodies : ~BodyPasses(p) => FaultyText
  <2> SUFFICES ASSUME NEW p \in Bodies, ~BodyPasses(p) PROVE FaultyText
    OBVIOUS
  <2>1. FaultyProcedure(p)
    BY <1>3
  <2>2. CASE p = "main"
    BY <1>5, <2>1, <2>2
  <2>3. CASE p \in DOMAIN procedures
    BY <1>4, <1>5, <2>1, <2>3
  <2> QED
    BY <1>6, <2>2, <2>3
<1> QED
  BY <1>7, <1>8, <1>9, <1>10, Zenon

-------------------------------------------------------------------------------
(* TypeChecker's pass.                                                     *)

IsBody(k, p) == Kids[k].visit = "procedure" /\ Kids[k].id = p

\* The fields of the struct that stands at j hold structs that stand before it.
FieldsEarlier(j) ==
  \A f \in DOMAIN struct_defs[order.structs[j]] :
    LET t == struct_defs[order.structs[j]][f]
    IN  t.ptr \/ t.name \in Basic \/ \E i \in 1 .. NS : i < j /\ t.name = order.structs[i]

LoadTyped(p, n) == BodyOf(p)[n].op = "load" => <<p, n>> \in DOMAIN type

\* What TypeChecker adds to todo when it begins the child k.
CheckNested(k, S) ==
  /\ S \in Seq(AllVisits)
  /\ k \in 1 .. NS => S = <<Visit("fields", order.structs[k], 0)>>
  /\ k = 0 \/ k \in NS + 1 .. NS + NG => S = <<>>
  /\ \A p \in Bodies : k \in 1 .. Len(Kids) /\ IsBody(k, p) => S = Items(p)

\* The children before k have passed, and k but for the last m of its visits.
CheckedTo(k, m, S) ==
  /\ CheckNested(k, S) /\ Rest(todo, Kids, k, S, m)
  /\ \A i \in 1 .. NG : NS + i <= k => GlobalPasses(i)
  /\ \A j \in 1 .. k, p \in Bodies : IsBody(j, p) =>
       /\ ParamsPass(p)
       /\ \A n \in 1 .. Len(BodyOf(p)) :
            j < k \/ n + m <= Len(BodyOf(p)) => ItemPasses(p, n) /\ LoadTyped(p, n)
  /\ \A j \in 1 .. NS :
       order.structs[j] \in DOMAIN type_sizes <=> j < k \/ (j = k /\ m = 0)
  /\ \A j \in 1 .. NS : order.structs[j] \in DOMAIN type_sizes => FieldsEarlier(j)
  /\ \A p \in Bodies : k > 0 /\ IsBody(k, p) => locals = Locals(p)

AllChecked ==
  /\ AllPasses
  /\ \A p \in Bodies : \A n \in 1 .. Len(BodyOf(p)) : LoadTyped(p, n)
  /\ \A j \in 1 .. NS : FieldsEarlier(j)

Rejectable ==
  \/ \E s \in DOMAIN struct_defs : ~FieldsKnown(s)
  \/ \E i \in 1 .. NG : ~GlobalPasses(i) /\ global_vars[i].val.kind # "call"
  \/ \E p \in Bodies : ~BodyPasses(p)
  \/ ContainedLater

CrashingGlobal ==
  \E i \in 1 .. NG : \/ global_vars[i].val.kind \in {"call", "read", "logical"}
                     \/ global_vars[i].id \in DOMAIN Runtime

TypeOf(p, x) == IF x \in DOMAIN Locals(p) THEN Locals(p)[x] ELSE symbol_table[x]

TypesDeclared ==
  \A p \in Bodies : \A n \in 1 .. Len(BodyOf(p)) :
    <<p, n>> \in DOMAIN type => type[<<p, n>>] = TypeOf(p, BodyOf(p)[n].id)

CheckInv ==
  /\ phase \in {"parsing", "unparsed", "checking", "rejected", "generating", "failed",
                "compiled", "crashed"}
  /\ phase \in {"parsing", "unparsed"} => type = Nothing
  /\ TypesDeclared
  /\ phase = "checking" => todo \in Seq(AllVisits) /\ \E k, m, S : CheckedTo(k, m, S)
  /\ phase \in {"generating", "failed", "compiled"} => AllChecked
  /\ phase = "rejected" => Rejectable
  /\ phase = "crashed" => CrashingGlobal

\* What the visits leave alone.
LEMMA Static ==
  ASSUME UNCHANGED <<treeVars, order>>
  PROVE  /\ NS' = NS /\ NG' = NG /\ NP' = NP /\ Bodies' = Bodies /\ Kids' = Kids
         /\ \A p : /\ BodyOf(p)' = BodyOf(p) /\ ParamsOf(p)' = ParamsOf(p)
                   /\ Locals(p)' = Locals(p) /\ Items(p)' = Items(p)
         /\ \A t : KnownType(t)' <=> KnownType(t)
<1> USE DEF treeVars
<1>1. NS' = NS /\ NG' = NG /\ NP' = NP /\ Bodies' = Bodies
  BY DEF NS, NG, NP, Bodies
<1>2. Kids' = Kids
  BY DEF Kids, Children
<1>3. ASSUME NEW p
      PROVE  /\ BodyOf(p)' = BodyOf(p) /\ ParamsOf(p)' = ParamsOf(p)
             /\ Locals(p)' = Locals(p) /\ Items(p)' = Items(p)
  <2>1. BodyOf(p)' = BodyOf(p)
    BY DEF BodyOf
  <2>2. ParamsOf(p)' = ParamsOf(p)
    BY DEF ParamsOf
  <2>3. Items(p)' = Items(p)
    BY <2>1 DEF Items
  <2>4. Locals(p)' = Locals(p)
    BY <2>2 DEF Locals, ByName
  <2> QED
    BY <2>1, <2>2, <2>3, <2>4
<1>4. \A t : KnownType(t)' <=> KnownType(t)
  BY DEF KnownType
<1> QED
  BY <1>1, <1>2, <1>3, <1>4, Zenon

LEMMA StaticPasses ==
  ASSUME UNCHANGED <<treeVars, order>>
  PROVE  /\ \A s \in DOMAIN struct_defs : FieldsKnown(s)' <=> FieldsKnown(s)
         /\ \A i : GlobalPasses(i)' <=> GlobalPasses(i)
         /\ \A p : ParamsPass(p)' <=> ParamsPass(p)
         /\ \A p, n : ItemPasses(p, n)' <=> ItemPasses(p, n)
         /\ \A p : BodyPasses(p)' <=> BodyPasses(p)
         /\ \A j : FieldsEarlier(j)' <=> FieldsEarlier(j)
         /\ \A j, p : IsBody(j, p)' <=> IsBody(j, p)
         /\ \A k, S : CheckNested(k, S)' <=> CheckNested(k, S)
<1>1. /\ NS' = NS /\ NG' = NG /\ NP' = NP /\ Bodies' = Bodies /\ Kids' = Kids
      /\ \A p : /\ BodyOf(p)' = BodyOf(p) /\ ParamsOf(p)' = ParamsOf(p)
                /\ Locals(p)' = Locals(p) /\ Items(p)' = Items(p)
      /\ \A t : KnownType(t)' <=> KnownType(t)
  BY Static
<1>2. /\ struct_defs' = struct_defs /\ global_vars' = global_vars /\ procedures' = procedures
      /\ symbol_table' = symbol_table /\ order' = order
  BY DEF treeVars
<1>3. \A s \in DOMAIN struct_defs : FieldsKnown(s)' <=> FieldsKnown(s)
  BY <1>2 DEF FieldsKnown, KnownType
<1>4. \A i : GlobalPasses(i)' <=> GlobalPasses(i)
  BY <1>2 DEF GlobalPasses
<1>5. ASSUME NEW p PROVE ParamsPass(p)' <=> ParamsPass(p)
  <2>1. ParamsOf(p)' = ParamsOf(p)
    BY <1>1
  <2> QED
    BY <1>2, <2>1 DEF ParamsPass, KnownType, Repeats
<1>6. ASSUME NEW p, NEW n PROVE ItemPasses(p, n)' <=> ItemPasses(p, n)
  <2>1. BodyOf(p)' = BodyOf(p) /\ Locals(p)' = Locals(p)
    BY <1>1
  <2> QED
    BY <1>2, <2>1 DEF ItemPasses, CallPasses, ArgsFit
<1>7. ASSUME NEW p PROVE BodyPasses(p)' <=> BodyPasses(p)
  <2>1. BodyOf(p)' = BodyOf(p)
    BY <1>1
  <2> QED
    BY <1>5, <1>6, <2>1 DEF BodyPasses
<1>8. \A j : FieldsEarlier(j)' <=> FieldsEarlier(j)
  BY <1>1, <1>2 DEF FieldsEarlier
<1>9. \A j, p : IsBody(j, p)' <=> IsBody(j, p)
  BY <1>1 DEF IsBody
<1>10. ASSUME NEW k, NEW S PROVE CheckNested(k, S)' <=> CheckNested(k, S)
  BY <1>1, <1>2, <1>9 DEF CheckNested, Visit
<1> QED
  BY <1>3, <1>4, <1>5, <1>6, <1>7, <1>8, <1>9, <1>10, Zenon

LEMMA StaticFaults ==
  ASSUME UNCHANGED <<treeVars, order>>
  PROVE  (AllPasses => AllPasses') /\ (Rejectable => Rejectable')
         /\ (CrashingGlobal => CrashingGlobal')
<1>1. /\ NS' = NS /\ NG' = NG /\ Bodies' = Bodies
      /\ struct_defs' = struct_defs /\ global_vars' = global_vars /\ order' = order
  BY Static DEF treeVars
<1>2. /\ \A s \in DOMAIN struct_defs : FieldsKnown(s)' <=> FieldsKnown(s)
      /\ \A i : GlobalPasses(i)' <=> GlobalPasses(i)
      /\ \A p : BodyPasses(p)' <=> BodyPasses(p)
  BY StaticPasses
<1>3. AllPasses => AllPasses'
  BY <1>1, <1>2 DEF AllPasses
<1>4. ContainedLater => ContainedLater'
  BY <1>1 DEF ContainedLater, HoldsByValue
<1>5. CrashingGlobal => CrashingGlobal'
  BY <1>1 DEF CrashingGlobal
<1>6. Rejectable => Rejectable'
  BY <1>1, <1>2, <1>4 DEF Rejectable
<1> QED
  BY <1>3, <1>5, <1>6

LEMMA CheckHead ==
  ASSUME LayoutInv, TextInv, MapsOrdered, todo \in Seq(AllVisits), todo # <<>>,
         NEW k, NEW m, NEW S, CheckedTo(k, m, S)
  PROVE  \/ m = 0 /\ k + 1 \in 1 .. Len(Kids) /\ Head(todo) = Kids[k + 1]
         \/ m = 1 /\ k \in 1 .. NS /\ Head(todo) = Visit("fields", order.structs[k], 0)
         \/ \E p \in Bodies : /\ k \in 1 .. Len(Kids) /\ IsBody(k, p)
                              /\ m \in 1 .. Len(BodyOf(p))
                              /\ Len(BodyOf(p)) - m + 1 \in 1 .. Len(BodyOf(p))
                              /\ Head(todo) = Visit("item", p, Len(BodyOf(p)) - m + 1)
<1>1. CheckNested(k, S) /\ Rest(todo, Kids, k, S, m) /\ S \in Seq(AllVisits)
  BY DEF CheckedTo, CheckNested
<1>2. Kids \in Seq(AllVisits) /\ NS \in Nat /\ NG \in Nat /\ Len(Kids) \in Nat
  BY KidsAt
<1>3. k \in 0 .. Len(Kids)
  BY <1>1 DEF Rest
<1>4. ASSUME m = 0
      PROVE  k + 1 \in 1 .. Len(Kids) /\ Head(todo) = Kids[k + 1]
  <2>1. Rest(todo, Kids, k, S, 0)
    BY <1>1, <1>4
  <2> QED
    BY <1>1, <1>2, <2>1, NextChild
<1>5. ASSUME m # 0
      PROVE  /\ m \in 1 .. Len(S) /\ Len(S) - m + 1 \in 1 .. Len(S)
             /\ Head(todo) = S[Len(S) - m + 1]
  BY <1>1, <1>2, <1>5, NextNested
<1>6. ASSUME m # 0, k = 0 \/ k \in NS + 1 .. NS + NG
      PROVE  FALSE
  <2>1. S = <<>>
    BY <1>1, <1>6 DEF CheckNested
  <2> QED
    BY <1>5, <1>6, <2>1
<1>7. ASSUME m # 0, k \in 1 .. NS
      PROVE  m = 1 /\ Head(todo) = Visit("fields", order.structs[k], 0)
  <2>1. S = <<Visit("fields", order.structs[k], 0)>>
    BY <1>1, <1>7 DEF CheckNested
  <2>2. Len(S) = 1 /\ S[1] = Visit("fields", order.structs[k], 0)
    BY <2>1
  <2>3. m = 1 /\ Len(S) - m + 1 = 1
    BY <1>5, <1>7, <2>2
  <2> QED
    BY <1>5, <1>7, <2>2, <2>3
<1>8. ASSUME m # 0, k > NS + NG
      PROVE  \E p \in Bodies : /\ k \in 1 .. Len(Kids) /\ IsBody(k, p)
                               /\ m \in 1 .. Len(BodyOf(p))
                               /\ Len(BodyOf(p)) - m + 1 \in 1 .. Len(BodyOf(p))
                               /\ Head(todo) = Visit("item", p, Len(BodyOf(p)) - m + 1)
  <2>1. k \in 1 .. Len(Kids)
    BY <1>2, <1>3, <1>8
  <2>2. Kids[k].visit = "procedure" /\ Kids[k].id \in Bodies
    BY <1>8, <2>1, KidKinds DEF Bodies
  <2>3. PICK p \in Bodies : IsBody(k, p)
    BY <2>2 DEF IsBody
  <2>4. S = Items(p) /\ Len(BodyOf(p)) \in Nat
    BY <1>1, <2>1, <2>3, BodyTyped DEF CheckNested
  <2>5. Len(S) = Len(BodyOf(p)) /\ \A n \in 1 .. Len(BodyOf(p)) : S[n] = Visit("item", p, n)
    BY <2>4 DEF Items
  <2> QED
    BY <1>5, <1>8, <2>1, <2>3, <2>5
<1> QED
  BY <1>2, <1>3, <1>4, <1>6, <1>7, <1>8

\* A child is begun, and passes as far as it is looked at.
LEMMA CheckBegun ==
  ASSUME LayoutInv, TextInv, MapsOrdered, todo \in Seq(AllVisits), todo # <<>>,
         NEW k, NEW S, CheckedTo(k, 0, S),
         UNCHANGED <<treeVars, order, type_sizes, type>>,
         NEW T, CheckNested(k + 1, T), todo' = T \o Tail(todo),
         k + 1 \in 1 .. NS => Len(T) = 1,
         k + 1 \in NS + 1 .. NS + NG => GlobalPasses(k + 1 - NS),
         \A p \in Bodies : IsBody(k + 1, p) =>
           ParamsPass(p) /\ Len(T) = Len(BodyOf(p)) /\ locals' = Locals(p)
  PROVE  todo' \in Seq(AllVisits) /\ CheckedTo(k + 1, Len(T), T)'
<1>1. /\ CheckNested(k, S) /\ Rest(todo, Kids, k, S, 0)
      /\ S \in Seq(AllVisits) /\ T \in Seq(AllVisits)
  BY DEF CheckedTo, CheckNested
<1>2. Kids \in Seq(AllVisits) /\ NS \in Nat /\ NG \in Nat /\ Len(Kids) \in Nat
  BY KidsAt
<1>3. /\ k \in 0 .. Len(Kids) - 1 /\ k + 1 \in 1 .. Len(Kids) /\ k \in Nat
      /\ todo' \in Seq(AllVisits) /\ Rest(todo', Kids, k + 1, T, Len(T))
  <2>1. /\ k \in 0 .. Len(Kids) - 1 /\ k + 1 \in 1 .. Len(Kids)
        /\ \A N \in Seq(AllVisits) : \A t2 : t2 = N \o Tail(todo) =>
             t2 \in Seq(AllVisits) /\ Rest(t2, Kids, k + 1, N, Len(N))
    BY <1>1, <1>2, NextChild, ZenonT(60)
  <2>2. todo' \in Seq(AllVisits) /\ Rest(todo', Kids, k + 1, T, Len(T))
    BY <1>1, <2>1
  <2>3. k \in Nat
    BY <1>2, <2>1
  <2> QED
    BY <2>1, <2>2, <2>3
<1>4. /\ NS' = NS /\ NG' = NG /\ Bodies' = Bodies /\ Kids' = Kids
      /\ \A p : BodyOf(p)' = BodyOf(p) /\ Locals(p)' = Locals(p)
      /\ order' = order /\ type_sizes' = type_sizes /\ type' = type
  BY Static
<1>5. /\ \A i : GlobalPasses(i)' <=> GlobalPasses(i)
      /\ \A p : ParamsPass(p)' <=> ParamsPass(p)
      /\ \A p, n : ItemPasses(p, n)' <=> ItemPasses(p, n)
      /\ \A j : FieldsEarlier(j)' <=> FieldsEarlier(j)
      /\ \A j, p : IsBody(j, p)' <=> IsBody(j, p)
      /\ CheckNested(k + 1, T)'
  BY StaticPasses
<1>6. \A p, n : LoadTyped(p, n)' <=> LoadTyped(p, n)
  BY <1>4 DEF LoadTyped
<1>7. \A i \in 1 .. NG : NS + i <= k + 1 => GlobalPasses(i)
  <2> SUFFICES ASSUME NEW i \in 1 .. NG, NS + i <= k + 1
               PROVE  GlobalPasses(i)
    OBVIOUS
  <2>1. CASE NS + i <= k
    BY <2>1 DEF CheckedTo
  <2>2. CASE NS + i = k + 1
    <3>1. k + 1 \in NS + 1 .. NS + NG /\ k + 1 - NS = i
      BY <1>2, <1>3, <2>2
    <3> QED
      BY <3>1
  <2> QED
    BY <1>2, <1>3, <2>1, <2>2
<1>8. ASSUME NEW j \in 1 .. k + 1, NEW p \in Bodies, IsBody(j, p)
      PROVE  /\ ParamsPass(p)
             /\ \A n \in 1 .. Len(BodyOf(p)) :
                  j < k + 1 \/ n + Len(T) <= Len(BodyOf(p)) => ItemPasses(p, n) /\ LoadTyped(p, n)
  <2>1. Len(BodyOf(p)) \in Nat
    BY BodyTyped
  <2>2. CASE j \in 1 .. k
    <3>1. /\ ParamsPass(p)
          /\ \A n \in 1 .. Len(BodyOf(p)) :
               j < k \/ n + 0 <= Len(BodyOf(p)) => ItemPasses(p, n) /\ LoadTyped(p, n)
      BY <1>8, <2>2 DEF CheckedTo
    <3>2. \A n \in 1 .. Len(BodyOf(p)) : n + 0 <= Len(BodyOf(p))
      BY <2>1
    <3> QED
      BY <3>1, <3>2
  <2>3. CASE j = k + 1
    <3>1. ParamsPass(p) /\ Len(T) = Len(BodyOf(p))
      BY <1>8, <2>3
    <3>2. \A n \in 1 .. Len(BodyOf(p)) :
            ~(j < k + 1) /\ ~(n + Len(T) <= Len(BodyOf(p)))
      BY <1>3, <2>1, <2>3, <3>1
    <3> QED
      BY <3>1, <3>2
  <2> QED
    BY <1>3, <2>2, <2>3
<1>9. \A j \in 1 .. NS :
        order.structs[j] \in DOMAIN type_sizes <=> j < k + 1 \/ (j = k + 1 /\ Len(T) = 0)
  <2> SUFFICES ASSUME NEW j \in 1 .. NS
               PROVE  order.structs[j] \in DOMAIN type_sizes
                        <=> j < k + 1 \/ (j = k + 1 /\ Len(T) = 0)
    OBVIOUS
  <2>1. order.structs[j] \in DOMAIN type_sizes <=> j < k \/ (j = k /\ 0 = 0)
    BY DEF CheckedTo
  <2>2. CASE j < k + 1
    BY <1>3, <2>1, <2>2
  <2>3. CASE j = k + 1
    <3>1. Len(T) = 1
      BY <2>3
    <3> QED
      BY <1>3, <2>1, <2>3, <3>1
  <2>4. CASE j > k + 1
    BY <1>3, <2>1, <2>4
  <2>5. j < k + 1 \/ j = k + 1 \/ j > k + 1
    BY <1>2, <1>3
  <2> QED
    BY <2>2, <2>3, <2>4, <2>5, Zenon
<1>10. \A j \in 1 .. NS : order.structs[j] \in DOMAIN type_sizes => FieldsEarlier(j)
  BY DEF CheckedTo
<1>11. \A p \in Bodies : k + 1 > 0 /\ IsBody(k + 1, p) => locals' = Locals(p)
  OBVIOUS
<1>12. CheckedTo(k + 1, Len(T), T)'
  <2>1. \A i \in 1 .. NG' : NS' + i <= k + 1 => GlobalPasses(i)'
    BY <1>4, <1>5, <1>7
  <2>2. \A j \in 1 .. k + 1, p \in Bodies' : IsBody(j, p)' =>
          /\ ParamsPass(p)'
          /\ \A n \in 1 .. Len(BodyOf(p)') :
               j < k + 1 \/ n + Len(T) <= Len(BodyOf(p)') => ItemPasses(p, n)' /\ LoadTyped(p, n)'
    BY <1>4, <1>5, <1>6, <1>8
  <2>3. \A j \in 1 .. NS' :
          order'.structs[j] \in DOMAIN type_sizes' <=> j < k + 1 \/ (j = k + 1 /\ Len(T) = 0)
    BY <1>4, <1>9
  <2>4. \A j \in 1 .. NS' : order'.structs[j] \in DOMAIN type_sizes' => FieldsEarlier(j)'
    BY <1>4, <1>5, <1>10
  <2>5. \A p \in Bodies' : k + 1 > 0 /\ IsBody(k + 1, p)' => locals' = Locals(p)'
    BY <1>4, <1>5, <1>11
  <2>6. CheckNested(k + 1, T)' /\ Rest(todo', Kids', k + 1, T, Len(T))
    BY <1>3, <1>4, <1>5
  <2> QED
    BY <2>1, <2>2, <2>3, <2>4, <2>5, <2>6 DEF CheckedTo
<1> QED
  BY <1>3, <1>12

LEMMA TypesKept ==
  ASSUME TypesDeclared, UNCHANGED <<treeVars, order, type>>
  PROVE  TypesDeclared'
<1>1. /\ Bodies' = Bodies /\ \A p : BodyOf(p)' = BodyOf(p) /\ Locals(p)' = Locals(p)
      /\ type' = type /\ symbol_table' = symbol_table
  BY Static DEF treeVars
<1>2. ASSUME NEW p PROVE \A x : TypeOf(p, x)' = TypeOf(p, x)
  BY <1>1 DEF TypeOf
<1>3. ASSUME NEW p \in Bodies
      PROVE  (\A n \in 1 .. Len(BodyOf(p)) : <<p, n>> \in DOMAIN type =>
                type[<<p, n>>] = TypeOf(p, BodyOf(p)[n].id))'
  BY <1>1, <1>2 DEF TypesDeclared
<1> QED
  BY <1>1, <1>3 DEF TypesDeclared

LEMMA CheckChild ==
  ASSUME LayoutInv, TextInv, MapsOrdered, todo \in Seq(AllVisits), todo # <<>>,
         NEW k, NEW m, NEW S, CheckedTo(k, m, S),
         Head(todo).visit \in {"struct", "global", "procedure"}
  PROVE  /\ m = 0 /\ k \in Nat
         /\ \E c \in 1 .. Len(Kids) : c = k + 1 /\ Head(todo) = Kids[c]
<1>1. Head(todo) # Visit("fields", order.structs[k], 0)
  BY DEF Visit
<1>2. \A p, n : Head(todo) # Visit("item", p, n)
  BY DEF Visit
<1>3. m = 0 /\ k + 1 \in 1 .. Len(Kids) /\ Head(todo) = Kids[k + 1]
  BY <1>1, <1>2, CheckHead
<1>4. Rest(todo, Kids, k, S, m) /\ Len(Kids) \in Nat
  BY KidsAt DEF CheckedTo
<1>5. k \in Nat
  BY <1>4 DEF Rest
<1> QED
  BY <1>3, <1>5

LEMMA TcStructChecks ==
  ASSUME LayoutInv, TextInv, CheckInv, TcStruct
  PROVE  CheckInv'
<1>1. /\ phase = "checking" /\ phase' = "checking" /\ todo # <<>>
      /\ Head(todo).visit = "struct"
      /\ todo' = <<Visit("fields", Head(todo).id, 0)>> \o Tail(todo)
      /\ UNCHANGED <<treeVars, order, type_sizes, type>>
  BY DEF TcStruct, Visiting, Continue
<1>2. MapsOrdered /\ todo \in Seq(AllVisits) /\ TypesDeclared
  BY <1>1 DEF TextInv, CheckInv
<1>3. PICK k, m, S : CheckedTo(k, m, S)
  BY <1>1 DEF CheckInv
<1>4. m = 0 /\ k \in Nat /\ \E c \in 1 .. Len(Kids) : c = k + 1 /\ Head(todo) = Kids[c]
  BY <1>1, <1>2, <1>3, CheckChild
<1>5. PICK c \in 1 .. Len(Kids) : c = k + 1 /\ Head(todo) = Kids[c]
  BY <1>4
<1>6. /\ c <= NS /\ Head(todo).id = order.structs[c] /\ c \in Nat
      /\ order.structs[c] \in DOMAIN struct_defs
      /\ \A p : ~IsBody(c, p)
  BY <1>1, <1>2, <1>5, KidKinds DEF IsBody
<1>7. NS \in Nat /\ NG \in Nat
  BY <1>2, KidsAt
<1>8. c # 0 /\ c \in 1 .. NS /\ c \notin NS + 1 .. NS + NG
  BY <1>6, <1>7
<1>9. PICK T : T = <<Visit("fields", order.structs[c], 0)>>
  OBVIOUS
<1>10. T \in Seq(AllVisits) /\ Len(T) = 1
  <2>1. order.structs[c] \in Names
    BY <1>6, Named DEF Names
  <2>2. Visit("fields", order.structs[c], 0) \in AllVisits
    BY <2>1, VisitTyped
  <2> QED
    BY <1>9, <2>2
<1>11. todo' \in Seq(AllVisits) /\ CheckedTo(c, Len(T), T)'
  <2>1. CheckNested(c, T)
    BY <1>6, <1>8, <1>9, <1>10 DEF CheckNested
  <2>2. CheckedTo(k, 0, S) /\ todo' = T \o Tail(todo)
    BY <1>1, <1>3, <1>4, <1>6, <1>9
  <2> QED
    BY <1>1, <1>2, <1>5, <1>6, <1>8, <1>10, <2>1, <2>2, CheckBegun
<1>12. TypesDeclared'
  BY <1>1, <1>2, TypesKept
<1> QED
  BY <1>1, <1>11, <1>12 DEF CheckInv

LEMMA TcGlobalChecks ==
  ASSUME LayoutInv, TextInv, CheckInv, TcGlobal
  PROVE  CheckInv'
<1>1. /\ phase = "checking" /\ todo # <<>>
      /\ Head(todo).visit = "global"
      /\ UNCHANGED <<treeVars, order, type_sizes, type>>
  BY DEF TcGlobal, Visiting, checkVars
<1>2. MapsOrdered /\ todo \in Seq(AllVisits) /\ TypesDeclared
  BY <1>1 DEF TextInv, CheckInv
<1>3. PICK k, m, S : CheckedTo(k, m, S)
  BY <1>1 DEF CheckInv
<1>4. m = 0 /\ k \in Nat /\ \E c \in 1 .. Len(Kids) : c = k + 1 /\ Head(todo) = Kids[c]
  BY <1>1, <1>2, <1>3, CheckChild
<1>5. PICK c \in 1 .. Len(Kids) : c = k + 1 /\ Head(todo) = Kids[c]
  BY <1>4
<1>6. /\ NS \in Nat /\ NG \in Nat /\ c \in Nat
      /\ c - NS \in 1 .. NG /\ Head(todo).n = c - NS
      /\ \A p : ~IsBody(c, p)
  BY <1>1, <1>2, <1>5, KidsAt, KidKinds DEF IsBody
<1> DEFINE i == c - NS
<1>7. TypesDeclared'
  BY <1>1, <1>2, TypesKept
<1>8. ASSUME Continue(<<>>), GlobalPasses(i)
      PROVE  CheckInv'
  <2>1. phase' = "checking" /\ todo' = <<>> \o Tail(todo)
    BY <1>1, <1>8 DEF Continue
  <2>2. c # 0 /\ c \notin 1 .. NS
    BY <1>6
  <2>3. PICK T : T = <<>>
    OBVIOUS
  <2>4. T \in Seq(AllVisits)
    BY <2>3
  <2>5. CheckNested(c, T)
    BY <1>6, <2>2, <2>3, <2>4 DEF CheckNested
  <2>6. CheckedTo(k, 0, S) /\ todo' = T \o Tail(todo)
    BY <1>3, <1>4, <2>1, <2>3
  <2>7. k + 1 - NS = i
    BY <1>4, <1>5, <1>6
  <2>8. GlobalPasses(k + 1 - NS)
    BY <1>8, <2>7, Zenon
  <2>9. todo' \in Seq(AllVisits) /\ CheckedTo(c, Len(T), T)'
    BY <1>1, <1>2, <1>5, <1>6, <2>2, <2>5, <2>6, <2>8, CheckBegun
  <2> QED
    BY <1>1, <1>7, <2>1, <2>9 DEF CheckInv
<1>9. ASSUME phase' = "rejected", ~GlobalPasses(i), global_vars[i].val.kind # "call"
      PROVE  CheckInv'
  <2>1. Rejectable
    BY <1>6, <1>9 DEF Rejectable
  <2>2. Rejectable'
    BY <1>1, <2>1, StaticFaults
  <2> QED
    BY <1>7, <1>9, <2>2 DEF CheckInv
<1>10. ASSUME phase' = "crashed", global_vars[i].val.kind = "call"
       PROVE  CheckInv'
  <2>1. CrashingGlobal
    BY <1>6, <1>10 DEF CrashingGlobal
  <2>2. CrashingGlobal'
    BY <1>1, <2>1, StaticFaults
  <2> QED
    BY <1>7, <1>10, <2>2 DEF CheckInv
<1>11. \/ Continue(<<>>) /\ GlobalPasses(i)
       \/ phase' = "rejected" /\ ~GlobalPasses(i) /\ global_vars[i].val.kind # "call"
       \/ phase' = "crashed" /\ global_vars[i].val.kind = "call"
  <2>1. Head(todo).n = i
    BY <1>6
  <2> HIDE DEF i
  <2> QED
    BY <2>1 DEF TcGlobal, Stop, GlobalPasses
<1> QED
  BY <1>8, <1>9, <1>10, <1>11

\* When the structs have passed every struct has a size.
LEMMA AllSized ==
  ASSUME LayoutInv, TextInv, MapsOrdered, NEW k, NEW m, NEW S, CheckedTo(k, m, S),
         NEW l \in Nat, l > NS, k >= l \/ (k + 1 = l /\ k \in Nat /\ m = 0)
  PROVE  \A t : HasSize(t) <=> KnownType(t)
<1>1. NS \in Nat /\ k \in Nat
  <2>1. Rest(todo, Kids, k, S, m) /\ Len(Kids) \in Nat /\ NS \in Nat
    BY KidsAt DEF CheckedTo
  <2> QED
    BY <2>1 DEF Rest
<1>2. \A j \in 1 .. NS : order.structs[j] \in DOMAIN type_sizes
  <2> TAKE j \in 1 .. NS
  <2>1. j < k \/ (j = k /\ m = 0)
    BY <1>1
  <2> QED
    BY <2>1 DEF CheckedTo
<1>3. \A s \in DOMAIN struct_defs : \E j \in 1 .. NS : order.structs[j] = s
  BY DEF MapsOrdered, Orders, NS
<1>4. DOMAIN type_sizes = Basic \cup DOMAIN struct_defs
  <2>1. DOMAIN struct_defs \subseteq DOMAIN type_sizes
    BY <1>2, <1>3
  <2>2. Basic \subseteq DOMAIN type_sizes /\ DOMAIN type_sizes \subseteq Basic \cup DOMAIN struct_defs
    BY DEF LayoutInv, SizesTyped
  <2> QED
    BY <2>1, <2>2
<1> QED
  BY <1>4 DEF HasSize, KnownType

LEMMA TcProcedureChecks ==
  ASSUME LayoutInv, TextInv, CheckInv, TcProcedure
  PROVE  CheckInv'
<1>1. /\ phase = "checking" /\ todo # <<>>
      /\ Head(todo).visit = "procedure"
      /\ UNCHANGED <<treeVars, order, type_sizes, type>>
  BY DEF TcProcedure, Visiting
<1>2. MapsOrdered /\ todo \in Seq(AllVisits) /\ TypesDeclared
  BY <1>1 DEF TextInv, CheckInv
<1>3. PICK k, m, S : CheckedTo(k, m, S)
  BY <1>1 DEF CheckInv
<1>4. m = 0 /\ k \in Nat /\ \E c \in 1 .. Len(Kids) : c = k + 1 /\ Head(todo) = Kids[c]
  BY <1>1, <1>2, <1>3, CheckChild
<1>5. PICK c \in 1 .. Len(Kids) : c = k + 1 /\ Head(todo) = Kids[c]
  BY <1>4
<1>6. NS \in Nat /\ NG \in Nat /\ c \in Nat /\ c > NS + NG /\ Kids[c].id \in Bodies
  BY <1>1, <1>2, <1>5, KidsAt, KidKinds DEF Bodies
<1>7. PICK p \in Bodies : p = Head(todo).id /\ IsBody(c, p)
  BY <1>1, <1>5, <1>6 DEF IsBody
<1>8. \A q : IsBody(c, q) => q = p
  BY <1>7 DEF IsBody
<1>9. TypesDeclared'
  BY <1>1, <1>2, TypesKept
<1>10. (\A i \in DOMAIN ParamsOf(p) : HasSize(ParamsOf(p)[i].type)) /\ ~Repeats(ParamsOf(p))
         <=> ParamsPass(p)
  <2>1. c > NS /\ k + 1 = c
    BY <1>4, <1>5, <1>6
  <2>2. \A t : HasSize(t) <=> KnownType(t)
    BY <1>2, <1>3, <1>4, <1>6, <2>1, AllSized
  <2> QED
    BY <2>2 DEF ParamsPass
<1>11. \/ ParamsPass(p) /\ locals' = Locals(p) /\ Continue(Items(p))
       \/ ~ParamsPass(p) /\ phase' = "rejected"
  BY <1>7, <1>10 DEF TcProcedure, Stop, Locals
<1>12. CASE ParamsPass(p) /\ locals' = Locals(p) /\ Continue(Items(p))
  <2>1. phase' = "checking" /\ todo' = Items(p) \o Tail(todo)
    BY <1>1, <1>12 DEF Continue
  <2>2. c # 0 /\ c \notin 1 .. NS /\ c \notin NS + 1 .. NS + NG
    BY <1>6
  <2>3. PICK T : T = Items(p)
    OBVIOUS
  <2>4. T \in Seq(AllVisits) /\ Len(T) = Len(BodyOf(p))
    <3>1. p \in Names /\ Len(BodyOf(p)) \in Nat
      BY BodyTyped, Named
    <3>2. \A n \in 1 .. Len(BodyOf(p)) : Visit("item", p, n) \in AllVisits
      BY <3>1, VisitTyped
    <3> QED
      BY <2>3, <3>1, <3>2 DEF Items
  <2>5. CheckNested(c, T)
    BY <1>8, <2>2, <2>3, <2>4 DEF CheckNested
  <2>6. CheckedTo(k, 0, S) /\ todo' = T \o Tail(todo)
    BY <1>3, <1>4, <2>1, <2>3
  <2>7. todo' \in Seq(AllVisits) /\ CheckedTo(c, Len(T), T)'
    BY <1>1, <1>2, <1>5, <1>8, <1>12, <2>2, <2>4, <2>5, <2>6, CheckBegun
  <2> QED
    BY <1>1, <1>9, <2>1, <2>7 DEF CheckInv
<1>13. CASE ~ParamsPass(p) /\ phase' = "rejected"
  <2>1. Rejectable
    BY <1>13 DEF Rejectable, BodyPasses
  <2>2. Rejectable'
    BY <1>1, <2>1, StaticFaults
  <2> QED
    BY <1>9, <1>13, <2>2 DEF CheckInv
<1> QED
  BY <1>11, <1>12, <1>13

\* The fields of the struct at k are being visited.
LEMMA CheckFields ==
  ASSUME LayoutInv, TextInv, MapsOrdered, todo \in Seq(AllVisits), todo # <<>>,
         NEW k, NEW m, NEW S, CheckedTo(k, m, S), Head(todo).visit = "fields"
  PROVE  m = 1 /\ k \in 1 .. NS /\ k \in Nat /\ Head(todo).id = order.structs[k]
<1>1. \A c \in 1 .. Len(Kids) : Head(todo) # Kids[c]
  BY KidKinds
<1>2. \A p, n : Head(todo) # Visit("item", p, n)
  BY DEF Visit
<1>3. m = 1 /\ k \in 1 .. NS /\ Head(todo) = Visit("fields", order.structs[k], 0)
  BY <1>1, <1>2, CheckHead
<1>4. NS \in Nat
  BY KidsAt
<1> QED
  BY <1>3, <1>4 DEF Visit

LEMMA TcFieldChecks ==
  ASSUME LayoutInv, TextInv, CheckInv,
         NEW s \in DOMAIN struct_defs, NEW f \in DOMAIN struct_defs[s], TcField(s, f)
  PROVE  CheckInv'
<1>1. /\ phase = "checking" /\ todo # <<>>
      /\ Head(todo).visit = "fields" /\ Head(todo).id = s
      /\ UNCHANGED <<treeVars, order, type_sizes, locals, type>>
  BY DEF TcField, Visiting
<1>2. MapsOrdered /\ todo \in Seq(AllVisits) /\ TypesDeclared
  BY <1>1 DEF TextInv, CheckInv
<1>3. PICK k, m, S : CheckedTo(k, m, S)
  BY <1>1 DEF CheckInv
<1>4. m = 1 /\ k \in 1 .. NS /\ k \in Nat /\ s = order.structs[k]
  BY <1>1, <1>2, <1>3, CheckFields
<1>5. TypesDeclared'
  BY <1>1, <1>2, TypesKept
<1>6. CASE HasSize(struct_defs[s][f])
  <2>1. UNCHANGED <<phase, todo>>
    BY <1>6 DEF TcField
  <2>2. CheckedTo(k, m, S)'
    <3>1. /\ NS' = NS /\ NG' = NG /\ Bodies' = Bodies /\ Kids' = Kids
          /\ \A p : BodyOf(p)' = BodyOf(p) /\ Locals(p)' = Locals(p)
          /\ order' = order /\ type_sizes' = type_sizes /\ type' = type /\ locals' = locals
          /\ todo' = todo
      BY <1>1, <2>1, Static
    <3>2. /\ \A i : GlobalPasses(i)' <=> GlobalPasses(i)
          /\ \A p : ParamsPass(p)' <=> ParamsPass(p)
          /\ \A p, n : ItemPasses(p, n)' <=> ItemPasses(p, n)
          /\ \A j : FieldsEarlier(j)' <=> FieldsEarlier(j)
          /\ \A j, p : IsBody(j, p)' <=> IsBody(j, p)
          /\ CheckNested(k, S)' <=> CheckNested(k, S)
      BY <1>1, StaticPasses
    <3>3. \A p, n : LoadTyped(p, n)' <=> LoadTyped(p, n)
      BY <3>1 DEF LoadTyped
    <3> QED
      BY <1>3, <3>1, <3>2, <3>3 DEF CheckedTo
  <2> QED
    BY <1>1, <1>2, <1>5, <2>1, <2>2 DEF CheckInv
<1>7. CASE ~HasSize(struct_defs[s][f])
  <2>1. phase' = "rejected"
    BY <1>7 DEF TcField, Stop
  <2>2. Rejectable
    <3>1. CASE ~KnownType(struct_defs[s][f])
      BY <3>1 DEF Rejectable, FieldsKnown
    <3>2. CASE KnownType(struct_defs[s][f])
      <4> DEFINE t == struct_defs[s][f]
      <4>1. ~t.ptr /\ t.name \in DOMAIN struct_defs /\ t.name \notin DOMAIN type_sizes
        BY <1>7, <3>2 DEF HasSize, KnownType, LayoutInv, SizesTyped
      <4>2. t \in Type
        BY DEF LayoutInv, TreeTyped
      <4>3. t = [name |-> t.name, ptr |-> FALSE]
        BY <4>1, <4>2 DEF Type
      <4> HIDE DEF t
      <4>4. PICK j \in 1 .. NS : order.structs[j] = t.name
        BY <1>2, <4>1 DEF MapsOrdered, Orders, NS
      <4>5. ~(j < k)
        BY <1>3, <4>1, <4>4 DEF CheckedTo
      <4>6. k <= j
        BY <1>4, <4>5
      <4>7. HoldsByValue(s, t.name)
        BY <4>3 DEF HoldsByValue, t
      <4>8. HoldsByValue(order.structs[k], order.structs[j])
        BY <1>4, <4>4, <4>7
      <4>9. DOMAIN order.structs = 1 .. NS
        BY <1>2 DEF MapsOrdered, Orders, NS
      <4> QED
        BY <1>4, <4>6, <4>8, <4>9 DEF Rejectable, ContainedLater
    <3> QED
      BY <3>1, <3>2
  <2>3. Rejectable'
    BY <1>1, <2>2, StaticFaults
  <2> QED
    BY <1>5, <2>1, <2>3 DEF CheckInv
<1> QED
  BY <1>6, <1>7

LEMMA NestedPassed ==
  ASSUME LayoutInv, TextInv, MapsOrdered, todo \in Seq(AllVisits), UNCHANGED <<treeVars, order>>,
         NEW k, NEW m, NEW S, CheckedTo(k, m, S), m # 0, todo' = <<>> \o Tail(todo)
  PROVE  /\ todo' \in Seq(AllVisits) /\ m \in Nat
         /\ CheckNested(k, S)' /\ Rest(todo', Kids', k, S, m - 1)
<1>1. CheckNested(k, S) /\ Rest(todo, Kids, k, S, m) /\ S \in Seq(AllVisits)
  BY DEF CheckedTo, CheckNested
<1>2. Kids \in Seq(AllVisits) /\ Kids' = Kids /\ Len(S) \in Nat
  BY <1>1, KidsAt, Static
<1>3. /\ m \in 1 .. Len(S)
      /\ \A t2 : t2 = <<>> \o Tail(todo) =>
           t2 \in Seq(AllVisits) /\ Rest(t2, Kids, k, S, m - 1)
  BY <1>1, <1>2, NextNested, Zenon
<1>4. CheckNested(k, S)'
  BY <1>1, StaticPasses
<1>5. m \in Nat
  BY <1>2, <1>3
<1>6. todo' \in Seq(AllVisits) /\ Rest(todo', Kids, k, S, m - 1)
  BY <1>3, Zenon
<1> QED
  BY <1>2, <1>4, <1>5, <1>6

LEMMA TcStructEndsChecks ==
  ASSUME LayoutInv, TextInv, CheckInv, TcStructEnds
  PROVE  CheckInv'
<1>1. /\ phase = "checking" /\ phase' = "checking" /\ todo # <<>>
      /\ Head(todo).visit = "fields" /\ FieldsLeft(Head(todo).id) = {}
      /\ todo' = <<>> \o Tail(todo)
      /\ type_sizes' = Insert(type_sizes, Head(todo).id, AlignUp(size))
      /\ UNCHANGED <<treeVars, order, locals, type>>
  BY DEF TcStructEnds, Visiting, Continue
<1>2. MapsOrdered /\ todo \in Seq(AllVisits) /\ TypesDeclared /\ VisitsSound
  BY <1>1 DEF TextInv, CheckInv, LayoutInv
<1>3. PICK k, m, S : CheckedTo(k, m, S)
  BY <1>1 DEF CheckInv
<1>4. m = 1 /\ k \in 1 .. NS /\ k \in Nat /\ Head(todo).id = order.structs[k]
  BY <1>1, <1>2, <1>3, CheckFields
<1>5. PICK s : s = order.structs[k]
  OBVIOUS
<1>6. UnderWay(s)
  <2>1. 1 \in 1 .. Len(todo) /\ Head(todo) = todo[1]
    BY <1>1, <1>2
  <2> QED
    BY <1>1, <1>2, <1>4, <1>5, <2>1 DEF VisitsSound
<1>7. DOMAIN type_sizes' = DOMAIN type_sizes \cup {s}
  BY <1>1, <1>4, <1>5 DEF Insert, Put
<1>8. FieldsEarlier(k)
  <2>1. \A f \in DOMAIN struct_defs[s] : KnownIn(struct_defs[s][f], type_sizes)
    BY <1>1, <1>4, <1>5, <1>6 DEF FieldsLeft, UnderWay, Placed
  <2>2. ASSUME NEW f \in DOMAIN struct_defs[s]
        PROVE  LET t == struct_defs[s][f]
               IN  t.ptr \/ t.name \in Basic \/ \E i \in 1 .. NS : i < k /\ t.name = order.structs[i]
    <3> DEFINE t == struct_defs[s][f]
    <3>1. t.ptr \/ t.name \in Basic \/ t.name \in DOMAIN struct_defs
      BY <2>1 DEF KnownIn, LayoutInv, SizesTyped
    <3>2. ASSUME ~t.ptr, t.name \in DOMAIN struct_defs
          PROVE  \E i \in 1 .. NS : i < k /\ t.name = order.structs[i]
      <4>1. PICK i \in 1 .. NS : order.structs[i] = t.name
        BY <1>2, <3>2 DEF MapsOrdered, Orders, NS
      <4>2. order.structs[i] \in DOMAIN type_sizes
        BY <2>1, <3>2, <4>1 DEF KnownIn
      <4>3. i < k
        BY <1>3, <1>4, <4>2 DEF CheckedTo
      <4> QED
        BY <4>1, <4>3
    <3> QED
      BY <3>1, <3>2
  <2> QED
    BY <1>5, <2>2 DEF FieldsEarlier
<1>9. /\ NS' = NS /\ NG' = NG /\ Bodies' = Bodies /\ Kids' = Kids
      /\ \A p : BodyOf(p)' = BodyOf(p) /\ Locals(p)' = Locals(p)
      /\ order' = order /\ type' = type /\ locals' = locals
  BY <1>1, Static
<1>10. /\ \A i : GlobalPasses(i)' <=> GlobalPasses(i)
       /\ \A p : ParamsPass(p)' <=> ParamsPass(p)
       /\ \A p, n : ItemPasses(p, n)' <=> ItemPasses(p, n)
       /\ \A j : FieldsEarlier(j)' <=> FieldsEarlier(j)
       /\ \A j, p : IsBody(j, p)' <=> IsBody(j, p)
  BY <1>1, StaticPasses
<1>11. \A p, n : LoadTyped(p, n)' <=> LoadTyped(p, n)
  BY <1>9 DEF LoadTyped
<1>12. todo' \in Seq(AllVisits) /\ CheckNested(k, S)' /\ Rest(todo', Kids', k, S, 0)
  <2>1. m - 1 = 0 /\ m # 0
    BY <1>4
  <2>2. todo' \in Seq(AllVisits) /\ CheckNested(k, S)' /\ Rest(todo', Kids', k, S, m - 1)
    BY <1>1, <1>2, <1>3, <2>1, NestedPassed
  <2> QED
    BY <2>1, <2>2
<1>13. \A p : ~IsBody(k, p)
  <2>1. Len(Kids) \in Nat /\ k \in 1 .. Len(Kids) /\ k <= NS /\ NS \in Nat /\ NG \in Nat
    BY <1>2, <1>4, KidsAt
  <2>2. Kids[k].visit = "struct"
    BY <1>2, <2>1, KidKinds
  <2> QED
    BY <2>2 DEF IsBody
<1>14. \A i \in 1 .. NG : NS + i <= k => GlobalPasses(i)
  BY <1>3 DEF CheckedTo
<1>15. \A j \in 1 .. k, p \in Bodies : IsBody(j, p) =>
         /\ ParamsPass(p)
         /\ \A n \in 1 .. Len(BodyOf(p)) :
              j < k \/ n + 0 <= Len(BodyOf(p)) => ItemPasses(p, n) /\ LoadTyped(p, n)
  <2> SUFFICES ASSUME NEW j \in 1 .. k, NEW p \in Bodies, IsBody(j, p)
               PROVE  /\ ParamsPass(p)
                      /\ \A n \in 1 .. Len(BodyOf(p)) : ItemPasses(p, n) /\ LoadTyped(p, n)
    BY Zenon
  <2>1. j < k
    BY <1>4, <1>13
  <2> QED
    BY <1>3, <2>1 DEF CheckedTo
<1>16. \A j \in 1 .. NS : order.structs[j] \in DOMAIN type_sizes' <=> j < k \/ (j = k /\ 0 = 0)
  <2> TAKE j \in 1 .. NS
  <2>1. order.structs[j] = s <=> j = k
    BY <1>2, <1>4, <1>5 DEF MapsOrdered, Orders, NS
  <2>2. order.structs[j] \in DOMAIN type_sizes <=> j < k
    BY <1>3, <1>4 DEF CheckedTo
  <2> QED
    BY <1>7, <2>1, <2>2
<1>17. \A j \in 1 .. NS : order.structs[j] \in DOMAIN type_sizes' => FieldsEarlier(j)
  <2> TAKE j \in 1 .. NS
  <2>1. order.structs[j] = s => j = k
    BY <1>2, <1>4, <1>5 DEF MapsOrdered, Orders, NS
  <2> QED
    BY <1>3, <1>7, <1>8, <2>1 DEF CheckedTo
<1>18. CheckedTo(k, 0, S)'
  BY <1>9, <1>10, <1>11, <1>12, <1>13, <1>14, <1>15, <1>16, <1>17 DEF CheckedTo
<1>19. TypesDeclared'
  BY <1>1, <1>2, TypesKept
<1> QED
  BY <1>1, <1>12, <1>18, <1>19 DEF CheckInv

\* An item of the body at k is visited.
LEMMA CheckItem ==
  ASSUME LayoutInv, TextInv, MapsOrdered, todo \in Seq(AllVisits), todo # <<>>,
         NEW k, NEW m, NEW S, CheckedTo(k, m, S), Head(todo).visit = "item"
  PROVE  \E p \in Bodies, n \in Nat :
           /\ k \in 1 .. Len(Kids) /\ IsBody(k, p) /\ k \in Nat /\ k > NS
           /\ m \in 1 .. Len(BodyOf(p)) /\ n = Len(BodyOf(p)) - m + 1
           /\ n \in 1 .. Len(BodyOf(p)) /\ Head(todo).id = p /\ Head(todo).n = n
<1>1. \A c \in 1 .. Len(Kids) : Head(todo) # Kids[c]
  BY KidKinds
<1>2. Head(todo) # Visit("fields", order.structs[k], 0)
  BY DEF Visit
<1>3. PICK p \in Bodies :
        /\ k \in 1 .. Len(Kids) /\ IsBody(k, p)
        /\ m \in 1 .. Len(BodyOf(p))
        /\ Len(BodyOf(p)) - m + 1 \in 1 .. Len(BodyOf(p))
        /\ Head(todo) = Visit("item", p, Len(BodyOf(p)) - m + 1)
  BY <1>1, <1>2, CheckHead
<1>4. Len(BodyOf(p)) \in Nat
  BY BodyTyped
<1>5. PICK n \in Nat : n = Len(BodyOf(p)) - m + 1
  <2>1. Len(BodyOf(p)) - m + 1 \in Nat
    BY <1>3, <1>4
  <2> QED
    BY <2>1
<1>6. k \in Nat /\ k > NS
  <2>1. NS \in Nat /\ NG \in Nat
    BY KidsAt
  <2>2. k \in Nat /\ k > NS + NG
    BY <1>3, KidKinds DEF IsBody
  <2> QED
    BY <2>1, <2>2
<1>7. Head(todo).id = p /\ Head(todo).n = n
  BY <1>3, <1>5 DEF Visit
<1> QED
  BY <1>3, <1>5, <1>6, <1>7

LEMMA TcItemIs ==
  ASSUME NEW p, NEW n, p = Head(todo).id, n = Head(todo).n, locals = Locals(p),
         BodyOf(p)[n].op \in {"call", "load"} \cup LibraryOps, TcItem
  PROVE  \/ /\ ItemPasses(p, n) /\ Continue(<<>>)
            /\ BodyOf(p)[n].op = "load" =>
                 type' = Put(type, <<p, n>>, TypeOf(p, BodyOf(p)[n].id))
            /\ BodyOf(p)[n].op # "load" => UNCHANGED type
         \/ ~ItemPasses(p, n) /\ phase' = "rejected" /\ UNCHANGED type
<1> DEFINE item == BodyOf(p)[n]
<1>1. CASE item.op = "call"
  <2>1. TcCall(item)
    BY <1>1 DEF TcItem
  <2>2. ItemPasses(p, n) <=> CallPasses(p, item)
    BY <1>1 DEF ItemPasses
  <2> HIDE DEF item
  <2>3. \/ CallPasses(p, item) /\ Continue(<<>>) /\ UNCHANGED type
        \/ ~CallPasses(p, item) /\ phase' = "rejected" /\ UNCHANGED type
    BY <2>1 DEF TcCall, CallPasses, Stop
  <2>4. item.op # "load"
    BY <1>1
  <2> QED
    BY <2>2, <2>3, <2>4 DEF item
<1>2. CASE item.op = "load"
  <2>1. TcLoad(item)
    BY <1>2 DEF TcItem
  <2>2. ItemPasses(p, n) <=> item.id \in DOMAIN Locals(p) \cup DOMAIN symbol_table
    BY <1>2 DEF ItemPasses
  <2> HIDE DEF item
  <2>3. \/ /\ item.id \in DOMAIN Locals(p) \cup DOMAIN symbol_table /\ Continue(<<>>)
           /\ type' = Put(type, <<p, n>>, TypeOf(p, item.id))
        \/ /\ item.id \notin DOMAIN Locals(p) \cup DOMAIN symbol_table
           /\ phase' = "rejected" /\ UNCHANGED type
    BY <2>1 DEF TcLoad, TypeOf, Stop
  <2>4. item.op = "load"
    BY <1>2
  <2> QED
    BY <2>2, <2>3, <2>4 DEF item
<1>3. CASE item.op \in LibraryOps
  <2>1. item.op # "call" /\ item.op # "load"
    BY <1>3 DEF LibraryOps
  <2>2. Continue(<<>>) /\ UNCHANGED type
    BY <2>1 DEF TcItem
  <2>3. ItemPasses(p, n)
    BY <2>1 DEF ItemPasses
  <2> QED
    BY <2>1, <2>2, <2>3
<1> QED
  BY <1>1, <1>2, <1>3

LEMMA TcItemChecks ==
  ASSUME LayoutInv, TextInv, CheckInv, TcItem
  PROVE  CheckInv'
<1>1. /\ phase = "checking" /\ todo # <<>>
      /\ Head(todo).visit = "item"
      /\ UNCHANGED <<treeVars, order, type_sizes, locals>>
  BY DEF TcItem, Visiting
<1>2. MapsOrdered /\ todo \in Seq(AllVisits) /\ TypesDeclared
  BY <1>1 DEF TextInv, CheckInv
<1>3. PICK k, m, S : CheckedTo(k, m, S)
  BY <1>1 DEF CheckInv
<1>4. PICK p \in Bodies, n \in Nat :
        /\ k \in 1 .. Len(Kids) /\ IsBody(k, p) /\ k \in Nat /\ k > NS
        /\ m \in 1 .. Len(BodyOf(p)) /\ n = Len(BodyOf(p)) - m + 1
        /\ n \in 1 .. Len(BodyOf(p)) /\ Head(todo).id = p /\ Head(todo).n = n
  BY <1>1, <1>2, <1>3, CheckItem
<1>5. Len(BodyOf(p)) \in Nat /\ NS \in Nat /\ NG \in Nat
  BY <1>2, BodyTyped, KidsAt
<1>6. locals = Locals(p)
  BY <1>3, <1>4 DEF CheckedTo
<1>7. \/ /\ ItemPasses(p, n) /\ Continue(<<>>)
         /\ BodyOf(p)[n].op = "load" =>
              type' = Put(type, <<p, n>>, TypeOf(p, BodyOf(p)[n].id))
         /\ BodyOf(p)[n].op # "load" => UNCHANGED type
      \/ ~ItemPasses(p, n) /\ phase' = "rejected" /\ UNCHANGED type
  BY <1>4, <1>6, BodyTyped, TcItemIs
<1>8. ASSUME ItemPasses(p, n), Continue(<<>>),
             BodyOf(p)[n].op = "load" => type' = Put(type, <<p, n>>, TypeOf(p, BodyOf(p)[n].id)),
             BodyOf(p)[n].op # "load" => UNCHANGED type
      PROVE  CheckInv'
  <2>1. phase' = "checking" /\ todo' = <<>> \o Tail(todo)
    BY <1>1, <1>8 DEF Continue
  <2>2. /\ NS' = NS /\ NG' = NG /\ Bodies' = Bodies /\ Kids' = Kids
        /\ \A q : BodyOf(q)' = BodyOf(q) /\ Locals(q)' = Locals(q)
        /\ order' = order /\ type_sizes' = type_sizes /\ locals' = locals
        /\ symbol_table' = symbol_table
    BY <1>1, Static DEF treeVars
  <2>3. /\ \A i : GlobalPasses(i)' <=> GlobalPasses(i)
        /\ \A q : ParamsPass(q)' <=> ParamsPass(q)
        /\ \A q, l : ItemPasses(q, l)' <=> ItemPasses(q, l)
        /\ \A j : FieldsEarlier(j)' <=> FieldsEarlier(j)
        /\ \A j, q : IsBody(j, q)' <=> IsBody(j, q)
    BY <1>1, StaticPasses
  <2>4. /\ DOMAIN type \subseteq DOMAIN type'
        /\ BodyOf(p)[n].op = "load" => <<p, n>> \in DOMAIN type'
        /\ \A x \in DOMAIN type' :
             \/ x \in DOMAIN type /\ type'[x] = type[x]
             \/ x = <<p, n>> /\ type'[x] = TypeOf(p, BodyOf(p)[n].id)
    BY <1>8 DEF Put
  <2>5. /\ \A q, l : LoadTyped(q, l) => LoadTyped(q, l)'
        /\ LoadTyped(p, n)'
    BY <2>2, <2>4 DEF LoadTyped
  <2>6. TypesDeclared'
    <3>1. \A q, x : TypeOf(q, x)' = TypeOf(q, x)
      BY <2>2 DEF TypeOf
    <3>2. ASSUME NEW q \in Bodies, NEW l \in 1 .. Len(BodyOf(q)), <<q, l>> \in DOMAIN type'
          PROVE  type'[<<q, l>>] = TypeOf(q, BodyOf(q)[l].id)
      <4>1. CASE <<q, l>> \in DOMAIN type /\ type'[<<q, l>>] = type[<<q, l>>]
        BY <1>2, <4>1 DEF TypesDeclared
      <4>2. CASE <<q, l>> = <<p, n>> /\ type'[<<q, l>>] = TypeOf(p, BodyOf(p)[n].id)
        BY <4>2
      <4> QED
        BY <2>4, <3>2, <4>1, <4>2
    <3>3. ASSUME NEW q \in Bodies
          PROVE  (\A l \in 1 .. Len(BodyOf(q)) : <<q, l>> \in DOMAIN type =>
                    type[<<q, l>>] = TypeOf(q, BodyOf(q)[l].id))'
      BY <2>2, <3>1, <3>2
    <3> QED
      BY <2>2, <3>3 DEF TypesDeclared
  <2>7. todo' \in Seq(AllVisits) /\ CheckNested(k, S)' /\ Rest(todo', Kids', k, S, m - 1)
    <3>1. m # 0
      BY <1>4
    <3> QED
      BY <1>1, <1>2, <1>3, <2>1, <3>1, NestedPassed
  <2>8. ASSUME NEW j \in 1 .. k, NEW q \in Bodies, IsBody(j, q)
        PROVE  /\ ParamsPass(q)
               /\ \A l \in 1 .. Len(BodyOf(q)) :
                    j < k \/ l + (m - 1) <= Len(BodyOf(q)) => ItemPasses(q, l) /\ LoadTyped(q, l)'
    <3>1. /\ ParamsPass(q)
          /\ \A l \in 1 .. Len(BodyOf(q)) :
               j < k \/ l + m <= Len(BodyOf(q)) => ItemPasses(q, l) /\ LoadTyped(q, l)
      BY <1>3, <2>8 DEF CheckedTo
    <3>2. ASSUME NEW l \in 1 .. Len(BodyOf(q)), j < k \/ l + (m - 1) <= Len(BodyOf(q))
          PROVE  ItemPasses(q, l) /\ LoadTyped(q, l)'
      <4>1. CASE j < k \/ l + m <= Len(BodyOf(q))
        BY <2>5, <3>1, <4>1
      <4>2. CASE ~(j < k) /\ ~(l + m <= Len(BodyOf(q)))
        <5>1. j = k
          BY <1>4, <4>2
        <5>2. q = p
          BY <1>4, <2>8, <5>1 DEF IsBody
        <5>3. l = n
          BY <1>4, <1>5, <3>2, <4>2, <5>2
        <5> QED
          BY <1>8, <2>5, <5>2, <5>3
      <4> QED
        BY <4>1, <4>2
    <3> QED
      BY <3>1, <3>2
  <2>9. CheckedTo(k, m - 1, S)'
    <3>1. \A j \in 1 .. NS : order.structs[j] \in DOMAIN type_sizes <=> j < k \/ (j = k /\ m - 1 = 0)
      <4> TAKE j \in 1 .. NS
      <4>1. j < k /\ j # k
        BY <1>4, <1>5
      <4> QED
        BY <1>3, <4>1 DEF CheckedTo
    <3>2. \A i \in 1 .. NG' : NS' + i <= k => GlobalPasses(i)'
      BY <1>3, <2>2, <2>3 DEF CheckedTo
    <3>3. \A j \in 1 .. k, q \in Bodies' : IsBody(j, q)' =>
            /\ ParamsPass(q)'
            /\ \A l \in 1 .. Len(BodyOf(q)') :
                 j < k \/ l + (m - 1) <= Len(BodyOf(q)') => ItemPasses(q, l)' /\ LoadTyped(q, l)'
      BY <2>2, <2>3, <2>8
    <3>4. \A j \in 1 .. NS' :
            order'.structs[j] \in DOMAIN type_sizes' <=> j < k \/ (j = k /\ m - 1 = 0)
      BY <2>2, <3>1
    <3>5. \A j \in 1 .. NS' : order'.structs[j] \in DOMAIN type_sizes' => FieldsEarlier(j)'
      BY <1>3, <2>2, <2>3 DEF CheckedTo
    <3>6. \A q \in Bodies' : k > 0 /\ IsBody(k, q)' => locals' = Locals(q)'
      BY <1>3, <2>2, <2>3 DEF CheckedTo
    <3> QED
      BY <2>7, <3>2, <3>3, <3>4, <3>5, <3>6 DEF CheckedTo
  <2> QED
    BY <2>1, <2>6, <2>7, <2>9 DEF CheckInv
<1>9. ASSUME ~ItemPasses(p, n), phase' = "rejected", UNCHANGED type
      PROVE  CheckInv'
  <2>1. Rejectable
    BY <1>4, <1>9 DEF Rejectable, BodyPasses
  <2>2. Rejectable'
    BY <1>1, <2>1, StaticFaults
  <2>3. TypesDeclared'
    BY <1>1, <1>2, <1>9, TypesKept
  <2> QED
    BY <1>9, <2>2, <2>3 DEF CheckInv
<1> QED
  BY <1>7, <1>8, <1>9

LEMMA ReduceChecks ==
  ASSUME CheckInv, NEW d \in Definitions,
         ReduceStruct(d) \/ ReduceGlobal(d) \/ ReduceProcedure(d)
  PROVE  CheckInv'
<1>1. phase = "parsing" /\ phase' \in {"parsing", "unparsed"} /\ type' = type
  BY DEF ReduceStruct, ReduceGlobal, ReduceProcedure, Read, checkVars
<1>2. type' = Nothing
  BY <1>1 DEF CheckInv
<1>3. TypesDeclared'
  BY <1>2 DEF TypesDeclared, Nothing
<1> QED
  BY <1>1, <1>2, <1>3 DEF CheckInv

LEMMA ParsingEndsChecks ==
  ASSUME LayoutInv, TextInv, CheckInv, ParsingEnds
  PROVE  CheckInv'
<1>1. /\ phase = "parsing" /\ phase' = "checking" /\ UNCHANGED <<treeVars, type_sizes, type>>
      /\ todo' = Children(order')
  BY DEF ParsingEnds, checkVars
<1>2. type' = Nothing
  BY <1>1 DEF CheckInv
<1>3. TypesDeclared'
  BY <1>2 DEF TypesDeclared, Nothing
<1>4. TreeTyped /\ type_sizes = BasicSizes /\ MapsOrdered'
  BY <1>1, TextOrdered DEF LayoutInv, TextInv
<1>5. /\ order'.structs \in Seq(DOMAIN struct_defs) /\ order'.procedures \in Seq(DOMAIN procedures)
      /\ DOMAIN struct_defs' = DOMAIN struct_defs
  BY <1>1, <1>4 DEF MapsOrdered, Orders, treeVars
<1>6. todo' \in Seq(AllVisits)
  <2>1. todo' \in Seq(Visits)
    BY <1>1, <1>4, <1>5, ChildrenAre
  <2>2. Visits \subseteq AllVisits
    BY DEF Visits, AllVisits, Names
  <2> QED
    BY <2>1, <2>2
<1>7. Kids' = todo'
  BY <1>1 DEF Kids, Children, treeVars
<1>8. Rest(todo', Kids', 0, <<>>, 0)
  BY <1>6, <1>7, AllOfThem
<1>9. CheckNested(0, <<>>)'
  <2>1. <<>> \in Seq(AllVisits)
    OBVIOUS
  <2>2. \A n : 0 \notin 1 .. n
    OBVIOUS
  <2> QED
    BY <2>1, <2>2 DEF CheckNested
<1>10. NS' \in Nat /\ NG' \in Nat
  BY <1>1, <1>4, <1>5 DEF NS, NG, TreeTyped, treeVars
<1>11. \A j \in 1 .. NS' : order'.structs[j] \notin DOMAIN type_sizes'
  <2> TAKE j \in 1 .. NS'
  <2>1. order'.structs[j] \in DOMAIN struct_defs
    BY <1>5 DEF NS
  <2>2. DOMAIN type_sizes' = Basic
    BY <1>1, <1>4 DEF BasicSizes
  <2> QED
    BY <1>4, <2>1, <2>2 DEF TreeTyped
<1>12. CheckedTo(0, 0, <<>>)'
  <2>1. \A i \in 1 .. NG' : NS' + i <= 0 => GlobalPasses(i)'
    <3>1. \A a, b \in Nat : \A i \in 1 .. b : ~(a + i <= 0)
      OBVIOUS
    <3> QED
      BY <1>10, <3>1, Zenon
  <2>2. \A j \in 1 .. NS' : ~(j < 0) /\ j # 0
    BY <1>10
  <2>3. \A j \in 1 .. NS' :
          order'.structs[j] \in DOMAIN type_sizes' <=> j < 0 \/ (j = 0 /\ 0 = 0)
    BY <1>11, <2>2
  <2>4. \A j \in 1 .. NS' : order'.structs[j] \in DOMAIN type_sizes' => FieldsEarlier(j)'
    BY <1>11
  <2>5. \A j : j \notin 1 .. 0
    OBVIOUS
  <2> QED
    BY <1>8, <1>9, <2>1, <2>3, <2>4, <2>5 DEF CheckedTo
<1> QED
  BY <1>1, <1>3, <1>6, <1>12 DEF CheckInv

\* A struct whose fields hold what stands before it has fields of known types.
LEMMA EarlierKnown ==
  ASSUME LayoutInv, TextInv, MapsOrdered, NEW j \in 1 .. NS, FieldsEarlier(j)
  PROVE  FieldsKnown(order.structs[j])
<1>1. \A i \in 1 .. NS : order.structs[i] \in DOMAIN struct_defs
  BY SMTT(40) DEF MapsOrdered, Orders, NS
<1> QED
  BY <1>1 DEF FieldsEarlier, FieldsKnown, KnownType

LEMMA CheckingEndsChecks ==
  ASSUME LayoutInv, TextInv, CheckInv, CheckingEnds
  PROVE  CheckInv'
<1>1. /\ phase = "checking" /\ phase' = "generating" /\ todo = <<>>
      /\ UNCHANGED <<treeVars, order, type_sizes, type>>
  BY DEF CheckingEnds, checkVars
<1>2. MapsOrdered /\ todo \in Seq(AllVisits) /\ TypesDeclared
  BY <1>1 DEF TextInv, CheckInv
<1>3. PICK k, m, S : CheckedTo(k, m, S)
  BY <1>1 DEF CheckInv
<1>4. /\ NS \in Nat /\ NG \in Nat /\ NP \in Nat /\ Len(Kids) = NS + NG + NP + 1
      /\ Kids \in Seq(AllVisits)
  BY <1>2, KidsAt
<1>5. m = 0 /\ k = Len(Kids)
  <2>1. Rest(todo, Kids, k, S, m) /\ S \in Seq(AllVisits)
    BY <1>3 DEF CheckedTo, CheckNested
  <2> QED
    BY <1>1, <1>4, <2>1, NoRest
<1>6. \A j \in 1 .. NS : FieldsEarlier(j)
  <2> TAKE j \in 1 .. NS
  <2>1. j < k
    BY <1>4, <1>5
  <2> QED
    BY <1>3, <2>1 DEF CheckedTo
<1>7. \A s \in DOMAIN struct_defs : FieldsKnown(s)
  <2> TAKE s \in DOMAIN struct_defs
  <2>1. PICK j \in 1 .. NS : order.structs[j] = s
    BY <1>2 DEF MapsOrdered, Orders, NS
  <2> QED
    BY <1>2, <1>6, <2>1, EarlierKnown
<1>8. \A i \in 1 .. NG : GlobalPasses(i)
  <2> TAKE i \in 1 .. NG
  <2>1. NS + i <= k
    BY <1>4, <1>5
  <2> QED
    BY <1>3, <2>1 DEF CheckedTo
<1>9. ASSUME NEW p \in Bodies
      PROVE  BodyPasses(p) /\ \A n \in 1 .. Len(BodyOf(p)) : LoadTyped(p, n)
  <2>1. PICK j \in 1 .. Len(Kids) : IsBody(j, p)
    BY <1>2, BodiesVisited DEF IsBody
  <2>2. Len(BodyOf(p)) \in Nat
    BY BodyTyped
  <2>3. /\ ParamsPass(p)
        /\ \A n \in 1 .. Len(BodyOf(p)) :
             j < k \/ n + m <= Len(BodyOf(p)) => ItemPasses(p, n) /\ LoadTyped(p, n)
    BY <1>3, <1>5, <2>1 DEF CheckedTo
  <2>4. \A n \in 1 .. Len(BodyOf(p)) : n + m <= Len(BodyOf(p))
    BY <1>5, <2>2
  <2> QED
    BY <2>3, <2>4 DEF BodyPasses
<1>10. AllChecked
  BY <1>6, <1>7, <1>8, <1>9 DEF AllChecked, AllPasses
<1>11. AllChecked'
  <2>1. AllPasses'
    BY <1>1, <1>10, StaticFaults DEF AllChecked
  <2>2. /\ NS' = NS /\ Bodies' = Bodies /\ \A p : BodyOf(p)' = BodyOf(p)
        /\ type' = type /\ \A j : FieldsEarlier(j)' <=> FieldsEarlier(j)
    BY <1>1, Static, StaticPasses
  <2> QED
    BY <1>10, <2>1, <2>2 DEF AllChecked, LoadTyped
<1>12. TypesDeclared'
  BY <1>1, <1>2, TypesKept
<1> QED
  BY <1>1, <1>11, <1>12 DEF CheckInv

-------------------------------------------------------------------------------
(* CodeGen's pass.                                                         *)

\* What CodeGen adds to todo when it begins the child k.
Generated(p) == Items(p) \o <<Visit("procedure_ends", p, 0)>>

GenNested(k, S) ==
  /\ S \in Seq(AllVisits)
  /\ k \in 0 .. NS + NG => S = <<>>
  /\ \A p \in Bodies : k \in 1 .. Len(Kids) /\ IsBody(k, p) => S = Generated(p)

\* What a name of the module may stand for.
IsVariable(r, f) ==
  \E i, j \in 1 .. NG :
    /\ global_vars[i].id = f /\ global_vars[j].id = f
    /\ r = [sort |-> "variable", of |-> "program",
            type |-> LLVMType(global_vars[i].type), init |-> LLVMType(global_vars[j].type)]

IsProcedure(r, f) ==
  f \in Bodies /\ r.sort = "function" /\ r.of = "program" /\ r.params = Signature(f)

IsLibrary(r, f) == r = FromLibrary /\ LibraryInUse(f)

NamedSound ==
  \A f \in DOMAIN named : \A r : r = named[f] =>
    IsVariable(r, f) \/ IsProcedure(r, f) \/ IsLibrary(r, f)

\* What an item of a body may reach.
Reaches(p, n, r) ==
  /\ BodyOf(p)[n].op = "call" =>
       \/ /\ r.of = "program"
          /\ r.params = [i \in DOMAIN LastOf("procedure", BodyOf(p)[n].id).params |->
                           LLVMType(LastOf("procedure", BodyOf(p)[n].id).params[i].type)]
          /\ BodyOf(p)[n].args # <<>> =>
               r.params = [i \in DOMAIN BodyOf(p)[n].args |-> LLVMType(BodyOf(p)[n].args[i])]
       \/ r.of = "library" /\ LibraryInUse(BodyOf(p)[n].id)
  /\ BodyOf(p)[n].op \in LibraryOps =>
       \/ r.of = "library"
       \/ \E def \in {"procedure", "global"} : Defines(def, LibraryName[BodyOf(p)[n].op]) # {}
  /\ BodyOf(p)[n].op = "load" =>
       \/ r.type = LLVMType(type[<<p, n>>])
       \/ r.of = "program" /\ ~OneType(BodyOf(p)[n].id)

ReachedSound ==
  \A at \in DOMAIN reached : \A r : r = reached[at] =>
    \E p \in Bodies : \E n \in 1 .. Len(BodyOf(p)) : at = <<p, n>> /\ Reaches(p, n, r)

GlobalGenerated(i) ==
  /\ global_vars[i].id \in DOMAIN named /\ named[global_vars[i].id].sort = "variable"
  /\ KnownType(global_vars[i].type) /\ global_vars[i].val.kind # "new"

ResultKnown(p) == p = "main" \/ procedures[p].ret = Void \/ KnownType(procedures[p].ret)

\* A call that was generated before its callee reached the library.
CallGenerated(p, n) ==
  BodyOf(p)[n].op = "call" /\ CalledEarly(p, BodyOf(p)[n].id) => LibraryInUse(BodyOf(p)[n].id)

NamesAre(p) ==
  /\ DOMAIN named_values = DOMAIN Locals(p)
  /\ \A x \in DOMAIN Locals(p) : named_values[x] = LLVMType(Locals(p)[x])

FunctionsGenerated(k) ==
  \A f \in DOMAIN named : named[f].sort = "function" =>
    /\ k <= NS + NG => f \in DOMAIN Runtime
    /\ named[f].of = "program" => \E j \in 1 .. k : IsBody(j, f)

NamesKept(k, m) ==
  /\ m = 0 /\ k < Len(Kids) => DOMAIN named_values = {}
  /\ \A p \in Bodies : m > 0 /\ k > 0 /\ IsBody(k, p) =>
       NamesAre(p) /\ DOMAIN old_named_values = {}

\* The children before k are generated, and k but for the last m of its visits.
GeneratedTo(k, m, S) ==
  /\ GenNested(k, S) /\ Rest(todo, Kids, k, S, m)
  /\ struct_types \subseteq DOMAIN struct_defs
  /\ \A j \in 1 .. NS : j <= k => order.structs[j] \in struct_types
  /\ \A i \in 1 .. NG : NS + i <= k => GlobalGenerated(i)
  /\ \A j \in 1 .. k, p \in Bodies : IsBody(j, p) =>
       /\ p \in DOMAIN named /\ ResultKnown(p)
       /\ \A n \in 1 .. Len(BodyOf(p)) :
            j < k \/ n + m <= Len(BodyOf(p)) + 1 => CallGenerated(p, n)
  /\ FunctionsGenerated(k) /\ NamesKept(k, m)

EarlyReachLibrary ==
  \A p, q \in DOMAIN procedures : CalledEarly(p, q) => LibraryInUse(q)

GenInv ==
  /\ phase \in {"parsing", "unparsed", "checking", "rejected"} =>
       struct_types = {} /\ named = Runtime /\ named_values = Nothing /\ reached = Nothing
  /\ phase = "generating" => todo \in Seq(AllVisits) /\ \E k, m, S : GeneratedTo(k, m, S)
  /\ NamedSound /\ ReachedSound
  /\ phase = "failed" => UncheckedDefinition \/ SomeCalledEarly
  /\ phase = "compiled" => ~UncheckedDefinition /\ EarlyReachLibrary
  /\ error = "unknown_function" => phase = "failed" /\ SomeCalledEarly

\* What the visits leave alone, as CodeGen sees it.
LEMMA StaticNames ==
  ASSUME UNCHANGED <<treeVars, order>>
  PROVE  /\ \A p : Signature(p)' = Signature(p)
         /\ \A f : LibraryInUse(f)' <=> LibraryInUse(f)
         /\ \A p, q : CalledEarly(p, q)' <=> CalledEarly(p, q)
         /\ \A p : ResultKnown(p)' <=> ResultKnown(p)
         /\ \A p, n : CallGenerated(p, n)' <=> CallGenerated(p, n)
         /\ UncheckedDefinition' <=> UncheckedDefinition
         /\ SomeCalledEarly' <=> SomeCalledEarly
         /\ \A k, S : GenNested(k, S)' <=> GenNested(k, S)
         /\ \A r, f : IsVariable(r, f)' <=> IsVariable(r, f)
         /\ \A r, f : IsProcedure(r, f)' <=> IsProcedure(r, f)
         /\ \A r, f : IsLibrary(r, f)' <=> IsLibrary(r, f)
<1>1. /\ NS' = NS /\ NG' = NG /\ Bodies' = Bodies /\ Kids' = Kids
      /\ \A p : /\ BodyOf(p)' = BodyOf(p) /\ ParamsOf(p)' = ParamsOf(p)
                /\ Items(p)' = Items(p)
  BY Static
<1>2. /\ source' = source /\ struct_defs' = struct_defs /\ global_vars' = global_vars
      /\ procedures' = procedures /\ order' = order
  BY DEF treeVars
<1>3. ASSUME NEW p PROVE Signature(p)' = Signature(p)
  <2>1. ParamsOf(p)' = ParamsOf(p)
    BY <1>1
  <2> QED
    BY <2>1 DEF Signature
<1>4. ASSUME NEW op PROVE BodiesIn(op)' = BodiesIn(op)
  BY <1>1, <1>2 DEF BodiesIn
<1>5. ASSUME NEW f PROVE LibraryInUse(f)' <=> LibraryInUse(f)
  BY <1>4 DEF LibraryInUse
<1>6. ASSUME NEW p, NEW q PROVE CalledEarly(p, q)' <=> CalledEarly(p, q)
  <2>1. BodyOf(p)' = BodyOf(p)
    BY <1>1
  <2>2. Calls(p)' = Calls(p)
    BY <2>1 DEF Calls
  <2> QED
    BY <1>2, <2>2 DEF CalledEarly, Position
<1>7. \A p : ResultKnown(p)' <=> ResultKnown(p)
  BY <1>2 DEF ResultKnown, KnownType
<1>8. ASSUME NEW p, NEW n PROVE CallGenerated(p, n)' <=> CallGenerated(p, n)
  <2>1. BodyOf(p)' = BodyOf(p)
    BY <1>1
  <2> QED
    BY <1>5, <1>6, <2>1 DEF CallGenerated
<1>9. UncheckedDefinition' <=> UncheckedDefinition
  BY <1>2 DEF UncheckedDefinition, Undefined, Defines
<1>10. SomeCalledEarly' <=> SomeCalledEarly
  BY <1>2, <1>6 DEF SomeCalledEarly
<1>11. ASSUME NEW k, NEW S PROVE GenNested(k, S)' <=> GenNested(k, S)
  <2>1. \A p : Generated(p)' = Generated(p) /\ (IsBody(k, p)' <=> IsBody(k, p))
    BY <1>1 DEF Generated, Visit, IsBody
  <2> QED
    BY <1>1, <2>1 DEF GenNested
<1>12. \A r, f : IsVariable(r, f)' <=> IsVariable(r, f)
  BY <1>1, <1>2 DEF IsVariable
<1>13. \A r, f : IsProcedure(r, f)' <=> IsProcedure(r, f)
  BY <1>1, <1>3 DEF IsProcedure
<1>14. \A r, f : IsLibrary(r, f)' <=> IsLibrary(r, f)
  BY <1>5 DEF IsLibrary
<1> QED
  BY <1>3, <1>5, <1>6, <1>7, <1>8, <1>9, <1>10, <1>11, <1>12, <1>13, <1>14, Zenon

LEMMA StaticReaches ==
  ASSUME UNCHANGED <<treeVars, order, type>>
  PROVE  \A p, n, r : Reaches(p, n, r)' <=> Reaches(p, n, r)
<1> SUFFICES ASSUME NEW p, NEW n, NEW r PROVE Reaches(p, n, r)' <=> Reaches(p, n, r)
  OBVIOUS
<1>1. BodyOf(p)' = BodyOf(p) /\ type' = type
  BY Static
<1>2. source' = source
  BY DEF treeVars
<1>3. \A def, id : Defines(def, id)' = Defines(def, id) /\ LastOf(def, id)' = LastOf(def, id)
  BY <1>2 DEF Defines, LastOf
<1>4. \A g : OneType(g)' <=> OneType(g)
  BY <1>2, <1>3 DEF OneType
<1>5. \A f : LibraryInUse(f)' <=> LibraryInUse(f)
  BY StaticNames
<1> QED
  BY <1>1, <1>3, <1>4, <1>5, ZenonT(60) DEF Reaches

\* The names and what was reached stay sound.
LEMMA NamesStay ==
  ASSUME NamedSound, ReachedSound, UNCHANGED <<treeVars, order, type>>
  PROVE  /\ UNCHANGED named => NamedSound'
         /\ UNCHANGED reached => ReachedSound'
<1>1. /\ Bodies' = Bodies /\ \A p : BodyOf(p)' = BodyOf(p)
  BY Static
<1>2. ASSUME UNCHANGED named PROVE NamedSound'
  BY <1>2, StaticNames DEF NamedSound
<1>3. ASSUME UNCHANGED reached PROVE ReachedSound'
  <2>1. \A p, n, r : Reaches(p, n, r)' <=> Reaches(p, n, r)
    BY StaticReaches
  <2>2. \A at \in DOMAIN reached : \A r : r = reached[at] =>
          \E p \in Bodies : \E n \in 1 .. Len(BodyOf(p)) : at = <<p, n>> /\ Reaches(p, n, r)'
    BY <2>1 DEF ReachedSound
  <2>3. \A p \in Bodies : \A n : n \in 1 .. Len(BodyOf(p)) <=> n \in 1 .. Len(BodyOf(p)')
    BY <1>1
  <2> QED
    BY <1>1, <1>3, <2>2, <2>3 DEF ReachedSound
<1> QED
  BY <1>2, <1>3

LEMMA GeneratedIs ==
  ASSUME LayoutInv, TextInv, NEW p \in Bodies
  PROVE  /\ Generated(p) \in Seq(AllVisits) /\ Len(BodyOf(p)) \in Nat
         /\ Len(Generated(p)) = Len(BodyOf(p)) + 1
         /\ \A n \in 1 .. Len(BodyOf(p)) : Generated(p)[n] = Visit("item", p, n)
         /\ Generated(p)[Len(BodyOf(p)) + 1] = Visit("procedure_ends", p, 0)
<1>1. p \in Names /\ Len(BodyOf(p)) \in Nat
  BY BodyTyped, Named
<1>2. PICK u : u = Items(p)
  OBVIOUS
<1>3. PICK d : d = <<Visit("procedure_ends", p, 0)>>
  OBVIOUS
<1>4. /\ u \in Seq(AllVisits) /\ Len(u) = Len(BodyOf(p))
      /\ \A n \in 1 .. Len(BodyOf(p)) : u[n] = Visit("item", p, n)
  <2>1. \A n \in 1 .. Len(BodyOf(p)) : Visit("item", p, n) \in AllVisits
    BY <1>1, VisitTyped
  <2> QED
    BY <1>1, <1>2, <2>1 DEF Items
<1>5. d \in Seq(AllVisits) /\ Len(d) = 1 /\ d[1] = Visit("procedure_ends", p, 0)
  <2>1. Visit("procedure_ends", p, 0) \in AllVisits
    BY <1>1, VisitTyped
  <2> QED
    BY <1>3, <2>1
<1>6. PICK t : t = Generated(p)
  OBVIOUS
<1>7. t \in Seq(AllVisits) /\ Joins(t, u, d)
  BY <1>2, <1>3, <1>4, <1>5, <1>6, Joined DEF Generated
<1>8. /\ Len(t) = Len(BodyOf(p)) + 1
      /\ \A n \in 1 .. Len(BodyOf(p)) : t[n] = Visit("item", p, n)
  BY <1>4, <1>5, <1>7 DEF Joins
<1>9. t[Len(BodyOf(p)) + 1] = Visit("procedure_ends", p, 0)
  BY <1>4, <1>5, <1>7 DEF Joins
<1> QED
  BY <1>1, <1>6, <1>7, <1>8, <1>9

LEMMA GenHead ==
  ASSUME LayoutInv, TextInv, MapsOrdered, todo \in Seq(AllVisits), todo # <<>>,
         NEW k, NEW m, NEW S, GenNested(k, S), Rest(todo, Kids, k, S, m)
  PROVE  /\ k \in Nat
         /\ \/ m = 0 /\ \E c \in 1 .. Len(Kids) : c = k + 1 /\ Head(todo) = Kids[c]
            \/ \E p \in Bodies :
                 /\ k \in 1 .. Len(Kids) /\ IsBody(k, p) /\ k > NS + NG
                 /\ m \in 1 .. Len(BodyOf(p)) + 1 /\ Len(BodyOf(p)) \in Nat
                 /\ Head(todo) = Generated(p)[Len(BodyOf(p)) + 2 - m]
<1>1. S \in Seq(AllVisits)
  BY DEF GenNested
<1>2. Kids \in Seq(AllVisits) /\ NS \in Nat /\ NG \in Nat /\ Len(Kids) \in Nat
  BY KidsAt
<1>3. k \in 0 .. Len(Kids) /\ k \in Nat
  BY <1>2 DEF Rest
<1>4. ASSUME m = 0
      PROVE  \E c \in 1 .. Len(Kids) : c = k + 1 /\ Head(todo) = Kids[c]
  <2>1. Rest(todo, Kids, k, S, 0)
    BY <1>4
  <2>2. k + 1 \in 1 .. Len(Kids) /\ Head(todo) = Kids[k + 1]
    BY <1>1, <1>2, <2>1, NextChild
  <2> QED
    BY <2>2
<1>5. ASSUME m # 0
      PROVE  \E p \in Bodies :
               /\ k \in 1 .. Len(Kids) /\ IsBody(k, p) /\ k > NS + NG
               /\ m \in 1 .. Len(BodyOf(p)) + 1 /\ Len(BodyOf(p)) \in Nat
               /\ Head(todo) = Generated(p)[Len(BodyOf(p)) + 2 - m]
  <2>1. /\ m \in 1 .. Len(S) /\ Len(S) - m + 1 \in 1 .. Len(S)
        /\ Head(todo) = S[Len(S) - m + 1]
    BY <1>1, <1>2, <1>5, NextNested
  <2>2. S # <<>>
    BY <2>1
  <2>3. k \in 1 .. Len(Kids) /\ k > NS + NG
    BY <1>2, <1>3, <2>2 DEF GenNested
  <2>4. Kids[k].visit = "procedure" /\ Kids[k].id \in Bodies
    BY <2>3, KidKinds DEF Bodies
  <2>5. PICK p \in Bodies : IsBody(k, p)
    BY <2>4 DEF IsBody
  <2>6. S = Generated(p)
    BY <2>3, <2>5 DEF GenNested
  <2>7. Len(BodyOf(p)) \in Nat /\ Len(S) = Len(BodyOf(p)) + 1
    BY <2>6, GeneratedIs
  <2>8. m \in 1 .. Len(BodyOf(p)) + 1 /\ Len(S) - m + 1 = Len(BodyOf(p)) + 2 - m
    BY <2>1, <2>7
  <2> QED
    BY <2>1, <2>3, <2>5, <2>6, <2>7, <2>8
<1> QED
  BY <1>3, <1>4, <1>5

LEMMA GenChild ==
  ASSUME LayoutInv, TextInv, MapsOrdered, todo \in Seq(AllVisits), todo # <<>>,
         NEW k, NEW m, NEW S, GenNested(k, S), Rest(todo, Kids, k, S, m),
         Head(todo).visit \in {"struct", "global", "procedure"}
  PROVE  /\ m = 0 /\ k \in Nat
         /\ \E c \in 1 .. Len(Kids) : c = k + 1 /\ Head(todo) = Kids[c]
<1>1. ASSUME NEW p \in Bodies, Len(BodyOf(p)) \in Nat, m \in 1 .. Len(BodyOf(p)) + 1,
             Head(todo) = Generated(p)[Len(BodyOf(p)) + 2 - m]
      PROVE  FALSE
  <2>1. PICK n : n = Len(BodyOf(p)) + 2 - m
    OBVIOUS
  <2>2. n \in 1 .. Len(BodyOf(p)) \/ n = Len(BodyOf(p)) + 1
    BY <1>1, <2>1
  <2>3. Head(todo) = Visit("item", p, n) \/ Head(todo) = Visit("procedure_ends", p, 0)
    BY <1>1, <2>1, <2>2, GeneratedIs
  <2> QED
    BY <2>3 DEF Visit
<1> QED
  BY <1>1, GenHead

LEMMA GenInner ==
  ASSUME LayoutInv, TextInv, MapsOrdered, todo \in Seq(AllVisits), todo # <<>>,
         NEW k, NEW m, NEW S, GenNested(k, S), Rest(todo, Kids, k, S, m),
         Head(todo).visit \in {"item", "procedure_ends"}
  PROVE  /\ k \in Nat
         /\ \E p \in Bodies :
              /\ k \in 1 .. Len(Kids) /\ IsBody(k, p) /\ k > NS + NG
              /\ m \in Nat /\ Head(todo).id = p
              /\ Head(todo).visit = "procedure_ends" => m = 1
              /\ Head(todo).visit = "item" =>
                   \E n \in 1 .. Len(BodyOf(p)) :
                     n + m = Len(BodyOf(p)) + 2 /\ m > 1 /\ Head(todo).n = n
<1>1. \A c \in 1 .. Len(Kids) : Head(todo) # Kids[c]
  BY KidKinds
<1>2. k \in Nat /\ \E p \in Bodies :
        /\ k \in 1 .. Len(Kids) /\ IsBody(k, p) /\ k > NS + NG
        /\ m \in 1 .. Len(BodyOf(p)) + 1 /\ Len(BodyOf(p)) \in Nat
        /\ Head(todo) = Generated(p)[Len(BodyOf(p)) + 2 - m]
  BY <1>1, GenHead
<1>3. PICK p \in Bodies :
        /\ k \in 1 .. Len(Kids) /\ IsBody(k, p) /\ k > NS + NG
        /\ m \in 1 .. Len(BodyOf(p)) + 1 /\ Len(BodyOf(p)) \in Nat
        /\ Head(todo) = Generated(p)[Len(BodyOf(p)) + 2 - m]
  BY <1>2
<1>4. PICK n : n = Len(BodyOf(p)) + 2 - m
  OBVIOUS
<1>5. m \in Nat
  BY <1>3
<1>6. CASE n \in 1 .. Len(BodyOf(p))
  <2>1. Head(todo) = Visit("item", p, n)
    BY <1>3, <1>4, <1>6, GeneratedIs
  <2>2. Head(todo).visit = "item" /\ Head(todo).id = p /\ Head(todo).n = n
    BY <2>1 DEF Visit
  <2>3. n + m = Len(BodyOf(p)) + 2 /\ m > 1
    BY <1>3, <1>4, <1>6
  <2> QED
    BY <1>2, <1>3, <1>5, <1>6, <2>2, <2>3
<1>7. CASE n = Len(BodyOf(p)) + 1
  <2>1. Head(todo) = Visit("procedure_ends", p, 0)
    BY <1>3, <1>4, <1>7, GeneratedIs
  <2>2. Head(todo).visit = "procedure_ends" /\ Head(todo).id = p
    BY <2>1 DEF Visit
  <2>3. m = 1
    BY <1>3, <1>4, <1>7
  <2> QED
    BY <1>2, <1>3, <1>5, <2>2, <2>3
<1> QED
  BY <1>3, <1>4, <1>6, <1>7

LEMMA GenNext ==
  ASSUME LayoutInv, TextInv, MapsOrdered, todo \in Seq(AllVisits), todo # <<>>,
         UNCHANGED <<treeVars, order>>,
         NEW k, NEW S, GenNested(k, S), Rest(todo, Kids, k, S, 0),
         NEW c, c = k + 1, NEW T, GenNested(c, T), todo' = T \o Tail(todo)
  PROVE  todo' \in Seq(AllVisits) /\ GenNested(c, T)' /\ Rest(todo', Kids', c, T, Len(T))
<1>1. S \in Seq(AllVisits) /\ T \in Seq(AllVisits)
  BY DEF GenNested
<1>2. Kids \in Seq(AllVisits) /\ Kids' = Kids
  BY KidsAt, Static
<1>3. \A N \in Seq(AllVisits) : \A t2 : t2 = N \o Tail(todo) =>
        t2 \in Seq(AllVisits) /\ Rest(t2, Kids, k + 1, N, Len(N))
  BY <1>1, <1>2, NextChild, Zenon
<1>4. todo' \in Seq(AllVisits) /\ Rest(todo', Kids, k + 1, T, Len(T))
  BY <1>1, <1>3
<1>5. GenNested(c, T)'
  BY StaticNames
<1> QED
  BY <1>2, <1>4, <1>5

LEMMA GenPassed ==
  ASSUME LayoutInv, TextInv, MapsOrdered, todo \in Seq(AllVisits), UNCHANGED <<treeVars, order>>,
         NEW k, NEW m, NEW S, GenNested(k, S), Rest(todo, Kids, k, S, m), m # 0,
         todo' = <<>> \o Tail(todo)
  PROVE  todo' \in Seq(AllVisits) /\ GenNested(k, S)' /\ Rest(todo', Kids', k, S, m - 1)
<1>1. S \in Seq(AllVisits)
  BY DEF GenNested
<1>2. Kids \in Seq(AllVisits) /\ Kids' = Kids
  BY KidsAt, Static
<1>3. \A t2 : t2 = <<>> \o Tail(todo) =>
        t2 \in Seq(AllVisits) /\ Rest(t2, Kids, k, S, m - 1)
  BY <1>1, <1>2, NextNested, Zenon
<1>4. todo' \in Seq(AllVisits) /\ Rest(todo', Kids, k, S, m - 1)
  BY <1>3, Zenon
<1>5. GenNested(k, S)'
  BY StaticNames
<1> QED
  BY <1>2, <1>4, <1>5

\* The rest of GenInv while CodeGen goes on.
LEMMA StillGenerating ==
  ASSUME GenInv, phase = "generating", UNCHANGED <<phase, error>>,
         NamedSound', ReachedSound', todo' \in Seq(AllVisits), \E k, m, S : GeneratedTo(k, m, S)'
  PROVE  GenInv'
BY DEF GenInv

LEMMA CgStructGens ==
  ASSUME LayoutInv, TextInv, CheckInv, GenInv, CgStruct
  PROVE  GenInv' /\ phase' = "generating"
<1>1. /\ phase = "generating" /\ todo # <<>> /\ Head(todo).visit = "struct"
      /\ UNCHANGED <<treeVars, order, type, named, named_values, old_named_values, reached>>
      /\ struct_types' = struct_types \cup {Head(todo).id}
  BY DEF CgStruct, Visiting, checkVars
<1>2. MapsOrdered /\ todo \in Seq(AllVisits) /\ NamedSound /\ ReachedSound /\ AllChecked
  BY <1>1 DEF TextInv, CheckInv, GenInv
<1>3. PICK k, m, S : GeneratedTo(k, m, S)
  BY <1>1 DEF GenInv
<1>4. GenNested(k, S) /\ Rest(todo, Kids, k, S, m)
  BY <1>3 DEF GeneratedTo
<1>5. m = 0 /\ k \in Nat /\ \E c \in 1 .. Len(Kids) : c = k + 1 /\ Head(todo) = Kids[c]
  BY <1>1, <1>2, <1>4, GenChild
<1>6. PICK c \in 1 .. Len(Kids) : c = k + 1 /\ Head(todo) = Kids[c]
  BY <1>5
<1>7. /\ c <= NS /\ Head(todo).id = order.structs[c] /\ c \in Nat
      /\ order.structs[c] \in DOMAIN struct_defs /\ c \in 1 .. NS
      /\ NS \in Nat /\ NG \in Nat /\ Len(Kids) \in Nat
  BY <1>1, <1>2, <1>6, KidKinds, KidsAt
<1>8. Continue(<<>>)
  <2>1. FieldsEarlier(c)
    BY <1>2, <1>7 DEF AllChecked
  <2>2. PICK s : s = order.structs[c]
    OBVIOUS
  <2>3. ASSUME NEW f \in DOMAIN struct_defs[s]
        PROVE  HasLLVMType(struct_defs[s][f], struct_types')
    <3> DEFINE t == struct_defs[s][f]
    <3>1. t.ptr \/ t.name \in Basic \/ \E i \in 1 .. NS : i < c /\ t.name = order.structs[i]
      BY <2>1, <2>2 DEF FieldsEarlier
    <3>2. ASSUME NEW i \in 1 .. NS, i < c PROVE order.structs[i] \in struct_types'
      <4>1. i <= k
        BY <1>5, <1>6, <3>2
      <4> QED
        BY <1>1, <1>3, <4>1 DEF GeneratedTo
    <3> QED
      BY <3>1, <3>2 DEF HasLLVMType
  <2> QED
    BY <1>7, <2>2, <2>3 DEF CgStruct
<1>9. UNCHANGED <<phase, error>> /\ todo' = <<>> \o Tail(todo)
  BY <1>8 DEF Continue
<1>10. PICK T : T = <<>>
  OBVIOUS
<1>11. todo' \in Seq(AllVisits) /\ GenNested(c, T)' /\ Rest(todo', Kids', c, T, 0)
  <2>1. T \in Seq(AllVisits) /\ Len(T) = 0
    BY <1>10
  <2>2. \A p : ~IsBody(c, p)
    BY <1>1, <1>6 DEF IsBody
  <2>3. GenNested(c, T)
    BY <1>10, <2>1, <2>2 DEF GenNested
  <2>4. Rest(todo, Kids, k, S, 0) /\ todo' = T \o Tail(todo)
    BY <1>4, <1>5, <1>9, <1>10
  <2>5. todo' \in Seq(AllVisits) /\ GenNested(c, T)' /\ Rest(todo', Kids', c, T, Len(T))
    BY <1>1, <1>2, <1>4, <1>6, <2>3, <2>4, GenNext
  <2> QED
    BY <2>1, <2>5
<1>12. /\ NS' = NS /\ NG' = NG /\ Bodies' = Bodies /\ Kids' = Kids
       /\ struct_defs' = struct_defs /\ order' = order /\ named' = named
       /\ named_values' = named_values
       /\ \A j, p : IsBody(j, p)' <=> IsBody(j, p)
  BY <1>1, Static, StaticPasses DEF treeVars
<1>13. /\ struct_types' \subseteq DOMAIN struct_defs'
       /\ \A j \in 1 .. NS' : j <= c => order'.structs[j] \in struct_types'
  <2>1. struct_types \subseteq DOMAIN struct_defs
    BY <1>3 DEF GeneratedTo
  <2>2. ASSUME NEW j \in 1 .. NS, j <= c PROVE order.structs[j] \in struct_types'
    <3>1. j <= k \/ j = c
      BY <1>5, <1>6, <2>2
    <3> QED
      BY <1>1, <1>3, <1>7, <3>1 DEF GeneratedTo
  <2> QED
    BY <1>1, <1>7, <1>12, <2>1, <2>2
<1>14. \A i \in 1 .. NG' : ~(NS' + i <= c)
  BY <1>7, <1>12
<1>15. \A j \in 1 .. c, p \in Bodies' : ~IsBody(j, p)'
  <2> SUFFICES ASSUME NEW j \in 1 .. c, NEW p PROVE ~IsBody(j, p)
    BY <1>12
  <2>1. j \in 1 .. Len(Kids) /\ j <= NS
    BY <1>7
  <2>2. Kids[j].visit = "struct"
    BY <1>2, <2>1, KidKinds
  <2> QED
    BY <2>2 DEF IsBody
<1>16. FunctionsGenerated(c)'
  <2>1. FunctionsGenerated(k)
    BY <1>3 DEF GeneratedTo
  <2>2. 1 .. k \subseteq 1 .. c /\ (c <= NS + NG => k <= NS + NG)
    BY <1>5, <1>6, <1>7
  <2> QED
    BY <1>12, <2>1, <2>2 DEF FunctionsGenerated
<1>17. NamesKept(c, 0)'
  <2>1. k < Len(Kids)
    BY <1>5, <1>6, <1>7
  <2>2. DOMAIN named_values = {}
    BY <1>3, <1>5, <2>1 DEF GeneratedTo, NamesKept
  <2> QED
    BY <1>12, <2>2 DEF NamesKept
<1>18. GeneratedTo(c, 0, T)'
  BY <1>11, <1>13, <1>14, <1>15, <1>16, <1>17 DEF GeneratedTo
<1>19. NamedSound' /\ ReachedSound'
  BY <1>1, <1>2, NamesStay
<1> QED
  BY <1>1, <1>9, <1>11, <1>18, <1>19, StillGenerating

\* The module's variable of a global, new or with another initialiser.
LEMMA GlobalAdded ==
  ASSUME LayoutInv, TextInv, NamedSound, UNCHANGED <<treeVars, order>>, NEW i \in 1 .. NG,
         ~(global_vars[i].id \in DOMAIN named /\ named[global_vars[i].id].sort = "function"),
         named' = AddGlobal(global_vars[i])
  PROVE  /\ NamedSound'
         /\ DOMAIN named' = DOMAIN named \cup {global_vars[i].id}
         /\ named'[global_vars[i].id].sort = "variable"
         /\ \A f \in DOMAIN named : f # global_vars[i].id => named'[f] = named[f]
<1> DEFINE t == LLVMType(global_vars[i].type)
<1>1. PICK x : x = global_vars[i].id
  OBVIOUS
<1>2. /\ DOMAIN named' = DOMAIN named \cup {x}
      /\ \A f \in DOMAIN named : f # x => named'[f] = named[f]
      /\ x \in DOMAIN named => named'[x] = [named[x] EXCEPT !.init = t]
      /\ x \notin DOMAIN named => named'[x] = Variable("program", t)
  <2>1. CASE x \in DOMAIN named
    <3>1. named' = [named EXCEPT ![x] = [named[x] EXCEPT !.init = t]]
      BY <1>1, <2>1 DEF AddGlobal
    <3> QED
      BY <2>1, <3>1
  <2>2. CASE x \notin DOMAIN named
    <3>1. named' = Put(named, x, Variable("program", t))
      BY <1>1, <2>2 DEF AddGlobal
    <3> QED
      BY <2>2, <3>1 DEF Put
  <2> QED
    BY <2>1, <2>2
<1>3. PICK r : r = named'[x]
  OBVIOUS
<1>4. IsVariable(r, x)
  <2>1. CASE x \in DOMAIN named
    <3>1. PICK q : q = named[x]
      OBVIOUS
    <3>2. q.sort # "function"
      BY <1>1, <2>1, <3>1
    <3>3. IsVariable(q, x) \/ IsProcedure(q, x) \/ IsLibrary(q, x)
      BY <2>1, <3>1 DEF NamedSound
    <3>4. ~IsProcedure(q, x) /\ ~IsLibrary(q, x)
      BY <3>2 DEF IsProcedure, IsLibrary, FromLibrary, Function
    <3>5. PICK a \in 1 .. NG, b \in 1 .. NG :
            /\ global_vars[a].id = x /\ global_vars[b].id = x
            /\ q = [sort |-> "variable", of |-> "program",
                    type |-> LLVMType(global_vars[a].type),
                    init |-> LLVMType(global_vars[b].type)]
      BY <3>3, <3>4 DEF IsVariable
    <3>6. r = [sort |-> "variable", of |-> "program",
               type |-> LLVMType(global_vars[a].type), init |-> t]
      BY <1>2, <1>3, <2>1, <3>1, <3>5
    <3> QED
      BY <1>1, <3>5, <3>6 DEF IsVariable
  <2>2. CASE x \notin DOMAIN named
    <3>1. r = [sort |-> "variable", of |-> "program", type |-> t, init |-> t]
      BY <1>2, <1>3, <2>2 DEF Variable
    <3> QED
      BY <1>1, <3>1 DEF IsVariable
  <2> QED
    BY <2>1, <2>2
<1>5. r.sort = "variable"
  BY <1>4 DEF IsVariable
<1>6. NamedSound'
  <2>1. /\ \A q, f : IsVariable(q, f)' <=> IsVariable(q, f)
        /\ \A q, f : IsProcedure(q, f)' <=> IsProcedure(q, f)
        /\ \A q, f : IsLibrary(q, f)' <=> IsLibrary(q, f)
    BY StaticNames
  <2>2. ASSUME NEW f \in DOMAIN named', NEW q, q = named'[f]
        PROVE  IsVariable(q, f) \/ IsProcedure(q, f) \/ IsLibrary(q, f)
    <3>1. CASE f = x
      BY <1>3, <1>4, <2>2, <3>1
    <3>2. CASE f # x
      <4>1. f \in DOMAIN named /\ q = named[f]
        BY <1>2, <2>2, <3>2
      <4> QED
        BY <4>1 DEF NamedSound
    <3> QED
      BY <3>1, <3>2
  <2> QED
    BY <2>1, <2>2 DEF NamedSound
<1> QED
  BY <1>1, <1>2, <1>3, <1>5, <1>6

\* Once all structs have been visited, CodeGen has a type for what is known.
LEMMA TypesGenerated ==
  ASSUME LayoutInv, TextInv, MapsOrdered, NEW k \in Nat, NEW m, NEW S,
         GeneratedTo(k, m, S), k >= NS
  PROVE  \A t : HasLLVMType(t, struct_types) <=> KnownType(t) \/ t.name = "void"
<1>1. struct_types \subseteq DOMAIN struct_defs
  BY DEF GeneratedTo
<1>2. DOMAIN struct_defs \subseteq struct_types
  <2> SUFFICES ASSUME NEW s \in DOMAIN struct_defs PROVE s \in struct_types
    OBVIOUS
  <2>1. PICK j \in 1 .. NS : order.structs[j] = s
    BY DEF MapsOrdered, Orders, NS
  <2>2. NS \in Nat
    BY KidsAt
  <2>3. j <= k
    BY <2>2
  <2> QED
    BY <2>1, <2>3 DEF GeneratedTo
<1> QED
  BY <1>1, <1>2 DEF HasLLVMType, KnownType

LEMMA CgGlobalGens ==
  ASSUME LayoutInv, TextInv, CheckInv, GenInv, CgGlobal
  PROVE  GenInv' /\ (phase' = "crashed" => CrashingGlobal)
<1>1. /\ phase = "generating" /\ todo # <<>> /\ Head(todo).visit = "global"
      /\ UNCHANGED <<treeVars, order, type, struct_types, named_values, old_named_values, reached>>
  BY DEF CgGlobal, Visiting, checkVars
<1>2. /\ MapsOrdered /\ todo \in Seq(AllVisits) /\ NamedSound /\ ReachedSound /\ AllChecked
      /\ error # "unknown_function"
  BY <1>1 DEF TextInv, CheckInv, GenInv
<1>3. PICK k, m, S : GeneratedTo(k, m, S)
  BY <1>1 DEF GenInv
<1>4. GenNested(k, S) /\ Rest(todo, Kids, k, S, m)
  BY <1>3 DEF GeneratedTo
<1>5. m = 0 /\ k \in Nat /\ \E c \in 1 .. Len(Kids) : c = k + 1 /\ Head(todo) = Kids[c]
  BY <1>1, <1>2, <1>4, GenChild
<1>6. PICK c \in 1 .. Len(Kids) : c = k + 1 /\ Head(todo) = Kids[c]
  BY <1>5
<1>7. /\ NS \in Nat /\ NG \in Nat /\ Len(Kids) \in Nat /\ c \in Nat
      /\ c - NS \in 1 .. NG /\ Head(todo).n = c - NS
  BY <1>1, <1>2, <1>6, KidsAt, KidKinds
<1>8. PICK i \in 1 .. NG : i = c - NS /\ Head(todo).n = i
  BY <1>7
<1>9. k >= NS /\ c <= NS + NG /\ c > NS /\ k < Len(Kids) /\ c = NS + i /\ k < NS + NG
  BY <1>5, <1>6, <1>7, <1>8
<1>10. PICK g : g = global_vars[i]
  OBVIOUS
<1>11. /\ DOMAIN global_vars = 1 .. NG /\ g \in Range(global_vars) /\ g.type.name # "void"
  <2>1. DOMAIN global_vars = 1 .. NG /\ g.type \in Type
    BY <1>10, Named
  <2> QED
    BY <1>10, <2>1 DEF Range, Type
<1>12. HasLLVMType(g.type, struct_types) <=> KnownType(g.type)
  BY <1>2, <1>3, <1>5, <1>9, <1>11, TypesGenerated
<1>13. KnownType(g.type) <=> ~Undefined(g.type)
  BY <1>1, TextOf
<1>14. ReachedSound'
  BY <1>1, <1>2, NamesStay
<1>15. ASSUME ~HasLLVMType(g.type, struct_types), Stop("failed", "unknown_type"), UNCHANGED named
       PROVE  GenInv' /\ phase' # "crashed"
  <2>1. phase' = "failed" /\ error' = "unknown_type"
    BY <1>15 DEF Stop
  <2>2. UncheckedDefinition
    BY <1>11, <1>12, <1>13, <1>15 DEF UncheckedDefinition
  <2>3. UncheckedDefinition' /\ NamedSound'
    BY <1>1, <1>2, <1>15, <2>2, StaticNames, NamesStay
  <2> QED
    BY <1>14, <2>1, <2>3 DEF GenInv
<1>16. ASSUME g.id \in DOMAIN named, named[g.id].sort = "function",
              Stop("crashed", "no_variable"), UNCHANGED named
       PROVE  GenInv' /\ CrashingGlobal
  <2>1. phase' = "crashed" /\ error' = "no_variable"
    BY <1>16 DEF Stop
  <2>2. g.id \in DOMAIN Runtime
    <3>1. FunctionsGenerated(k)
      BY <1>3 DEF GeneratedTo
    <3>2. k <= NS + NG
      BY <1>5, <1>7, <1>9
    <3> QED
      BY <1>16, <3>1, <3>2 DEF FunctionsGenerated
  <2>3. CrashingGlobal
    BY <1>10, <2>2 DEF CrashingGlobal
  <2>4. NamedSound'
    BY <1>1, <1>2, <1>16, NamesStay
  <2> QED
    BY <1>14, <2>1, <2>3, <2>4 DEF GenInv
<1>17. ASSUME HasLLVMType(g.type, struct_types),
              ~(g.id \in DOMAIN named /\ named[g.id].sort = "function"),
              named' = AddGlobal(g),
              CASE g.val.kind \in {"read", "logical"} -> Stop("crashed", "no_block")
                [] g.val.kind = "new" -> Stop("failed", "not_a_constant")
                [] OTHER -> Continue(<<>>)
       PROVE  GenInv' /\ (phase' = "crashed" => CrashingGlobal)
  <2>1. /\ NamedSound'
        /\ DOMAIN named' = DOMAIN named \cup {g.id}
        /\ named'[g.id].sort = "variable"
        /\ \A f \in DOMAIN named : f # g.id => named'[f] = named[f]
    BY <1>1, <1>2, <1>10, <1>17, GlobalAdded
  <2>2. CASE g.val.kind \in {"read", "logical"}
    <3>1. phase' = "crashed" /\ error' = "no_block"
      BY <1>17, <2>2 DEF Stop
    <3>2. CrashingGlobal
      BY <1>10, <2>2 DEF CrashingGlobal
    <3> QED
      BY <1>14, <2>1, <3>1, <3>2 DEF GenInv
  <2>3. CASE g.val.kind = "new"
    <3>1. phase' = "failed" /\ error' = "not_a_constant"
      BY <1>17, <2>3 DEF Stop
    <3>2. UncheckedDefinition
      BY <1>11, <2>3 DEF UncheckedDefinition
    <3>3. UncheckedDefinition'
      BY <1>1, <3>2, StaticNames
    <3> QED
      BY <1>14, <2>1, <3>1, <3>3 DEF GenInv
  <2>4. CASE g.val.kind \notin {"read", "logical", "new"}
    <3>1. UNCHANGED <<phase, error>> /\ todo' = <<>> \o Tail(todo)
      BY <1>17, <2>4 DEF Continue
    <3>2. PICK T : T = <<>>
      OBVIOUS
    <3>3. todo' \in Seq(AllVisits) /\ GenNested(c, T)' /\ Rest(todo', Kids', c, T, 0)
      <4>1. T \in Seq(AllVisits) /\ Len(T) = 0
        BY <3>2
      <4>2. \A p : ~IsBody(c, p)
        BY <1>1, <1>6 DEF IsBody
      <4>3. GenNested(c, T)
        BY <3>2, <4>1, <4>2 DEF GenNested
      <4>4. Rest(todo, Kids, k, S, 0) /\ todo' = T \o Tail(todo)
        BY <1>4, <1>5, <3>1, <3>2
      <4>5. todo' \in Seq(AllVisits) /\ GenNested(c, T)' /\ Rest(todo', Kids', c, T, Len(T))
        BY <1>1, <1>2, <1>4, <1>6, <4>3, <4>4, GenNext
      <4> QED
        BY <4>1, <4>5
    <3>4. /\ NS' = NS /\ NG' = NG /\ Bodies' = Bodies /\ Kids' = Kids
          /\ struct_defs' = struct_defs /\ order' = order /\ global_vars' = global_vars
          /\ named_values' = named_values /\ struct_types' = struct_types
          /\ \A j, p : IsBody(j, p)' <=> IsBody(j, p)
          /\ \A t : KnownType(t)' <=> KnownType(t)
      BY <1>1, Static, StaticPasses DEF treeVars
    <3>5. /\ struct_types' \subseteq DOMAIN struct_defs'
          /\ \A j \in 1 .. NS' : j <= c => order'.structs[j] \in struct_types'
      <4>1. \A j \in 1 .. NS : j <= k
        BY <1>5, <1>7, <1>9
      <4> QED
        BY <1>3, <3>4, <4>1 DEF GeneratedTo
    <3>6. \A l \in 1 .. NG' : NS' + l <= c => GlobalGenerated(l)'
      <4> SUFFICES ASSUME NEW l \in 1 .. NG, NS + l <= c PROVE GlobalGenerated(l)'
        BY <3>4
      <4>1. CASE l = i
        <5>1. KnownType(global_vars[l].type) /\ global_vars[l].val.kind # "new"
          BY <1>10, <1>12, <1>17, <2>4, <4>1
        <5> QED
          BY <1>10, <2>1, <3>4, <4>1, <5>1 DEF GlobalGenerated
      <4>2. CASE l # i
        <5>1. NS + l <= k
          BY <1>5, <1>6, <1>7, <1>9, <4>2
        <5>2. GlobalGenerated(l)
          BY <1>3, <5>1 DEF GeneratedTo
        <5> QED
          BY <2>1, <3>4, <5>2 DEF GlobalGenerated
      <4> QED
        BY <4>1, <4>2
    <3>7. \A j \in 1 .. c, p \in Bodies' : ~IsBody(j, p)'
      <4> SUFFICES ASSUME NEW j \in 1 .. c, NEW p PROVE ~IsBody(j, p)
        BY <3>4
      <4>1. j \in 1 .. Len(Kids) /\ j <= NS + NG
        BY <1>7, <1>9
      <4>2. ~(j > NS + NG)
        BY <1>7, <4>1
      <4>3. Kids[j].visit # "procedure"
        BY <1>2, <4>1, <4>2, KidKinds
      <4> QED
        BY <4>3 DEF IsBody
    <3>8. FunctionsGenerated(c)'
      <4>1. FunctionsGenerated(k)
        BY <1>3 DEF GeneratedTo
      <4>2. 1 .. k \subseteq 1 .. c /\ k <= NS + NG
        BY <1>5, <1>6, <1>7, <1>9
      <4>3. \A f \in DOMAIN named' : named'[f].sort = "function" =>
              f \in DOMAIN named /\ named'[f] = named[f]
        BY <2>1
      <4> QED
        BY <3>4, <4>1, <4>2, <4>3 DEF FunctionsGenerated
    <3>9. NamesKept(c, 0)'
      <4>1. DOMAIN named_values = {}
        BY <1>3, <1>5, <1>9 DEF GeneratedTo, NamesKept
      <4> QED
        BY <3>4, <4>1 DEF NamesKept
    <3>10. GeneratedTo(c, 0, T)'
      BY <3>3, <3>5, <3>6, <3>7, <3>8, <3>9 DEF GeneratedTo
    <3> QED
      BY <1>1, <1>14, <2>1, <3>1, <3>3, <3>10, StillGenerating
  <2> QED
    BY <2>2, <2>3, <2>4
<1>18. \/ ~HasLLVMType(g.type, struct_types) /\ Stop("failed", "unknown_type") /\ UNCHANGED named
       \/ /\ g.id \in DOMAIN named /\ named[g.id].sort = "function"
          /\ Stop("crashed", "no_variable") /\ UNCHANGED named
       \/ /\ HasLLVMType(g.type, struct_types)
          /\ ~(g.id \in DOMAIN named /\ named[g.id].sort = "function")
          /\ named' = AddGlobal(g)
          /\ CASE g.val.kind \in {"read", "logical"} -> Stop("crashed", "no_block")
               [] g.val.kind = "new" -> Stop("failed", "not_a_constant")
               [] OTHER -> Continue(<<>>)
  BY <1>8, <1>10, Zenon DEF CgGlobal
<1> QED
  BY <1>15, <1>16, <1>17, <1>18, Zenon

LEMMA LocalTypes ==
  ASSUME NEW p, NEW x \in DOMAIN Locals(p)
  PROVE  \E i \in DOMAIN ParamsOf(p) :
           ParamsOf(p)[i].id = x /\ Locals(p)[x] = ParamsOf(p)[i].type
<1>1. PICK i : i = CHOOSE j \in DOMAIN ParamsOf(p) : ParamsOf(p)[j].id = x
  OBVIOUS
<1>2. i \in DOMAIN ParamsOf(p) /\ ParamsOf(p)[i].id = x
  BY <1>1, LocalsAre
<1>3. Locals(p)[x] = ParamsOf(p)[i].type
  BY <1>1, <1>2 DEF Locals, ByName
<1> QED
  BY <1>2, <1>3

\* The module's function of a procedure, unless the name is taken.
LEMMA ProcedureAdded ==
  ASSUME LayoutInv, TextInv, NamedSound, UNCHANGED <<treeVars, order>>, NEW p \in Bodies,
         NEW t, named' = Insert(named, p, Function("program", t, Signature(p)))
  PROVE  /\ NamedSound'
         /\ DOMAIN named' = DOMAIN named \cup {p}
         /\ \A f \in DOMAIN named : named'[f] = named[f]
<1>1. /\ DOMAIN named' = DOMAIN named \cup {p}
      /\ \A f \in DOMAIN named : named'[f] = named[f]
      /\ p \notin DOMAIN named => named'[p] = Function("program", t, Signature(p))
  BY DEF Insert, Put
<1>2. /\ \A q, f : IsVariable(q, f)' <=> IsVariable(q, f)
      /\ \A q, f : IsProcedure(q, f)' <=> IsProcedure(q, f)
      /\ \A q, f : IsLibrary(q, f)' <=> IsLibrary(q, f)
  BY StaticNames
<1>3. ASSUME NEW f \in DOMAIN named', NEW q, q = named'[f]
      PROVE  IsVariable(q, f) \/ IsProcedure(q, f) \/ IsLibrary(q, f)
  <2>1. CASE f \in DOMAIN named
    <3>1. q = named[f]
      BY <1>1, <1>3, <2>1
    <3> QED
      BY <2>1, <3>1 DEF NamedSound
  <2>2. CASE f \notin DOMAIN named
    <3>1. f = p /\ q = Function("program", t, Signature(p))
      BY <1>1, <1>3, <2>2
    <3> QED
      BY <3>1 DEF IsProcedure, Function
  <2> QED
    BY <2>1, <2>2
<1>4. NamedSound'
  BY <1>2, <1>3 DEF NamedSound
<1> QED
  BY <1>1, <1>4

LEMMA CgProcedureGens ==
  ASSUME LayoutInv, TextInv, CheckInv, GenInv, CgProcedure
  PROVE  GenInv' /\ phase' # "crashed"
<1>1. /\ phase = "generating" /\ todo # <<>> /\ Head(todo).visit = "procedure"
      /\ UNCHANGED <<treeVars, order, type, struct_types, reached>>
  BY DEF CgProcedure, Visiting, checkVars
<1>2. /\ MapsOrdered /\ todo \in Seq(AllVisits) /\ NamedSound /\ ReachedSound /\ AllChecked
      /\ error # "unknown_function"
  BY <1>1 DEF TextInv, CheckInv, GenInv
<1>3. PICK k, m, S : GeneratedTo(k, m, S)
  BY <1>1 DEF GenInv
<1>4. GenNested(k, S) /\ Rest(todo, Kids, k, S, m)
  BY <1>3 DEF GeneratedTo
<1>5. m = 0 /\ k \in Nat /\ \E c \in 1 .. Len(Kids) : c = k + 1 /\ Head(todo) = Kids[c]
  BY <1>1, <1>2, <1>4, GenChild
<1>6. PICK c \in 1 .. Len(Kids) : c = k + 1 /\ Head(todo) = Kids[c]
  BY <1>5
<1>7. PICK p : p = Head(todo).id
  OBVIOUS
<1>8. /\ NS \in Nat /\ NG \in Nat /\ Len(Kids) \in Nat /\ c \in Nat /\ c > NS + NG
      /\ p \in Bodies /\ IsBody(c, p)
  BY <1>1, <1>2, <1>6, <1>7, KidsAt, KidKinds DEF Bodies, IsBody
<1>9. k >= NS /\ k < Len(Kids) /\ k >= NS + NG
  BY <1>5, <1>6, <1>8
<1>10. \A t : HasLLVMType(t, struct_types) <=> KnownType(t) \/ t.name = "void"
  BY <1>2, <1>3, <1>5, <1>9, TypesGenerated
<1>11. PICK ret : ret = IF p = "main" THEN [name |-> "int", ptr |-> FALSE] ELSE procedures[p].ret
  OBVIOUS
<1>12. PICK ps : ps = Locals(p)
  OBVIOUS
<1>13. \A x \in DOMAIN ps : HasLLVMType(ps[x], struct_types)
  <2> TAKE x \in DOMAIN ps
  <2>1. PICK i \in DOMAIN ParamsOf(p) : ps[x] = ParamsOf(p)[i].type
    BY <1>12, LocalTypes
  <2>2. ParamsPass(p)
    BY <1>2, <1>8 DEF AllChecked, AllPasses, BodyPasses
  <2> QED
    BY <1>10, <2>1, <2>2 DEF ParamsPass
<1>14. HasLLVMType(ret, struct_types) => ResultKnown(p)
  <2> SUFFICES ASSUME HasLLVMType(ret, struct_types), p # "main",
                      ~KnownType(procedures[p].ret)
               PROVE  procedures[p].ret = Void
    BY DEF ResultKnown
  <2>1. ret = procedures[p].ret /\ p \in DOMAIN procedures
    BY <1>8, <1>11 DEF Bodies
  <2>2. procedures[p].ret \in Type \cup {Void}
    BY <2>1, Named DEF ProcedureDef
  <2>3. procedures[p].ret.name = "void"
    BY <1>10, <2>1
  <2> QED
    BY <2>2, <2>3 DEF Type
<1>15. ASSUME ~HasLLVMType(ret, struct_types) PROVE UncheckedDefinition
  <2>1. p # "main"
    BY <1>10, <1>11, <1>15 DEF KnownType, Basic
  <2>2. ret = procedures[p].ret /\ p \in DOMAIN procedures
    BY <1>8, <1>11, <2>1 DEF Bodies
  <2>3. ret # Void /\ Undefined(ret)
    <3>1. ~KnownType(ret) /\ ret.name # "void"
      BY <1>10, <1>15
    <3> QED
      BY <1>1, <3>1, TextOf DEF Void
  <2> QED
    BY <2>2, <2>3 DEF UncheckedDefinition
<1>16. \/ /\ ~HasLLVMType(ret, struct_types) /\ Stop("failed", "unknown_type")
          /\ UNCHANGED <<named, named_values, old_named_values>>
       \/ /\ HasLLVMType(ret, struct_types)
          /\ named' = Insert(named, p, Function("program", LLVMType(ret), Signature(p)))
          /\ old_named_values' = named_values
          /\ named_values' = [x \in DOMAIN ps \cup DOMAIN named_values |->
                                IF x \in DOMAIN ps THEN LLVMType(ps[x]) ELSE named_values[x]]
          /\ Continue(Generated(p))
  <2>1. IF HasLLVMType(ret, struct_types) /\ \A x \in DOMAIN ps : HasLLVMType(ps[x], struct_types)
        THEN /\ named' = Insert(named, p, Function("program", LLVMType(ret), Signature(p)))
             /\ old_named_values' = named_values
             /\ named_values' = [x \in DOMAIN ps \cup DOMAIN named_values |->
                                   IF x \in DOMAIN ps THEN LLVMType(ps[x])
                                                      ELSE named_values[x]]
             /\ Continue(Generated(p))
        ELSE /\ Stop("failed", "unknown_type")
             /\ UNCHANGED <<named, named_values, old_named_values>>
    BY <1>7, <1>11, <1>12, Zenon DEF CgProcedure, Locals, Generated
  <2> QED
    BY <1>13, <2>1, Zenon
<1>17. ReachedSound'
  BY <1>1, <1>2, NamesStay
<1>18. CASE ~HasLLVMType(ret, struct_types)
  <2>1. phase' = "failed" /\ error' = "unknown_type" /\ UNCHANGED named
    BY <1>16, <1>18 DEF Stop
  <2>2. UncheckedDefinition' /\ NamedSound'
    BY <1>1, <1>2, <1>15, <1>18, <2>1, StaticNames, NamesStay
  <2> QED
    BY <1>17, <2>1, <2>2 DEF GenInv
<1>19. CASE HasLLVMType(ret, struct_types)
  <2>1. PICK T : T = Generated(p)
    OBVIOUS
  <2>2. /\ T \in Seq(AllVisits) /\ Len(BodyOf(p)) \in Nat /\ Len(T) = Len(BodyOf(p)) + 1
        /\ UNCHANGED <<phase, error>> /\ todo' = T \o Tail(todo)
    BY <1>8, <1>16, <1>19, <2>1, GeneratedIs DEF Continue
  <2>3. \A q : IsBody(c, q) => q = p
    BY <1>8 DEF IsBody
  <2>4. GenNested(c, T)
    <3>1. ~(c \in 0 .. NS + NG)
      BY <1>8
    <3> QED
      BY <2>1, <2>2, <2>3, <3>1 DEF GenNested
  <2>5. todo' \in Seq(AllVisits) /\ GenNested(c, T)' /\ Rest(todo', Kids', c, T, Len(T))
    <3>1. Rest(todo, Kids, k, S, 0)
      BY <1>4, <1>5
    <3> QED
      BY <1>1, <1>2, <1>4, <1>6, <2>2, <2>4, <3>1, GenNext
  <2>6. /\ NamedSound' /\ DOMAIN named' = DOMAIN named \cup {p}
        /\ \A f \in DOMAIN named : named'[f] = named[f]
    BY <1>1, <1>2, <1>8, <1>16, <1>19, ProcedureAdded
  <2>7. /\ NS' = NS /\ NG' = NG /\ Bodies' = Bodies /\ Kids' = Kids
        /\ struct_defs' = struct_defs /\ order' = order /\ global_vars' = global_vars
        /\ struct_types' = struct_types
        /\ \A q : BodyOf(q)' = BodyOf(q) /\ Locals(q)' = Locals(q)
        /\ \A j, q : IsBody(j, q)' <=> IsBody(j, q)
        /\ \A t : KnownType(t)' <=> KnownType(t)
        /\ \A q : ResultKnown(q)' <=> ResultKnown(q)
        /\ \A q, n : CallGenerated(q, n)' <=> CallGenerated(q, n)
    BY <1>1, Static, StaticPasses, StaticNames DEF treeVars
  <2>8. /\ struct_types' \subseteq DOMAIN struct_defs'
        /\ \A j \in 1 .. NS' : j <= c => order'.structs[j] \in struct_types'
    <3>1. \A j \in 1 .. NS : j <= k
      BY <1>5, <1>8, <1>9
    <3> QED
      BY <1>3, <2>7, <3>1 DEF GeneratedTo
  <2>9. \A i \in 1 .. NG' : NS' + i <= c => GlobalGenerated(i)'
    <3> SUFFICES ASSUME NEW i \in 1 .. NG PROVE GlobalGenerated(i)'
      BY <2>7
    <3>1. NS + i <= k
      BY <1>5, <1>8, <1>9
    <3>2. GlobalGenerated(i)
      BY <1>3, <3>1 DEF GeneratedTo
    <3> QED
      BY <2>6, <2>7, <3>2 DEF GlobalGenerated
  <2>10. \A j \in 1 .. c, q \in Bodies' : IsBody(j, q)' =>
           /\ q \in DOMAIN named' /\ ResultKnown(q)'
           /\ \A n \in 1 .. Len(BodyOf(q)') :
                j < c \/ n + Len(T) <= Len(BodyOf(q)') + 1 => CallGenerated(q, n)'
    <3> SUFFICES ASSUME NEW j \in 1 .. c, NEW q \in Bodies, IsBody(j, q)
                 PROVE  /\ q \in DOMAIN named' /\ ResultKnown(q)
                        /\ \A n \in 1 .. Len(BodyOf(q)) :
                             j < c \/ n + Len(T) <= Len(BodyOf(q)) + 1 => CallGenerated(q, n)
      BY <2>7
    <3>1. CASE j = c
      <4>1. q = p
        BY <2>3, <3>1
      <4>2. \A n \in 1 .. Len(BodyOf(q)) : ~(j < c) /\ ~(n + Len(T) <= Len(BodyOf(q)) + 1)
        BY <1>8, <2>2, <3>1, <4>1
      <4> QED
        BY <1>14, <1>19, <2>6, <4>1, <4>2
    <3>2. CASE j # c
      <4>1. j \in 1 .. k /\ Len(BodyOf(q)) \in Nat
        BY <1>5, <1>6, <1>8, <3>2, BodyTyped
      <4>2. \A n \in 1 .. Len(BodyOf(q)) : n + m <= Len(BodyOf(q)) + 1
        BY <1>5, <4>1
      <4> QED
        BY <1>3, <2>6, <4>1, <4>2 DEF GeneratedTo
    <3> QED
      BY <3>1, <3>2
  <2>11. FunctionsGenerated(c)'
    <3>1. FunctionsGenerated(k)
      BY <1>3 DEF GeneratedTo
    <3>2. 1 .. k \subseteq 1 .. c /\ ~(c <= NS + NG) /\ c \in 1 .. c
      BY <1>5, <1>6, <1>8
    <3>3. ASSUME NEW f \in DOMAIN named', named'[f].of = "program", named'[f].sort = "function"
          PROVE  \E j \in 1 .. c : IsBody(j, f)
      <4>1. CASE f \in DOMAIN named
        <5>1. named[f].of = "program" /\ named[f].sort = "function"
          BY <2>6, <3>3, <4>1
        <5>2. PICK j \in 1 .. k : IsBody(j, f)
          BY <3>1, <4>1, <5>1 DEF FunctionsGenerated
        <5> QED
          BY <3>2, <5>2
      <4>2. CASE f = p
        BY <1>8, <3>2, <4>2
      <4> QED
        BY <2>6, <3>3, <4>1, <4>2
    <3> QED
      BY <2>7, <3>2, <3>3 DEF FunctionsGenerated
  <2>12. NamesKept(c, Len(T))'
    <3>1. DOMAIN named_values = {}
      BY <1>3, <1>5, <1>9 DEF GeneratedTo, NamesKept
    <3>2. /\ DOMAIN named_values' = DOMAIN ps /\ DOMAIN old_named_values' = {}
          /\ \A x \in DOMAIN ps : named_values'[x] = LLVMType(ps[x])
      BY <1>16, <1>19, <3>1
    <3>3. NamesAre(p)'
      BY <1>12, <2>7, <3>2 DEF NamesAre
    <3>4. Len(T) # 0
      BY <2>2
    <3>5. \A q \in Bodies' : IsBody(c, q)' => q = p
      BY <2>3, <2>7
    <3>6. \A q \in Bodies' : IsBody(c, q)' => NamesAre(q)'
      <4> TAKE q \in Bodies'
      <4> HAVE IsBody(c, q)'
      <4>1. q = p
        BY <3>5
      <4> QED
        BY <3>3, <4>1
    <3> QED
      BY <3>2, <3>4, <3>6 DEF NamesKept
  <2>13. GeneratedTo(c, Len(T), T)'
    BY <2>5, <2>8, <2>9, <2>10, <2>11, <2>12 DEF GeneratedTo
  <2> QED
    BY <1>1, <1>17, <2>2, <2>5, <2>6, <2>13, StillGenerating
<1> QED
  BY <1>18, <1>19

LEMMA CgProcedureEndsGens ==
  ASSUME LayoutInv, TextInv, CheckInv, GenInv, CgProcedureEnds
  PROVE  GenInv' /\ phase' # "crashed"
<1>1. /\ phase = "generating" /\ todo # <<>> /\ Head(todo).visit = "procedure_ends"
      /\ UNCHANGED <<treeVars, order, type, struct_types, named, old_named_values, reached>>
      /\ UNCHANGED <<phase, error>> /\ todo' = <<>> \o Tail(todo)
      /\ named_values' = NamesAfter(Head(todo).id)
  BY DEF CgProcedureEnds, Visiting, Continue, checkVars
<1>2. /\ MapsOrdered /\ todo \in Seq(AllVisits) /\ NamedSound /\ ReachedSound
  BY <1>1 DEF TextInv, CheckInv, GenInv
<1>3. PICK k, m, S : GeneratedTo(k, m, S)
  BY <1>1 DEF GenInv
<1>4. GenNested(k, S) /\ Rest(todo, Kids, k, S, m)
  BY <1>3 DEF GeneratedTo
<1>5. /\ k \in Nat
      /\ \E p \in Bodies : /\ k \in 1 .. Len(Kids) /\ IsBody(k, p) /\ k > NS + NG
                           /\ Head(todo).id = p /\ m = 1
  BY <1>1, <1>2, <1>4, GenInner
<1>6. PICK p \in Bodies : /\ k \in 1 .. Len(Kids) /\ IsBody(k, p) /\ k > NS + NG
                          /\ Head(todo).id = p /\ m = 1
  BY <1>5
<1>7. todo' \in Seq(AllVisits) /\ GenNested(k, S)' /\ Rest(todo', Kids', k, S, 0)
  <2>1. todo' \in Seq(AllVisits) /\ GenNested(k, S)' /\ Rest(todo', Kids', k, S, m - 1)
    BY <1>1, <1>2, <1>4, <1>6, GenPassed
  <2>2. m - 1 = 0
    BY <1>6
  <2> QED
    BY <2>1, <2>2
<1>8. /\ NS' = NS /\ NG' = NG /\ Bodies' = Bodies /\ Kids' = Kids
      /\ struct_defs' = struct_defs /\ order' = order /\ global_vars' = global_vars
      /\ struct_types' = struct_types /\ named' = named
      /\ \A q : BodyOf(q)' = BodyOf(q)
      /\ \A j, q : IsBody(j, q)' <=> IsBody(j, q)
      /\ \A t : KnownType(t)' <=> KnownType(t)
      /\ \A q : ResultKnown(q)' <=> ResultKnown(q)
      /\ \A q, n : CallGenerated(q, n)' <=> CallGenerated(q, n)
  BY <1>1, Static, StaticPasses, StaticNames DEF treeVars
<1>9. /\ struct_types' \subseteq DOMAIN struct_defs'
      /\ \A j \in 1 .. NS' : j <= k => order'.structs[j] \in struct_types'
      /\ \A i \in 1 .. NG' : NS' + i <= k => GlobalGenerated(i)'
  BY <1>3, <1>8 DEF GeneratedTo, GlobalGenerated
<1>10. \A j \in 1 .. k, q \in Bodies' : IsBody(j, q)' =>
         /\ q \in DOMAIN named' /\ ResultKnown(q)'
         /\ \A n \in 1 .. Len(BodyOf(q)') :
              j < k \/ n + 0 <= Len(BodyOf(q)') + 1 => CallGenerated(q, n)'
  <2> SUFFICES ASSUME NEW j \in 1 .. k, NEW q \in Bodies, IsBody(j, q)
               PROVE  /\ q \in DOMAIN named /\ ResultKnown(q)
                      /\ \A n \in 1 .. Len(BodyOf(q)) : CallGenerated(q, n)
    BY <1>8
  <2>1. Len(BodyOf(q)) \in Nat
    BY BodyTyped
  <2>2. \A n \in 1 .. Len(BodyOf(q)) : n + m <= Len(BodyOf(q)) + 1
    BY <1>6, <2>1
  <2> QED
    BY <1>3, <2>2 DEF GeneratedTo
<1>11. FunctionsGenerated(k)'
  BY <1>3, <1>8 DEF GeneratedTo, FunctionsGenerated
<1>12. NamesKept(k, 0)'
  <2> SUFFICES ASSUME k < Len(Kids) PROVE DOMAIN named_values' = {}
    BY <1>8 DEF NamesKept
  <2>1. p # "main"
    BY <1>2, <1>6, KidKinds, Named DEF IsBody
  <2>2. named_values' = old_named_values
    BY <1>1, <1>6, <2>1 DEF NamesAfter
  <2>3. DOMAIN old_named_values = {}
    BY <1>3, <1>6 DEF GeneratedTo, NamesKept
  <2> QED
    BY <2>2, <2>3
<1>13. GeneratedTo(k, 0, S)'
  BY <1>7, <1>9, <1>10, <1>11, <1>12 DEF GeneratedTo
<1>14. NamedSound' /\ ReachedSound'
  BY <1>1, <1>2, NamesStay
<1> QED
  BY <1>1, <1>7, <1>13, <1>14, StillGenerating

\* Where a procedure stands in the map's order.
LEMMA PositionIs ==
  ASSUME LayoutInv, TextInv, MapsOrdered, NEW j \in 1 .. Len(Kids),
         NEW q \in DOMAIN procedures, IsBody(j, q)
  PROVE  Position(order.procedures, q) = j - (NS + NG) /\ j < Len(Kids)
<1>1. q # "main"
  BY Named
<1>2. /\ j - (NS + NG) \in 1 .. NP /\ q = order.procedures[j - (NS + NG)] /\ j < Len(Kids)
  BY <1>1, KidKinds DEF IsBody
<1>3. PICK i : i = j - (NS + NG)
  OBVIOUS
<1>4. /\ order.procedures \in Seq(DOMAIN procedures) /\ NP = Len(order.procedures)
      /\ \A a, b \in 1 .. NP : a # b => order.procedures[a] # order.procedures[b]
  BY DEF MapsOrdered, Orders, NP
<1>5. DOMAIN order.procedures = 1 .. NP
  BY <1>4
<1>6. \A a \in DOMAIN order.procedures : order.procedures[a] = q <=> a = i
  BY <1>2, <1>3, <1>4, <1>5
<1>7. Position(order.procedures, q) = i
  BY <1>2, <1>3, <1>5, <1>6 DEF Position
<1> QED
  BY <1>2, <1>3, <1>7

LEMMA CallReaches ==
  ASSUME LayoutInv, TextInv, MapsOrdered, NamedSound, NEW k, NEW m, NEW S,
         GeneratedTo(k, m, S), k \in 1 .. Len(Kids), NEW p \in Bodies, IsBody(k, p),
         NEW n \in 1 .. Len(BodyOf(p)), ItemPasses(p, n), BodyOf(p)[n].op = "call",
         NEW f, f = BodyOf(p)[n].id
  PROVE  /\ IsFunction(f) => Reaches(p, n, named[f]) /\ CallGenerated(p, n)
         /\ ~IsFunction(f) => SomeCalledEarly
<1>1. /\ f \in DOMAIN procedures /\ f \notin DOMAIN symbol_table /\ f # "main"
      /\ BodyOf(p)[n].args = <<>> \/ ArgsFit(BodyOf(p)[n].args, procedures[f].params)
  BY Named DEF ItemPasses, CallPasses
<1>2. PICK params : params = procedures[f].params
  OBVIOUS
<1>3. PICK args : args = BodyOf(p)[n].args
  OBVIOUS
<1>4. /\ LastOf("procedure", f).params = params
      /\ params \in Seq([id : STRING, type : Type]) /\ args \in Seq(Type)
      /\ Signature(f) = [i \in DOMAIN params |-> LLVMType(params[i].type)]
  <2>1. LastOf("procedure", f) = procedures[f] /\ procedures[f] \in ProcedureDef
    BY <1>1, TextOf, Named
  <2>2. ParamsOf(f) = params
    BY <1>1, <1>2 DEF ParamsOf
  <2> QED
    BY <1>2, <1>3, <2>1, <2>2, BodyTyped DEF ProcedureDef, Signature
<1>5. args # <<>> => [i \in DOMAIN args |-> LLVMType(args[i])]
                     = [i \in DOMAIN params |-> LLVMType(params[i].type)]
  <2> HAVE args # <<>>
  <2>1. ArgsFit(args, params)
    BY <1>1, <1>2, <1>3
  <2>2. args = [i \in DOMAIN params |-> params[i].type]
    BY <1>4, <2>1, ArgsAre, ZenonT(60)
  <2> QED
    BY <2>2
<1>6. f \notin {global_vars[i].id : i \in 1 .. NG}
  <2>1. DOMAIN global_vars = 1 .. NG
    BY Named
  <2> QED
    BY <1>1, <2>1 DEF TextInv, GlobalsText
<1>7. \A r : ~IsVariable(r, f)
  BY <1>6 DEF IsVariable
<1>8. k \in Nat /\ Len(Kids) \in Nat /\ NS \in Nat /\ NG \in Nat
  BY KidsAt
<1>9. ASSUME NEW j \in 1 .. Len(Kids), IsBody(j, f), p # "main"
      PROVE  /\ Position(order.procedures, f) = j - (NS + NG)
             /\ Position(order.procedures, p) = k - (NS + NG)
  BY <1>1, <1>9, PositionIs DEF Bodies
<1>10. ASSUME IsFunction(f) PROVE Reaches(p, n, named[f]) /\ CallGenerated(p, n)
  <2>1. PICK r : r = named[f]
    OBVIOUS
  <2>2. f \in DOMAIN named /\ r.sort = "function"
    BY <1>10, <2>1 DEF IsFunction
  <2>3. IsProcedure(r, f) \/ IsLibrary(r, f)
    BY <1>7, <2>1, <2>2 DEF NamedSound
  <2>4. CASE IsProcedure(r, f)
    <3>1. r.of = "program" /\ r.params = [i \in DOMAIN params |-> LLVMType(params[i].type)]
      BY <1>4, <2>4 DEF IsProcedure
    <3>2. args # <<>> => r.params = [i \in DOMAIN args |-> LLVMType(args[i])]
      BY <1>5, <3>1
    <3>3. LastOf("procedure", f).params = params
      BY <1>4
    <3>4. Reaches(p, n, r)
      BY <1>3, <3>1, <3>2, <3>3 DEF Reaches, LibraryOps
    <3>5. PICK j \in 1 .. k : IsBody(j, f)
      BY <2>1, <2>2, <3>1 DEF GeneratedTo, FunctionsGenerated
    <3>6. j \in 1 .. Len(Kids) /\ j <= k /\ j \in Nat
      BY <1>8, <3>5
    <3>7. CallGenerated(p, n)
      <4> SUFFICES ASSUME CalledEarly(p, f) PROVE FALSE
        BY DEF CallGenerated
      <4>1. /\ p # "main"
            /\ Position(order.procedures, p) < Position(order.procedures, f)
        BY DEF CalledEarly
      <4>2. /\ Position(order.procedures, f) = j - (NS + NG)
            /\ Position(order.procedures, p) = k - (NS + NG)
        BY <1>9, <3>5, <3>6, <4>1
      <4> QED
        BY <1>8, <3>6, <4>1, <4>2
    <3> QED
      BY <2>1, <3>4, <3>7
  <2>5. CASE IsLibrary(r, f)
    <3>1. r.of = "library" /\ LibraryInUse(f)
      BY <2>5 DEF IsLibrary, FromLibrary, Function
    <3>2. Reaches(p, n, r)
      BY <3>1 DEF Reaches, LibraryOps
    <3>3. CallGenerated(p, n)
      BY <3>1 DEF CallGenerated
    <3> QED
      BY <2>1, <3>2, <3>3
  <2> QED
    BY <2>3, <2>4, <2>5
<1>11. ASSUME ~IsFunction(f) PROVE SomeCalledEarly
  <2>1. \A j \in 1 .. k : ~IsBody(j, f)
    <3> SUFFICES ASSUME NEW j \in 1 .. k, IsBody(j, f) PROVE FALSE
      OBVIOUS
    <3>1. f \in DOMAIN named
      BY <1>1 DEF GeneratedTo, Bodies
    <3>2. PICK r : r = named[f]
      OBVIOUS
    <3>3. r.sort # "function"
      BY <1>11, <3>1, <3>2 DEF IsFunction
    <3>4. IsProcedure(r, f) \/ IsLibrary(r, f)
      BY <1>7, <3>1, <3>2 DEF NamedSound
    <3> QED
      BY <3>3, <3>4 DEF IsProcedure, IsLibrary, FromLibrary, Function
  <2>2. PICK j \in 1 .. Len(Kids) : IsBody(j, f)
    BY <1>1, BodiesVisited DEF Bodies, IsBody
  <2>3. j > k /\ j \in Nat
    BY <1>8, <2>1, <2>2
  <2>4. p # "main"
    BY <1>1, <1>8, <2>2, <2>3, PositionIs, KidKinds, Named DEF IsBody
  <2>5. Position(order.procedures, p) < Position(order.procedures, f)
    BY <1>8, <1>9, <2>2, <2>3, <2>4
  <2>6. f \in Calls(p)
    <3>1. n \in DOMAIN BodyOf(p)
      BY BodyTyped
    <3> QED
      BY <3>1 DEF Calls
  <2>7. CalledEarly(p, f) /\ p \in DOMAIN procedures
    BY <2>4, <2>5, <2>6 DEF CalledEarly, Bodies
  <2> QED
    BY <1>1, <2>7 DEF SomeCalledEarly
<1> QED
  BY <1>10, <1>11

LEMMA LoadReaches ==
  ASSUME LayoutInv, TextInv, MapsOrdered, TypesDeclared, NamedSound, NEW k, NEW m, NEW S,
         GeneratedTo(k, m, S), k \in 1 .. Len(Kids), k > NS + NG,
         NEW p \in Bodies, NamesAre(p), NEW n \in 1 .. Len(BodyOf(p)), ItemPasses(p, n),
         LoadTyped(p, n), BodyOf(p)[n].op = "load", NEW x, x = BodyOf(p)[n].id
  PROVE  /\ x \in DOMAIN named_values => Reaches(p, n, Variable("local", named_values[x]))
         /\ x \notin DOMAIN named_values =>
              /\ x \in DOMAIN named /\ named[x].sort = "variable"
              /\ Reaches(p, n, named[x])
<1>1. PICK t : t = type[<<p, n>>]
  OBVIOUS
<1>2. t = TypeOf(p, x)
  BY <1>1 DEF TypesDeclared, LoadTyped
<1>3. x \in DOMAIN named_values <=> x \in DOMAIN Locals(p)
  BY DEF NamesAre
<1>4. ASSUME x \in DOMAIN Locals(p)
      PROVE  Reaches(p, n, Variable("local", named_values[x]))
  <2>1. PICK r : r = Variable("local", named_values[x])
    OBVIOUS
  <2>2. r.type = LLVMType(t)
    <3>1. named_values[x] = LLVMType(Locals(p)[x]) /\ t = Locals(p)[x]
      BY <1>2, <1>4 DEF NamesAre, TypeOf
    <3> QED
      BY <2>1, <3>1 DEF Variable
  <2>3. Reaches(p, n, r)
    BY <1>1, <2>2 DEF Reaches, LibraryOps
  <2> QED
    BY <2>1, <2>3
<1>5. ASSUME x \notin DOMAIN Locals(p)
      PROVE  /\ x \in DOMAIN named /\ named[x].sort = "variable"
             /\ Reaches(p, n, named[x])
  <2>1. x \in DOMAIN symbol_table /\ t = symbol_table[x]
    BY <1>2, <1>5 DEF ItemPasses, TypeOf
  <2>2. PICK i \in DOMAIN source : IsOf(i, "global", x) /\ t = source[i].type
    BY <2>1 DEF TextInv, GlobalsText
  <2>3. DOMAIN global_vars = 1 .. NG
    BY Named
  <2>4. PICK j \in 1 .. NG : global_vars[j] = source[i]
    BY <2>2, <2>3 DEF TextInv, GlobalsText, IsOf
  <2>5. global_vars[j].id = x /\ NS + j <= k
    <3>1. k \in Nat /\ NS \in Nat /\ NG \in Nat
      BY KidsAt
    <3> QED
      BY <2>2, <2>4, <3>1 DEF IsOf
  <2>6. x \in DOMAIN named /\ named[x].sort = "variable"
    BY <2>5 DEF GeneratedTo, GlobalGenerated
  <2>7. PICK r : r = named[x]
    OBVIOUS
  <2>8. PICK a \in 1 .. NG : /\ global_vars[a].id = x /\ r.of = "program"
                             /\ r.type = LLVMType(global_vars[a].type)
    <3>1. IsVariable(r, x)
      BY <2>6, <2>7 DEF NamedSound, IsProcedure, IsLibrary, FromLibrary, Function
    <3> QED
      BY <3>1 DEF IsVariable
  <2>9. ASSUME OneType(x) PROVE r.type = LLVMType(t)
    <3>1. PICK b \in DOMAIN source : source[b].def = "global" /\ global_vars[a] = source[b]
      BY <2>3 DEF TextInv, GlobalsText
    <3>2. b \in Defines("global", x) /\ i \in Defines("global", x)
      BY <2>2, <2>8, <3>1 DEF Defines, IsOf
    <3>3. source[b].type = source[i].type
      BY <2>9, <3>2 DEF OneType
    <3> QED
      BY <2>2, <2>8, <3>1, <3>3
  <2>10. Reaches(p, n, r)
    BY <1>1, <2>8, <2>9 DEF Reaches, LibraryOps
  <2> QED
    BY <2>6, <2>7, <2>10
<1> QED
  BY <1>3, <1>4, <1>5

\* What print, read and ^^ reach, and what the module has by that name afterwards.
LEMMA LibraryReaches ==
  ASSUME LayoutInv, TextInv, NamedSound, UNCHANGED <<treeVars, order>>,
         NEW p \in Bodies, NEW n \in 1 .. Len(BodyOf(p)), BodyOf(p)[n].op \in LibraryOps,
         NEW f, f = LibraryName[BodyOf(p)[n].op],
         NEW r, r = IF IsFunction(f) THEN named[f]
                    ELSE IF f \in DOMAIN named THEN Renamed ELSE FromLibrary,
         named' = IF IsFunction(f) THEN named ELSE Insert(named, f, FromLibrary)
  PROVE  /\ Reaches(p, n, r) /\ CallGenerated(p, n) /\ NamedSound'
         /\ DOMAIN named \subseteq DOMAIN named'
         /\ \A g \in DOMAIN named : named'[g] = named[g]
         /\ \A g \in DOMAIN named' : g \notin DOMAIN named => named'[g] = FromLibrary
<1>1. PICK op : op = BodyOf(p)[n].op
  OBVIOUS
<1>2. op \in LibraryOps /\ op \notin {"call", "load"} /\ f = LibraryName[op] /\ f # "main"
  BY <1>1 DEF LibraryOps, LibraryName
<1>3. LibraryInUse(f)
  <2>1. p \in BodiesIn(op)
    BY <1>1, BodyTyped DEF BodiesIn, Bodies
  <2> QED
    BY <1>2, <2>1 DEF LibraryInUse
<1>4. /\ DOMAIN named \subseteq DOMAIN named'
      /\ \A g \in DOMAIN named : named'[g] = named[g]
      /\ \A g \in DOMAIN named' : g \notin DOMAIN named => named'[g] = FromLibrary /\ g = f
  BY DEF IsFunction, Insert, Put
<1>5. NamedSound'
  <2>1. /\ \A q, g : IsVariable(q, g)' <=> IsVariable(q, g)
        /\ \A q, g : IsProcedure(q, g)' <=> IsProcedure(q, g)
        /\ \A q, g : IsLibrary(q, g)' <=> IsLibrary(q, g)
    BY StaticNames
  <2>2. ASSUME NEW g \in DOMAIN named', NEW q, q = named'[g]
        PROVE  IsVariable(q, g) \/ IsProcedure(q, g) \/ IsLibrary(q, g)
    <3>1. CASE g \in DOMAIN named
      <4>1. q = named[g]
        BY <1>4, <2>2, <3>1
      <4> QED
        BY <3>1, <4>1 DEF NamedSound
    <3>2. CASE g \notin DOMAIN named
      <4>1. q = FromLibrary /\ g = f
        BY <1>4, <2>2, <3>2
      <4> QED
        BY <1>3, <4>1 DEF IsLibrary
    <3> QED
      BY <3>1, <3>2
  <2> QED
    BY <2>1, <2>2 DEF NamedSound
<1>6. r.of = "library" \/ \E def \in {"procedure", "global"} : Defines(def, f) # {}
  <2>1. CASE f \in DOMAIN named
    <3>1. PICK q : q = named[f]
      OBVIOUS
    <3>2. IsVariable(q, f) \/ IsProcedure(q, f) \/ IsLibrary(q, f)
      BY <2>1, <3>1 DEF NamedSound
    <3>3. CASE IsVariable(q, f)
      <4>1. PICK i \in 1 .. NG : global_vars[i].id = f
        BY <3>3 DEF IsVariable
      <4>2. PICK j \in DOMAIN source : source[j].def = "global" /\ global_vars[i] = source[j]
        BY Named DEF TextInv, GlobalsText
      <4>3. j \in Defines("global", f)
        BY <4>1, <4>2 DEF Defines
      <4> QED
        BY <4>3
    <3>4. CASE IsProcedure(q, f)
      <4>1. f \in DOMAIN procedures
        BY <1>2, <3>4 DEF IsProcedure, Bodies
      <4>2. Defines("procedure", f) # {}
        BY <4>1, TextOf
      <4> QED
        BY <4>2
    <3>5. CASE IsLibrary(q, f)
      <4>1. q.sort = "function" /\ q.of = "library"
        BY <3>5 DEF IsLibrary, FromLibrary, Function
      <4>2. r = q
        BY <2>1, <3>1, <4>1 DEF IsFunction
      <4> QED
        BY <4>1, <4>2
    <3> QED
      BY <3>2, <3>3, <3>4, <3>5
  <2>2. CASE f \notin DOMAIN named
    <3>1. r = FromLibrary
      BY <2>2, SMTT(40) DEF IsFunction
    <3> QED
      BY <3>1 DEF FromLibrary, Function
  <2> QED
    BY <2>1, <2>2
<1>7. Reaches(p, n, r)
  BY <1>1, <1>2, <1>6 DEF Reaches
<1>8. CallGenerated(p, n)
  BY <1>1, <1>2 DEF CallGenerated
<1> QED
  BY <1>4, <1>5, <1>7, <1>8

\* What CodeGen knows when it visits an item of a body.
LEMMA ItemHere ==
  ASSUME LayoutInv, TextInv, CheckInv, GenInv, phase = "generating", todo # <<>>,
         Head(todo).visit = "item", NEW k, NEW m, NEW S, GeneratedTo(k, m, S)
  PROVE  \E p \in Bodies : \E n \in 1 .. Len(BodyOf(p)) :
           /\ Head(todo).id = p /\ Head(todo).n = n
           /\ k \in 1 .. Len(Kids) /\ k > NS + NG /\ k \in Nat /\ IsBody(k, p)
           /\ m \in Nat /\ m > 1 /\ n + m = Len(BodyOf(p)) + 2
           /\ NamesAre(p) /\ DOMAIN old_named_values = {}
           /\ ItemPasses(p, n) /\ LoadTyped(p, n)
<1>1. MapsOrdered /\ todo \in Seq(AllVisits) /\ AllChecked
  BY DEF TextInv, CheckInv, GenInv
<1>2. GenNested(k, S) /\ Rest(todo, Kids, k, S, m)
  BY DEF GeneratedTo
<1>3. /\ k \in Nat
      /\ \E p \in Bodies :
           /\ k \in 1 .. Len(Kids) /\ IsBody(k, p) /\ k > NS + NG /\ m \in Nat
           /\ Head(todo).id = p
           /\ \E n \in 1 .. Len(BodyOf(p)) :
                n + m = Len(BodyOf(p)) + 2 /\ m > 1 /\ Head(todo).n = n
  BY <1>1, <1>2, GenInner
<1>4. PICK p \in Bodies :
        /\ k \in 1 .. Len(Kids) /\ IsBody(k, p) /\ k > NS + NG /\ m \in Nat
        /\ Head(todo).id = p
        /\ \E n \in 1 .. Len(BodyOf(p)) :
             n + m = Len(BodyOf(p)) + 2 /\ m > 1 /\ Head(todo).n = n
  BY <1>3
<1>5. PICK n \in 1 .. Len(BodyOf(p)) :
        n + m = Len(BodyOf(p)) + 2 /\ m > 1 /\ Head(todo).n = n
  BY <1>4
<1>6. NamesAre(p) /\ DOMAIN old_named_values = {}
  <2>1. NamesKept(k, m) /\ m > 0 /\ k > 0
    BY <1>3, <1>4, <1>5 DEF GeneratedTo
  <2> QED
    BY <1>4, <2>1 DEF NamesKept
<1>7. ItemPasses(p, n) /\ LoadTyped(p, n)
  BY <1>1 DEF AllChecked, AllPasses, BodyPasses
<1> QED
  BY <1>3, <1>4, <1>5, <1>6, <1>7

LEMMA ItemGenerated ==
  ASSUME LayoutInv, TextInv, CheckInv, GenInv, phase = "generating", todo # <<>>,
         NEW k, NEW m, NEW S, GeneratedTo(k, m, S),
         NEW p \in Bodies, NEW n \in 1 .. Len(BodyOf(p)),
         k \in 1 .. Len(Kids), k > NS + NG, IsBody(k, p), m \in Nat, m > 1,
         n + m = Len(BodyOf(p)) + 2,
         UNCHANGED <<treeVars, order, type, struct_types, named_values, old_named_values>>,
         Continue(<<>>),
         NamedSound', DOMAIN named \subseteq DOMAIN named',
         \A g \in DOMAIN named : named'[g] = named[g],
         \A g \in DOMAIN named' : g \notin DOMAIN named => named'[g] = FromLibrary,
         NEW r, reached' = Put(reached, <<p, n>>, r), Reaches(p, n, r), CallGenerated(p, n)
  PROVE  GenInv'
<1>1. UNCHANGED <<phase, error>> /\ todo' = <<>> \o Tail(todo)
  BY DEF Continue
<1>2. MapsOrdered /\ todo \in Seq(AllVisits) /\ NamedSound /\ ReachedSound
  BY DEF TextInv, GenInv
<1>3. GenNested(k, S) /\ Rest(todo, Kids, k, S, m)
  BY DEF GeneratedTo
<1>4. PICK l : l = m - 1
  OBVIOUS
<1>5. todo' \in Seq(AllVisits) /\ GenNested(k, S)' /\ Rest(todo', Kids', k, S, l)
  <2>1. m # 0
    OBVIOUS
  <2> QED
    BY <1>1, <1>2, <1>3, <1>4, <2>1, GenPassed
<1>6. /\ NS' = NS /\ NG' = NG /\ Bodies' = Bodies /\ Kids' = Kids
      /\ struct_defs' = struct_defs /\ order' = order /\ global_vars' = global_vars
      /\ struct_types' = struct_types /\ named_values' = named_values
      /\ old_named_values' = old_named_values
      /\ \A q : BodyOf(q)' = BodyOf(q) /\ Locals(q)' = Locals(q)
      /\ \A j, q : IsBody(j, q)' <=> IsBody(j, q)
      /\ \A t : KnownType(t)' <=> KnownType(t)
      /\ \A q : ResultKnown(q)' <=> ResultKnown(q)
      /\ \A q, i : CallGenerated(q, i)' <=> CallGenerated(q, i)
  BY Static, StaticPasses, StaticNames DEF treeVars
<1>7. /\ struct_types' \subseteq DOMAIN struct_defs'
      /\ \A j \in 1 .. NS' : j <= k => order'.structs[j] \in struct_types'
      /\ \A i \in 1 .. NG' : NS' + i <= k => GlobalGenerated(i)'
  BY <1>6 DEF GeneratedTo, GlobalGenerated
<1>8. \A j \in 1 .. k, q \in Bodies' : IsBody(j, q)' =>
        /\ q \in DOMAIN named' /\ ResultKnown(q)'
        /\ \A i \in 1 .. Len(BodyOf(q)') :
             j < k \/ i + l <= Len(BodyOf(q)') + 1 => CallGenerated(q, i)'
  <2> SUFFICES ASSUME NEW j \in 1 .. k, NEW q \in Bodies, IsBody(j, q)
               PROVE  /\ q \in DOMAIN named' /\ ResultKnown(q)
                      /\ \A i \in 1 .. Len(BodyOf(q)) :
                           j < k \/ i + l <= Len(BodyOf(q)) + 1 => CallGenerated(q, i)
    BY <1>6
  <2>1. /\ q \in DOMAIN named /\ ResultKnown(q)
        /\ \A i \in 1 .. Len(BodyOf(q)) :
             j < k \/ i + m <= Len(BodyOf(q)) + 1 => CallGenerated(q, i)
    BY DEF GeneratedTo
  <2>2. ASSUME NEW i \in 1 .. Len(BodyOf(q)), ~(j < k), i + l <= Len(BodyOf(q)) + 1
        PROVE  CallGenerated(q, i)
    <3>1. j = k
      <4>1. k \in Nat /\ j \in Nat /\ j <= k
        BY KidsAt
      <4> QED
        BY <2>2, <4>1
    <3>2. q = p
      BY <3>1 DEF IsBody
    <3>3. Len(BodyOf(p)) \in Nat /\ i \in Nat /\ n \in Nat
      BY <3>2, BodyTyped
    <3>4. i = n \/ i + m <= Len(BodyOf(q)) + 1
      BY <1>4, <2>2, <3>2, <3>3
    <3> QED
      BY <2>1, <3>2, <3>4
  <2> QED
    BY <2>1, <2>2
<1>9. FunctionsGenerated(k)'
  <2>1. FunctionsGenerated(k)
    BY DEF GeneratedTo
  <2>2. k \in Nat /\ NS \in Nat /\ NG \in Nat
    BY <1>2, KidsAt
  <2>3. ~(k <= NS + NG)
    BY <2>2
  <2>4. ASSUME NEW f \in DOMAIN named', named'[f].of = "program", named'[f].sort = "function"
        PROVE  \E j \in 1 .. k : IsBody(j, f)
    <3>1. f \in DOMAIN named
      BY <2>4 DEF FromLibrary, Function
    <3> QED
      BY <2>1, <2>4, <3>1 DEF FunctionsGenerated
  <2> QED
    BY <1>6, <2>3, <2>4 DEF FunctionsGenerated
<1>10. NamesKept(k, l)'
  <2>1. l # 0
    BY <1>4
  <2>2. NamesKept(k, m)
    BY DEF GeneratedTo
  <2>3. \A q \in Bodies' : k > 0 /\ IsBody(k, q)' => NamesAre(q)' /\ DOMAIN old_named_values' = {}
    <3> SUFFICES ASSUME NEW q \in Bodies, k > 0, IsBody(k, q)
                 PROVE  NamesAre(q)' /\ DOMAIN old_named_values' = {}
      BY <1>6
    <3>1. NamesAre(q) /\ DOMAIN old_named_values = {}
      <4>1. m > 0
        OBVIOUS
      <4> QED
        BY <2>2, <4>1 DEF NamesKept
    <3> QED
      BY <1>6, <3>1 DEF NamesAre
  <2> QED
    BY <2>1, <2>3 DEF NamesKept
<1>11. GeneratedTo(k, l, S)'
  BY <1>5, <1>7, <1>8, <1>9, <1>10 DEF GeneratedTo
<1>12. ReachedSound'
  <2>1. \A q, i, s : Reaches(q, i, s)' <=> Reaches(q, i, s)
    BY StaticReaches
  <2>2. ASSUME NEW at \in DOMAIN reached', NEW s, s = reached'[at]
        PROVE  \E q \in Bodies : \E i \in 1 .. Len(BodyOf(q)) : at = <<q, i>> /\ Reaches(q, i, s)
    <3>1. CASE at = <<p, n>>
      <4>1. s = r
        BY <2>2, <3>1 DEF Put
      <4> QED
        BY <3>1, <4>1
    <3>2. CASE at # <<p, n>>
      <4>1. at \in DOMAIN reached /\ s = reached[at]
        BY <2>2, <3>2 DEF Put
      <4> QED
        BY <1>2, <4>1 DEF ReachedSound
    <3> QED
      BY <3>1, <3>2
  <2>3. \A q \in Bodies : \A i : i \in 1 .. Len(BodyOf(q)) <=> i \in 1 .. Len(BodyOf(q)')
    BY <1>6
  <2> QED
    BY <1>6, <2>1, <2>2, <2>3 DEF ReachedSound
<1> QED
  BY <1>1, <1>5, <1>11, <1>12, StillGenerating

LEMMA CgItemGens ==
  ASSUME LayoutInv, TextInv, CheckInv, GenInv, CgItem
  PROVE  GenInv' /\ phase' # "crashed"
<1>1. /\ phase = "generating" /\ todo # <<>> /\ Head(todo).visit = "item"
      /\ UNCHANGED <<treeVars, order, type, struct_types, named_values, old_named_values>>
  BY DEF CgItem, Visiting, checkVars
<1>2. /\ MapsOrdered /\ NamedSound /\ ReachedSound /\ TypesDeclared
      /\ error # "unknown_function"
  BY <1>1 DEF TextInv, CheckInv, GenInv
<1>3. PICK k, m, S : GeneratedTo(k, m, S)
  BY <1>1 DEF GenInv
<1>4. \E p \in Bodies : \E n \in 1 .. Len(BodyOf(p)) :
        /\ Head(todo).id = p /\ Head(todo).n = n
        /\ k \in 1 .. Len(Kids) /\ k > NS + NG /\ k \in Nat /\ IsBody(k, p)
        /\ m \in Nat /\ m > 1 /\ n + m = Len(BodyOf(p)) + 2
        /\ NamesAre(p) /\ DOMAIN old_named_values = {}
        /\ ItemPasses(p, n) /\ LoadTyped(p, n)
  BY <1>1, <1>3, ItemHere
<1>5. PICK p \in Bodies : \E n \in 1 .. Len(BodyOf(p)) :
        /\ Head(todo).id = p /\ Head(todo).n = n
        /\ k \in 1 .. Len(Kids) /\ k > NS + NG /\ k \in Nat /\ IsBody(k, p)
        /\ m \in Nat /\ m > 1 /\ n + m = Len(BodyOf(p)) + 2
        /\ NamesAre(p) /\ DOMAIN old_named_values = {}
        /\ ItemPasses(p, n) /\ LoadTyped(p, n)
  BY <1>4
<1>6. PICK n \in 1 .. Len(BodyOf(p)) :
        /\ Head(todo).id = p /\ Head(todo).n = n
        /\ k \in 1 .. Len(Kids) /\ k > NS + NG /\ k \in Nat /\ IsBody(k, p)
        /\ m \in Nat /\ m > 1 /\ n + m = Len(BodyOf(p)) + 2
        /\ NamesAre(p) /\ DOMAIN old_named_values = {}
        /\ ItemPasses(p, n) /\ LoadTyped(p, n)
  BY <1>5
<1>7. PICK at : at = <<p, n>>
  OBVIOUS
<1>8. PICK item : item = BodyOf(p)[n]
  OBVIOUS
<1>9. (CASE item.op = "call" -> CgCall(item, at)
         [] item.op = "load" -> CgLoad(item, at)
         [] OTHER            -> CgLibrary(LibraryName[item.op], at))
  <2>1. PICK h : h = <<Head(todo).id, Head(todo).n>>
    OBVIOUS
  <2>2. h = at /\ h[1] = p /\ h[2] = n
    BY <1>6, <1>7, <2>1
  <2>3. LET i == BodyOf(h[1])[h[2]]
        IN  CASE i.op = "call" -> CgCall(i, h)
              [] i.op = "load" -> CgLoad(i, h)
              [] OTHER         -> CgLibrary(LibraryName[i.op], h)
    BY <2>1, Zenon DEF CgItem
  <2> QED
    BY <1>8, <2>2, <2>3, Zenon
<1>10. PICK f : f = item.id
  OBVIOUS
<1>11. ASSUME Stop("failed", "unknown_function"), UNCHANGED <<named, reached>>,
              SomeCalledEarly
       PROVE  GenInv' /\ phase' # "crashed"
  <2>1. phase' = "failed"
    BY <1>11 DEF Stop
  <2>2. NamedSound' /\ ReachedSound'
    BY <1>1, <1>2, <1>11, NamesStay
  <2>3. SomeCalledEarly' <=> SomeCalledEarly
    BY <1>1, StaticNames
  <2> QED
    BY <1>11, <2>1, <2>2, <2>3 DEF GenInv
<1>12. CASE item.op = "call"
  <2>1. /\ UNCHANGED named
        /\ IF IsFunction(f)
           THEN reached' = Put(reached, at, named[f]) /\ Continue(<<>>)
           ELSE Stop("failed", "unknown_function") /\ UNCHANGED reached
    BY <1>9, <1>10, <1>12 DEF CgCall
  <2>2. /\ IsFunction(f) => Reaches(p, n, named[f]) /\ CallGenerated(p, n)
        /\ ~IsFunction(f) => SomeCalledEarly
    BY <1>2, <1>3, <1>6, <1>8, <1>10, <1>12, CallReaches
  <2>3. CASE IsFunction(f)
    <3>1. /\ reached' = Put(reached, <<p, n>>, named[f]) /\ Continue(<<>>)
          /\ Reaches(p, n, named[f]) /\ CallGenerated(p, n)
      BY <1>7, <2>1, <2>2, <2>3
    <3>2. /\ NamedSound' /\ DOMAIN named \subseteq DOMAIN named'
          /\ \A g \in DOMAIN named : named'[g] = named[g]
          /\ \A g \in DOMAIN named' : g \notin DOMAIN named => named'[g] = FromLibrary
      BY <1>1, <1>2, <2>1, NamesStay
    <3>3. GenInv'
      BY <1>1, <1>3, <1>6, <3>1, <3>2, ItemGenerated
    <3> QED
      BY <1>1, <3>1, <3>3 DEF Continue
  <2>4. CASE ~IsFunction(f)
    BY <1>11, <2>1, <2>2, <2>4
  <2> QED
    BY <2>3, <2>4
<1>13. CASE item.op = "load"
  <2>1. /\ UNCHANGED named
        /\ IF f \in DOMAIN named_values
           THEN /\ reached' = Put(reached, at, Variable("local", named_values[f]))
                /\ Continue(<<>>)
           ELSE IF f \in DOMAIN named /\ named[f].sort = "variable"
           THEN reached' = Put(reached, at, named[f]) /\ Continue(<<>>)
           ELSE Stop("failed", "undefined_variable") /\ UNCHANGED reached
    BY <1>9, <1>10, <1>13 DEF CgLoad
  <2>2. /\ f \in DOMAIN named_values => Reaches(p, n, Variable("local", named_values[f]))
        /\ f \notin DOMAIN named_values =>
             /\ f \in DOMAIN named /\ named[f].sort = "variable"
             /\ Reaches(p, n, named[f])
    BY <1>2, <1>3, <1>6, <1>8, <1>10, <1>13, LoadReaches
  <2>3. Continue(<<>>) /\ \E r : reached' = Put(reached, at, r) /\ Reaches(p, n, r)
    BY <2>1, <2>2
  <2>4. PICK r : reached' = Put(reached, at, r) /\ Reaches(p, n, r)
    BY <2>3
  <2>5. /\ NamedSound' /\ DOMAIN named \subseteq DOMAIN named'
        /\ \A g \in DOMAIN named : named'[g] = named[g]
        /\ \A g \in DOMAIN named' : g \notin DOMAIN named => named'[g] = FromLibrary
    BY <1>1, <1>2, <2>1, NamesStay
  <2>6. CallGenerated(p, n)
    BY <1>8, <1>13 DEF CallGenerated
  <2>7. GenInv'
    BY <1>1, <1>3, <1>6, <1>7, <2>3, <2>4, <2>5, <2>6, ItemGenerated
  <2> QED
    BY <1>1, <2>3, <2>7 DEF Continue
<1>14. CASE item.op \notin {"call", "load"}
  <2>1. item.op \in LibraryOps
    BY <1>8, <1>14, BodyTyped
  <2>2. PICK g : g = LibraryName[item.op]
    OBVIOUS
  <2>3. PICK r : r = IF IsFunction(g) THEN named[g]
                     ELSE IF g \in DOMAIN named THEN Renamed ELSE FromLibrary
    OBVIOUS
  <2>4. CgLibrary(g, at)
    BY <1>9, <1>14, <2>2
  <2>5. /\ named' = IF IsFunction(g) THEN named ELSE Insert(named, g, FromLibrary)
        /\ reached' = Put(reached, at, r)
        /\ Continue(<<>>)
    BY <2>3, <2>4, SMTT(40) DEF CgLibrary
  <2>6. /\ Reaches(p, n, r) /\ CallGenerated(p, n) /\ NamedSound'
        /\ DOMAIN named \subseteq DOMAIN named'
        /\ \A h \in DOMAIN named : named'[h] = named[h]
        /\ \A h \in DOMAIN named' : h \notin DOMAIN named => named'[h] = FromLibrary
    BY <1>1, <1>2, <1>8, <2>1, <2>2, <2>3, <2>5, LibraryReaches
  <2>7. GenInv'
    BY <1>1, <1>3, <1>6, <1>7, <2>5, <2>6, ItemGenerated
  <2> QED
    BY <1>1, <2>5, <2>7 DEF Continue
<1> QED
  BY <1>12, <1>13, <1>14

LEMMA CheckingEndsGens ==
  ASSUME LayoutInv, TextInv, CheckInv, GenInv, CheckingEnds
  PROVE  GenInv'
<1>1. /\ phase = "checking" /\ phase' = "generating" /\ error' = error /\ todo' = Kids
      /\ UNCHANGED <<treeVars, order, type>>
      /\ struct_types' = struct_types /\ named' = named /\ named_values' = named_values
      /\ reached' = reached
  BY DEF CheckingEnds, checkVars, genVars, Kids
<1>2. /\ MapsOrdered /\ NamedSound /\ ReachedSound /\ error # "unknown_function"
      /\ struct_types = {} /\ named = Runtime /\ named_values = Nothing
  BY <1>1 DEF TextInv, GenInv
<1>3. PICK T : T = <<>>
  OBVIOUS
<1>4. T \in Seq(AllVisits) /\ Len(T) = 0 /\ Kids \in Seq(AllVisits) /\ Len(Kids) \in Nat
      /\ NS \in Nat /\ NG \in Nat
  BY <1>2, <1>3, KidsAt
<1>5. Kids' = Kids /\ NS' = NS /\ NG' = NG
  BY <1>1, Static
<1>6. GenNested(0, T)'
  <2>1. GenNested(0, T)
    BY <1>3, <1>4 DEF GenNested
  <2> QED
    BY <1>1, <2>1, StaticNames
<1>7. Rest(todo', Kids', 0, T, 0)
  BY <1>1, <1>3, <1>4, <1>5, AllOfThem
<1>8. \A f \in DOMAIN named' : f \in DOMAIN Runtime /\ named'[f].of = "library"
  BY <1>1, <1>2 DEF Runtime, FromLibrary, Function
<1>9. FunctionsGenerated(0)' /\ NamesKept(0, 0)'
  <2>1. FunctionsGenerated(0)'
    BY <1>8 DEF FunctionsGenerated
  <2>2. DOMAIN named_values' = {}
    BY <1>1, <1>2 DEF Nothing
  <2> QED
    BY <2>1, <2>2 DEF NamesKept
<1>10. GeneratedTo(0, 0, T)'
  <2>1. struct_types' \subseteq DOMAIN struct_defs'
    BY <1>1, <1>2
  <2>2. \A j \in 1 .. NS' : ~(j <= 0)
    OBVIOUS
  <2>3. \A i \in 1 .. NG' : ~(NS' + i <= 0)
    BY <1>4, <1>5
  <2>4. 1 .. 0 = {}
    OBVIOUS
  <2> QED
    BY <1>6, <1>7, <1>9, <2>1, <2>2, <2>3, <2>4 DEF GeneratedTo
<1>11. NamedSound' /\ ReachedSound'
  BY <1>1, <1>2, NamesStay
<1> QED
  BY <1>1, <1>2, <1>4, <1>10, <1>11 DEF GenInv

LEMMA GeneratingEndsGens ==
  ASSUME LayoutInv, TextInv, CheckInv, GenInv, GeneratingEnds
  PROVE  GenInv' /\ phase' # "crashed"
<1>1. /\ phase = "generating" /\ phase' = "compiled" /\ error' = error /\ todo = <<>>
      /\ UNCHANGED <<treeVars, order, type, named, reached>>
  BY DEF GeneratingEnds, checkVars, genVars
<1>2. /\ MapsOrdered /\ NamedSound /\ ReachedSound /\ error # "unknown_function"
  BY <1>1 DEF TextInv, GenInv
<1>3. PICK k, m, S : GeneratedTo(k, m, S)
  BY <1>1 DEF GenInv
<1>4. /\ NS \in Nat /\ NG \in Nat /\ NP \in Nat /\ Len(Kids) = NS + NG + NP + 1
      /\ Kids \in Seq(AllVisits)
  BY <1>2, KidsAt
<1>5. m = 0 /\ k = Len(Kids)
  <2>1. Rest(todo, Kids, k, S, m) /\ S \in Seq(AllVisits)
    BY <1>3 DEF GeneratedTo, GenNested
  <2> QED
    BY <1>1, <1>4, <2>1, NoRest
<1>6. \A t : KnownType(t) => ~Undefined(t)
  BY <1>1, TextOf
<1>7. ASSUME NEW d \in Range(global_vars) PROVE ~Undefined(d.type) /\ d.val.kind # "new"
  <2>1. DOMAIN global_vars = 1 .. NG
    BY Named
  <2>2. PICK i \in 1 .. NG : d = global_vars[i]
    BY <2>1 DEF Range
  <2>3. NS + i <= k
    BY <1>4, <1>5
  <2>4. GlobalGenerated(i)
    BY <1>3, <2>3 DEF GeneratedTo
  <2> QED
    BY <1>6, <2>2, <2>4 DEF GlobalGenerated
<1>8. ASSUME NEW p \in DOMAIN procedures
      PROVE  /\ procedures[p].ret = Void \/ ~Undefined(procedures[p].ret)
             /\ \A n \in 1 .. Len(BodyOf(p)) : CallGenerated(p, n)
  <2>1. p \in Bodies /\ p # "main" /\ Len(BodyOf(p)) \in Nat
    BY Named, BodyTyped DEF Bodies
  <2>2. PICK j \in 1 .. Len(Kids) : IsBody(j, p)
    BY <1>2, <2>1, BodiesVisited DEF IsBody
  <2>3. \A n \in 1 .. Len(BodyOf(p)) : n + m <= Len(BodyOf(p)) + 1
    BY <1>5, <2>1
  <2>4. ResultKnown(p) /\ \A n \in 1 .. Len(BodyOf(p)) : CallGenerated(p, n)
    BY <1>3, <1>5, <2>1, <2>2, <2>3 DEF GeneratedTo
  <2> QED
    BY <1>6, <2>1, <2>4 DEF ResultKnown
<1>9. ~UncheckedDefinition
  BY <1>7, <1>8 DEF UncheckedDefinition
<1>10. EarlyReachLibrary
  <2> SUFFICES ASSUME NEW p \in DOMAIN procedures, NEW q \in DOMAIN procedures, CalledEarly(p, q)
               PROVE  LibraryInUse(q)
    BY DEF EarlyReachLibrary
  <2>1. DOMAIN BodyOf(p) = 1 .. Len(BodyOf(p))
    BY BodyTyped DEF Bodies
  <2>2. PICK n \in 1 .. Len(BodyOf(p)) : BodyOf(p)[n].op = "call" /\ BodyOf(p)[n].id = q
    BY <2>1 DEF CalledEarly, Calls
  <2> QED
    BY <1>8, <2>2 DEF CallGenerated
<1>11. ~UncheckedDefinition' /\ EarlyReachLibrary'
  <2>1. /\ UncheckedDefinition' <=> UncheckedDefinition
        /\ \A f : LibraryInUse(f)' <=> LibraryInUse(f)
        /\ \A p, q : CalledEarly(p, q)' <=> CalledEarly(p, q)
    BY <1>1, StaticNames
  <2>2. procedures' = procedures
    BY <1>1 DEF treeVars
  <2> QED
    BY <1>9, <1>10, <2>1, <2>2 DEF EarlyReachLibrary
<1>12. NamedSound' /\ ReachedSound'
  BY <1>1, <1>2, NamesStay
<1> QED
  BY <1>1, <1>2, <1>11, <1>12 DEF GenInv

\* Before CodeGen begins the module holds malloc and free.
LEMMA NothingGenerated ==
  ASSUME named = Runtime, reached = Nothing
  PROVE  NamedSound /\ ReachedSound
<1>1. NamedSound
  BY DEF NamedSound, Runtime, IsLibrary, LibraryInUse
<1>2. ReachedSound
  BY DEF ReachedSound, Nothing
<1> QED
  BY <1>1, <1>2

LEMMA InitGen == PrInit => GenInv
<1> SUFFICES ASSUME PrInit PROVE GenInv
  OBVIOUS
<1>1. /\ phase = "parsing" /\ error = "none" /\ struct_types = {} /\ named = Runtime
      /\ named_values = Nothing /\ reached = Nothing
  BY DEF PrInit
<1> QED
  BY <1>1, NothingGenerated DEF GenInv

LEMMA BeforeGens ==
  ASSUME GenInv, phase \in {"parsing", "checking"}, UNCHANGED genVars,
         phase' \in {"parsing", "unparsed", "checking", "rejected", "crashed"},
         error' = error \/ error' # "unknown_function"
  PROVE  GenInv'
<1>1. /\ struct_types' = {} /\ named' = Runtime /\ named_values' = Nothing
      /\ reached' = Nothing /\ error # "unknown_function"
  BY DEF GenInv, genVars
<1>2. NamedSound'
  BY <1>1 DEF NamedSound, Runtime, IsLibrary, LibraryInUse
<1>3. ReachedSound'
  BY <1>1 DEF ReachedSound, Nothing
<1> QED
  BY <1>1, <1>2, <1>3 DEF GenInv

LEMMA StutterGens ==
  ASSUME LayoutInv, TextInv, GenInv, UNCHANGED vars
  PROVE  GenInv'
<1>1. /\ UNCHANGED <<treeVars, order, type>> /\ phase' = phase /\ error' = error /\ todo' = todo
      /\ struct_types' = struct_types /\ named' = named /\ named_values' = named_values
      /\ old_named_values' = old_named_values /\ reached' = reached
  BY DEF vars, checkVars, genVars
<1>2. NamedSound' /\ ReachedSound'
  BY <1>1, NamesStay DEF GenInv
<1>3. /\ UncheckedDefinition' <=> UncheckedDefinition
      /\ SomeCalledEarly' <=> SomeCalledEarly
      /\ EarlyReachLibrary' <=> EarlyReachLibrary
  <2>1. procedures' = procedures
    BY <1>1 DEF treeVars
  <2> QED
    BY <1>1, <2>1, StaticNames DEF EarlyReachLibrary
<1>4. ASSUME phase = "generating"
      PROVE  todo' \in Seq(AllVisits) /\ \E k, m, S : GeneratedTo(k, m, S)'
  <2>1. PICK k, m, S : GeneratedTo(k, m, S)
    BY <1>4 DEF GenInv
  <2>2. /\ NS' = NS /\ NG' = NG /\ Bodies' = Bodies /\ Kids' = Kids
        /\ struct_defs' = struct_defs /\ order' = order /\ global_vars' = global_vars
        /\ \A q : BodyOf(q)' = BodyOf(q) /\ Locals(q)' = Locals(q)
        /\ \A j, q : IsBody(j, q)' <=> IsBody(j, q)
        /\ \A t : KnownType(t)' <=> KnownType(t)
        /\ \A q : ResultKnown(q)' <=> ResultKnown(q)
        /\ \A q, n : CallGenerated(q, n)' <=> CallGenerated(q, n)
    BY <1>1, Static, StaticPasses, StaticNames DEF treeVars
  <2>3. GenNested(k, S)' /\ Rest(todo', Kids', k, S, m)
    BY <1>1, <2>1, <2>2, StaticNames DEF GeneratedTo
  <2>4. /\ struct_types' \subseteq DOMAIN struct_defs'
        /\ \A j \in 1 .. NS' : j <= k => order'.structs[j] \in struct_types'
        /\ \A i \in 1 .. NG' : NS' + i <= k => GlobalGenerated(i)'
    BY <1>1, <2>1, <2>2 DEF GeneratedTo, GlobalGenerated
  <2>5. \A j \in 1 .. k, q \in Bodies' : IsBody(j, q)' =>
          /\ q \in DOMAIN named' /\ ResultKnown(q)'
          /\ \A n \in 1 .. Len(BodyOf(q)') :
               j < k \/ n + m <= Len(BodyOf(q)') + 1 => CallGenerated(q, n)'
    <3> SUFFICES ASSUME NEW j \in 1 .. k, NEW q \in Bodies, IsBody(j, q)
                 PROVE  /\ q \in DOMAIN named /\ ResultKnown(q)
                        /\ \A n \in 1 .. Len(BodyOf(q)) :
                             j < k \/ n + m <= Len(BodyOf(q)) + 1 => CallGenerated(q, n)
      BY <1>1, <2>2
    <3> QED
      BY <2>1 DEF GeneratedTo
  <2>6. FunctionsGenerated(k)'
    BY <1>1, <2>1, <2>2 DEF GeneratedTo, FunctionsGenerated
  <2>7. NamesKept(k, m)'
    <3>1. \A q : NamesAre(q)' <=> NamesAre(q)
      BY <1>1, <2>2 DEF NamesAre
    <3> QED
      BY <1>1, <2>1, <2>2, <3>1 DEF GeneratedTo, NamesKept
  <2>8. GeneratedTo(k, m, S)'
    BY <2>3, <2>4, <2>5, <2>6, <2>7 DEF GeneratedTo
  <2>9. todo' \in Seq(AllVisits)
    BY <1>1, <1>4 DEF GenInv
  <2> QED
    BY <2>8, <2>9
<1> QED
  BY <1>1, <1>2, <1>3, <1>4 DEF GenInv

LEMMA GenStep ==
  ASSUME LayoutInv, TextInv, CheckInv, GenInv, [PrNext]_vars
  PROVE  GenInv'
<1>1. ASSUME NEW d \in Definitions, ReduceStruct(d) \/ ReduceGlobal(d) \/ ReduceProcedure(d)
      PROVE  GenInv'
  <2>1. phase = "parsing" /\ UNCHANGED genVars /\ phase' \in {"parsing", "unparsed"}
    BY <1>1 DEF ReduceStruct, ReduceGlobal, ReduceProcedure, Read
  <2>2. error' = error \/ error' = "redefinition"
    BY <1>1 DEF ReduceStruct, ReduceGlobal, ReduceProcedure
  <2> QED
    BY <2>1, <2>2, BeforeGens
<1>2. CASE ParsingEnds
  <2>1. phase = "parsing" /\ UNCHANGED genVars /\ phase' = "checking" /\ error' = error
    BY <1>2 DEF ParsingEnds
  <2> QED
    BY <2>1, BeforeGens
<1>3. CASE \/ TcStruct
           \/ \E s \in DOMAIN struct_defs : \E f \in DOMAIN struct_defs[s] : TcField(s, f)
           \/ TcStructEnds
  <2>1. /\ phase = "checking" /\ UNCHANGED genVars /\ phase' \in {"checking", "rejected"}
        /\ error' = error \/ error' = "undefined_field"
    BY <1>3 DEF TcStruct, TcField, TcStructEnds, Visiting, Continue, Stop
  <2> QED
    BY <2>1, BeforeGens
<1>4. CASE TcGlobal \/ TcProcedure
  <2>1. phase = "checking" /\ UNCHANGED genVars
    BY <1>4 DEF TcGlobal, TcProcedure, Visiting
  <2>2. /\ phase' \in {"checking", "rejected", "crashed"}
        /\ error' = error \/ error' \in {"no_procedure", "mismatch", "parameters"}
    BY <1>4, <2>1 DEF TcGlobal, TcProcedure, Continue, Stop
  <2> QED
    BY <2>1, <2>2, BeforeGens
<1>5. CASE TcItem
  <2>1. phase = "checking" /\ UNCHANGED genVars
    BY <1>5 DEF TcItem, Visiting
  <2>2. /\ phase' \in {"checking", "rejected"}
        /\ error' = error \/ error' \in {"not_a_procedure", "undefined_procedure", "mismatch",
                                         "undefined_variable"}
    BY <1>5, <2>1 DEF TcItem, TcCall, TcLoad, Continue, Stop
  <2> QED
    BY <2>1, <2>2, BeforeGens
<1>6. CASE CheckingEnds
  BY <1>6, CheckingEndsGens
<1>7. CASE CgStruct \/ CgGlobal \/ CgProcedure \/ CgProcedureEnds \/ CgItem \/ GeneratingEnds
  BY <1>7, CgStructGens, CgGlobalGens, CgProcedureGens, CgProcedureEndsGens, CgItemGens,
     GeneratingEndsGens
<1>8. CASE UNCHANGED vars
  BY <1>8, StutterGens
<1> QED
  BY <1>1, <1>2, <1>3, <1>4, <1>5, <1>6, <1>7, <1>8 DEF PrNext

\* CodeGen leaves alone what TypeChecker has found.
LEMMA GeneratingChecks ==
  ASSUME CheckInv, phase = "generating", UNCHANGED <<treeVars, order, type>>,
         phase' \in {"generating", "failed", "compiled", "crashed"},
         phase' = "crashed" => CrashingGlobal
  PROVE  CheckInv'
<1>1. AllChecked /\ TypesDeclared
  BY DEF CheckInv
<1>2. AllChecked'
  <2>1. AllPasses'
    BY <1>1, StaticFaults DEF AllChecked
  <2>2. /\ NS' = NS /\ Bodies' = Bodies /\ \A p : BodyOf(p)' = BodyOf(p)
        /\ type' = type /\ \A j : FieldsEarlier(j)' <=> FieldsEarlier(j)
    BY Static, StaticPasses
  <2> QED
    BY <1>1, <2>1, <2>2 DEF AllChecked, LoadTyped
<1>3. TypesDeclared'
  BY <1>1, TypesKept
<1>4. CrashingGlobal => CrashingGlobal'
  BY StaticFaults
<1> QED
  BY <1>2, <1>3, <1>4 DEF CheckInv

LEMMA StutterChecks ==
  ASSUME LayoutInv, TextInv, CheckInv, UNCHANGED vars
  PROVE  CheckInv'
<1>1. /\ UNCHANGED <<treeVars, order, type>> /\ phase' = phase /\ todo' = todo
      /\ type_sizes' = type_sizes /\ locals' = locals
  BY DEF vars, checkVars
<1>2. TypesDeclared'
  BY <1>1, TypesKept DEF CheckInv
<1>3. /\ NS' = NS /\ NG' = NG /\ Bodies' = Bodies /\ Kids' = Kids /\ order' = order
      /\ \A q : BodyOf(q)' = BodyOf(q) /\ Locals(q)' = Locals(q)
      /\ \A i : GlobalPasses(i)' <=> GlobalPasses(i)
      /\ \A p : ParamsPass(p)' <=> ParamsPass(p)
      /\ \A p, n : ItemPasses(p, n)' <=> ItemPasses(p, n)
      /\ \A j : FieldsEarlier(j)' <=> FieldsEarlier(j)
      /\ \A j, p : IsBody(j, p)' <=> IsBody(j, p)
      /\ \A k, S : CheckNested(k, S)' <=> CheckNested(k, S)
  BY <1>1, Static, StaticPasses
<1>4. \A p, n : LoadTyped(p, n)' <=> LoadTyped(p, n)
  BY <1>1, <1>3 DEF LoadTyped
<1>5. ASSUME phase = "checking"
      PROVE  todo' \in Seq(AllVisits) /\ \E k, m, S : CheckedTo(k, m, S)'
  <2>1. PICK k, m, S : CheckedTo(k, m, S)
    BY <1>5 DEF CheckInv
  <2>2. CheckNested(k, S)' /\ Rest(todo', Kids', k, S, m)
    BY <1>1, <1>3, <2>1 DEF CheckedTo
  <2>3. \A i \in 1 .. NG' : NS' + i <= k => GlobalPasses(i)'
    BY <1>3, <2>1 DEF CheckedTo
  <2>4. \A j \in 1 .. k, p \in Bodies' : IsBody(j, p)' =>
          /\ ParamsPass(p)'
          /\ \A n \in 1 .. Len(BodyOf(p)') :
               j < k \/ n + m <= Len(BodyOf(p)') => ItemPasses(p, n)' /\ LoadTyped(p, n)'
    <3> SUFFICES ASSUME NEW j \in 1 .. k, NEW p \in Bodies, IsBody(j, p)
                 PROVE  /\ ParamsPass(p)
                        /\ \A n \in 1 .. Len(BodyOf(p)) :
                             j < k \/ n + m <= Len(BodyOf(p)) => ItemPasses(p, n) /\ LoadTyped(p, n)
      BY <1>3, <1>4
    <3> QED
      BY <2>1 DEF CheckedTo
  <2>5. /\ \A j \in 1 .. NS' :
             order'.structs[j] \in DOMAIN type_sizes' <=> j < k \/ (j = k /\ m = 0)
        /\ \A j \in 1 .. NS' : order'.structs[j] \in DOMAIN type_sizes' => FieldsEarlier(j)'
    BY <1>1, <1>3, <2>1 DEF CheckedTo
  <2>6. \A p \in Bodies' : k > 0 /\ IsBody(k, p)' => locals' = Locals(p)'
    BY <1>1, <1>3, <2>1 DEF CheckedTo
  <2>7. CheckedTo(k, m, S)'
    BY <2>2, <2>3, <2>4, <2>5, <2>6 DEF CheckedTo
  <2>8. todo' \in Seq(AllVisits)
    BY <1>1, <1>5 DEF CheckInv
  <2> QED
    BY <2>7, <2>8
<1>6. ASSUME phase \in {"generating", "failed", "compiled"} PROVE AllChecked'
  <2>1. AllChecked
    BY <1>6 DEF CheckInv
  <2>2. AllPasses'
    BY <1>1, <2>1, StaticFaults DEF AllChecked
  <2> QED
    BY <1>3, <1>4, <2>1, <2>2 DEF AllChecked
<1>7. (Rejectable => Rejectable') /\ (CrashingGlobal => CrashingGlobal')
  BY <1>1, StaticFaults
<1>8. phase \in {"parsing", "unparsed"} => type' = Nothing
  BY <1>1 DEF CheckInv
<1> QED
  BY <1>1, <1>2, <1>5, <1>6, <1>7, <1>8 DEF CheckInv

LEMMA InitCheck == PrInit => CheckInv
<1> SUFFICES ASSUME PrInit PROVE CheckInv
  OBVIOUS
<1>1. phase = "parsing" /\ type = Nothing
  BY DEF PrInit
<1>2. TypesDeclared
  BY <1>1 DEF TypesDeclared, Nothing
<1> QED
  BY <1>1, <1>2 DEF CheckInv

LEMMA CheckStep ==
  ASSUME LayoutInv, TextInv, CheckInv, GenInv, [PrNext]_vars
  PROVE  CheckInv'
<1>1. ASSUME NEW d \in Definitions, ReduceStruct(d) \/ ReduceGlobal(d) \/ ReduceProcedure(d)
      PROVE  CheckInv'
  BY <1>1, ReduceChecks
<1>2. CASE ParsingEnds
  BY <1>2, ParsingEndsChecks
<1>3. CASE TcStruct \/ TcStructEnds \/ TcGlobal \/ TcProcedure \/ TcItem
  BY <1>3, TcStructChecks, TcStructEndsChecks, TcGlobalChecks, TcProcedureChecks, TcItemChecks
<1>4. ASSUME NEW s \in DOMAIN struct_defs, NEW f \in DOMAIN struct_defs[s], TcField(s, f)
      PROVE  CheckInv'
  BY <1>4, TcFieldChecks
<1>5. CASE CheckingEnds
  BY <1>5, CheckingEndsChecks
<1>6. ASSUME CgStruct \/ CgGlobal \/ CgProcedure \/ CgProcedureEnds \/ CgItem \/ GeneratingEnds
      PROVE  CheckInv'
  <2>1. phase = "generating" /\ UNCHANGED <<treeVars, order, checkVars>>
    BY <1>6 DEF CgStruct, CgGlobal, CgProcedure, CgProcedureEnds, CgItem, GeneratingEnds, Visiting
  <2>2. UNCHANGED <<treeVars, order, type>>
    BY <2>1 DEF checkVars
  <2>3. GenInv' /\ (phase' = "crashed" => CrashingGlobal)
    BY <1>6, CgStructGens, CgGlobalGens, CgProcedureGens, CgProcedureEndsGens, CgItemGens,
       GeneratingEndsGens
  <2>4. phase' \in {"generating", "failed", "compiled", "crashed"}
    <3>1. ASSUME CgStruct PROVE phase' \in {"generating", "failed"}
      BY <2>1, <3>1 DEF CgStruct, Continue, Stop
    <3>2. ASSUME CgGlobal PROVE phase' \in {"generating", "failed", "crashed"}
      BY <2>1, <3>2 DEF CgGlobal, Continue, Stop
    <3>3. ASSUME CgProcedure \/ CgProcedureEnds PROVE phase' \in {"generating", "failed"}
      BY <2>1, <3>3 DEF CgProcedure, CgProcedureEnds, Continue, Stop
    <3>4. ASSUME CgItem PROVE phase' \in {"generating", "failed"}
      BY <2>1, <3>4 DEF CgItem, CgCall, CgLoad, CgLibrary, Continue, Stop
    <3>5. ASSUME GeneratingEnds PROVE phase' = "compiled"
      BY <3>5 DEF GeneratingEnds
    <3> QED
      BY <1>6, <3>1, <3>2, <3>3, <3>4, <3>5
  <2> QED
    BY <2>1, <2>2, <2>3, <2>4, GeneratingChecks, SMTT(40)
<1>7. CASE UNCHANGED vars
  BY <1>7, StutterChecks
<1> QED
  BY <1>1, <1>2, <1>3, <1>4, <1>5, <1>6, <1>7 DEF PrNext

-------------------------------------------------------------------------------
(* The invariant of the program's three passes, and what follows of it.    *)

FrameInv == size \in Nat /\ DOMAIN frame_offset \subseteq DOMAIN struct_defs

ProgramInv == LayoutInv /\ TextInv /\ CheckInv /\ GenInv /\ FrameInv

LEMMA FrameStep ==
  ASSUME LayoutInv, FrameInv, [PrNext]_vars
  PROVE  FrameInv'
<1>1. ASSUME NEW d \in Definitions, ReduceStruct(d) \/ ReduceGlobal(d) \/ ReduceProcedure(d)
      PROVE  FrameInv'
  <2>1. phase = "parsing" /\ UNCHANGED checkVars
    BY <1>1 DEF ReduceStruct, ReduceGlobal, ReduceProcedure, Read
  <2>2. size' = size /\ frame_offset' = frame_offset /\ frame_offset = Nothing
    BY <2>1 DEF checkVars, LayoutInv
  <2> QED
    BY <2>2 DEF FrameInv, Nothing
<1>2. CASE TcStruct
  <2>1. /\ phase = "checking" /\ todo # <<>> /\ Head(todo).visit = "struct"
        /\ size' = 0 /\ frame_offset' = Put(frame_offset, Head(todo).id, Nothing)
        /\ struct_defs' = struct_defs
    BY <1>2 DEF TcStruct, Visiting, treeVars
  <2>2. Head(todo).id \in DOMAIN struct_defs
    <3>1. VisitsSound /\ todo \in Seq(Visits)
      BY <2>1 DEF LayoutInv, VisitsSound
    <3>2. 1 \in 1 .. Len(todo) /\ Head(todo) = todo[1] /\ OfStruct(todo[1])
      BY <2>1, <3>1 DEF OfStruct
    <3> QED
      BY <3>1, <3>2 DEF VisitsSound
  <2> QED
    BY <2>1, <2>2 DEF FrameInv, Put
<1>3. ASSUME NEW s \in DOMAIN struct_defs, NEW f \in DOMAIN struct_defs[s], TcField(s, f)
      PROVE  FrameInv'
  <2>1. PICK t : t = struct_defs[s][f]
    OBVIOUS
  <2>2. /\ struct_defs' = struct_defs
        /\ \/ /\ HasSize(t)
              /\ frame_offset' = [frame_offset EXCEPT ![s] = Put(@, f, -FieldStart(t))]
              /\ size' = FieldStart(t) + SizeOf(t)
           \/ size' = size /\ frame_offset' = frame_offset
    BY <1>3, <2>1 DEF TcField, Visiting, treeVars
  <2>3. ASSUME HasSize(t) PROVE FieldStart(t) + SizeOf(t) \in Nat
    <3>1. SizeOf(t) \in Nat
      BY <2>3 DEF LayoutInv, SizesTyped, HasSize, SizeOf, SIZE_PTR
    <3>2. AlignUp(size) \in Nat /\ size \in Nat
      BY AlignUpIs DEF FrameInv
    <3> QED
      BY <3>1, <3>2 DEF FieldStart
  <2>4. size' \in Nat
    BY <2>2, <2>3 DEF FrameInv
  <2>5. DOMAIN frame_offset' = DOMAIN frame_offset
    BY <2>2
  <2> QED
    BY <2>2, <2>4, <2>5 DEF FrameInv
<1>4. CASE \/ ParsingEnds \/ TcStructEnds \/ TcGlobal \/ TcProcedure \/ TcItem \/ CheckingEnds
           \/ CgStruct \/ CgGlobal \/ CgProcedure \/ CgProcedureEnds \/ CgItem
           \/ GeneratingEnds \/ UNCHANGED vars
  <2>1. UNCHANGED <<treeVars, size, frame_offset>>
    <3>1. ASSUME ParsingEnds \/ CheckingEnds \/ GeneratingEnds \/ UNCHANGED vars
          PROVE  UNCHANGED <<treeVars, size, frame_offset>>
      BY <3>1 DEF ParsingEnds, CheckingEnds, GeneratingEnds, vars, checkVars
    <3>2. ASSUME TcStructEnds \/ TcGlobal \/ TcProcedure \/ TcItem
          PROVE  UNCHANGED <<treeVars, size, frame_offset>>
      BY <3>2, SMTT(40) DEF TcStructEnds, TcGlobal, TcProcedure, TcItem, Visiting, checkVars
    <3>3. ASSUME CgStruct \/ CgGlobal \/ CgProcedure \/ CgProcedureEnds \/ CgItem
          PROVE  UNCHANGED <<treeVars, checkVars>>
      BY <3>3 DEF CgStruct, CgGlobal, CgProcedure, CgProcedureEnds, CgItem, Visiting
    <3> QED
      BY <1>4, <3>1, <3>2, <3>3 DEF checkVars
  <2>2. size' = size /\ frame_offset' = frame_offset /\ struct_defs' = struct_defs
    BY <2>1 DEF treeVars
  <2> QED
    BY <2>2 DEF FrameInv
<1> QED
  BY <1>1, <1>2, <1>3, <1>4 DEF PrNext

LEMMA InitProgram == PrInit => ProgramInv
<1> SUFFICES ASSUME PrInit PROVE ProgramInv
  OBVIOUS
<1>1. FrameInv
  BY DEF PrInit, FrameInv, Nothing
<1> QED
  BY <1>1, InitLayout, InitText, InitCheck, InitGen DEF ProgramInv

LEMMA ProgramStep == ProgramInv /\ [PrNext]_vars => ProgramInv'
<1> SUFFICES ASSUME ProgramInv, [PrNext]_vars PROVE ProgramInv'
  OBVIOUS
<1>1. LayoutInv /\ TextInv /\ CheckInv /\ GenInv /\ FrameInv
  BY DEF ProgramInv
<1>2. LayoutInv' /\ TextInv'
  BY <1>1, LayoutStep, TextStep
<1>3. CheckInv' /\ GenInv' /\ FrameInv'
  BY <1>1, CheckStep, GenStep, FrameStep
<1> QED
  BY <1>2, <1>3 DEF ProgramInv

LEMMA ProgramAlways == PrSpec => []ProgramInv
BY InitProgram, ProgramStep, PTL DEF PrSpec

(***************************************************************************)
(* For all definitions: the maps of ProgramNode hold what the text         *)
(* defines, and the passes index them by its names.                        *)
(***************************************************************************)
THEOREM ProgramTyped == PrSpec => []PrTypeOK
<1>1. ProgramInv => PrTypeOK
  <2> SUFFICES ASSUME ProgramInv PROVE PrTypeOK
    OBVIOUS
  <2>1. LayoutInv /\ TextInv /\ CheckInv /\ FrameInv
    BY DEF ProgramInv
  <2>2. \A s \in DOMAIN struct_defs : Defines("struct", s) # {}
    BY <2>1, TextOf
  <2>3. \A p \in DOMAIN procedures : procedures[p] \in ProcedureDef /\ procedures[p].id = p
    <3> TAKE p \in DOMAIN procedures
    <3>1. PICK i \in DOMAIN source : source[i] = procedures[p] /\ IsOf(i, "procedure", p)
      BY <2>1 DEF TextInv, ProceduresText, Latest
    <3> QED
      BY <2>1, <3>1, Named DEF IsOf
  <2>4. DOMAIN symbol_table = {global_vars[i].id : i \in DOMAIN global_vars}
    <3>1. ASSUME NEW g \in DOMAIN symbol_table
          PROVE  g \in {global_vars[i].id : i \in DOMAIN global_vars}
      <4>1. PICK i \in DOMAIN source : IsOf(i, "global", g)
        BY <2>1 DEF TextInv, GlobalsText
      <4>2. PICK j \in DOMAIN global_vars : global_vars[j] = source[i]
        BY <2>1, <4>1 DEF TextInv, GlobalsText, IsOf
      <4> QED
        BY <4>1, <4>2 DEF IsOf
    <3>2. \A i \in DOMAIN global_vars : global_vars[i].id \in DOMAIN symbol_table
      BY <2>1 DEF TextInv, GlobalsText
    <3> QED
      BY <3>1, <3>2
  <2>5. DOMAIN type_sizes \subseteq Basic \cup DOMAIN struct_defs
    BY <2>1 DEF LayoutInv, SizesTyped
  <2>6. source \in Seq(Definitions) /\ main \in Mains
    BY <2>1 DEF TextInv
  <2>7. phase \in {"parsing", "unparsed", "checking", "rejected", "generating",
                   "failed", "compiled", "crashed"}
    BY <2>1 DEF CheckInv
  <2> QED
    BY <2>1, <2>2, <2>3, <2>4, <2>5, <2>6, <2>7 DEF PrTypeOK, FrameInv
<1> QED
  BY <1>1, ProgramAlways, PTL

(***************************************************************************)
(* For all definitions and every order of the maps: TypeChecker rejects a  *)
(* program only for a fault of its text or because the map gave a struct   *)
(* before one that it holds, and what reaches CodeGen is without fault.    *)
(***************************************************************************)
THEOREM RejectionsAreFaults == PrSpec => []ProgramRejectsOnlyFaults
<1>1. ProgramInv => ProgramRejectsOnlyFaults
  <2> SUFFICES ASSUME ProgramInv PROVE ProgramRejectsOnlyFaults
    OBVIOUS
  <2>1. LayoutInv /\ TextInv /\ CheckInv
    BY DEF ProgramInv
  <2>2. ASSUME phase = "rejected" PROVE FaultyText \/ ContainedLater
    <3>1. Rejectable
      BY <2>1, <2>2 DEF CheckInv
    <3> QED
      BY <2>1, <2>2, <3>1, FaultsAre DEF Rejectable
  <2>3. ASSUME phase \in {"generating", "compiled", "failed"} PROVE ~FaultyText
    <3>1. AllPasses
      BY <2>1, <2>3 DEF CheckInv, AllChecked
    <3> QED
      BY <2>1, <2>3, <3>1, FaultsAre
  <2> QED
    BY <2>2, <2>3 DEF ProgramRejectsOnlyFaults
<1> QED
  BY <1>1, ProgramAlways, PTL

(***************************************************************************)
(* For all definitions and every order of the maps: CodeGen fails on an    *)
(* accepted program for exactly what TypeChecker leaves unchecked, and     *)
(* the compiler crashes on globals only.                                   *)
(***************************************************************************)
THEOREM FailuresAreUnchecked == PrSpec => []ProgramFailsOnlyUnchecked
<1>1. ProgramInv => ProgramFailsOnlyUnchecked
  <2> SUFFICES ASSUME ProgramInv PROVE ProgramFailsOnlyUnchecked
    OBVIOUS
  <2>1. LayoutInv /\ TextInv /\ CheckInv /\ GenInv
    BY DEF ProgramInv
  <2>2. ASSUME phase = "crashed"
        PROVE  \E d \in Range(global_vars) :
                 d.val.kind \in {"call", "read", "logical"} \/ d.id \in DOMAIN Runtime
    <3>1. PICK i \in 1 .. NG : \/ global_vars[i].val.kind \in {"call", "read", "logical"}
                               \/ global_vars[i].id \in DOMAIN Runtime
      BY <2>1, <2>2 DEF CheckInv, CrashingGlobal
    <3>2. global_vars[i] \in Range(global_vars)
      BY <2>1, Named DEF Range
    <3> QED
      BY <3>1, <3>2
  <2>3. /\ phase = "failed" => UncheckedDefinition \/ SomeCalledEarly
        /\ phase = "compiled" => ~UncheckedDefinition /\ EarlyReachLibrary
        /\ error = "unknown_function" => SomeCalledEarly
    BY <2>1 DEF GenInv
  <2> QED
    BY <2>2, <2>3 DEF ProgramFailsOnlyUnchecked, EarlyReachLibrary
<1> QED
  BY <1>1, ProgramAlways, PTL

\* What an item has reached.
LEMMA ReachedIs ==
  ASSUME ReachedSound, NEW at \in DOMAIN reached
  PROVE  \E p \in Bodies : \E n \in 1 .. Len(BodyOf(p)) :
           /\ at = <<p, n>> /\ BodyOf(at[1])[at[2]] = BodyOf(p)[n]
           /\ Reaches(p, n, reached[at])
<1>1. PICK r : r = reached[at]
  OBVIOUS
<1>2. PICK p \in Bodies : \E n \in 1 .. Len(BodyOf(p)) : at = <<p, n>> /\ Reaches(p, n, r)
  BY <1>1 DEF ReachedSound
<1>3. PICK n \in 1 .. Len(BodyOf(p)) : at = <<p, n>> /\ Reaches(p, n, r)
  BY <1>2
<1>4. at[1] = p /\ at[2] = n
  BY <1>3
<1> QED
  BY <1>1, <1>3, <1>4

(***************************************************************************)
(* For all definitions and every order of the maps: every generated call   *)
(* reaches the last definition of its name, with the arguments' types for  *)
(* parameters, or a function of the library by that name.                  *)
(***************************************************************************)
THEOREM CallsReachDefinitions == PrSpec => []CallsReachTheirProcedure
<1>1. ProgramInv => CallsReachTheirProcedure
  <2> SUFFICES ASSUME ProgramInv, NEW at \in DOMAIN reached, NEW item,
                      item = BodyOf(at[1])[at[2]]
               PROVE  /\ item.op = "call" =>
                           \/ ReachesDefinition(at, item)
                           \/ reached[at].of = "library" /\ LibraryInUse(item.id)
                      /\ item.op \in LibraryOps =>
                           \/ reached[at].of = "library"
                           \/ \E def \in {"procedure", "global"} :
                                Defines(def, LibraryName[item.op]) # {}
    BY DEF CallsReachTheirProcedure
  <2>1. ReachedSound
    BY DEF ProgramInv, GenInv
  <2>2. PICK p \in Bodies : \E n \in 1 .. Len(BodyOf(p)) :
           /\ at = <<p, n>> /\ BodyOf(at[1])[at[2]] = BodyOf(p)[n]
           /\ Reaches(p, n, reached[at])
    BY <2>1, ReachedIs
  <2>3. PICK n \in 1 .. Len(BodyOf(p)) : item = BodyOf(p)[n] /\ Reaches(p, n, reached[at])
    BY <2>2
  <2> QED
    BY <2>3, Zenon DEF Reaches, ReachesDefinition
<1> QED
  BY <1>1, ProgramAlways, PTL

(***************************************************************************)
(* For all definitions and every order of the maps: a load has the type    *)
(* that TypeChecker gave it, and a global's initialiser its global's,      *)
(* unless the program has two globals of that name with different types.   *)
(***************************************************************************)
THEOREM LoadsAreTyped == PrSpec => []LoadsHaveTheirType
<1>1. ProgramInv => LoadsHaveTheirType
  <2> SUFFICES ASSUME ProgramInv PROVE LoadsHaveTheirType
    OBVIOUS
  <2>1. LayoutInv /\ TextInv /\ NamedSound /\ ReachedSound
    BY DEF ProgramInv, GenInv
  <2>2. ASSUME NEW at \in DOMAIN reached, NEW item, item = BodyOf(at[1])[at[2]],
               item.op = "load"
        PROVE  \/ reached[at].type = LLVMType(type[at])
               \/ reached[at].of = "program" /\ ~OneType(item.id)
    <3>1. PICK p \in Bodies : \E n \in 1 .. Len(BodyOf(p)) :
             /\ at = <<p, n>> /\ BodyOf(at[1])[at[2]] = BodyOf(p)[n]
             /\ Reaches(p, n, reached[at])
      BY <2>1, ReachedIs
    <3>2. PICK n \in 1 .. Len(BodyOf(p)) :
            item = BodyOf(p)[n] /\ Reaches(p, n, reached[at]) /\ at = <<p, n>>
      BY <2>2, <3>1
    <3> QED
      BY <2>2, <3>2, Zenon DEF Reaches
  <2>3. ASSUME NEW g \in DOMAIN named, named[g].sort = "variable", OneType(g)
        PROVE  named[g].init = named[g].type
    <3>1. PICK r : r = named[g]
      OBVIOUS
    <3>2. IsVariable(r, g)
      BY <2>1, <2>3, <3>1 DEF NamedSound, IsProcedure, IsLibrary, FromLibrary, Function
    <3>3. PICK i \in 1 .. NG, j \in 1 .. NG :
            /\ global_vars[i].id = g /\ global_vars[j].id = g
            /\ r = [sort |-> "variable", of |-> "program",
                    type |-> LLVMType(global_vars[i].type), init |-> LLVMType(global_vars[j].type)]
      BY <3>2 DEF IsVariable
    <3>4. DOMAIN global_vars = 1 .. NG
      BY <2>1, Named
    <3>5. PICK a \in DOMAIN source : source[a].def = "global" /\ global_vars[i] = source[a]
      BY <2>1, <3>4 DEF TextInv, GlobalsText
    <3>6. PICK b \in DOMAIN source : source[b].def = "global" /\ global_vars[j] = source[b]
      BY <2>1, <3>4 DEF TextInv, GlobalsText
    <3>7. a \in Defines("global", g) /\ b \in Defines("global", g)
      BY <3>3, <3>5, <3>6 DEF Defines
    <3>8. source[a].type = source[b].type
      BY <2>3, <3>7 DEF OneType
    <3> QED
      BY <3>1, <3>3, <3>5, <3>6, <3>8
  <2> QED
    BY <2>2, <2>3, Zenon DEF LoadsHaveTheirType
<1> QED
  BY <1>1, ProgramAlways, PTL
===============================================================================
