----------------------------- MODULE AddressProofs -----------------------------
(***************************************************************************)
(* For every program: the code that CodeGen generates for a use of a       *)
(* variable addresses the variable that the block structure of the source  *)
(* makes the use mean, unless an initialised declaration shadows another;  *)
(* and CodeGen can generate all that TypeChecker went through.             *)
(*                                                                         *)
(* named_values has no scopes: it is copied when a block is entered and    *)
(* put back when it is left. The argument is that the copy a frame holds   *)
(* is right for the place where the block ends, because what is in scope   *)
(* there is what was in scope where the statement began.                   *)
(***************************************************************************)
EXTENDS CodeGenProofs

-------------------------------------------------------------------------------
(* What is in scope, returns or not: CodeGen goes through all statements.  *)

\* The declarations whose block is still open after node p - 1.
Scoped(p) ==
  {m \in 1 .. p - 1 :
     ast[m].k \in Declarers /\ \A j \in m + 1 .. p - 1 : Own(m) <= ast[j].lvl + 1}

Named(V, x) == {m \in V : ast[m].id = x}

\* named_values is right for the declarations V: a name that one of them
\* declares is bound, and if none of them is initialised and shadows another,
\* it is bound to the last of them and otherwise to nothing.
Binds(nv, V) ==
  /\ nv \in [Ids -> Nat \cup {None}]
  /\ \A x \in Ids :
       /\ Named(V, x) # {} => nv[x] # None
       /\ (\A m \in Named(V, x) : ~ShadowingInit(m))
            => nv[x] = IF Named(V, x) = {} THEN None ELSE Max(Named(V, x))

\* What follows m, up to node p, is in m's blocks, or a clause of m's.
Holds(m, p) ==
  \A j \in m + 1 .. p - 1 :
    ast[j].lvl > ast[m].lvl \/ (ast[j].lvl = ast[m].lvl /\ ast[j].k \in Clauses)

\* Each frame has the names for its statement's block and those around it.
FramesHold(n, fs) ==
  \A i \in 1 .. Len(fs) :
    /\ {"saved", "outer"} \subseteq DOMAIN fs[i]
    /\ Holds(fs[i].node, n)
    /\ Binds(fs[i].saved, Scoped(fs[i].node + 1))
    /\ ast[fs[i].node].k \in {"fordcl", "forasst"} => Binds(fs[i].outer, Scoped(fs[i].node))

\* An instruction's operands are of the variables meant.
Reaches(i) ==
  \A r \in Roles :
    IsUse(i, r) /\ (\A m \in InScope(SourceName(i, r), i.n) : ~ShadowingInit(m))
      => i.addr[r] = Meant(SourceName(i, r), i.n)

AllReach(bs) ==
  /\ IsSeq(bs)
  /\ \A b \in 1 .. Len(bs) :
       /\ "ins" \in DOMAIN bs[b] /\ IsSeq(bs[b].ins)
       /\ \A i \in 1 .. Len(bs[b].ins) : Reaches(bs[b].ins[i])

AddressInv ==
  /\ CgInv
  /\ NameInv
  /\ phase \in {"parse", "typecheck", "rejected"} => named_values = NoNames
  /\ phase = "codegen" => Binds(named_values, Scoped(cgPc)) /\ FramesHold(cgPc, frames)
  /\ AllReach(blocks)
  /\ FailsOnlyUnchecked

-------------------------------------------------------------------------------
(* How the scope changes from a node to the next.                          *)

LEMMA ScopedNext ==
  ASSUME Nested, NEW n \in 1 .. Len(ast)
  PROVE  Scoped(n + 1) = {m \in Scoped(n) : Own(m) <= ast[n].lvl + 1}
                         \cup (IF ast[n].k \in Declarers THEN {n} ELSE {})
<1>1. Len(ast) \in Nat /\ (n + 1) - 1 = n
  BY NodesTyped
<1>2. ASSUME NEW m \in 1 .. n
      PROVE  m \in Scoped(n + 1)
               <=> \/ m \in Scoped(n) /\ Own(m) <= ast[n].lvl + 1
                   \/ m = n /\ ast[n].k \in Declarers
  <2>1. CASE m = n
    BY <1>1, <2>1 DEF Scoped
  <2>2. CASE m # n
    <3>1. m \in 1 .. n - 1 /\ n \in m + 1 .. n
      BY <1>1, <2>2
    <3>2. \A j : j \in m + 1 .. n <=> j \in m + 1 .. n - 1 \/ j = n
      BY <1>1, <3>1
    <3> QED
      BY <1>1, <2>2, <3>1, <3>2 DEF Scoped
  <2> QED
    BY <2>1, <2>2
<1>3. Scoped(n + 1) \subseteq 1 .. n /\ Scoped(n) \subseteq 1 .. n
  BY <1>1 DEF Scoped
<1> QED
  BY <1>1, <1>2, <1>3

\* The scopes of declarations in scope are those of the blocks around.
LEMMA ScopedDepth ==
  ASSUME Nested, NEW n \in 1 .. Len(ast), NEW m \in Scoped(n)
  PROVE  /\ m \in 1 .. n - 1 /\ m \in 1 .. Len(ast)
         /\ Own(m) \in Nat /\ Own(m) <= Before(ast[n]) + 1
<1>1. Len(ast) \in Nat /\ m \in 1 .. n - 1 /\ m \in 1 .. Len(ast) /\ ast[m].k \in Declarers
  BY NodesTyped DEF Scoped
<1>2. Own(m) \in Nat
  BY <1>1, OwnIs
<1> DEFINE p == n - 1
<1>3. p \in 1 .. Len(ast) /\ p + 1 = n
  BY <1>1
<1>4. Before(ast[n]) = Behind(ast[p]) /\ ast[p].lvl \in Nat
  <2>1. Depth(n) = Before(ast[n]) /\ Depth(p + 1) = Behind(ast[p]) /\ ast[p].lvl \in Nat
    BY <1>3, DepthAt
  <2> QED
    BY <1>3, <2>1
<1> HIDE DEF p
<1>5. Own(m) <= Behind(ast[p]) + 1
  <2>1. CASE m = p
    BY <1>1, <1>3, <1>4, <2>1, OwnIs DEF Behind, Openers, Loops, Clauses, Declarers
  <2>2. CASE m # p
    <3>1. p \in m + 1 .. n - 1
      BY <1>1, <2>2 DEF p
    <3>2. Own(m) <= ast[p].lvl + 1
      BY <3>1 DEF Scoped
    <3> QED
      BY <1>2, <1>4, <3>2 DEF Behind
  <2> QED
    BY <2>1, <2>2
<1> QED
  BY <1>1, <1>2, <1>4, <1>5

\* A statement or the opening of one adds its own declaration.
LEMMA ScopedOn ==
  ASSUME Nested, NEW n \in 1 .. Len(ast), ast[n].k \notin Markers
  PROVE  Scoped(n + 1) = Scoped(n) \cup (IF ast[n].k \in Declarers THEN {n} ELSE {})
<1>1. \A m \in Scoped(n) : Own(m) <= ast[n].lvl + 1
  BY ScopedDepth DEF Before
<1> QED
  BY <1>1, ScopedNext

\* Behind a block the scope is that of its statement's beginning.
LEMMA ScopedBack ==
  ASSUME Nested, NEW n \in 1 .. Len(ast), ast[n].k \in Markers,
         NEW t \in 1 .. n - 1, ast[t].k \in Openers, ast[t].lvl = ast[n].lvl, Holds(t, n)
  PROVE  Scoped(n + 1) = Scoped(t)
<1>1. /\ Len(ast) \in Nat /\ t \in 1 .. Len(ast) /\ ast[t].lvl \in Nat
      /\ \A j \in 1 .. Len(ast) : ast[j].lvl \in Nat
  BY NodesTyped
<1>2. ast[n].k \notin Declarers /\ ast[t].k \notin Markers
  BY DEF Markers, Openers, Loops, Clauses, Declarers
<1>3. Scoped(n + 1) = {m \in Scoped(n) : Own(m) <= ast[t].lvl + 1}
  BY <1>2, ScopedNext
<1>4. ASSUME NEW m \in Scoped(t)
      PROVE  m \in Scoped(n) /\ Own(m) <= ast[t].lvl + 1
  <2>1. m \in 1 .. t - 1 /\ m \in 1 .. Len(ast) /\ Own(m) \in Nat /\ Own(m) <= ast[t].lvl + 1
    BY <1>1, <1>2, ScopedDepth DEF Before
  <2>2. ASSUME NEW j \in m + 1 .. n - 1
        PROVE  Own(m) <= ast[j].lvl + 1
    <3>1. j \in 1 .. Len(ast) /\ ast[j].lvl \in Nat
      BY <1>1, <2>1
    <3>2. CASE j \in m + 1 .. t - 1
      BY <3>2 DEF Scoped
    <3>3. CASE j = t
      BY <2>1, <3>3
    <3>4. CASE j \in t + 1 .. n - 1
      <4>1. ast[j].lvl >= ast[t].lvl
        BY <1>1, <3>1, <3>4 DEF Holds
      <4> QED
        BY <1>1, <2>1, <3>1, <4>1
    <3> QED
      BY <1>1, <2>1, <3>2, <3>3, <3>4
  <2>3. m \in 1 .. n - 1 /\ ast[m].k \in Declarers
    BY <1>1, <2>1 DEF Scoped
  <2> QED
    BY <2>1, <2>2, <2>3 DEF Scoped
<1>5. ASSUME NEW m \in Scoped(n), Own(m) <= ast[t].lvl + 1
      PROVE  m \in Scoped(t)
  <2>1. m \in 1 .. n - 1 /\ m \in 1 .. Len(ast) /\ ast[m].lvl \in Nat /\ ast[m].k \in Declarers
    BY <1>1, ScopedDepth DEF Scoped
  <2>2. Own(m) = ast[m].lvl + (IF ast[m].k = "fordcl" THEN 2 ELSE 1)
    BY <2>1, OwnIs
  <2>3. m # t
    BY <1>1, <1>5, <2>2, <2>1 DEF Declarers, Openers, Loops
  <2>4. m \notin t + 1 .. n - 1
    <3>1. ASSUME m \in t + 1 .. n - 1
          PROVE  FALSE
      <4>1. ast[m].lvl > ast[t].lvl
        BY <2>1, <3>1 DEF Holds, Declarers, Clauses
      <4> QED
        BY <1>1, <1>5, <2>1, <2>2, <4>1, SMTT(40)
    <3> QED
      BY <3>1
  <2>5. m \in 1 .. t - 1
    BY <1>1, <2>1, <2>3, <2>4
  <2>6. \A j \in m + 1 .. t - 1 : j \in m + 1 .. n - 1
    BY <1>1
  <2> QED
    BY <2>1, <2>5, <2>6 DEF Scoped
<1>6. Scoped(t) \subseteq Scoped(n) /\ Scoped(n + 1) \subseteq Scoped(n)
  BY <1>3, <1>4
<1> QED
  BY <1>3, <1>4, <1>5

\* The source's scope of a name is the part of the open one that has the name.
LEMMA InScopeIsScoped ==
  ASSUME Nested, NEW n \in 1 .. Len(ast), NEW x
  PROVE  InScope(x, n) = Named(Scoped(n + 1), x)
<1>1. Len(ast) \in Nat /\ (n + 1) - 1 = n
  BY NodesTyped
<1>2. \A m \in 1 .. n :
        (\A j \in m + 1 .. n : IF ast[m].k = "fordcl" THEN ast[j].lvl > ast[m].lvl
                                                      ELSE ast[j].lvl >= ast[m].lvl)
        <=> (\A j \in m + 1 .. n : Own(m) <= ast[j].lvl + 1)
  BY ReachIsOwn
<1> QED
  BY <1>1, <1>2 DEF InScope, Named, Scoped

-------------------------------------------------------------------------------
(* How named_values follows.                                               *)

LEMMA NamedOn ==
  ASSUME Nested, NEW n \in 1 .. Len(ast), ast[n].k \in Declarers, NEW x
  PROVE  IF ast[n].id = x
         THEN /\ Named(Scoped(n + 1), x) = Named(Scoped(n), x) \cup {n}
              /\ Named(Scoped(n + 1), x) # {} /\ Max(Named(Scoped(n + 1), x)) = n
         ELSE Named(Scoped(n + 1), x) = Named(Scoped(n), x)
<1>1. Scoped(n + 1) = Scoped(n) \cup {n}
  BY ScopedOn DEF Declarers, Markers, Clauses
<1>2. CASE ast[n].id = x
  <2> DEFINE S == Named(Scoped(n + 1), x)
  <2>1. S = Named(Scoped(n), x) \cup {n}
    BY <1>1, <1>2 DEF Named
  <2>2. n \in Nat /\ S \subseteq 1 .. n /\ n \in S
    <3>1. n \in Nat /\ (n + 1) - 1 = n
      BY NodesTyped
    <3>2. Scoped(n + 1) \subseteq 1 .. n
      BY <3>1 DEF Scoped
    <3> QED
      BY <2>1, <3>1, <3>2 DEF Named
  <2> HIDE DEF S
  <2>3. Max(S) \in 1 .. n /\ n <= Max(S)
    BY <2>2, MaxIsGreatest
  <2>4. Max(S) = n
    BY <2>2, <2>3
  <2> QED
    BY <1>2, <2>1, <2>2, <2>4 DEF S
<1>3. CASE ast[n].id # x
  BY <1>1, <1>3 DEF Named
<1> QED
  BY <1>2, <1>3

LEMMA BindsOn ==
  ASSUME Nested, NEW n \in 1 .. Len(ast), ast[n].k \in Declarers,
         NEW nv, Binds(nv, Scoped(n))
  PROVE  /\ Binds(Bind(nv, ast[n].id, n), Scoped(n + 1))
         /\ ast[n].k \in {"init", "fordcl"} => Binds(Insert(nv, ast[n].id, n), Scoped(n + 1))
<1> DEFINE d == ast[n].id
           bv == [nv EXCEPT ![d] = n]
           NoShadow(V) == \A m \in V : ~ShadowingInit(m)
           Old(x) == Named(Scoped(n), x)
           New(x) == Named(Scoped(n + 1), x)
<1>1. /\ d \in Ids /\ n \in Nat /\ n # None /\ nv \in [Ids -> Nat \cup {None}]
      /\ \A x \in Ids : /\ Old(x) # {} => nv[x] # None
                        /\ NoShadow(Old(x)) => nv[x] = IF Old(x) = {} THEN None ELSE Max(Old(x))
  BY NodesTyped, AstAssumption DEF Binds, Nested, Declares
<1>2. \A x : IF d = x THEN /\ New(x) = Old(x) \cup {n} /\ New(x) # {} /\ Max(New(x)) = n
                     ELSE New(x) = Old(x)
  BY NamedOn
<1>3. bv \in [Ids -> Nat \cup {None}] /\ bv[d] = n /\ \A x \in Ids : x # d => bv[x] = nv[x]
  BY <1>1
<1> HIDE DEF Old, New, d, bv, NoShadow
<1>4. ASSUME NEW x \in Ids
      PROVE  /\ New(x) # {} => bv[x] # None
             /\ NoShadow(New(x)) => bv[x] = IF New(x) = {} THEN None ELSE Max(New(x))
  <2>1. CASE x = d
    BY <1>1, <1>2, <1>3, <2>1
  <2>2. CASE x # d
    <3>1. bv[x] = nv[x] /\ New(x) = Old(x)
      BY <1>2, <1>3, <2>2
    <3> QED
      BY <1>1, <3>1
  <2> QED
    BY <2>1, <2>2
<1>5. Binds(bv, Scoped(n + 1))
  BY <1>3, <1>4 DEF Binds, New, NoShadow
<1>6. ASSUME ast[n].k \in {"init", "fordcl"}, nv[d] # None
      PROVE  Binds(nv, Scoped(n + 1))
  <2>1. ASSUME NEW x \in Ids
        PROVE  /\ New(x) # {} => nv[x] # None
               /\ NoShadow(New(x)) => nv[x] = IF New(x) = {} THEN None ELSE Max(New(x))
    <3>1. CASE x = d
      <4>1. ~NoShadow(New(d))
        <5>1. ASSUME NoShadow(New(d)) PROVE FALSE
          <6>1. n \in New(d) /\ ~ShadowingInit(n)
            BY <1>2, <5>1 DEF NoShadow
          <6>2. New(d) = {n}
            BY <1>6, <6>1, InScopeIsScoped DEF ShadowingInit, New, d
          <6>3. Old(d) \subseteq {n}
            BY <1>2, <6>2
          <6>4. n \notin Old(d)
            BY <1>1 DEF Old, Named, Scoped
          <6>5. Old(d) = {}
            BY <6>3, <6>4
          <6>6. NoShadow(Old(d))
            BY <6>5 DEF NoShadow
          <6> QED
            BY <1>1, <1>6, <6>5, <6>6
        <5> QED
          BY <5>1
      <4> QED
        BY <1>6, <3>1, <4>1
    <3>2. CASE x # d
      BY <1>1, <1>2, <3>2
    <3> QED
      BY <3>1, <3>2
  <2> QED
    BY <1>1, <2>1 DEF Binds, New, NoShadow
<1>7. Bind(nv, d, n) = bv /\ Insert(nv, d, n) = IF nv[d] = None THEN bv ELSE nv
  BY DEF Bind, Insert, bv
<1> QED
  BY <1>5, <1>6, <1>7 DEF d

\* What a name's address is.
LEMMA AddressIs ==
  ASSUME Nested, NEW n \in 1 .. Len(ast), NEW nv, Binds(nv, Scoped(n + 1)), NEW x
  PROVE  /\ ~Loads(nv, x) => x \in Ids /\ InScope(x, n) = {} /\ x \notin Globals
         /\ Address(nv, x) # None /\ (\A m \in InScope(x, n) : ~ShadowingInit(m))
              => Address(nv, x) = Meant(x, n)
<1>1. InScope(x, n) = Named(Scoped(n + 1), x)
  BY InScopeIsScoped
<1>2. CASE x \notin Ids
  BY <1>2 DEF Loads, Address
<1>3. CASE x \in Ids
  <2>1. /\ InScope(x, n) # {} => nv[x] # None
        /\ (\A m \in InScope(x, n) : ~ShadowingInit(m))
             => nv[x] = IF InScope(x, n) = {} THEN None ELSE Max(InScope(x, n))
    BY <1>1, <1>3 DEF Binds
  <2>2. Address(nv, x) = IF nv[x] # None THEN nv[x] ELSE IF x \in Globals THEN 0 ELSE None
    BY <1>3 DEF Address
  <2>3. 0 # None
    BY AstAssumption
  <2> QED
    BY <1>3, <2>1, <2>2, <2>3 DEF Loads, Meant
<1> QED
  BY <1>2, <1>3

-------------------------------------------------------------------------------
(* The instructions.                                                       *)

LEMMA EmitReach ==
  ASSUME NEW bs, AllReach(bs), NEW b \in 1 .. Len(bs), NEW x, Reaches(x)
  PROVE  AllReach(Emit(bs, b, x)) /\ Len(Emit(bs, b, x)) = Len(bs)
<1> DEFINE c == [bs[b] EXCEPT !.ins = Append(bs[b].ins, x)]
           cs == [bs EXCEPT ![b] = c]
<1>1. Emit(bs, b, x) = cs
  BY DEF Emit
<1>2. IsSeq(bs) /\ "ins" \in DOMAIN bs[b] /\ IsSeq(bs[b].ins)
  BY DEF AllReach
<1>3. DOMAIN c = DOMAIN bs[b] /\ c.ins = Append(bs[b].ins, x)
  BY <1>2
<1> HIDE DEF c
<1>4. /\ Len(bs) \in Nat /\ IsSeq(cs) /\ Len(cs) = Len(bs) /\ cs[b] = c
      /\ \A d \in 1 .. Len(bs) : d # b => cs[d] = bs[d]
  BY <1>2, SetSeq
<1> HIDE DEF cs
<1>5. /\ IsSeq(c.ins) /\ Len(c.ins) = Len(bs[b].ins) + 1 /\ Len(bs[b].ins) \in Nat
      /\ \A i \in 1 .. Len(bs[b].ins) : c.ins[i] = bs[b].ins[i]
      /\ c.ins[Len(bs[b].ins) + 1] = x
  BY <1>2, <1>3, AppendSeq
<1>6. ASSUME NEW i \in 1 .. Len(c.ins)
      PROVE  Reaches(c.ins[i])
  <2>1. i = Len(bs[b].ins) + 1 \/ i \in 1 .. Len(bs[b].ins)
    BY <1>5
  <2>2. CASE i \in 1 .. Len(bs[b].ins)
    <3>1. Reaches(bs[b].ins[i])
      BY <2>2 DEF AllReach
    <3> QED
      BY <1>5, <2>2, <3>1
  <2> QED
    BY <1>5, <2>1, <2>2
<1>7. ASSUME NEW d \in 1 .. Len(cs)
      PROVE  /\ "ins" \in DOMAIN cs[d] /\ IsSeq(cs[d].ins)
             /\ \A i \in 1 .. Len(cs[d].ins) : Reaches(cs[d].ins[i])
  <2>1. CASE d = b
    BY <1>2, <1>3, <1>4, <1>5, <1>6, <2>1
  <2>2. CASE d # b
    BY <1>4, <2>2 DEF AllReach
  <2> QED
    BY <2>1, <2>2
<1> QED
  BY <1>1, <1>4, <1>7 DEF AllReach

LEMMA PlaceReach ==
  ASSUME NEW bs, AllReach(bs), NEW b \in 1 .. Len(bs)
  PROVE  AllReach(Place(bs, b)) /\ Len(Place(bs, b)) = Len(bs)
<1> DEFINE c == [bs[b] EXCEPT !.placed = TRUE]
           cs == [bs EXCEPT ![b] = c]
<1>1. Place(bs, b) = cs
  BY DEF Place
<1>2. IsSeq(bs) /\ "ins" \in DOMAIN bs[b]
  BY DEF AllReach
<1>3. DOMAIN c = DOMAIN bs[b] /\ c.ins = bs[b].ins
  BY <1>2
<1> HIDE DEF c
<1>4. /\ Len(bs) \in Nat /\ IsSeq(cs) /\ Len(cs) = Len(bs) /\ cs[b] = c
      /\ \A d \in 1 .. Len(bs) : d # b => cs[d] = bs[d]
  BY <1>2, SetSeq
<1> HIDE DEF cs
<1>5. \A d \in 1 .. Len(bs) : DOMAIN cs[d] = DOMAIN bs[d] /\ cs[d].ins = bs[d].ins
  BY <1>3, <1>4
<1> QED
  BY <1>1, <1>4, <1>5 DEF AllReach

LEMMA NewReach ==
  ASSUME NEW bs, AllReach(bs), NEW name, NEW placed
  PROVE  /\ AllReach(Append(bs, NewBlock(name, placed)))
         /\ Len(bs) \in Nat /\ Len(Append(bs, NewBlock(name, placed))) = Len(bs) + 1
<1> DEFINE x == NewBlock(name, placed)
           cs == Append(bs, x)
<1>1. "ins" \in DOMAIN x /\ x.ins = <<>> /\ IsSeq(<<>>)
  <2>1. <<>> \in Seq({})
    OBVIOUS
  <2> QED
    BY <2>1 DEF NewBlock, IsSeq
<1> HIDE DEF x
<1>2. /\ Len(bs) \in Nat /\ IsSeq(cs) /\ Len(cs) = Len(bs) + 1 /\ cs[Len(bs) + 1] = x
      /\ \A d \in 1 .. Len(bs) : cs[d] = bs[d]
  BY AppendSeq DEF AllReach
<1> HIDE DEF cs
<1>3. ASSUME NEW d \in 1 .. Len(cs)
      PROVE  /\ "ins" \in DOMAIN cs[d] /\ IsSeq(cs[d].ins)
             /\ \A i \in 1 .. Len(cs[d].ins) : Reaches(cs[d].ins[i])
  <2>1. CASE d = Len(bs) + 1
    BY <1>1, <1>2, <2>1
  <2>2. CASE d \in 1 .. Len(bs)
    BY <1>2, <2>2 DEF AllReach
  <2> QED
    BY <1>2, <2>1, <2>2
<1>4. AllReach(cs)
  BY <1>2, <1>3 DEF AllReach
<1> QED
  BY <1>2, <1>4 DEF cs, x

\* A branch uses no variable.
LEMMA BranchReach ==
  ASSUME NEW bs, AllReach(bs), NEW c \in 1 .. Len(bs), NEW n, NEW b
  PROVE  /\ AllReach(Emit(bs, c, Br(n, b))) /\ Len(Emit(bs, c, Br(n, b))) = Len(bs)
         /\ AllReach(BrIfOpen(bs, c, n, b)) /\ Len(BrIfOpen(bs, c, n, b)) = Len(bs)
<1>1. Br(n, b).op = "br"
  BY DEF Br, Instruction
<1>2. Reaches(Br(n, b))
  BY <1>1 DEF Reaches, IsUse
<1> QED
  BY <1>2, EmitReach DEF BrIfOpen

\* cs is bs with n blocks made after it.
Wider(bs, cs, n) == AllReach(cs) /\ Len(cs) = Len(bs) + n /\ Len(bs) \in Nat

\* The blocks of a loop, made together.
LEMMA ManyReach ==
  ASSUME NEW bs, AllReach(bs), NEW a, NEW b, NEW c, NEW d
  PROVE  /\ Wider(bs, bs \o <<NewBlock(a, TRUE), NewBlock(b, TRUE), NewBlock(c, TRUE)>>, 3)
         /\ Wider(bs, bs \o <<NewBlock(a, TRUE), NewBlock(b, TRUE), NewBlock(c, TRUE),
                              NewBlock(d, TRUE)>>, 4)
<1> DEFINE b1 == NewBlock(a, TRUE)
           b2 == NewBlock(b, TRUE)
           b3 == NewBlock(c, TRUE)
           b4 == NewBlock(d, TRUE)
           s1 == Append(bs, b1)
           s2 == Append(s1, b2)
           s3 == Append(s2, b3)
           s4 == Append(s3, b4)
<1>1. AllReach(s1) /\ Len(bs) \in Nat /\ Len(s1) = Len(bs) + 1
  BY NewReach
<1> HIDE DEF s1
<1>2. AllReach(s2) /\ Len(s2) = Len(s1) + 1
  BY <1>1, NewReach
<1> HIDE DEF s2
<1>3. AllReach(s3) /\ Len(s3) = Len(s2) + 1
  BY <1>2, NewReach
<1> HIDE DEF s3
<1>4. AllReach(s4) /\ Len(s4) = Len(s3) + 1
  BY <1>3, NewReach
<1> HIDE DEF s4
<1>5. Len(s3) = Len(bs) + 3 /\ Len(s4) = Len(bs) + 4
  BY <1>1, <1>2, <1>3, <1>4
<1> HIDE DEF b1, b2, b3, b4
<1>6. bs \o <<b1, b2, b3>> = s3 /\ bs \o <<b1, b2, b3, b4>> = s4
  BY ConcatIs, SMTT(40) DEF s1, s2, s3, s4, AllReach
<1>7. Wider(bs, bs \o <<b1, b2, b3>>, 3) /\ Wider(bs, bs \o <<b1, b2, b3, b4>>, 4)
  BY <1>1, <1>3, <1>4, <1>5, <1>6 DEF Wider
<1> QED
  BY <1>7 DEF b1, b2, b3, b4

\* The instructions of a node take their operands from what is bound there.
LEMMA OperandsReach ==
  ASSUME Nested, NEW n \in 1 .. Len(ast), NEW nv, Binds(nv, Scoped(n + 1))
  PROVE  /\ \A id, rd :
              /\ id \in {None, Address(nv, ast[n].id)} \/ ast[n].k \in Declarers
              /\ rd \in {None, Address(nv, ast[n].rd)}
              => Reaches(Effect(n, "do", id, rd))
         /\ Reaches(Effect(n, "ep", None, Address(nv, ast[n].ep)))
         /\ \A b, c : Reaches(CondBr(n, Address(nv, ast[n].cd), b, c))
         /\ Reaches(Ret(n, Address(nv, ast[n].rd)))
<1>1. \A x : Address(nv, x) # None /\ (\A m \in InScope(x, n) : ~ShadowingInit(m))
               => Address(nv, x) = Meant(x, n)
  BY AddressIs
<1>2. ASSUME NEW id, NEW rd,
             id \in {None, Address(nv, ast[n].id)} \/ ast[n].k \in Declarers,
             rd \in {None, Address(nv, ast[n].rd)}
      PROVE  Reaches(Effect(n, "do", id, rd))
  <2> DEFINE i == Effect(n, "do", id, rd)
  <2>1. /\ i.n = n /\ i.role = "do"
        /\ i.addr["id"] = id /\ i.addr["rd"] = rd /\ i.addr["cd"] = None /\ i.addr["ep"] = None
    BY DEF Effect, Instruction, NoAddr, Roles
  <2> HIDE DEF i
  <2>2. \A r \in Roles : SourceName(i, r) = ast[n][r]
    BY <2>1 DEF SourceName
  <2>3. \A r \in Roles : IsUse(i, r) => i.addr[r] = Address(nv, ast[n][r]) /\ i.addr[r] # None
    BY <1>2, <2>1 DEF IsUse, Roles
  <2> QED
    BY <1>1, <2>1, <2>2, <2>3 DEF Reaches, i
<1>3. Reaches(Effect(n, "ep", None, Address(nv, ast[n].ep)))
  <2> DEFINE a == Address(nv, ast[n].ep)
             i == Effect(n, "ep", None, a)
  <2>1. /\ i.n = n /\ i.role = "ep"
        /\ i.addr["id"] = None /\ i.addr["rd"] = a /\ i.addr["cd"] = None /\ i.addr["ep"] = None
    BY DEF Effect, Instruction, NoAddr, Roles
  <2> HIDE DEF i
  <2>2. \A r \in Roles : SourceName(i, r) = ast[n].ep
    BY <2>1 DEF SourceName
  <2>3. \A r \in Roles : IsUse(i, r) => i.addr[r] = Address(nv, ast[n].ep) /\ i.addr[r] # None
    BY <2>1 DEF IsUse, Roles
  <2> QED
    BY <1>1, <2>1, <2>2, <2>3 DEF Reaches, i
<1>4. ASSUME NEW b, NEW c
      PROVE  Reaches(CondBr(n, Address(nv, ast[n].cd), b, c))
  <2> DEFINE a == Address(nv, ast[n].cd)
             i == CondBr(n, a, b, c)
  <2>1. /\ i.n = n /\ i.role = "do"
        /\ i.addr["id"] = None /\ i.addr["rd"] = None /\ i.addr["cd"] = a /\ i.addr["ep"] = None
    BY DEF CondBr, Instruction, NoAddr, Roles
  <2> HIDE DEF i
  <2>2. \A r \in Roles : SourceName(i, r) = ast[n][r]
    BY <2>1 DEF SourceName
  <2>3. \A r \in Roles : IsUse(i, r) => i.addr[r] = Address(nv, ast[n][r]) /\ i.addr[r] # None
    BY <2>1 DEF IsUse, Roles
  <2> QED
    BY <1>1, <2>1, <2>2, <2>3 DEF Reaches, i
<1>5. Reaches(Ret(n, Address(nv, ast[n].rd)))
  <2> DEFINE a == Address(nv, ast[n].rd)
             i == Ret(n, a)
  <2>1. /\ i.n = n /\ i.role = "do"
        /\ i.addr["id"] = None /\ i.addr["rd"] = a /\ i.addr["cd"] = None /\ i.addr["ep"] = None
    BY DEF Ret, Instruction, NoAddr, Roles
  <2> HIDE DEF i
  <2>2. \A r \in Roles : SourceName(i, r) = ast[n][r]
    BY <2>1 DEF SourceName
  <2>3. \A r \in Roles : IsUse(i, r) => i.addr[r] = Address(nv, ast[n][r]) /\ i.addr[r] # None
    BY <2>1 DEF IsUse, Roles
  <2> QED
    BY <1>1, <2>1, <2>2, <2>3 DEF Reaches, i
<1> QED
  BY <1>2, <1>3, <1>4, <1>5

\* What is said of the tree does not change while the tree does not.
LEMMA SameScope ==
  ASSUME ast' = ast
  PROVE  /\ \A p : Scoped(p)' = Scoped(p)
         /\ \A nv, V : Binds(nv, V)' <=> Binds(nv, V)
         /\ \A n, fs : FramesHold(n, fs)' <=> FramesHold(n, fs)
         /\ \A bs : AllReach(bs)' <=> AllReach(bs)
<1>1. \A p : Scoped(p)' = Scoped(p)
  BY DEF Scoped, Own
<1>2. \A m : ShadowingInit(m)' <=> ShadowingInit(m)
  BY SameText DEF ShadowingInit
<1>3. \A nv, V : Binds(nv, V)' <=> Binds(nv, V)
  BY <1>2, ZenonT(60) DEF Binds, Named
<1>4. \A m, p : Holds(m, p)' <=> Holds(m, p)
  BY DEF Holds
<1>5. \A n, fs : FramesHold(n, fs)' <=> FramesHold(n, fs)
  BY <1>1, <1>3, <1>4 DEF FramesHold
<1>6. \A i, r : /\ IsUse(i, r)' <=> IsUse(i, r)
               /\ SourceName(i, r)' = SourceName(i, r)
               /\ Meant(SourceName(i, r), i.n)' = Meant(SourceName(i, r), i.n)
               /\ InScope(SourceName(i, r), i.n)' = InScope(SourceName(i, r), i.n)
  BY SameText DEF IsUse, SourceName, Meant
<1>7. \A i : Reaches(i)' <=> Reaches(i)
  BY <1>2, <1>6 DEF Reaches
<1>8. \A bs : AllReach(bs)' <=> AllReach(bs)
  BY <1>7 DEF AllReach
<1> QED
  BY <1>1, <1>3, <1>5, <1>8

-------------------------------------------------------------------------------
(* The frames.                                                             *)

\* A node of a frame's blocks leaves the frame's hold on them as it is.
LEMMA HoldsOn ==
  ASSUME Nested, NEW n \in 1 .. Len(ast), NEW m \in 1 .. n - 1, Holds(m, n),
         ast[n].lvl > ast[m].lvl \/ (ast[n].lvl = ast[m].lvl /\ ast[n].k \in Clauses)
  PROVE  Holds(m, n + 1)
<1>1. \A j : j \in m + 1 .. (n + 1) - 1 => j \in m + 1 .. n - 1 \/ j = n
  BY NodesTyped
<1> QED
  BY <1>1 DEF Holds

LEMMA FrameHoldsOn ==
  ASSUME Nested, NEW n \in 1 .. Len(ast), NEW bs, NEW fs, FramesMatch(n, bs, fs),
         FramesHold(n, fs), NEW i \in 1 .. Len(fs), i < Len(fs) \/ ast[n].k # "end"
  PROVE  Holds(fs[i].node, n + 1)
<1>1. /\ Len(fs) = Before(ast[n]) /\ ast[n].lvl \in Nat
      /\ fs[i].node \in 1 .. n - 1 /\ ast[fs[i].node].lvl = i - 1 /\ Holds(fs[i].node, n)
  BY DepthAt DEF FramesMatch, FramesHold
<1>2. CASE ast[n].k \notin Markers
  <2>1. i \in 1 .. ast[n].lvl
    BY <1>1, <1>2 DEF Before
  <2>2. ast[n].lvl > ast[fs[i].node].lvl
    BY <1>1, <2>1
  <2> QED
    BY <1>1, <2>2, HoldsOn
<1>3. CASE ast[n].k \in Markers
  <2>1. Len(fs) = ast[n].lvl + 1
    BY <1>1, <1>3 DEF Before
  <2> DEFINE l == ast[n].lvl
             f == ast[fs[i].node].lvl
             k == Len(fs)
  <2>2. k = l + 1 /\ l \in Nat /\ f = i - 1 /\ i \in 1 .. k
    BY <1>1, <2>1
  <2> HIDE DEF l, f, k
  <2>3. l > f \/ (l = f /\ i = k)
    BY ONLY <2>2
  <2>4. ast[n].lvl > ast[fs[i].node].lvl \/ (ast[n].lvl = ast[fs[i].node].lvl /\ i = Len(fs))
    BY <2>3 DEF l, f, k
  <2>5. i = Len(fs) => ast[n].k \in Clauses
    BY <1>3, <2>1 DEF Markers
  <2> QED
    BY <1>1, <2>4, <2>5, HoldsOn
<1> QED
  BY <1>2, <1>3

LEMMA FramesHoldOn ==
  ASSUME Nested, NEW n \in 1 .. Len(ast), ast[n].k # "end", NEW bs, NEW fs,
         FramesMatch(n, bs, fs), FramesHold(n, fs)
  PROVE  FramesHold(n + 1, fs)
BY FrameHoldsOn DEF FramesHold

LEMMA FramesHoldBack ==
  ASSUME Nested, NEW n \in 1 .. Len(ast), NEW bs, NEW fs, fs # <<>>,
         FramesMatch(n, bs, fs), FramesHold(n, fs)
  PROVE  FramesHold(n + 1, SubSeq(fs, 1, Len(fs) - 1))
<1> DEFINE gs == SubSeq(fs, 1, Len(fs) - 1)
<1>1. /\ Len(fs) \in Nat \ {0} /\ Len(gs) = Len(fs) - 1
      /\ \A i \in 1 .. Len(gs) : gs[i] = fs[i]
  BY FrontSeq DEF FramesMatch
<1> HIDE DEF gs
<1>2. \A i \in 1 .. Len(gs) : i \in 1 .. Len(fs) /\ i < Len(fs)
  BY <1>1
<1>3. \A i \in 1 .. Len(gs) : Holds(gs[i].node, n + 1)
  BY <1>1, <1>2, FrameHoldsOn
<1>4. FramesHold(n + 1, gs)
  BY <1>1, <1>2, <1>3 DEF FramesHold
<1> QED
  BY <1>4 DEF gs

LEMMA FramesHoldPush ==
  ASSUME Nested, NEW n \in 1 .. Len(ast), ast[n].k # "end", NEW bs, NEW fs, NEW f,
         FramesMatch(n, bs, fs), FramesHold(n, fs),
         {"saved", "outer"} \subseteq DOMAIN f, f.node = n, Binds(f.saved, Scoped(n + 1)),
         ast[n].k \in {"fordcl", "forasst"} => Binds(f.outer, Scoped(n))
  PROVE  FramesHold(n + 1, Append(fs, f))
<1> DEFINE gs == Append(fs, f)
<1>1. /\ Len(fs) \in Nat /\ Len(gs) = Len(fs) + 1 /\ gs[Len(fs) + 1] = f
      /\ \A i \in 1 .. Len(fs) : gs[i] = fs[i]
  BY AppendSeq DEF FramesMatch
<1> HIDE DEF gs
<1>2. Holds(n, n + 1)
  BY NodesTyped DEF Holds
<1>3. FramesHold(n + 1, fs)
  BY FramesHoldOn
<1>4. ASSUME NEW i \in 1 .. Len(gs)
      PROVE  /\ {"saved", "outer"} \subseteq DOMAIN gs[i]
             /\ Holds(gs[i].node, n + 1)
             /\ Binds(gs[i].saved, Scoped(gs[i].node + 1))
             /\ ast[gs[i].node].k \in {"fordcl", "forasst"} => Binds(gs[i].outer, Scoped(gs[i].node))
  <2>1. CASE i = Len(fs) + 1
    BY <1>1, <1>2, <2>1
  <2>2. CASE i \in 1 .. Len(fs)
    BY <1>1, <1>3, <2>2 DEF FramesHold
  <2> QED
    BY <1>1, <2>1, <2>2
<1>5. FramesHold(n + 1, gs)
  BY <1>4 DEF FramesHold
<1> QED
  BY <1>5 DEF gs

\* Another block to fall through to changes no names.
LEMMA FallsThroughHolds ==
  ASSUME NEW n, NEW bs, NEW fs, fs # <<>>, FramesMatch(n, bs, fs), NEW b,
         NEW o, FramesHold(o, fs)
  PROVE  FramesHold(o, [fs EXCEPT ![Len(fs)].next = b])
<1> DEFINE k == Len(fs)
           f == [fs[k] EXCEPT !.next = b]
           gs == [fs EXCEPT ![k] = f]
<1>1. IsSeq(fs) /\ k \in Nat \ {0}
  BY FrontSeq DEF FramesMatch
<1>2. k \in 1 .. Len(fs) /\ {"node", "saved", "outer"} \subseteq DOMAIN fs[k]
  BY <1>1 DEF FramesMatch, FramesHold
<1>3. /\ DOMAIN f = DOMAIN fs[k] /\ f.node = fs[k].node
      /\ f.saved = fs[k].saved /\ f.outer = fs[k].outer
  BY <1>2
<1> HIDE DEF f
<1>4. Len(gs) = k /\ gs[k] = f /\ \A j \in 1 .. Len(fs) : j # k => gs[j] = fs[j]
  BY <1>1, <1>2, SetSeq
<1> HIDE DEF gs
<1>5. \A j \in 1 .. k : /\ DOMAIN gs[j] = DOMAIN fs[j] /\ gs[j].node = fs[j].node
                        /\ gs[j].saved = fs[j].saved /\ gs[j].outer = fs[j].outer
  BY <1>3, <1>4
<1>6. FramesHold(o, gs)
  BY <1>4, <1>5 DEF FramesHold
<1> QED
  BY <1>6 DEF gs, f

\* What the frame on top has for the marker that its statement comes to.
LEMMA TopHolds ==
  ASSUME CgInv, FramesHold(cgPc, frames), NEW kinds, CgAt(kinds), ast[cgPc].k \in Markers
  PROVE  /\ frames # <<>> /\ Top.node \in 1 .. Len(ast) /\ Top.node \in 1 .. cgPc - 1
         /\ ast[Top.node].k \in Openers /\ ast[Top.node].lvl = ast[cgPc].lvl
         /\ Holds(Top.node, cgPc)
         /\ ast[cgPc].k \in Clauses => ast[Top.node].k \notin Loops
         /\ Binds(Restored, Scoped(Top.node + 1))
         /\ ast[Top.node].k # "fordcl" => Binds(Restored, Scoped(cgPc + 1))
         /\ ast[Top.node].k \in {"fordcl", "forasst"} => Binds(Top.outer, Scoped(cgPc + 1))
<1> DEFINE t == Top.node
<1>1. /\ Nested /\ FinalsEnd(ast) /\ cgPc \in 1 .. Len(ast) /\ ast[cgPc].lvl \in Nat
      /\ FramesMatch(cgPc, blocks, frames)
  BY AtCg DEF Here
<1>2. Len(frames) = ast[cgPc].lvl + 1
  BY <1>1, DepthAt DEF Before, FramesMatch
<1>3. frames # <<>> /\ Len(frames) \in 1 .. Len(frames)
  BY TopFrame
<1>4. /\ t \in 1 .. cgPc - 1 /\ ast[t].k \in Openers /\ ast[t].lvl = ast[cgPc].lvl
      /\ ast[t].k \in Loops => t \in LiveLoops(cgPc)
      /\ Holds(t, cgPc) /\ Binds(Restored, Scoped(t + 1))
      /\ ast[t].k \in {"fordcl", "forasst"} => Binds(Top.outer, Scoped(t))
  <2> DEFINE i == Len(frames)
             e == frames[i]
  <2>1. /\ e.node \in 1 .. cgPc - 1 /\ ast[e.node].k \in Openers /\ ast[e.node].lvl = i - 1
        /\ ast[e.node].k \in Loops => e.node \in LiveLoops(cgPc)
    BY <1>1, <1>3 DEF FramesMatch
  <2>2. /\ Holds(e.node, cgPc) /\ Binds(e.saved, Scoped(e.node + 1))
        /\ ast[e.node].k \in {"fordcl", "forasst"} => Binds(e.outer, Scoped(e.node))
    BY <1>3 DEF FramesHold
  <2>3. i - 1 = ast[cgPc].lvl
    BY <1>1, <1>2
  <2> QED
    BY <2>1, <2>2, <2>3 DEF Top, Restored
<1>5. t \in 1 .. Len(ast) /\ cgPc \in t + 1 .. Len(ast)
  BY <1>1, <1>4, NodesTyped
<1> HIDE DEF t
<1>6. Scoped(cgPc + 1) = Scoped(t)
  BY <1>1, <1>4, ScopedBack
<1>7. ast[t].k # "fordcl" => Scoped(t + 1) = Scoped(t)
  BY <1>1, <1>4, <1>5, ScopedOn DEF Openers, Loops, Markers, Clauses, Declarers
<1>8. ast[cgPc].k \in Clauses => ast[t].k \notin Loops
  <2> SUFFICES ASSUME ast[t].k \in Loops PROVE ast[cgPc].k = "end"
    BY DEF Clauses
  <2>1. Inside(ast, t, cgPc - 1)
    BY <1>4 DEF LiveLoops, Live
  <2>2. ~(ast[cgPc].lvl > ast[t].lvl)
    BY <1>1, <1>4
  <2> QED
    BY <1>1, <1>5, <2>1, <2>2 DEF FinalsEnd, Finals
<1> QED
  BY <1>3, <1>4, <1>5, <1>6, <1>7, <1>8 DEF t

-------------------------------------------------------------------------------
(* The parts of a step.                                                    *)

\* Where the walk stands at a node.
LEMMA AtAddress ==
  ASSUME AddressInv, NEW kinds, CgAt(kinds)
  PROVE  /\ phase = "codegen" /\ Nested /\ nest = <<>> /\ cgPc \in 1 .. Len(ast)
         /\ Here = ast[cgPc] /\ ast[cgPc].k \in kinds /\ Declares(ast[cgPc])
         /\ cur \in 1 .. Len(blocks) /\ AllReach(blocks)
         /\ Binds(named_values, Scoped(cgPc))
         /\ FramesMatch(cgPc, blocks, frames) /\ FramesHold(cgPc, frames)
<1>1. /\ phase = "codegen" /\ Nested /\ cgPc \in 1 .. Len(ast) /\ Here.k \in kinds
      /\ Here = ast[cgPc] /\ cur \in 1 .. Len(blocks)
      /\ FramesMatch(cgPc, blocks, frames)
  BY AtCg DEF AddressInv
<1> QED
  BY <1>1 DEF AddressInv, NameInv, Nested

\* A step that goes on to the next node.
LEMMA GoOnAddress ==
  ASSUME AddressInv, NEW kinds, CgAt(kinds), CgInv',
         NEW ok, NEW cs, NEW c, NEW nv, Proceed(ok, cs, c, nv),
         AllReach(cs), Binds(nv, Scoped(cgPc + 1)), FramesHold(cgPc + 1, frames')
  PROVE  AddressInv'
<1>1. /\ phase = "codegen" /\ UNCHANGED tcVars /\ cgPc' = cgPc + 1
      /\ blocks' = cs /\ named_values' = nv
  BY DEF CgAt, Proceed
<1>2. NameInv'
  BY <1>1, NameInvNext DEF AddressInv
<1>3. ast' = ast /\ phase' = "codegen"
  BY <1>1 DEF tcVars
<1>4. /\ AllReach(blocks)' /\ Binds(named_values, Scoped(cgPc))'
      /\ FramesHold(cgPc, frames)'
  BY <1>1, <1>3, SameScope
<1>5. FailsOnlyUnchecked'
  BY <1>3 DEF FailsOnlyUnchecked
<1> QED
  BY <1>2, <1>3, <1>4, <1>5 DEF AddressInv

\* A step that ends the walk.
LEMMA LeaveAddress ==
  ASSUME AddressInv, phase = "codegen", CgInv', phase' \in {"failed", "run", "malformed"},
         UNCHANGED <<ast, nest, tcPc, table, attributes>>, AllReach(blocks'), FailsOnlyUnchecked'
  PROVE  AddressInv'
<1>1. UNCHANGED <<ast, nest, tcPc, table, frame_offset, offset, loop_target>>
  BY DEF attributes
<1>2. phase' \in Phases /\ (phase = "parse" <=> phase' = "parse")
  BY DEF Phases
<1>3. BreakInv'
  BY DEF CgInv
<1>4. RejectsOnlyErrors'
  BY DEF RejectsOnlyErrors
<1>5. NameInv'
  BY <1>1, <1>2, <1>3, <1>4, SameNames DEF AddressInv
<1>6. AllReach(blocks)'
  BY <1>1, SameScope
<1> QED
  BY <1>5, <1>6 DEF AddressInv

\* A use that TypeChecker came to names something.
LEMMA UncheckedUse ==
  ASSUME AddressInv, phase = "codegen", NEW n \in 1 .. Len(ast), NEW r \in {"rd", "cd", "ep"},
         NEW nv, Binds(nv, Scoped(n + 1)), ~Loads(nv, ast[n][r])
  PROVE  AfterReturn(n)
<1> DEFINE x == ast[n][r]
<1>1. Nested /\ tcPc \in Nat /\ Len(ast) \in Nat /\ n < tcPc
  <2>1. Nested /\ tcPc \in 1 .. Len(ast) + 1 /\ tcPc > Len(ast)
    BY DEF AddressInv, CgInv, BreakInv, WalkInv
  <2> QED
    BY <2>1, NodesTyped
<1>2. x \in Ids /\ InScope(x, n) = {} /\ x \notin Globals
  BY <1>1, AddressIs
<1>3. <<n, r>> \in Uses /\ <<n, r>>[1] = n /\ <<n, r>>[2] = r
  BY <1>2 DEF Uses, Roles
<1>4. Checked(n) => Found(table, frame_offset, offset[n][r], x, n)
  BY <1>3 DEF AddressInv, NameInv, UsesFound
<1> QED
  BY <1>1, <1>2, <1>4 DEF Found, Checked

LEMMA FailAddress ==
  ASSUME AddressInv, NEW kinds, CgAt(kinds), CgInv', NEW ok, Fail(ok), AfterReturn(cgPc)
  PROVE  AddressInv'
<1>1. /\ phase = "codegen" /\ phase' = "failed" /\ cgPc <= Len(ast)
      /\ UNCHANGED <<ast, nest, tcPc, table, attributes>> /\ UNCHANGED <<cgPc, blocks>>
  BY DEF CgAt, Fail, cgVars
<1>2. FailsOnlyUnchecked'
  BY <1>1, SameText DEF FailsOnlyUnchecked
<1>3. AllReach(blocks')
  BY <1>1 DEF AddressInv
<1> QED
  BY <1>1, <1>2, <1>3, LeaveAddress

\* A statement without a block, or a clause.
LEMMA StatementAddress ==
  ASSUME AddressInv, NEW kinds, CgAt(kinds), ast[cgPc].k # "end", CgInv',
         NEW ok, NEW cs, NEW c, NEW nv, Proceed(ok, cs, c, nv), UNCHANGED frames,
         AllReach(cs), Binds(nv, Scoped(cgPc + 1))
  PROVE  AddressInv'
<1>1. /\ Nested /\ cgPc \in 1 .. Len(ast)
      /\ FramesMatch(cgPc, blocks, frames) /\ FramesHold(cgPc, frames)
  BY AtAddress
<1>2. FramesHold(cgPc + 1, frames)
  BY <1>1, FramesHoldOn
<1>3. FramesHold(cgPc + 1, frames')
  BY <1>2
<1> QED
  BY <1>3, GoOnAddress

-------------------------------------------------------------------------------
(* The statements.                                                         *)

LEMMA DeclareAddress ==
  ASSUME AddressInv, CgInv', CgParam \/ CgDeclaration \/ CgVarInit
  PROVE  AddressInv'
<1> DEFINE n == cgPc
           bound == Bind(named_values, Here.id, n)
           inserted == Insert(named_values, Here.id, n)
<1>1. CASE CgParam
  <2>1. CgAt({"param"})
    BY <1>1 DEF CgParam
  <2>2. /\ Nested /\ n \in 1 .. Len(ast) /\ Here = ast[n] /\ ast[n].k = "param"
        /\ cur \in 1 .. Len(blocks) /\ AllReach(blocks) /\ Binds(named_values, Scoped(n))
    BY <2>1, AtAddress
  <2>3. ast[n].k \in Declarers
    BY <2>2 DEF Declarers
  <2>4. Binds(bound, Scoped(n + 1))
    BY <2>2, <2>3, BindsOn
  <2>5. Proceed(TRUE, Emit(blocks, cur, Effect(n, "do", n, None)), cur, bound) /\ UNCHANGED frames
    BY <1>1 DEF CgParam
  <2> HIDE DEF bound
  <2>6. Reaches(Effect(n, "do", n, None))
    BY <2>2, <2>3, <2>4, OperandsReach
  <2>7. AllReach(Emit(blocks, cur, Effect(n, "do", n, None)))
    BY <2>2, <2>6, EmitReach
  <2> QED
    BY <2>1, <2>2, <2>4, <2>5, <2>7, StatementAddress
<1>2. CASE CgDeclaration
  <2>1. CgAt({"decl"})
    BY <1>2 DEF CgDeclaration
  <2>2. /\ Nested /\ n \in 1 .. Len(ast) /\ Here = ast[n] /\ ast[n].k = "decl"
        /\ AllReach(blocks) /\ Binds(named_values, Scoped(n))
    BY <2>1, AtAddress
  <2>3. Binds(bound, Scoped(n + 1))
    BY <2>2, BindsOn DEF Declarers
  <2>4. Proceed(TRUE, blocks, cur, bound) /\ UNCHANGED frames
    BY <1>2 DEF CgDeclaration
  <2> HIDE DEF bound
  <2> QED
    BY <2>1, <2>2, <2>3, <2>4, StatementAddress
<1>3. CASE CgVarInit
  <2> DEFINE cs == Initialised(blocks, inserted, Here)
             ok == Loads(inserted, Here.rd)
  <2>1. CgAt({"init"})
    BY <1>3 DEF CgVarInit
  <2>2. /\ Nested /\ n \in 1 .. Len(ast) /\ Here = ast[n] /\ ast[n].k = "init"
        /\ cur \in 1 .. Len(blocks) /\ AllReach(blocks) /\ Binds(named_values, Scoped(n))
        /\ phase = "codegen"
    BY <2>1, AtAddress
  <2>3. ast[n].k \in Declarers
    BY <2>2 DEF Declarers
  <2>4. Binds(inserted, Scoped(n + 1))
    BY <2>2, <2>3, BindsOn
  <2>5. (Proceed(ok, cs, cur, inserted) /\ UNCHANGED frames) \/ Fail(ok)
    BY <1>3 DEF CgVarInit
  <2> HIDE DEF inserted
  <2>6. AllReach(cs)
    <3>1. Reaches(Effect(n, "do", n, Address(inserted, ast[n].rd)))
      BY <2>2, <2>3, <2>4, OperandsReach
    <3> QED
      BY <2>2, <3>1, EmitReach DEF Initialised
  <2>7. ~ok => AfterReturn(n)
    BY <2>2, <2>4, UncheckedUse
  <2> HIDE DEF ok, cs
  <2>8. CASE Fail(ok)
    BY <2>1, <2>7, <2>8, FailAddress DEF Fail
  <2>9. CASE Proceed(ok, cs, cur, inserted) /\ UNCHANGED frames
    BY <2>1, <2>2, <2>4, <2>6, <2>9, StatementAddress
  <2> QED
    BY <2>5, <2>8, <2>9
<1> QED
  BY <1>1, <1>2, <1>3

\* An assignment, at a statement's node or a for loop's.
LEMMA AssignReach ==
  ASSUME AddressInv, phase = "codegen", Nested, cgPc \in 1 .. Len(ast), AllReach(blocks),
         cur \in 1 .. Len(blocks), Binds(named_values, Scoped(cgPc + 1))
  PROVE  /\ AllReach(Assigned(named_values, ast[cgPc]))
         /\ Len(Assigned(named_values, ast[cgPc])) = Len(blocks)
         /\ ~AssignmentGenerates(named_values, ast[cgPc]) => AfterReturn(cgPc)
<1> DEFINE n == cgPc
           x == Effect(n, "do", Address(named_values, ast[n].id), Address(named_values, ast[n].rd))
<1>1. Reaches(x)
  BY OperandsReach
<1>2. AllReach(Emit(blocks, cur, x)) /\ Len(Emit(blocks, cur, x)) = Len(blocks)
  BY <1>1, EmitReach
<1>3. ~Loads(named_values, ast[n].rd) => AfterReturn(n)
  BY UncheckedUse
<1> QED
  BY <1>2, <1>3 DEF Assigned, AssignmentGenerates

\* The statements that bind no name.
LEMMA PlainAddress ==
  ASSUME AddressInv, CgInv', CgAssignment \/ CgExpression \/ CgReturn
  PROVE  AddressInv'
<1> DEFINE n == cgPc
           nv == named_values
<1>1. PICK kinds : CgAt(kinds) /\ kinds \subseteq {"asst", "expr", "print", "delete", "return"}
  BY DEF CgAssignment, CgExpression, CgReturn
<1>2. /\ phase = "codegen" /\ Nested /\ n \in 1 .. Len(ast) /\ Here = ast[n] /\ ast[n].k \in kinds
      /\ cur \in 1 .. Len(blocks) /\ AllReach(blocks) /\ Binds(nv, Scoped(n))
  BY <1>1, AtAddress
<1>3. ast[n].k # "end" /\ Binds(nv, Scoped(n + 1))
  BY <1>1, <1>2, ScopedOn DEF Declarers, Markers, Clauses
<1>4. ~Loads(nv, ast[n].rd) => AfterReturn(n)
  BY <1>2, <1>3, UncheckedUse
<1>5. ASSUME NEW ok, NEW cs, AllReach(cs), ~ok => AfterReturn(n),
             (Proceed(ok, cs, cur, nv) /\ UNCHANGED frames) \/ Fail(ok)
      PROVE  AddressInv'
  <2>1. CASE Fail(ok)
    BY <1>1, <1>5, <2>1, FailAddress DEF Fail
  <2>2. CASE Proceed(ok, cs, cur, nv) /\ UNCHANGED frames
    BY <1>1, <1>3, <1>5, <2>2, StatementAddress
  <2> QED
    BY <1>5, <2>1, <2>2
<1>6. CASE CgAssignment
  <2> DEFINE ok == AssignmentGenerates(nv, ast[n])
             cs == Assigned(nv, ast[n])
  <2>1. AllReach(cs) /\ (~ok => AfterReturn(n))
    BY <1>2, <1>3, AssignReach
  <2>2. (Proceed(ok, cs, cur, nv) /\ UNCHANGED frames) \/ Fail(ok)
    BY <1>2, <1>6 DEF CgAssignment
  <2> HIDE DEF ok, cs
  <2> QED
    BY <1>5, <2>1, <2>2
<1>7. CASE CgExpression
  <2> DEFINE x == Effect(n, "do", None, Address(nv, ast[n].rd))
             ok == Loads(nv, ast[n].rd)
             cs == Emit(blocks, cur, x)
  <2>1. AllReach(cs)
    BY <1>2, <1>3, OperandsReach, EmitReach
  <2>2. (Proceed(ok, cs, cur, nv) /\ UNCHANGED frames) \/ Fail(ok)
    BY <1>2, <1>7 DEF CgExpression
  <2> HIDE DEF x, cs
  <2> QED
    BY <1>4, <1>5, <2>1, <2>2
<1>8. CASE CgReturn
  <2> DEFINE x == Ret(n, Address(nv, ast[n].rd))
             ok == Loads(nv, ast[n].rd)
             cs == Emit(blocks, cur, x)
  <2>1. AllReach(cs)
    BY <1>2, <1>3, OperandsReach, EmitReach
  <2>2. (Proceed(ok, cs, cur, nv) /\ UNCHANGED frames) \/ Fail(ok)
    BY <1>2, <1>8 DEF CgReturn
  <2> HIDE DEF x, cs
  <2> QED
    BY <1>4, <1>5, <2>1, <2>2
<1> QED
  BY <1>6, <1>7, <1>8

\* A break that TypeChecker came to has a loop around it, and its end.
LEMMA BreakAddress ==
  ASSUME AddressInv, CgInv', CgBreak
  PROVE  AddressInv'
<1> DEFINE n == cgPc
           le == loop_end_blocks
           ok == le # <<>>
           cs == Emit(blocks, cur, Br(n, BreakBlock(le)))
<1>1. CgAt({"break"})
  BY DEF CgBreak
<1>2. /\ Nested /\ n \in 1 .. Len(ast) /\ ast[n].k = "break" /\ phase = "codegen"
      /\ cur \in 1 .. Len(blocks) /\ AllReach(blocks) /\ Binds(named_values, Scoped(n))
  BY <1>1, AtAddress
<1>3. ast[n].k # "end" /\ Binds(named_values, Scoped(n + 1))
  BY <1>2, ScopedOn DEF Declarers, Markers, Clauses
<1>4. AllReach(cs)
  BY <1>2, BranchReach
<1>5. ASSUME ~ok
      PROVE  AfterReturn(n)
  <2>1. EndsMatch(n, blocks, le)
    BY <1>1, AtCg DEF AddressInv
  <2>2. LiveLoops(n) = {}
    <3>1. le = <<>> /\ Len(le) = 0
      BY <1>5
    <3> QED
      BY <2>1, <3>1 DEF EndsMatch
  <2>3. LoopsAround(n) = {}
    BY <1>2, <2>2, LoopsAroundBreak
  <2>4. ~Checked(n)
    BY <1>2, <2>3 DEF AddressInv, CgInv, BreakInv, Targets
  <2>5. n < tcPc
    <3>1. tcPc > Len(ast) /\ tcPc \in 1 .. Len(ast) + 1 /\ Len(ast) \in Nat
      BY <1>2, NodesTyped DEF AddressInv, CgInv, BreakInv, WalkInv
    <3> QED
      BY <1>2, <3>1
  <2> QED
    BY <2>4, <2>5 DEF Checked
<1>6. Fail(ok) \/ (Proceed(ok, cs, cur, named_values) /\ UNCHANGED frames)
  BY DEF CgBreak
<1> HIDE DEF ok, cs
<1>7. CASE Fail(ok)
  BY <1>1, <1>5, <1>7, FailAddress DEF Fail
<1>8. CASE Proceed(ok, cs, cur, named_values) /\ UNCHANGED frames
  BY <1>1, <1>3, <1>4, <1>8, StatementAddress
<1> QED
  BY <1>6, <1>7, <1>8

-------------------------------------------------------------------------------
(* The statements with blocks.                                             *)

\* A clause with a condition, evaluated in block b in the names nv.
LEMMA ClauseReach ==
  ASSUME NEW n, n = cgPc, Nested, n \in 1 .. Len(ast), NEW bs, AllReach(bs), NEW b \in 1 .. Len(bs),
         NEW merge, NEW nv, Binds(nv, Scoped(n + 1))
  PROVE  AllReach(ClauseBlocks(bs, b, merge, nv))
<1> DEFINE then == NewBlock("then", TRUE)
           next == NewBlock("elif_fallthrough", FALSE)
           more == IF IsLastClause(cgPc) THEN <<>> ELSE <<next>>
           x == CondBr(cgPc, Address(nv, Here.cd), ThenBlock(bs), NextBlock(bs, merge))
           ds == bs \o <<then>> \o more
           ps == Append(bs, then)
           qs == Append(ps, next)
<1>1. AllReach(ps) /\ Len(bs) \in Nat /\ Len(ps) = Len(bs) + 1
  BY NewReach
<1>2. AllReach(qs) /\ Len(qs) = Len(ps) + 1
  BY <1>1, NewReach
<1>3. ds = ps \/ ds = qs
  <2> HIDE DEF then, next
  <2>1. bs \o <<then>> = ps
    BY ConcatIs DEF AllReach
  <2> HIDE DEF ps
  <2>2. ps \o <<next>> = qs
    BY <1>1, ConcatIs DEF AllReach
  <2>3. ps \o <<>> = ps
    BY <1>1, ConcatEmptySeq DEF AllReach, IsSeq
  <2> QED
    BY <2>1, <2>2, <2>3
<1> HIDE DEF ds, ps, qs
<1>4. AllReach(ds) /\ b \in 1 .. Len(ds)
  BY <1>1, <1>2, <1>3
<1>5. Reaches(x)
  BY OperandsReach DEF Here
<1>6. ClauseBlocks(bs, b, merge, nv) = Emit(ds, b, x)
  BY DEF ClauseBlocks, ds
<1> HIDE DEF x
<1> QED
  BY <1>4, <1>5, <1>6, EmitReach

\* A statement with a block is entered.
LEMMA OpenAddress ==
  ASSUME AddressInv, NEW kinds, CgAt(kinds), ast[cgPc].k # "end", CgInv',
         NEW ok, NEW cs, NEW c, NEW nv, Proceed(ok, cs, c, nv),
         AllReach(cs), Binds(nv, Scoped(cgPc + 1)),
         NEW outer, NEW cond, NEW next, NEW end,
         frames' = Append(frames, Frame(nv, outer, cond, next, end)),
         ast[cgPc].k \in {"fordcl", "forasst"} => outer = named_values
  PROVE  AddressInv'
<1> DEFINE f == Frame(nv, outer, cond, next, end)
<1>1. /\ Nested /\ cgPc \in 1 .. Len(ast) /\ Binds(named_values, Scoped(cgPc))
      /\ FramesMatch(cgPc, blocks, frames) /\ FramesHold(cgPc, frames)
  BY AtAddress
<1>2. /\ {"saved", "outer"} \subseteq DOMAIN f /\ f.node = cgPc /\ f.saved = nv /\ f.outer = outer
  BY DEF Frame
<1> HIDE DEF f
<1>3. FramesHold(cgPc + 1, Append(frames, f))
  BY <1>1, <1>2, FramesHoldPush
<1>4. FramesHold(cgPc + 1, frames')
  BY <1>3 DEF f
<1> QED
  BY <1>4, GoOnAddress

LEMMA IfAddress ==
  ASSUME AddressInv, CgInv', CgIf
  PROVE  AddressInv'
<1> DEFINE n == cgPc
           nv == named_values
           merge == Len(blocks) + 1
           bs == Append(blocks, NewBlock("if_merge", FALSE))
           cs == ClauseBlocks(bs, cur, merge, nv)
           ok == Loads(nv, ast[n].cd)
<1>1. CgAt({"if"})
  BY DEF CgIf
<1>2. /\ Nested /\ n \in 1 .. Len(ast) /\ Here = ast[n] /\ ast[n].k = "if" /\ phase = "codegen"
      /\ cur \in 1 .. Len(blocks) /\ AllReach(blocks) /\ Binds(nv, Scoped(n))
  BY <1>1, AtAddress
<1>3. /\ ast[n].k # "end" /\ ast[n].k \notin {"fordcl", "forasst"}
      /\ Binds(nv, Scoped(n + 1))
  BY <1>2, ScopedOn DEF Declarers, Markers, Clauses
<1>4. AllReach(bs) /\ Len(bs) = Len(blocks) + 1 /\ Len(blocks) \in Nat
  BY <1>2, NewReach
<1>5. \/ /\ Proceed(ok, cs, ThenBlock(bs), nv)
         /\ frames' = Append(frames, Frame(nv, NoNames, 0, NextBlock(bs, merge), merge))
      \/ Fail(ok)
  BY <1>2 DEF CgIf
<1> HIDE DEF bs, merge
<1>6. cur \in 1 .. Len(bs)
  BY <1>2, <1>4
<1>7. AllReach(cs)
  BY <1>2, <1>3, <1>4, <1>6, ClauseReach
<1>8. ~ok => AfterReturn(n)
  BY <1>2, <1>3, UncheckedUse
<1> HIDE DEF ok, cs
<1>9. CASE Fail(ok)
  BY <1>1, <1>8, <1>9, FailAddress DEF Fail
<1>10. CASE /\ Proceed(ok, cs, ThenBlock(bs), nv)
            /\ frames' = Append(frames, Frame(nv, NoNames, 0, NextBlock(bs, merge), merge))
  BY <1>1, <1>3, <1>7, <1>10, OpenAddress
<1> QED
  BY <1>5, <1>9, <1>10

\* The clause before is finished; the next one begins with the names of the
\* block around the if tree.
LEMMA ClauseAddress ==
  ASSUME AddressInv, CgInv', CgElif \/ CgElse
  PROVE  AddressInv'
<1> DEFINE n == cgPc
           bs == ClauseEnded
           nv == Restored
           next == Top.next
           merge == Top.end
           cs == ClauseBlocks(bs, next, merge, nv)
           ok == Loads(nv, ast[n].cd)
<1>1. CgAt({"elif", "else"})
  BY DEF CgElif, CgElse, CgAt
<1>2. /\ Nested /\ n \in 1 .. Len(ast) /\ Here = ast[n] /\ ast[n].k \in Clauses /\ phase = "codegen"
      /\ cur \in 1 .. Len(blocks) /\ AllReach(blocks)
      /\ FramesMatch(n, blocks, frames) /\ FramesHold(n, frames)
  BY <1>1, AtAddress DEF Clauses
<1>3. ast[n].k \in Markers /\ ast[n].k # "end"
  BY <1>2 DEF Markers, Clauses
<1>4. /\ frames # <<>> /\ ast[Top.node].k \notin Loops
      /\ ast[Top.node].k # "fordcl" => Binds(nv, Scoped(n + 1))
  BY <1>1, <1>2, <1>3, TopHolds DEF AddressInv
<1>5. Binds(nv, Scoped(n + 1))
  BY <1>4 DEF Loops
<1>6. next \in 1 .. Len(blocks)
  BY <1>1, <1>3, TopFrame DEF AddressInv
<1>7. AllReach(bs) /\ Len(bs) = Len(blocks)
  <2> DEFINE ds == BrIfOpen(blocks, cur, Top.node, Top.end)
  <2>1. AllReach(ds) /\ Len(ds) = Len(blocks)
    BY <1>2, BranchReach
  <2>2. bs = Place(ds, Top.next)
    BY DEF ClauseEnded
  <2> HIDE DEF ds, bs
  <2> QED
    BY <1>6, <2>1, <2>2, PlaceReach
<1>8. CASE CgElse
  <2>1. Proceed(TRUE, bs, next, nv) /\ UNCHANGED frames
    BY <1>8 DEF CgElse
  <2> HIDE DEF bs, nv, next
  <2> QED
    BY <1>1, <1>3, <1>5, <1>7, <2>1, StatementAddress
<1>9. CASE CgElif
  <2>1. \/ /\ Proceed(ok, cs, ThenBlock(bs), nv)
           /\ frames' = [frames EXCEPT ![Len(frames)].next = NextBlock(bs, merge)]
        \/ Fail(ok)
    BY <1>2, <1>9 DEF CgElif
  <2> HIDE DEF bs, nv, next, merge
  <2>2. AllReach(cs)
    BY <1>2, <1>5, <1>6, <1>7, ClauseReach
  <2>3. ~ok => AfterReturn(n)
    BY <1>2, <1>5, UncheckedUse
  <2> HIDE DEF ok, cs
  <2>4. CASE Fail(ok)
    BY <1>1, <2>3, <2>4, FailAddress DEF Fail
  <2>5. CASE /\ Proceed(ok, cs, ThenBlock(bs), nv)
             /\ frames' = [frames EXCEPT ![Len(frames)].next = NextBlock(bs, merge)]
    <3>1. FramesHold(n + 1, frames)
      BY <1>2, <1>3, FramesHoldOn
    <3> DEFINE fs == [frames EXCEPT ![Len(frames)].next = NextBlock(bs, merge)]
    <3>3. FramesHold(n + 1, fs)
      BY <1>2, <1>4, <3>1, FallsThroughHolds
    <3>4. frames' = fs
      BY <2>5
    <3> HIDE DEF fs
    <3>5. FramesHold(n + 1, frames')
      BY <3>3, <3>4
    <3> QED
      BY <1>1, <1>5, <2>2, <2>5, <3>5, GoOnAddress
  <2> QED
    BY <2>1, <2>4, <2>5
<1> QED
  BY <1>8, <1>9

LEMMA WhileAddress ==
  ASSUME AddressInv, CgInv', CgWhile
  PROVE  AddressInv'
<1> DEFINE n == cgPc
           nv == named_values
           k == Len(blocks)
           ps == blocks \o <<NewBlock("while_cond", TRUE), NewBlock("while_body", TRUE),
                             NewBlock("while_after", TRUE)>>
           x == CondBr(n, Address(nv, ast[n].cd), k + 2, k + 3)
           qs == Emit(ps, cur, Br(n, k + 1))
           cs == Emit(qs, k + 1, x)
           ok == Loads(nv, ast[n].cd)
<1>1. CgAt({"while"})
  BY DEF CgWhile
<1>2. /\ Nested /\ n \in 1 .. Len(ast) /\ Here = ast[n] /\ ast[n].k = "while" /\ phase = "codegen"
      /\ cur \in 1 .. k /\ AllReach(blocks) /\ Binds(nv, Scoped(n))
  BY <1>1, AtAddress
<1>3. /\ ast[n].k # "end" /\ ast[n].k \notin {"fordcl", "forasst"}
      /\ Binds(nv, Scoped(n + 1))
  BY <1>2, ScopedOn DEF Declarers, Markers, Clauses
<1>4. \/ /\ Proceed(ok, cs, k + 2, nv)
         /\ frames' = Append(frames, Frame(nv, NoNames, k + 1, k + 1, k + 3))
      \/ Fail(ok)
  BY <1>2 DEF CgWhile
<1>5. AllReach(ps) /\ Len(ps) = k + 3 /\ k \in Nat
  <2>1. Wider(blocks, ps, 3)
    BY <1>2, ManyReach
  <2> HIDE DEF ps
  <2> QED
    BY <2>1 DEF Wider
<1>6. Reaches(x)
  BY <1>2, <1>3, OperandsReach
<1>7. ~ok => AfterReturn(n)
  BY <1>2, <1>3, UncheckedUse
<1> HIDE DEF ps, x, ok, k
<1>8. cur \in 1 .. Len(ps) /\ k + 1 \in 1 .. Len(ps)
  BY <1>2, <1>5
<1>9. AllReach(qs) /\ Len(qs) = Len(ps)
  BY <1>5, <1>8, BranchReach
<1> HIDE DEF qs
<1>10. AllReach(cs)
  BY <1>6, <1>8, <1>9, EmitReach
<1> HIDE DEF cs
<1>11. CASE Fail(ok)
  BY <1>1, <1>7, <1>11, FailAddress DEF Fail
<1>12. CASE /\ Proceed(ok, cs, k + 2, nv)
            /\ frames' = Append(frames, Frame(nv, NoNames, k + 1, k + 1, k + 3))
  BY <1>1, <1>3, <1>10, <1>12, OpenAddress
<1> QED
  BY <1>4, <1>11, <1>12

\* The prologue has left bs, and the names nv.
LEMMA EnterForAddress ==
  ASSUME AddressInv, CgInv', NEW kinds, CgAt(kinds), ast[cgPc].k \in {"fordcl", "forasst"},
         NEW ok, NEW bs, NEW nv, EnterFor(ok, bs, nv), AllReach(bs), Len(bs) = Len(blocks),
         Binds(nv, Scoped(cgPc + 1))
  PROVE  AddressInv'
<1> DEFINE n == cgPc
           k == Len(bs)
           ps == bs \o <<NewBlock("for_cond", TRUE), NewBlock("for_body", TRUE),
                         NewBlock("for_inc", TRUE), NewBlock("for_after", TRUE)>>
           x == CondBr(n, Address(nv, ast[n].cd), (k + 1) + 1, (k + 1) + 3)
           qs == Emit(ps, cur, Br(n, k + 1))
           cs == Emit(qs, k + 1, x)
<1>1. /\ Nested /\ n \in 1 .. Len(ast) /\ Here = ast[n] /\ cur \in 1 .. k
  BY AtAddress
<1>2. /\ Proceed(ok, cs, (k + 1) + 1, nv)
      /\ frames' = Append(frames, Frame(nv, named_values, k + 1, (k + 1) + 2, (k + 1) + 3))
  BY <1>1 DEF EnterFor, ForBlocks
<1>3. AllReach(ps) /\ Len(ps) = k + 4 /\ k \in Nat
  <2>1. Wider(bs, ps, 4)
    BY ManyReach
  <2> HIDE DEF ps
  <2> QED
    BY <2>1 DEF Wider
<1>4. Reaches(x)
  BY <1>1, OperandsReach
<1> HIDE DEF ps, x, k
<1>5. cur \in 1 .. Len(ps) /\ k + 1 \in 1 .. Len(ps)
  BY <1>1, <1>3
<1>6. AllReach(qs) /\ Len(qs) = Len(ps)
  BY <1>3, <1>5, BranchReach
<1> HIDE DEF qs
<1>7. AllReach(cs)
  BY <1>4, <1>5, <1>6, EmitReach
<1> HIDE DEF cs
<1> QED
  BY <1>2, <1>7, OpenAddress

LEMMA ForAddress ==
  ASSUME AddressInv, CgInv', CgForDeclaration \/ CgForAssignment
  PROVE  AddressInv'
<1> DEFINE n == cgPc
           old == named_values
<1>1. PICK kinds : CgAt(kinds) /\ kinds \subseteq {"fordcl", "forasst"}
  BY DEF CgForDeclaration, CgForAssignment
<1>2. /\ Nested /\ n \in 1 .. Len(ast) /\ Here = ast[n] /\ ast[n].k \in kinds /\ phase = "codegen"
      /\ cur \in 1 .. Len(blocks) /\ AllReach(blocks) /\ Binds(old, Scoped(n))
  BY <1>1, AtAddress
<1>3. ASSUME NEW ok, NEW bs, NEW nv, AllReach(bs), Len(bs) = Len(blocks),
             Binds(nv, Scoped(n + 1)), ~ok => AfterReturn(n), EnterFor(ok, bs, nv) \/ Fail(ok)
      PROVE  AddressInv'
  <2>1. CASE Fail(ok)
    BY <1>1, <1>3, <2>1, FailAddress DEF Fail
  <2>2. CASE EnterFor(ok, bs, nv)
    BY <1>1, <1>2, <1>3, <2>2, EnterForAddress
  <2> QED
    BY <1>3, <2>1, <2>2
<1>4. CASE CgForDeclaration
  <2> DEFINE nv == Insert(old, ast[n].id, n)
             rd == Address(nv, ast[n].rd)
             bs == Emit(blocks, cur, Effect(n, "do", n, rd))
             ok == Loads(nv, ast[n].rd) /\ Loads(nv, ast[n].cd)
  <2>1. ast[n].k = "fordcl" /\ ast[n].k \in Declarers
    BY <1>2, <1>4 DEF CgForDeclaration, CgAt, Declarers
  <2>2. Binds(nv, Scoped(n + 1))
    BY <1>2, <2>1, BindsOn
  <2>3. EnterFor(ok, bs, nv) \/ Fail(ok)
    BY <1>2, <1>4 DEF CgForDeclaration, Initialised
  <2> HIDE DEF nv
  <2>4. Reaches(Effect(n, "do", n, rd))
    BY <1>2, <2>1, <2>2, OperandsReach
  <2>5. AllReach(bs) /\ Len(bs) = Len(blocks)
    BY <1>2, <2>4, EmitReach
  <2>6. ~ok => AfterReturn(n)
    BY <1>2, <2>2, UncheckedUse
  <2> HIDE DEF bs, ok
  <2> QED
    BY <1>3, <2>2, <2>3, <2>5, <2>6
<1>5. CASE CgForAssignment
  <2> DEFINE bs == Assigned(old, ast[n])
             ok == AssignmentGenerates(old, ast[n]) /\ Loads(old, ast[n].cd)
  <2>1. Binds(old, Scoped(n + 1))
    <3>1. ast[n].k = "forasst"
      BY <1>2, <1>5 DEF CgForAssignment, CgAt
    <3> QED
      BY <1>2, <3>1, ScopedOn DEF Declarers, Markers, Clauses
  <2>2. AllReach(bs) /\ Len(bs) = Len(blocks)
    BY <1>2, <2>1, AssignReach
  <2>3. ~AssignmentGenerates(old, ast[n]) => AfterReturn(n)
    BY <1>2, <2>1, AssignReach
  <2>4. ~Loads(old, ast[n].cd) => AfterReturn(n)
    BY <1>2, <2>1, UncheckedUse
  <2>5. EnterFor(ok, bs, old) \/ Fail(ok)
    BY <1>2, <1>5 DEF CgForAssignment
  <2>6. ~ok => AfterReturn(n)
    BY <2>3, <2>4
  <2> HIDE DEF bs, ok
  <2> QED
    BY <1>3, <2>1, <2>2, <2>5, <2>6
<1> QED
  BY <1>4, <1>5

-------------------------------------------------------------------------------
(* The ends of blocks.                                                     *)

\* A return that cuts off a statement cuts off the end of its blocks too.
LEMMA EndAfterReturn ==
  ASSUME Nested, nest = <<>>, NEW n \in 1 .. Len(ast), NEW t \in 1 .. n - 1, Holds(t, n),
         ast[t].lvl = ast[n].lvl, AfterReturn(t)
  PROVE  AfterReturn(n)
<1>1. Len(ast) \in Nat /\ t \in 1 .. Len(ast) /\ \A i \in 1 .. Len(ast) : ast[i].lvl \in Nat
  BY NodesTyped
<1>2. PICK r \in 1 .. t - 1 : ast[r].k = "return" /\ t < BlockEnd(r)
  BY DEF AfterReturn, After
<1>3. r \in 1 .. Len(ast) /\ r \in 1 .. n - 1 /\ t \in r + 1 .. Len(ast)
  BY <1>1, <1>2
<1> DEFINE b == BlockEnd(r)
<1>4. /\ b \in r + 1 .. Len(ast) + 1
      /\ b <= Len(ast) => ast[b].lvl = ast[r].lvl - 1
      /\ ast[t].lvl >= ast[r].lvl
  BY <1>2, <1>3, ReturnIsLeaf, InBlock
<1> HIDE DEF b
<1>5. ASSUME b <= n
      PROVE  FALSE
  <2>1. b \in 1 .. Len(ast) /\ b \in t + 1 .. n /\ b <= Len(ast)
    BY <1>1, <1>2, <1>3, <1>4, <1>5 DEF b
  <2> DEFINE lb == ast[b].lvl
             lt == ast[t].lvl
             lr == ast[r].lvl
  <2>2. lb >= lt
    <3>1. b = n \/ b \in t + 1 .. n - 1
      BY <1>1, <2>1
    <3>2. lb = lt \/ lb > lt
      BY <3>1 DEF Holds
    <3>3. lb \in Nat /\ lt \in Nat
      BY <1>1, <2>1
    <3> HIDE DEF lb, lt
    <3> QED
      BY <3>2, <3>3
  <2>3. lb = lr - 1 /\ lt >= lr /\ lb \in Nat /\ lt \in Nat /\ lr \in Nat
    BY <1>1, <1>3, <1>4, <2>1
  <2> HIDE DEF lb, lt, lr
  <2> QED
    BY <2>2, <2>3
<1>6. n < b
  BY <1>1, <1>4, <1>5
<1> QED
  BY <1>2, <1>3, <1>6 DEF AfterReturn, After, b

\* A block is left with the names of the one around it.
LEMMA CloseAddress ==
  ASSUME AddressInv, CgInv', CgAt({"end"}), NEW ok, NEW cs, NEW c, NEW nv, Proceed(ok, cs, c, nv),
         PopFrame, AllReach(cs), Binds(nv, Scoped(cgPc + 1))
  PROVE  AddressInv'
<1>1. /\ Nested /\ cgPc \in 1 .. Len(ast) /\ ast[cgPc].k \in Markers
      /\ FramesMatch(cgPc, blocks, frames) /\ FramesHold(cgPc, frames)
  BY AtAddress DEF Markers
<1>2. frames # <<>>
  BY <1>1, TopFrame DEF AddressInv
<1>3. FramesHold(cgPc + 1, frames')
  BY <1>1, <1>2, FramesHoldBack DEF PopFrame
<1> QED
  BY <1>3, GoOnAddress

LEMMA EndAddress ==
  ASSUME AddressInv, CgInv', CgEndIf \/ CgEndWhile \/ CgEndFor
  PROVE  AddressInv'
<1> DEFINE n == cgPc
           t == Top.node
           nv == Restored
<1>1. CgAt({"end"})
  BY DEF CgEndIf, CgEndWhile, CgEndFor
<1>2. /\ Nested /\ n \in 1 .. Len(ast) /\ ast[n].k \in Markers /\ phase = "codegen"
      /\ cur \in 1 .. Len(blocks) /\ AllReach(blocks) /\ FramesHold(n, frames) /\ nest = <<>>
  BY <1>1, AtAddress DEF Markers
<1>3. /\ t \in 1 .. Len(ast) /\ t \in 1 .. n - 1 /\ ast[t].lvl = ast[n].lvl /\ Holds(t, n)
      /\ Binds(nv, Scoped(t + 1))
      /\ ast[t].k # "fordcl" => Binds(nv, Scoped(n + 1))
      /\ ast[t].k \in {"fordcl", "forasst"} => Binds(Top.outer, Scoped(n + 1))
  BY <1>1, <1>2, TopHolds DEF AddressInv
<1>4. Top.next \in 1 .. Len(blocks) /\ Top.end \in 1 .. Len(blocks)
  BY <1>1, <1>2, TopFrame DEF AddressInv
<1>5. \A b : /\ AllReach(BrIfOpen(blocks, cur, t, b))
             /\ Len(BrIfOpen(blocks, cur, t, b)) = Len(blocks)
  BY <1>2, BranchReach
<1>6. CASE CgEndIf
  <2>1. Proceed(TRUE, IfEnded, Top.end, nv) /\ PopFrame /\ ast[t].k # "fordcl"
    BY <1>6 DEF CgEndIf
  <2>2. AllReach(IfEnded)
    BY <1>4, <1>5, PlaceReach DEF IfEnded
  <2> QED
    BY <1>1, <1>3, <2>1, <2>2, CloseAddress
<1>7. CASE CgEndWhile
  <2>1. /\ Proceed(TRUE, BrIfOpen(blocks, cur, t, Top.cond), Top.end, nv)
        /\ PopFrame /\ ast[t].k # "fordcl"
    BY <1>7 DEF CgEndWhile
  <2> QED
    BY <1>1, <1>3, <1>5, <2>1, CloseAddress
<1>8. CASE CgEndFor
  <2> DEFINE ok == Loads(nv, ast[t].ep)
             ds == BrIfOpen(blocks, cur, t, Top.next)
             x == Effect(t, "ep", None, Address(nv, ast[t].ep))
             es == Emit(ds, Top.next, x)
             cs == Emit(es, Top.next, Br(t, Top.cond))
  <2>1. /\ Binds(Top.outer, Scoped(n + 1))
        /\ (Proceed(ok, cs, Top.end, Top.outer) /\ PopFrame) \/ Fail(ok)
    BY <1>3, <1>8 DEF CgEndFor, ForEnded
  <2>2. ~ok => AfterReturn(n)
    <3>1. ~ok => AfterReturn(t)
      BY <1>2, <1>3, UncheckedUse
    <3> QED
      BY <1>2, <1>3, <3>1, EndAfterReturn
  <2>3. Reaches(x)
    BY <1>2, <1>3, OperandsReach
  <2>4. AllReach(ds) /\ Len(ds) = Len(blocks)
    BY <1>5
  <2> HIDE DEF ok, ds, x
  <2>5. AllReach(es) /\ Len(es) = Len(blocks)
    BY <1>4, <2>3, <2>4, EmitReach
  <2> HIDE DEF es
  <2>6. AllReach(cs)
    BY <1>4, <2>5, BranchReach
  <2> HIDE DEF cs
  <2>7. CASE Fail(ok)
    BY <1>1, <2>2, <2>7, FailAddress DEF Fail
  <2>8. CASE Proceed(ok, cs, Top.end, Top.outer) /\ PopFrame
    BY <1>1, <2>1, <2>6, <2>8, CloseAddress
  <2> QED
    BY <2>1, <2>7, <2>8
<1> QED
  BY <1>6, <1>7, <1>8

-------------------------------------------------------------------------------
(* The beginning and the end of the function.                              *)

LEMMA NothingEmitted == AllReach(<<>>) /\ AllReach(<<>>)'
<1>1. <<>> \in Seq({})
  OBVIOUS
<1> QED
  BY <1>1 DEF AllReach, IsSeq

LEMMA NothingBound ==
  /\ Binds(NoNames, Scoped(1)) /\ FramesHold(1, <<>>)
  /\ Binds(NoNames, Scoped(1))' /\ FramesHold(1, <<>>)'
<1>1. NoNames \in [Ids -> Nat \cup {None}] /\ \A x \in Ids : NoNames[x] = None
  BY DEF NoNames
<1>2. Scoped(1) = {} /\ Scoped(1)' = {}
  BY DEF Scoped
<1>3. /\ \A x : Named(Scoped(1), x) = {} /\ Named(Scoped(1), x)' = {}
      /\ NoNames' = NoNames
  BY <1>2 DEF Named, NoNames
<1> HIDE DEF NoNames
<1>4. Binds(NoNames, Scoped(1)) /\ Binds(NoNames, Scoped(1))'
  BY <1>1, <1>3 DEF Binds
<1> QED
  BY <1>4 DEF FramesHold

LEMMA EntryAddress ==
  ASSUME AddressInv, CgInv', CgEntry
  PROVE  AddressInv'
<1>1. /\ phase = "codegen" /\ blocks = <<>> /\ blocks' = <<NewBlock("entry", TRUE)>>
      /\ UNCHANGED tcVars /\ UNCHANGED <<cgPc, named_values, frames>>
  BY DEF CgEntry
<1>2. phase' = "codegen" /\ ast' = ast
  BY <1>1 DEF tcVars
<1>3. AllReach(blocks')
  <2>1. AllReach(Append(blocks, NewBlock("entry", TRUE)))
    BY NewReach DEF AddressInv
  <2> QED
    BY <1>1, <2>1
<1>4. NameInv'
  BY <1>1, NameInvNext DEF AddressInv
<1>5. Binds(named_values, Scoped(cgPc)) /\ FramesHold(cgPc, frames)
  BY <1>1 DEF AddressInv
<1>6. Binds(named_values, Scoped(cgPc))' /\ FramesHold(cgPc, frames)' /\ AllReach(blocks)'
  BY <1>1, <1>2, <1>3, <1>5, SameScope
<1>7. FailsOnlyUnchecked'
  BY <1>2 DEF FailsOnlyUnchecked
<1> QED
  BY <1>2, <1>4, <1>6, <1>7 DEF AddressInv

LEMMA FinishAddress ==
  ASSUME AddressInv, CgInv', CgFinish
  PROVE  AddressInv'
<1>1. phase = "codegen" /\ blocks # <<>> /\ cgPc > Len(ast)
  BY DEF CgFinish
<1>2. Nested /\ AllReach(blocks) /\ cur \in 1 .. Len(blocks) /\ cgPc \in Nat /\ Len(ast) \in Nat
  <2>1. Nested /\ cgPc \in 1 .. Len(ast) + 1 /\ AllReach(blocks) /\ cur \in 1 .. Len(blocks)
    BY <1>1 DEF AddressInv, CgInv, BreakInv, WalkInv, Walk
  <2> QED
    BY <2>1, NodesTyped
<1> DEFINE ok == HasTerminator(blocks[cur]) \/ ReturnType \notin StructTypes
<1>3. CASE Fail(ok)
  <2>1. /\ phase' = "failed" /\ ~ok /\ UNCHANGED <<ast, nest, tcPc, table, attributes>>
        /\ UNCHANGED <<cgPc, blocks>>
    BY <1>3 DEF Fail, cgVars
  <2>2. FailsOnlyUnchecked'
    BY <1>1, <1>2, <2>1 DEF FailsOnlyUnchecked
  <2> QED
    BY <1>1, <1>2, <2>1, <2>2, LeaveAddress
<1>4. CASE ~Fail(ok)
  <2> DEFINE cs == Emit(blocks, cur, Ret(cgPc, None))
  <2>1. /\ blocks' = blocks \/ blocks' = cs
        /\ phase' \in {"run", "malformed"}
        /\ UNCHANGED <<ast, nest, tcPc, table, attributes>>
    BY <1>4 DEF CgFinish
  <2>2. Ret(cgPc, None).n = cgPc
    BY DEF Ret, Instruction
  <2>3. Reaches(Ret(cgPc, None))
    BY <1>1, <1>2, <2>2 DEF Reaches, IsUse
  <2>4. AllReach(cs)
    BY <1>2, <2>3, EmitReach
  <2> HIDE DEF cs
  <2>5. AllReach(blocks')
    BY <1>2, <2>1, <2>4
  <2>6. FailsOnlyUnchecked'
    BY <2>1 DEF FailsOnlyUnchecked
  <2> QED
    BY <1>1, <2>1, <2>5, <2>6, LeaveAddress
<1> QED
  BY <1>3, <1>4

\* The generator has not begun.
LEMMA FrontEndAddress ==
  ASSUME AddressInv, CgInv', TcNext, UNCHANGED cgVars
  PROVE  AddressInv'
<1>1. UNCHANGED <<cgPc, blocks, frames, named_values>>
  BY DEF cgVars
<1>2. /\ phase \in {"parse", "typecheck"}
      /\ phase' \in {"parse", "typecheck", "rejected", "codegen"}
  <2>1. CASE Parse
    BY <2>1 DEF Parse, ParseParam, ParseStatement, ParseOpener, ParseClause, ParseEnd, ParseDone
  <2>2. CASE TcVisit
    BY <2>2 DEF TcVisit, TcParam, TcDeclaration, TcVarInit, TcAssignment, TcExpression, TcReturn,
                TcBranch, TcClause, TcForDeclaration, TcForAssignment, TcEnd, TcBreak, TcDone,
                At, GoOn, Reject
  <2> QED
    BY <2>1, <2>2 DEF TcNext
<1>3. blocks' = <<>> /\ cgPc' = 1 /\ frames' = <<>> /\ named_values' = NoNames
  BY <1>1, <1>2 DEF AddressInv, CgInv
<1>4. NameInv'
  BY NameInvNext DEF AddressInv
<1>5. NoNames' = NoNames
  BY DEF NoNames
<1>6. /\ AllReach(blocks)' /\ named_values' = NoNames'
      /\ Binds(named_values, Scoped(cgPc))' /\ FramesHold(cgPc, frames)'
  BY <1>3, <1>5, NothingEmitted, NothingBound
<1>7. FailsOnlyUnchecked'
  BY <1>2 DEF FailsOnlyUnchecked
<1> QED
  BY <1>2, <1>4, <1>6, <1>7 DEF AddressInv

-------------------------------------------------------------------------------
(* The theorems.                                                           *)

LEMMA AddressInvInit == TcInit /\ CgInit => AddressInv
<1> SUFFICES ASSUME TcInit, CgInit PROVE AddressInv
  OBVIOUS
<1>1. CgInv /\ NameInv
  BY CgInvInit, NameInvInit
<1>2. phase = "parse" /\ blocks = <<>> /\ named_values = NoNames
  BY DEF TcInit, ParseInit, CgInit
<1>3. FailsOnlyUnchecked
  BY <1>2 DEF FailsOnlyUnchecked
<1>4. AllReach(blocks)
  BY <1>2, NothingEmitted
<1> QED
  BY <1>1, <1>2, <1>3, <1>4 DEF AddressInv

LEMMA AddressInvNext == AddressInv /\ [CgNext]_vars => AddressInv'
<1> SUFFICES ASSUME AddressInv, [CgNext]_vars PROVE AddressInv'
  OBVIOUS
<1>1. CgInv'
  BY CgInvNext DEF AddressInv
<1>2. CASE TcNext /\ UNCHANGED cgVars
  BY <1>1, <1>2, FrontEndAddress
<1>3. CASE CgVisit
  BY <1>1, <1>3, EntryAddress, DeclareAddress, PlainAddress, BreakAddress, IfAddress,
     ClauseAddress, EndAddress, WhileAddress, ForAddress, FinishAddress DEF CgVisit
<1>4. CASE UNCHANGED vars
  <2>1. UNCHANGED tcVars /\ UNCHANGED <<cgPc, blocks, frames, named_values>>
    BY <1>4 DEF vars, cgVars
  <2>2. NameInv'
    BY <2>1, NameInvNext DEF AddressInv
  <2>3. phase' = phase /\ ast' = ast
    BY <2>1 DEF tcVars
  <2>4. AllReach(blocks)' /\ NoNames' = NoNames
    BY <2>1, <2>3, SameScope DEF AddressInv, NoNames
  <2>5. phase = "codegen" => Binds(named_values, Scoped(cgPc))' /\ FramesHold(cgPc, frames)'
    BY <2>1, <2>3, SameScope DEF AddressInv
  <2>6. FailsOnlyUnchecked'
    BY <2>1, <2>3, SameText DEF AddressInv, FailsOnlyUnchecked
  <2>7. phase' \in {"parse", "typecheck", "rejected"} => named_values' = NoNames'
    BY <2>1, <2>3, <2>4 DEF AddressInv
  <2> QED
    BY <1>1, <2>2, <2>3, <2>4, <2>5, <2>6, <2>7 DEF AddressInv
<1> QED
  BY <1>2, <1>3, <1>4 DEF CgNext

LEMMA AddressInvariant == CgSpec => []AddressInv
BY AddressInvInit, AddressInvNext, PTL DEF CgSpec

(***************************************************************************)
(* For every program, wherever CodeGen's walk has come to: each operand of *)
(* live code that is a use of a variable is the alloca of the declaration  *)
(* that the block structure of the source makes the name mean there, or    *)
(* the global, unless a declaration of the name in scope is initialised    *)
(* and shadows another: VarInitNode inserts into named_values and leaves a *)
(* name that is bound alone (CodeGen::visit of BlockNode, IfNode, ForNode, *)
(* DeclarationNode, VarInitNode and IDNode).                               *)
(***************************************************************************)
THEOREM AddressesAreMeant == CgSpec => []UsesReachTheirVariable
<1>1. AddressInv => UsesReachTheirVariable
  <2> SUFFICES ASSUME AddressInv PROVE UsesReachTheirVariable
    OBVIOUS
  <2>1. ASSUME NEW i \in Instructions
        PROVE  Reaches(i)
    <3>1. PICK b \in 1 .. Len(blocks) : \E x \in 1 .. Len(blocks[b].ins) : i = blocks[b].ins[x]
      BY DEF Instructions
    <3> QED
      BY <3>1 DEF AddressInv, AllReach
  <2> QED
    BY <2>1 DEF UsesReachTheirVariable, Reaches
<1> QED
  BY <1>1, AddressInvariant, PTL

(***************************************************************************)
(* For every program that TypeChecker accepted: CodeGen throws only at a   *)
(* statement that follows a return in its block, which TypeChecker passed  *)
(* over, or at the end of a procedure that returns a struct ("Missing      *)
(* return statement").                                                     *)
(***************************************************************************)
THEOREM CheckedIsGenerated == CgSpec => []FailsOnlyUnchecked
<1>1. AddressInv => FailsOnlyUnchecked
  BY DEF AddressInv
<1> QED
  BY <1>1, AddressInvariant, PTL

===============================================================================
