----------------------------- MODULE CodeGenProofs -----------------------------
(***************************************************************************)
(* For every program: TypeChecker, which walks up the parent pointers, and *)
(* CodeGen, which keeps a stack of its own while it walks down, send every *)
(* break to the same loop; and the function is well formed, unless its     *)
(* source has statements after a return or a break in the same block.      *)
(*                                                                         *)
(* CgInv is the invariant of the stacks: each open block has its frame and *)
(* each open loop its end. FormInv adds that of the blocks: those that the *)
(* frames wait for are made and empty, and all others are part of the      *)
(* function and finished, but for the one the walk is adding to.           *)
(***************************************************************************)
EXTENDS CodeGen, TypeCheckProofs, SequenceTheorems

-------------------------------------------------------------------------------
(* Sequences of anything.                                                  *)

IsSeq(s) == \E S : s \in Seq(S)

LEMMA AppendSeq ==
  ASSUME NEW s, IsSeq(s), NEW x
  PROVE  /\ Len(s) \in Nat /\ IsSeq(Append(s, x)) /\ Len(Append(s, x)) = Len(s) + 1
         /\ \A i \in 1 .. Len(s) : Append(s, x)[i] = s[i]
         /\ Append(s, x)[Len(s) + 1] = x
<1>1. PICK S : s \in Seq(S)
  BY DEF IsSeq
<1> DEFINE T == S \cup {x}
<1>2. s \in Seq(T) /\ x \in T
  BY <1>1
<1> HIDE DEF T
<1>3. Append(s, x) \in Seq(T)
  BY <1>2
<1>4. IsSeq(Append(s, x))
  BY <1>3 DEF IsSeq
<1> QED
  BY <1>2, <1>4

LEMMA SetSeq ==
  ASSUME NEW s, IsSeq(s), NEW n \in 1 .. Len(s), NEW x
  PROVE  LET t == [s EXCEPT ![n] = x]
         IN  /\ Len(s) \in Nat /\ IsSeq(t) /\ Len(t) = Len(s) /\ t[n] = x
             /\ \A i \in 1 .. Len(s) : i # n => t[i] = s[i]
<1>1. PICK S : s \in Seq(S)
  BY DEF IsSeq
<1> DEFINE T == S \cup {x}
           t == [s EXCEPT ![n] = x]
<1>2. Len(s) \in Nat /\ s \in [1 .. Len(s) -> S]
  BY <1>1
<1>3. t \in [1 .. Len(s) -> T]
  BY <1>2
<1>4. t[n] = x /\ \A i \in 1 .. Len(s) : i # n => t[i] = s[i]
  BY <1>2
<1> HIDE DEF t, T
<1>5. t \in Seq(T) /\ Len(t) = Len(s)
  BY <1>2, <1>3
<1>6. IsSeq(t)
  BY <1>5 DEF IsSeq
<1> QED
  BY <1>2, <1>4, <1>5, <1>6 DEF t

LEMMA FrontSeq ==
  ASSUME NEW s, IsSeq(s), s # <<>>
  PROVE  LET t == SubSeq(s, 1, Len(s) - 1)
         IN  /\ Len(s) \in Nat \ {0} /\ IsSeq(t) /\ Len(t) = Len(s) - 1
             /\ \A i \in 1 .. Len(t) : t[i] = s[i]
<1>1. PICK S : s \in Seq(S)
  BY DEF IsSeq
<1> DEFINE m == Len(s) - 1
           t == SubSeq(s, 1, m)
<1>2. Len(s) \in Nat \ {0} /\ m \in Nat /\ m <= Len(s)
  BY <1>1
<1> HIDE DEF m
<1>3. t \in Seq(S) /\ Len(t) = m /\ \A i \in 1 .. m : t[i] = s[i]
  BY <1>1, <1>2
<1>4. IsSeq(t)
  BY <1>3 DEF IsSeq
<1> QED
  BY <1>2, <1>3, <1>4 DEF m

-------------------------------------------------------------------------------
(* Blocks and the breaks in them.                                          *)

\* b is the block that is generated for what follows the loop m.
AfterLoop(bs, b, m) ==
  b \in 1 .. Len(bs) /\ bs[b].node = m /\ bs[b].name \in {"while_after", "for_after"}

\* A break goes to the block after the innermost loop around it.
BreakGoes(bs, i) ==
  i.op = "br" /\ i.n <= Len(ast) /\ ast[i.n].k = "break"
    => i.n \in 1 .. Len(ast) /\ AfterLoop(bs, i.to[1], EnclosingLoop(i.n))

Sound(bs) ==
  /\ IsSeq(bs)
  /\ \A b \in 1 .. Len(bs) :
       /\ {"node", "name", "ins"} \subseteq DOMAIN bs[b]
       /\ IsSeq(bs[b].ins)
       /\ \A i \in 1 .. Len(bs[b].ins) : BreakGoes(bs, bs[b].ins[i])

\* cs has the blocks of bs, as they were but for their instructions, and more.
Extends(bs, cs) ==
  /\ Len(bs) \in Nat /\ Len(cs) \in Nat /\ Len(bs) <= Len(cs)
  /\ \A b \in 1 .. Len(bs) : cs[b].node = bs[b].node /\ cs[b].name = bs[b].name

LEMMA ExtendsAll ==
  ASSUME NEW bs, NEW cs, NEW ds, Extends(bs, cs), Extends(cs, ds)
  PROVE  Extends(bs, ds)
BY DEF Extends

LEMMA AfterLoopStays ==
  ASSUME NEW bs, NEW cs, Extends(bs, cs), NEW b, NEW m, AfterLoop(bs, b, m)
  PROVE  AfterLoop(cs, b, m)
BY DEF Extends, AfterLoop

LEMMA BreakGoesStill ==
  ASSUME NEW bs, NEW cs, Extends(bs, cs), NEW i, BreakGoes(bs, i)
  PROVE  BreakGoes(cs, i)
BY AfterLoopStays DEF BreakGoes

LEMMA SoundEmit ==
  ASSUME NEW bs, Sound(bs), NEW b \in 1 .. Len(bs), NEW x, BreakGoes(bs, x)
  PROVE  /\ Sound(Emit(bs, b, x)) /\ Extends(bs, Emit(bs, b, x))
         /\ Len(Emit(bs, b, x)) = Len(bs)
<1> DEFINE c == [bs[b] EXCEPT !.ins = Append(bs[b].ins, x)]
           cs == [bs EXCEPT ![b] = c]
<1>1. Emit(bs, b, x) = cs
  BY DEF Emit
<1>2. IsSeq(bs) /\ {"node", "name", "ins"} \subseteq DOMAIN bs[b] /\ IsSeq(bs[b].ins)
  BY DEF Sound
<1>3. /\ DOMAIN c = DOMAIN bs[b] /\ c.node = bs[b].node /\ c.name = bs[b].name
      /\ c.ins = Append(bs[b].ins, x)
  BY <1>2
<1> HIDE DEF c
<1>4. /\ Len(bs) \in Nat /\ IsSeq(cs) /\ Len(cs) = Len(bs) /\ cs[b] = c
      /\ \A d \in 1 .. Len(bs) : d # b => cs[d] = bs[d]
  BY <1>2, SetSeq
<1> HIDE DEF cs
<1>5. Extends(bs, cs)
  <2>1. \A d \in 1 .. Len(bs) : cs[d].node = bs[d].node /\ cs[d].name = bs[d].name
    BY <1>3, <1>4
  <2> QED
    BY <1>4, <2>1 DEF Extends
<1>6. ASSUME NEW d \in 1 .. Len(cs)
      PROVE  /\ {"node", "name", "ins"} \subseteq DOMAIN cs[d]
             /\ IsSeq(cs[d].ins)
             /\ \A i \in 1 .. Len(cs[d].ins) : BreakGoes(cs, cs[d].ins[i])
  <2>1. CASE d = b
    <3>1. /\ IsSeq(c.ins) /\ Len(c.ins) = Len(bs[b].ins) + 1 /\ Len(bs[b].ins) \in Nat
          /\ \A i \in 1 .. Len(bs[b].ins) : c.ins[i] = bs[b].ins[i]
          /\ c.ins[Len(bs[b].ins) + 1] = x
      BY <1>2, <1>3, AppendSeq
    <3>2. ASSUME NEW i \in 1 .. Len(c.ins)
          PROVE  BreakGoes(bs, c.ins[i])
      <4>1. CASE i = Len(bs[b].ins) + 1
        BY <3>1, <4>1
      <4>2. CASE i \in 1 .. Len(bs[b].ins)
        <5>1. BreakGoes(bs, bs[b].ins[i])
          BY <4>2 DEF Sound
        <5>2. c.ins[i] = bs[b].ins[i]
          BY <3>1, <4>2
        <5> QED
          BY <5>1, <5>2
      <4>3. \A k \in Nat : \A j \in 1 .. k + 1 : j = k + 1 \/ j \in 1 .. k
        OBVIOUS
      <4>4. i = Len(bs[b].ins) + 1 \/ i \in 1 .. Len(bs[b].ins)
        BY <3>1, <4>3
      <4> QED
        BY <4>1, <4>2, <4>4
    <3> QED
      BY <1>2, <1>3, <1>4, <1>5, <2>1, <3>1, <3>2, BreakGoesStill
  <2>2. CASE d # b
    BY <1>4, <1>5, <2>2, BreakGoesStill DEF Sound
  <2> QED
    BY <2>1, <2>2
<1>7. Sound(cs)
  BY <1>4, <1>6 DEF Sound
<1> QED
  BY <1>1, <1>4, <1>5, <1>7

LEMMA SoundPlace ==
  ASSUME NEW bs, Sound(bs), NEW b \in 1 .. Len(bs)
  PROVE  /\ Sound(Place(bs, b)) /\ Extends(bs, Place(bs, b))
         /\ Len(Place(bs, b)) = Len(bs)
<1> DEFINE c == [bs[b] EXCEPT !.placed = TRUE]
           cs == [bs EXCEPT ![b] = c]
<1>1. Place(bs, b) = cs
  BY DEF Place
<1>2. IsSeq(bs) /\ {"node", "name", "ins"} \subseteq DOMAIN bs[b]
  BY DEF Sound
<1>3. /\ DOMAIN c = DOMAIN bs[b] /\ c.node = bs[b].node /\ c.name = bs[b].name
      /\ c.ins = bs[b].ins
  BY <1>2
<1> HIDE DEF c
<1>4. /\ Len(bs) \in Nat /\ IsSeq(cs) /\ Len(cs) = Len(bs) /\ cs[b] = c
      /\ \A d \in 1 .. Len(bs) : d # b => cs[d] = bs[d]
  BY <1>2, SetSeq
<1> HIDE DEF cs
<1>5. /\ \A d \in 1 .. Len(bs) :
           /\ DOMAIN cs[d] = DOMAIN bs[d] /\ cs[d].ins = bs[d].ins
           /\ cs[d].node = bs[d].node /\ cs[d].name = bs[d].name
  BY <1>3, <1>4
<1>6. Extends(bs, cs)
  BY <1>4, <1>5 DEF Extends
<1>7. Sound(cs)
  BY <1>4, <1>5, <1>6, BreakGoesStill DEF Sound
<1> QED
  BY <1>1, <1>4, <1>6, <1>7

LEMMA SoundNew ==
  ASSUME NEW bs, Sound(bs), NEW name, NEW placed
  PROVE  LET cs == Append(bs, NewBlock(name, placed))
         IN  /\ Sound(cs) /\ Extends(bs, cs) /\ Len(cs) = Len(bs) + 1 /\ Len(bs) \in Nat
             /\ cs[Len(cs)].node = cgPc /\ cs[Len(cs)].name = name
<1> DEFINE x == NewBlock(name, placed)
           cs == Append(bs, x)
<1>1. /\ {"node", "name", "ins"} \subseteq DOMAIN x
      /\ x.node = cgPc /\ x.name = name /\ x.ins = <<>>
  BY DEF NewBlock
<1> HIDE DEF x
<1>2. /\ Len(bs) \in Nat /\ IsSeq(cs) /\ Len(cs) = Len(bs) + 1 /\ cs[Len(bs) + 1] = x
      /\ \A d \in 1 .. Len(bs) : cs[d] = bs[d]
  BY AppendSeq DEF Sound
<1> HIDE DEF cs
<1>3. Extends(bs, cs)
  BY <1>2 DEF Extends
<1>4. ASSUME NEW d \in 1 .. Len(cs)
      PROVE  /\ {"node", "name", "ins"} \subseteq DOMAIN cs[d]
             /\ IsSeq(cs[d].ins)
             /\ \A i \in 1 .. Len(cs[d].ins) : BreakGoes(cs, cs[d].ins[i])
  <2>1. CASE d = Len(bs) + 1
    <3>1. <<>> \in Seq({})
      OBVIOUS
    <3>2. IsSeq(<<>>)
      BY <3>1 DEF IsSeq
    <3> QED
      BY <1>1, <1>2, <2>1, <3>2
  <2>2. CASE d \in 1 .. Len(bs)
    BY <1>2, <1>3, <2>2, BreakGoesStill DEF Sound
  <2> QED
    BY <1>2, <2>1, <2>2
<1>5. Sound(cs)
  BY <1>2, <1>4 DEF Sound
<1> QED
  BY <1>1, <1>2, <1>3, <1>5 DEF cs, x

\* The blocks that are made together.
LEMMA ConcatIs ==
  ASSUME NEW bs, IsSeq(bs), NEW a, NEW b, NEW c, NEW d
  PROVE  /\ bs \o <<a>> = Append(bs, a)
         /\ bs \o <<a, b>> = Append(Append(bs, a), b)
         /\ bs \o <<a, b, c>> = Append(Append(Append(bs, a), b), c)
         /\ bs \o <<a, b, c, d>> = Append(Append(Append(Append(bs, a), b), c), d)
<1>1. PICK S : bs \in Seq(S)
  BY DEF IsSeq
<1> DEFINE T == S \cup {a, b, c, d}
<1>2. bs \in Seq(T) /\ a \in T /\ b \in T /\ c \in T /\ d \in T
  BY <1>1
<1> HIDE DEF T
<1>3. \A s \in Seq(T), x \in T : Append(s, x) \in Seq(T) /\ Append(s, x) = s \o <<x>>
  BY AppendIsConcat
<1>4. \A s, t \in Seq(T), x \in T : s \o Append(t, x) = Append(s \o t, x)
  <2> TAKE s \in Seq(T), t \in Seq(T), x \in T
  <2>1. <<x>> \in Seq(T) /\ s \o t \in Seq(T)
    OBVIOUS
  <2>2. (s \o t) \o <<x>> = s \o (t \o <<x>>)
    BY <2>1, ConcatAssociative
  <2> QED
    BY <1>3, <2>1, <2>2
<1>5. <<a>> \in Seq(T) /\ <<a, b>> \in Seq(T) /\ <<a, b, c>> \in Seq(T)
  BY <1>2
<1>6. /\ <<a, b>> = Append(<<a>>, b)
      /\ <<a, b, c>> = Append(<<a, b>>, c)
      /\ <<a, b, c, d>> = Append(<<a, b, c>>, d)
  BY <1>2, <1>5
<1>7. bs \o <<a>> = Append(bs, a)
  BY <1>2, <1>3
<1>8. bs \o <<a, b>> = Append(Append(bs, a), b)
  BY <1>2, <1>4, <1>5, <1>6, <1>7
<1>9. bs \o <<a, b, c>> = Append(Append(Append(bs, a), b), c)
  BY <1>2, <1>4, <1>5, <1>6, <1>8
<1>10. bs \o <<a, b, c, d>> = Append(Append(Append(Append(bs, a), b), c), d)
  BY <1>2, <1>4, <1>5, <1>6, <1>9
<1> QED
  BY <1>7, <1>8, <1>9, <1>10

\* A branch from a node that is no break.
LEMMA SoundBranch ==
  ASSUME NEW bs, Sound(bs), NEW c \in 1 .. Len(bs), NEW n, NEW b,
         ast[n].k # "break" \/ ~(n <= Len(ast))
  PROVE  LET cs == Emit(bs, c, Br(n, b))
             ds == BrIfOpen(bs, c, n, b)
         IN  /\ Sound(cs) /\ Extends(bs, cs) /\ Len(cs) = Len(bs)
             /\ Sound(ds) /\ Extends(bs, ds) /\ Len(ds) = Len(bs)
<1>1. BreakGoes(bs, Br(n, b))
  BY DEF BreakGoes, Br, Instruction
<1>2. Len(bs) \in Nat
  BY AppendSeq DEF Sound
<1>3. Extends(bs, bs)
  BY <1>2 DEF Extends
<1> QED
  BY <1>1, <1>3, SoundEmit DEF BrIfOpen

\* An instruction that is no branch.
LEMMA SoundOther ==
  ASSUME NEW bs, Sound(bs), NEW c \in 1 .. Len(bs), NEW x, x.op # "br"
  PROVE  /\ Sound(Emit(bs, c, x)) /\ Extends(bs, Emit(bs, c, x))
         /\ Len(Emit(bs, c, x)) = Len(bs)
<1>1. BreakGoes(bs, x)
  BY DEF BreakGoes
<1> QED
  BY <1>1, SoundEmit

-------------------------------------------------------------------------------
(* The loops around a place in the source.                                 *)

\* In the tree s: the nodes after m, n the last of them, are in m's block.
Inside(s, m, n) == \A j \in m + 1 .. n : s[j].lvl > s[m].lvl

\* The nodes of the kinds K whose blocks are open just before node n.
Live(K, n) == {m \in 1 .. n - 1 : ast[m].k \in K /\ Inside(ast, m, n - 1)}

LiveLoops(n) == Live(Loops, n)

\* What opens a block that no other clause of its statement follows.
Finals == Loops \cup {"else"}

\* What such a block ends with is its end marker, at the statement's own level.
FinalsEnd(s) ==
  \A m \in 1 .. Len(s) : \A n \in m + 1 .. Len(s) :
    s[m].k \in Finals /\ Inside(s, m, n - 1) /\ ~(s[n].lvl > s[m].lvl)
      => s[n].k = "end" /\ s[n].lvl = s[m].lvl

\* The parser's nest has those of them that are open where the text stops.
OpenFinals(s, ns) ==
  \A m \in 1 .. Len(s) :
    s[m].k \in Finals /\ Inside(s, m, Len(s))
      => s[m].lvl + 1 \in 1 .. Len(ns) /\ ns[s[m].lvl + 1] = s[m].k

LEMMA AppendFinals ==
  ASSUME NEW s \in Seq(Node), NEW ns \in Seq(AllKinds), NEW ms \in Seq(AllKinds), NEW v \in Node,
         FinalsEnd(s), OpenFinals(s, ns), Before(v) = Len(ns),
         v.k \in Clauses => ns[Len(ns)] \notin Finals,
         \A j \in 1 .. Len(ns) : j <= v.lvl => j \in 1 .. Len(ms) /\ ms[j] = ns[j],
         v.k \in Finals => v.lvl + 1 \in 1 .. Len(ms) /\ ms[v.lvl + 1] = v.k
  PROVE  FinalsEnd(Append(s, v)) /\ OpenFinals(Append(s, v), ms)
<1> DEFINE L == Len(s)
           t == Append(s, v)
<1>1. \A w \in Node : w.lvl \in Nat
  BY DEF Node
<1>2. /\ L \in Nat /\ Len(ns) \in Nat /\ Len(t) = L + 1 /\ t[L + 1] = v
      /\ \A n \in 1 .. L : t[n] = s[n] /\ s[n] \in Node
  OBVIOUS
<1>3. v.lvl \in Nat /\ \A n \in 1 .. L : s[n].lvl \in Nat
  BY <1>1, <1>2
<1>4. ASSUME NEW m \in 1 .. L, s[m].k \in Finals, Inside(s, m, L)
      PROVE  s[m].lvl + 1 \in 1 .. Len(ns) /\ ns[s[m].lvl + 1] = s[m].k
  BY <1>4 DEF OpenFinals
<1>5. FinalsEnd(s)
  OBVIOUS
<1> HIDE DEF L, t
<1>6. ASSUME NEW m \in 1 .. L, NEW n \in 0 .. L
      PROVE  Inside(t, m, n) <=> Inside(s, m, n)
  <2>1. t[m] = s[m] /\ \A j \in m + 1 .. n : j \in 1 .. L
    BY <1>2
  <2>2. \A j \in m + 1 .. n : t[j] = s[j]
    BY <1>2, <2>1
  <2> QED
    BY <2>1, <2>2, Zenon DEF Inside
<1>7. ASSUME NEW m \in 1 .. L + 1, NEW n \in m + 1 .. L + 1,
             t[m].k \in Finals, Inside(t, m, n - 1), ~(t[n].lvl > t[m].lvl)
      PROVE  t[n].k = "end" /\ t[n].lvl = t[m].lvl
  <2>1. m \in 1 .. L /\ n - 1 \in 0 .. L
    BY <1>2, <1>7, SMTT(40)
  <2>2. s[m].k \in Finals /\ Inside(s, m, n - 1) /\ t[m] = s[m]
    BY <1>2, <1>6, <1>7, <2>1
  <2>3. CASE n \in m + 1 .. L
    <3>1. t[n] = s[n]
      BY <1>2, <2>1, <2>3
    <3> QED
      BY <1>5, <1>7, <2>1, <2>2, <2>3, <3>1 DEF FinalsEnd, L
  <2>4. CASE n = L + 1
    <3>1. Inside(s, m, L)
      <4>1. n - 1 = L
        BY <1>2, <2>4
      <4> QED
        BY <2>2, <4>1
    <3>2. s[m].lvl + 1 \in 1 .. Len(ns) /\ ns[s[m].lvl + 1] = s[m].k
      BY <1>4, <2>1, <2>2, <3>1
    <3>3. s[m].lvl \in Nat /\ ~(v.lvl > s[m].lvl) /\ t[n] = v
      BY <1>2, <1>3, <1>7, <2>1, <2>2, <2>4
    <3>4. v.k \in Markers /\ v.lvl = Len(ns) - 1
      <4>1. CASE v.k \notin Markers
        BY <1>2, <1>3, <3>2, <3>3, <4>1, SMTT(40) DEF Before
      <4>2. CASE v.k \in Markers
        <5>1. v.lvl + 1 = Len(ns)
          BY <4>2 DEF Before
        <5>2. v.lvl + 1 = Len(ns) => v.lvl = Len(ns) - 1
          BY <1>2, <1>3, SMTT(40)
        <5> QED
          BY <4>2, <5>1, <5>2
      <4> QED
        BY <4>1, <4>2
    <3>5. v.lvl = s[m].lvl /\ Len(ns) = s[m].lvl + 1
      <4>1. v.lvl \in Nat /\ s[m].lvl \in Nat /\ Len(ns) \in Nat
        BY <1>2, <1>3, <3>3
      <4>2. s[m].lvl + 1 <= Len(ns)
        BY <3>2, <4>1
      <4>3. \A x, y, z \in Nat : x = z - 1 /\ y + 1 <= z /\ ~(x > y) => x = y /\ z = y + 1
        OBVIOUS
      <4> QED
        BY <3>3, <3>4, <4>1, <4>2, <4>3
    <3>6. v.k \notin Clauses
      BY <2>2, <3>2, <3>5
    <3> QED
      BY <2>2, <3>3, <3>4, <3>5, <3>6 DEF Markers
  <2> QED
    BY <1>2, <2>1, <2>3, <2>4
<1>8. ASSUME NEW m \in 1 .. L + 1, t[m].k \in Finals, Inside(t, m, L + 1)
      PROVE  t[m].lvl + 1 \in 1 .. Len(ms) /\ ms[t[m].lvl + 1] = t[m].k
  <2>1. CASE m = L + 1
    BY <1>2, <1>8, <2>1
  <2>2. CASE m \in 1 .. L
    <3>1. L + 1 \in m + 1 .. L + 1 /\ m + 1 .. L \subseteq m + 1 .. L + 1
      BY <1>2, <2>2
    <3>2. Inside(t, m, L) /\ t[L + 1].lvl > t[m].lvl
      BY <1>8, <3>1 DEF Inside
    <3>3. L \in 0 .. L
      BY <1>2
    <3>4. Inside(s, m, L) /\ v.lvl > s[m].lvl /\ t[m] = s[m] /\ s[m].lvl \in Nat
      BY <1>2, <1>3, <1>6, <2>2, <3>2, <3>3
    <3>5. s[m].lvl + 1 \in 1 .. Len(ns) /\ ns[s[m].lvl + 1] = s[m].k
      BY <1>4, <1>8, <2>2, <3>4
    <3>6. s[m].lvl + 1 <= v.lvl
      BY <1>3, <3>4
    <3> QED
      BY <3>4, <3>5, <3>6
  <2> QED
    BY <1>2, <2>1, <2>2
<1>9. FinalsEnd(t)
  BY <1>2, <1>7 DEF FinalsEnd
<1>10. OpenFinals(t, ms)
  BY <1>2, <1>8 DEF OpenFinals
<1> QED
  BY <1>9, <1>10 DEF t

-------------------------------------------------------------------------------
(* How the loops around change from a node to the next.                    *)

\* The blocks that are open just before node n.
Depth(n) == IF n = 1 THEN 0 ELSE Behind(ast[n - 1])

LEMMA DepthAt ==
  ASSUME Nested, NEW n \in 1 .. Len(ast)
  PROVE  /\ Len(ast) \in Nat /\ ast[n] \in Node /\ ast[n].lvl \in Nat
         /\ Depth(n) = Before(ast[n]) /\ Depth(n + 1) = Behind(ast[n])
<1>1. Len(ast) \in Nat /\ ast[n] \in Node /\ ast[n].lvl \in Nat
  BY NodesTyped
<1>2. Depth(n) = Before(ast[n])
  <2>1. CASE n = 1
    <3>1. ast # <<>>
      BY <1>1
    <3> QED
      BY <2>1, <3>1 DEF Depth, Nested
  <2>2. CASE n # 1
    <3>1. n - 1 \in 1 .. Len(ast) - 1 /\ (n - 1) + 1 = n
      BY <1>1, <2>2
    <3>2. Before(ast[(n - 1) + 1]) = Behind(ast[n - 1])
      BY <3>1 DEF Nested
    <3> QED
      BY <2>2, <3>1, <3>2 DEF Depth
  <2> QED
    BY <2>1, <2>2
<1>3. Depth(n + 1) = Behind(ast[n])
  <2>1. n + 1 # 1 /\ (n + 1) - 1 = n
    BY <1>1
  <2> QED
    BY <2>1 DEF Depth
<1> QED
  BY <1>1, <1>2, <1>3

\* A block around n is one of those that are open there.
LEMMA OpenBelow ==
  ASSUME Nested, NEW K, K \subseteq Openers \cup Clauses,
         NEW n \in 1 .. Len(ast), NEW m \in Live(K, n)
  PROVE  /\ m \in 1 .. n - 1 /\ m \in 1 .. Len(ast) /\ ast[m].k \in K
         /\ ast[m].lvl \in Nat /\ Depth(n) \in Nat /\ ast[m].lvl < Depth(n)
<1>1. Len(ast) \in Nat /\ \A i \in 1 .. Len(ast) : ast[i].lvl \in Nat
  BY NodesTyped
<1>2. /\ m \in 1 .. n - 1 /\ m \in 1 .. Len(ast) /\ n - 1 \in 1 .. Len(ast) /\ n # 1
      /\ ast[m].k \in K /\ Inside(ast, m, n - 1)
  BY <1>1 DEF Live
<1>3. Depth(n) = Behind(ast[n - 1])
  BY <1>2 DEF Depth
<1>4. CASE m = n - 1
  <2>1. ast[n - 1].k \in Openers \cup Clauses /\ ast[m].lvl \in Nat /\ ast[m].k \in K
    BY <1>1, <1>2, <1>4
  <2>2. Depth(n) = ast[m].lvl + 1
    BY <1>3, <1>4, <2>1 DEF Behind
  <2> QED
    BY <1>2, <2>1, <2>2
<1>5. CASE m # n - 1
  <2>1. n - 1 \in m + 1 .. n - 1
    BY <1>1, <1>2, <1>5
  <2>2. ast[n - 1].lvl > ast[m].lvl /\ ast[n - 1].lvl \in Nat /\ ast[m].lvl \in Nat
    BY <1>1, <1>2, <2>1 DEF Inside
  <2>3. Depth(n) = ast[n - 1].lvl \/ Depth(n) = ast[n - 1].lvl + 1
    BY <1>3 DEF Behind
  <2>4. \A x, y \in Nat : x > y => y < x /\ y < x + 1 /\ x + 1 \in Nat
    OBVIOUS
  <2>5. Depth(n) \in Nat /\ ast[m].lvl < Depth(n)
    BY <2>2, <2>3, <2>4
  <2> QED
    BY <1>2, <2>2, <2>5
<1> QED
  BY <1>4, <1>5

LEMMA OpenNext ==
  ASSUME Nested, NEW K, NEW n \in 1 .. Len(ast), NEW m
  PROVE  m \in Live(K, n + 1)
           <=> \/ m \in Live(K, n) /\ ast[m].lvl < ast[n].lvl
               \/ m = n /\ ast[n].k \in K
<1>1. Len(ast) \in Nat /\ \A i \in 1 .. Len(ast) : ast[i].lvl \in Nat
  BY NodesTyped
<1>2. m \in Live(K, n + 1) <=> m \in 1 .. n /\ ast[m].k \in K /\ Inside(ast, m, n)
  <2>1. (n + 1) - 1 = n
    BY <1>1
  <2> QED
    BY <2>1 DEF Live
<1>3. CASE m \in 1 .. n - 1
  <2>1. ast[m].lvl \in Nat /\ ast[n].lvl \in Nat /\ m # n /\ m \in 1 .. n
    BY <1>1, <1>3
  <2>2. Inside(ast, m, n) <=> Inside(ast, m, n - 1) /\ ast[n].lvl > ast[m].lvl
    <3>1. /\ n \in m + 1 .. n /\ \A i \in m + 1 .. n - 1 : i \in m + 1 .. n
          /\ \A i \in m + 1 .. n : i = n \/ i \in m + 1 .. n - 1
      BY <1>1, <1>3
    <3> QED
      BY <3>1 DEF Inside
  <2>3. ast[n].lvl > ast[m].lvl <=> ast[m].lvl < ast[n].lvl
    BY <2>1
  <2> QED
    BY <1>2, <1>3, <2>1, <2>2, <2>3 DEF Live
<1>4. CASE m = n
  <2>1. Inside(ast, n, n) /\ n \notin 1 .. n - 1 /\ n \in 1 .. n
    BY <1>1 DEF Inside
  <2> QED
    BY <1>2, <1>4, <2>1 DEF Live
<1>5. CASE m \notin 1 .. n
  <2>1. m \notin 1 .. n - 1 /\ m # n
    BY <1>1, <1>5
  <2> QED
    BY <1>2, <1>5, <2>1 DEF Live
<1>6. m \in 1 .. n <=> m \in 1 .. n - 1 \/ m = n
  BY <1>1
<1> QED
  BY <1>3, <1>4, <1>5, <1>6

LEMMA OpenOrdered ==
  ASSUME Nested, NEW K, K \subseteq Openers \cup Clauses, NEW n \in 1 .. Len(ast),
         NEW m \in Live(K, n), NEW o \in Live(K, n), m < o
  PROVE  ast[m].lvl < ast[o].lvl
<1>1. Len(ast) \in Nat /\ m \in 1 .. n - 1 /\ o \in 1 .. n - 1 /\ Inside(ast, m, n - 1)
      /\ ast[m].lvl \in Nat /\ ast[o].lvl \in Nat
  BY NodesTyped, OpenBelow DEF Live
<1>2. o \in m + 1 .. n - 1
  BY <1>1
<1> QED
  BY <1>1, <1>2 DEF Inside

\* The loops among them.
LEMMA LiveBelow ==
  ASSUME Nested, NEW n \in 1 .. Len(ast), NEW m \in LiveLoops(n)
  PROVE  /\ m \in 1 .. n - 1 /\ m \in 1 .. Len(ast) /\ ast[m].k \in Loops
         /\ ast[m].lvl \in Nat /\ Depth(n) \in Nat /\ ast[m].lvl < Depth(n)
BY OpenBelow DEF LiveLoops, Openers

LEMMA LiveNext ==
  ASSUME Nested, NEW n \in 1 .. Len(ast), NEW m
  PROVE  m \in LiveLoops(n + 1)
           <=> \/ m \in LiveLoops(n) /\ ast[m].lvl < ast[n].lvl
               \/ m = n /\ ast[n].k \in Loops
BY OpenNext DEF LiveLoops

LEMMA LiveOrdered ==
  ASSUME Nested, NEW n \in 1 .. Len(ast), NEW m \in LiveLoops(n), NEW o \in LiveLoops(n), m < o
  PROVE  ast[m].lvl < ast[o].lvl
BY OpenOrdered DEF LiveLoops, Openers

\* A statement without a block, or a clause, has the same loops around it as
\* what follows it.
LEMMA SameLoops ==
  ASSUME Nested, FinalsEnd(ast), NEW n \in 1 .. Len(ast),
         ast[n].k \notin Openers \cup {"end"}
  PROVE  Depth(n + 1) = Depth(n) /\ LiveLoops(n + 1) = LiveLoops(n)
<1>1. /\ Len(ast) \in Nat /\ ast[n].lvl \in Nat
      /\ Depth(n) = Before(ast[n]) /\ Depth(n + 1) = Behind(ast[n])
  BY DepthAt
<1>2. Depth(n + 1) = Depth(n)
  BY <1>1 DEF Before, Behind, Markers
<1>3. ASSUME NEW m \in LiveLoops(n)
      PROVE  ast[m].lvl < ast[n].lvl
  <2>1. /\ m \in 1 .. n - 1 /\ m \in 1 .. Len(ast) /\ ast[m].k \in Loops
        /\ ast[m].lvl \in Nat /\ ast[m].lvl < Depth(n)
    BY LiveBelow
  <2>2. Inside(ast, m, n - 1) /\ n \in m + 1 .. Len(ast)
    BY <1>1, <2>1 DEF LiveLoops, Live
  <2>3. ast[n].lvl > ast[m].lvl
    BY <2>1, <2>2 DEF FinalsEnd, Finals
  <2> QED
    BY <1>1, <2>1, <2>3
<1>4. ast[n].k \notin Loops
  BY DEF Openers
<1>5. \A m : m \in LiveLoops(n + 1) <=> m \in LiveLoops(n)
  BY <1>3, <1>4, LiveNext
<1> QED
  BY <1>2, <1>5

\* A statement with a block adds itself, if it is a loop.
LEMMA MoreLoops ==
  ASSUME Nested, NEW n \in 1 .. Len(ast), ast[n].k \in Openers
  PROVE  /\ Depth(n) = ast[n].lvl /\ Depth(n + 1) = ast[n].lvl + 1
         /\ LiveLoops(n + 1) = LiveLoops(n) \cup (IF ast[n].k \in Loops THEN {n} ELSE {})
<1>1. /\ Len(ast) \in Nat /\ ast[n].lvl \in Nat
      /\ Depth(n) = Before(ast[n]) /\ Depth(n + 1) = Behind(ast[n])
  BY DepthAt
<1>2. ast[n].k \notin Markers
  BY DEF Openers, Loops, Markers, Clauses
<1>3. Depth(n) = ast[n].lvl /\ Depth(n + 1) = ast[n].lvl + 1
  BY <1>1, <1>2 DEF Before, Behind
<1>4. \A m \in LiveLoops(n) : ast[m].lvl < ast[n].lvl
  BY <1>3, LiveBelow
<1>5. \A m : m \in LiveLoops(n + 1)
               <=> m \in LiveLoops(n) \/ (m = n /\ ast[n].k \in Loops)
  BY <1>4, LiveNext
<1> QED
  BY <1>3, <1>5

\* What a break targets is the last of the loops around it.
LEMMA LoopsAroundBreak ==
  ASSUME Nested, NEW n \in 1 .. Len(ast), ast[n].k = "break"
  PROVE  LoopsAround(n) = LiveLoops(n)
<1>1. /\ Len(ast) \in Nat /\ ast[n].lvl \in Nat /\ Depth(n) = Before(ast[n])
      /\ \A i \in 1 .. Len(ast) : ast[i].lvl \in Nat
  BY DepthAt, NodesTyped
<1>2. Depth(n) = ast[n].lvl
  BY <1>1 DEF Before, Markers, Clauses
<1>3. ASSUME NEW m \in LiveLoops(n)
      PROVE  m \in LoopsAround(n)
  <2>1. /\ m \in 1 .. n - 1 /\ ast[m].k \in Loops /\ ast[m].lvl < ast[n].lvl
        /\ ast[m].lvl \in Nat /\ Inside(ast, m, n - 1)
    BY <1>2, LiveBelow DEF LiveLoops, Live
  <2>2. \A j \in m + 1 .. n : j = n \/ j \in m + 1 .. n - 1
    BY <1>1, <2>1
  <2>3. \A j \in m + 1 .. n : ast[j].lvl > ast[m].lvl
    BY <1>1, <2>1, <2>2 DEF Inside
  <2> QED
    BY <2>1, <2>3 DEF LoopsAround, Around, Openers
<1>4. ASSUME NEW m \in LoopsAround(n)
      PROVE  m \in LiveLoops(n)
  <2>1. /\ m \in 1 .. n - 1 /\ ast[m].k \in Loops
        /\ \A j \in m + 1 .. n : ast[j].lvl > ast[m].lvl
    BY <1>4 DEF LoopsAround, Around
  <2>2. \A j \in m + 1 .. n - 1 : j \in m + 1 .. n
    BY <1>1, <2>1
  <2> QED
    BY <2>1, <2>2 DEF LiveLoops, Live, Inside
<1> QED
  BY <1>3, <1>4

-------------------------------------------------------------------------------
(* CodeGen's stacks match the blocks around the node it has come to.       *)

\* Each open block has its frame, at the frame's own depth.
FramesMatch(n, bs, fs) ==
  /\ IsSeq(fs) /\ Len(fs) = Depth(n)
  /\ \A j \in 1 .. Len(fs) :
       /\ {"node", "next", "end"} \subseteq DOMAIN fs[j]
       /\ fs[j].node \in 1 .. n - 1 /\ ast[fs[j].node].k \in Openers
       /\ ast[fs[j].node].lvl = j - 1
       /\ ast[fs[j].node].k \in Loops => fs[j].node \in LiveLoops(n)
       /\ fs[j].next \in 1 .. Len(bs) /\ fs[j].end \in 1 .. Len(bs)
  /\ \A m \in LiveLoops(n) : ast[m].lvl + 1 \in 1 .. Len(fs) /\ fs[ast[m].lvl + 1].node = m

\* The loops around have their blocks in loop_end_blocks, in their order.
EndsMatch(n, bs, le) ==
  /\ IsSeq(le)
  /\ \A i \in 1 .. Len(le) :
       AfterLoop(bs, le[i], bs[le[i]].node) /\ bs[le[i]].node \in LiveLoops(n)
  /\ \A i, j \in 1 .. Len(le) : i < j => bs[le[i]].node < bs[le[j]].node
  /\ \A m \in LiveLoops(n) : \E i \in 1 .. Len(le) : bs[le[i]].node = m

Walk(n, bs, c, fs, le) ==
  /\ Sound(bs)
  /\ bs # <<>> => c \in 1 .. Len(bs)
  /\ FramesMatch(n, bs, fs)
  /\ EndsMatch(n, bs, le)

\* More blocks leave a match of the same loops as it is.
LEMMA EndsStay ==
  ASSUME NEW n, NEW o, NEW bs, NEW cs, NEW le, EndsMatch(n, bs, le), Extends(bs, cs),
         LiveLoops(o) = LiveLoops(n)
  PROVE  EndsMatch(o, cs, le)
<1>1. \A i \in 1 .. Len(le) : le[i] \in 1 .. Len(bs) /\ AfterLoop(bs, le[i], bs[le[i]].node)
  BY DEF EndsMatch, AfterLoop
<1>2. \A i \in 1 .. Len(le) : cs[le[i]].node = bs[le[i]].node
  BY <1>1 DEF Extends
<1>3. \A i \in 1 .. Len(le) : AfterLoop(cs, le[i], bs[le[i]].node)
  BY <1>1, AfterLoopStays
<1> QED
  BY <1>2, <1>3 DEF EndsMatch

LEMMA FramesStay ==
  ASSUME NEW n \in Nat, NEW bs, NEW cs, NEW fs, FramesMatch(n, bs, fs), Extends(bs, cs),
         Depth(n + 1) = Depth(n), LiveLoops(n + 1) = LiveLoops(n)
  PROVE  FramesMatch(n + 1, cs, fs)
<1>1. \A x \in 1 .. n - 1 : x \in 1 .. (n + 1) - 1
  OBVIOUS
<1>2. \A x \in 1 .. Len(bs) : x \in 1 .. Len(cs)
  BY DEF Extends
<1> QED
  BY <1>1, <1>2, SMTT(40) DEF FramesMatch

\* A clause's frame falls through to another block.
LEMMA FrameFallsThrough ==
  ASSUME NEW n, NEW bs, NEW fs, FramesMatch(n, bs, fs), fs # <<>>, NEW b \in 1 .. Len(bs)
  PROVE  FramesMatch(n, bs, [fs EXCEPT ![Len(fs)].next = b])
<1> DEFINE k == Len(fs)
           f == [fs[k] EXCEPT !.next = b]
           gs == [fs EXCEPT ![k] = f]
<1>1. IsSeq(fs) /\ k \in Nat \ {0}
  BY FrontSeq DEF FramesMatch
<1>2. k \in 1 .. Len(fs) /\ {"node", "next", "end"} \subseteq DOMAIN fs[k]
  BY <1>1 DEF FramesMatch
<1>3. DOMAIN f = DOMAIN fs[k] /\ f.node = fs[k].node /\ f.end = fs[k].end /\ f.next = b
  BY <1>2
<1> HIDE DEF f
<1>4. IsSeq(gs) /\ Len(gs) = k /\ gs[k] = f /\ \A j \in 1 .. Len(fs) : j # k => gs[j] = fs[j]
  BY <1>1, <1>2, SetSeq
<1> HIDE DEF gs
<1>5. \A j \in 1 .. k : /\ DOMAIN gs[j] = DOMAIN fs[j] /\ gs[j].node = fs[j].node
                        /\ gs[j].end = fs[j].end
                        /\ gs[j].next = fs[j].next \/ gs[j].next = b
  BY <1>3, <1>4
<1>6. \A j \in 1 .. Len(gs) :
       /\ {"node", "next", "end"} \subseteq DOMAIN gs[j]
       /\ gs[j].node \in 1 .. n - 1 /\ ast[gs[j].node].k \in Openers
       /\ ast[gs[j].node].lvl = j - 1
       /\ ast[gs[j].node].k \in Loops => gs[j].node \in LiveLoops(n)
       /\ gs[j].next \in 1 .. Len(bs) /\ gs[j].end \in 1 .. Len(bs)
  BY <1>4, <1>5, ZenonT(60) DEF FramesMatch
<1>7. ASSUME NEW m \in LiveLoops(n)
      PROVE  ast[m].lvl + 1 \in 1 .. Len(gs) /\ gs[ast[m].lvl + 1].node = m
  BY <1>4, <1>5, <1>7 DEF FramesMatch
<1> QED
  BY <1>4, <1>6, <1>7 DEF FramesMatch, gs, f

LEMMA FramesPush ==
  ASSUME Nested, NEW n \in 1 .. Len(ast), ast[n].k \in Openers, NEW bs, NEW cs, NEW fs, NEW f,
         FramesMatch(n, bs, fs), Extends(bs, cs),
         {"node", "next", "end"} \subseteq DOMAIN f, f.node = n,
         f.next \in 1 .. Len(cs), f.end \in 1 .. Len(cs)
  PROVE  FramesMatch(n + 1, cs, Append(fs, f))
<1> DEFINE gs == Append(fs, f)
           k == Len(fs)
<1>1. /\ Depth(n) = ast[n].lvl /\ Depth(n + 1) = ast[n].lvl + 1
      /\ \A m : m \in LiveLoops(n + 1) <=> m \in LiveLoops(n) \/ (m = n /\ ast[n].k \in Loops)
  BY MoreLoops
<1>2. n \in Nat /\ ast[n].lvl \in Nat /\ k = ast[n].lvl
  BY <1>1, DepthAt DEF FramesMatch
<1>3. /\ IsSeq(gs) /\ Len(gs) = k + 1 /\ gs[k + 1] = f /\ \A j \in 1 .. k : gs[j] = fs[j]
  BY AppendSeq DEF FramesMatch
<1> HIDE DEF gs
<1>4. ASSUME NEW j \in 1 .. Len(gs)
      PROVE  /\ {"node", "next", "end"} \subseteq DOMAIN gs[j]
             /\ gs[j].node \in 1 .. (n + 1) - 1 /\ ast[gs[j].node].k \in Openers
             /\ ast[gs[j].node].lvl = j - 1
             /\ ast[gs[j].node].k \in Loops => gs[j].node \in LiveLoops(n + 1)
             /\ gs[j].next \in 1 .. Len(cs) /\ gs[j].end \in 1 .. Len(cs)
  <2>1. CASE j = k + 1
    <3>1. gs[j] = f /\ n \in 1 .. (n + 1) - 1 /\ ast[n].lvl = j - 1
      BY <1>2, <1>3, <2>1
    <3> QED
      BY <1>1, <3>1
  <2>2. CASE j \in 1 .. k
    <3>1. /\ {"node", "next", "end"} \subseteq DOMAIN fs[j]
          /\ fs[j].node \in 1 .. n - 1 /\ ast[fs[j].node].k \in Openers
          /\ ast[fs[j].node].lvl = j - 1
          /\ ast[fs[j].node].k \in Loops => fs[j].node \in LiveLoops(n)
          /\ fs[j].next \in 1 .. Len(bs) /\ fs[j].end \in 1 .. Len(bs)
      BY <2>2 DEF FramesMatch
    <3>2. /\ \A x \in 1 .. n - 1 : x \in 1 .. (n + 1) - 1
          /\ \A x \in 1 .. Len(bs) : x \in 1 .. Len(cs)
      BY <1>2 DEF Extends
    <3> QED
      BY <1>1, <1>3, <2>2, <3>1, <3>2
  <2> QED
    BY <1>2, <1>3, <2>1, <2>2, SMTT(40)
<1>5. ASSUME NEW m \in LiveLoops(n + 1)
      PROVE  ast[m].lvl + 1 \in 1 .. Len(gs) /\ gs[ast[m].lvl + 1].node = m
  <2>1. CASE m \in LiveLoops(n)
    <3>1. ast[m].lvl + 1 \in 1 .. k /\ fs[ast[m].lvl + 1].node = m
      BY <2>1 DEF FramesMatch
    <3>2. \A x \in 1 .. k : x \in 1 .. Len(gs)
      BY <1>2, <1>3
    <3> QED
      BY <1>3, <3>1, <3>2
  <2>2. CASE m = n
    <3>1. ast[n].lvl + 1 = k + 1 /\ k + 1 \in 1 .. Len(gs)
      <4>1. k \in Nat /\ Len(gs) = k + 1 /\ ast[n].lvl = k
        BY <1>2, <1>3
      <4>2. \A x \in Nat : x + 1 \in 1 .. x + 1
        OBVIOUS
      <4> QED
        BY <4>1, <4>2
    <3>2. gs[k + 1].node = n
      BY <1>3
    <3> QED
      BY <2>2, <3>1, <3>2
  <2> QED
    BY <1>1, <1>5, <2>1, <2>2
<1>6. Len(gs) = Depth(n + 1)
  BY <1>1, <1>2, <1>3
<1>7. FramesMatch(n + 1, cs, gs)
  BY <1>3, <1>4, <1>5, <1>6 DEF FramesMatch
<1> QED
  BY <1>7 DEF gs

\* The block of a loop joins loop_end_blocks.
LEMMA EndsPush ==
  ASSUME Nested, NEW n \in 1 .. Len(ast), ast[n].k \in Loops, NEW bs, NEW cs, NEW le, NEW e,
         EndsMatch(n, bs, le), Extends(bs, cs), AfterLoop(cs, e, n)
  PROVE  EndsMatch(n + 1, cs, Append(le, e))
<1> DEFINE me == Append(le, e)
           k == Len(le)
<1>1. \A m : m \in LiveLoops(n + 1) <=> m \in LiveLoops(n) \/ m = n
  BY MoreLoops DEF Openers
<1>2. EndsMatch(n, cs, le)
  BY EndsStay
<1>3. k \in Nat /\ IsSeq(me) /\ Len(me) = k + 1 /\ me[k + 1] = e /\ \A i \in 1 .. k : me[i] = le[i]
  BY AppendSeq DEF EndsMatch
<1> HIDE DEF me
<1>4. \A i \in 1 .. Len(me) : i \in 1 .. k \/ i = k + 1
  BY <1>3
<1>5. cs[e].node = n
  BY DEF AfterLoop
<1>6. \A i \in 1 .. Len(me) :
        AfterLoop(cs, me[i], cs[me[i]].node) /\ cs[me[i]].node \in LiveLoops(n + 1)
  BY <1>1, <1>2, <1>3, <1>4, <1>5 DEF EndsMatch
<1>7. ASSUME NEW i \in 1 .. Len(me), NEW j \in 1 .. Len(me), i < j
      PROVE  cs[me[i]].node < cs[me[j]].node
  <2>1. i \in 1 .. k
    BY <1>3, <1>7
  <2>2. CASE j \in 1 .. k
    BY <1>2, <1>3, <1>7, <2>1, <2>2 DEF EndsMatch
  <2>3. CASE j = k + 1
    <3>1. cs[me[i]].node \in LiveLoops(n) /\ cs[me[j]].node = n
      BY <1>2, <1>3, <1>5, <2>1, <2>3 DEF EndsMatch
    <3>2. \A x \in LiveLoops(n) : x < n
      BY NodesTyped DEF LiveLoops, Live
    <3> QED
      BY <3>1, <3>2
  <2> QED
    BY <1>4, <2>2, <2>3
<1>8. ASSUME NEW m \in LiveLoops(n + 1)
      PROVE  \E i \in 1 .. Len(me) : cs[me[i]].node = m
  <2>1. CASE m = n
    <3>1. k + 1 \in 1 .. Len(me)
      BY <1>3
    <3> QED
      BY <1>3, <1>5, <2>1, <3>1
  <2>2. CASE m \in LiveLoops(n)
    <3>1. PICK i \in 1 .. k : cs[le[i]].node = m
      BY <1>2, <2>2 DEF EndsMatch
    <3>2. i \in 1 .. Len(me)
      BY <1>3
    <3> QED
      BY <1>3, <3>1, <3>2
  <2> QED
    BY <1>1, <1>8, <2>1, <2>2
<1>9. EndsMatch(n + 1, cs, me)
  BY <1>3, <1>6, <1>7, <1>8 DEF EndsMatch
<1> QED
  BY <1>9 DEF me

\* What an end marker leaves: the frame on top is of its own statement, and
\* if that is a loop it was the last of the loops around.
LEMMA FewerLoops ==
  ASSUME Nested, NEW n \in 1 .. Len(ast), ast[n].k = "end", NEW bs, NEW fs,
         FramesMatch(n, bs, fs)
  PROVE  /\ Len(fs) \in Nat \ {0} /\ fs # <<>> /\ Len(fs) \in 1 .. Len(fs)
         /\ ast[n].lvl = Len(fs) - 1 /\ Depth(n + 1) = Len(fs) - 1
         /\ LET t == fs[Len(fs)].node
            IN  /\ t \in 1 .. n - 1 /\ t \in 1 .. Len(ast) /\ ast[t].lvl = Len(fs) - 1
                /\ \A m : m \in LiveLoops(n + 1) <=> m \in LiveLoops(n) /\ m # t
                /\ ast[t].k \in Loops => t \in LiveLoops(n) /\ \A m \in LiveLoops(n) : m <= t
<1> DEFINE k == Len(fs)
           t == fs[k].node
<1>1. /\ Len(ast) \in Nat /\ ast[n].lvl \in Nat
      /\ Depth(n) = ast[n].lvl + 1 /\ Depth(n + 1) = ast[n].lvl
  BY DepthAt DEF Before, Behind, Markers, Clauses, Openers, Loops
<1>2. k = ast[n].lvl + 1
  BY <1>1 DEF FramesMatch
<1>3. k \in Nat \ {0} /\ k \in 1 .. k /\ ast[n].lvl = k - 1 /\ fs # <<>>
  BY <1>1, <1>2
<1>4. /\ t \in 1 .. n - 1 /\ t \in 1 .. Len(ast) /\ ast[t].lvl = k - 1
      /\ ast[t].k \in Loops => t \in LiveLoops(n)
  BY <1>1, <1>3, SMTT(40) DEF FramesMatch
<1>5. ASSUME NEW m \in LiveLoops(n)
      PROVE  /\ m \in Nat /\ ast[m].lvl \in Nat /\ ast[m].lvl <= k - 1
             /\ ast[m].lvl = k - 1 => m = t
  <2>1. /\ m \in 1 .. n - 1 /\ ast[m].lvl \in Nat /\ ast[m].lvl < Depth(n)
    BY LiveBelow
  <2>2. fs[ast[m].lvl + 1].node = m
    BY DEF FramesMatch
  <2>3. ast[m].lvl = k - 1 => ast[m].lvl + 1 = k
    BY <1>3, <2>1
  <2>4. ast[m].lvl <= k - 1
    BY <1>1, <1>2, <2>1, SMTT(40)
  <2>5. ast[m].lvl = k - 1 => m = t
    BY <2>2, <2>3
  <2>6. m \in Nat
    BY <1>1, <2>1
  <2> QED
    BY <2>1, <2>4, <2>5, <2>6
<1>6. ast[n].k \notin Loops
  BY DEF Loops
<1>7. ASSUME NEW m
      PROVE  m \in LiveLoops(n + 1) <=> m \in LiveLoops(n) /\ m # t
  <2>1. m \in LiveLoops(n) => (ast[m].lvl < ast[n].lvl <=> m # t)
    <3> SUFFICES ASSUME m \in LiveLoops(n)
                 PROVE  ast[m].lvl < ast[n].lvl <=> m # t
      OBVIOUS
    <3>1. /\ ast[m].lvl \in Nat /\ ast[m].lvl <= k - 1
          /\ ast[m].lvl = k - 1 <=> m = t
      BY <1>4, <1>5
    <3> QED
      BY <1>3, <3>1
  <2> QED
    BY <1>6, <2>1, LiveNext
<1>8. ASSUME ast[t].k \in Loops, NEW m \in LiveLoops(n)
      PROVE  m <= t
  <2>1. t \in LiveLoops(n) /\ m \in Nat /\ t \in Nat /\ ast[m].lvl \in Nat
    BY <1>4, <1>5, <1>8
  <2>2. CASE t < m
    <3>1. ast[t].lvl < ast[m].lvl
      BY <2>1, <2>2, LiveOrdered
    <3> QED
      BY <1>3, <1>4, <1>5, <3>1, SMTT(40)
  <2> QED
    BY <2>1, <2>2
<1>9. Depth(n + 1) = k - 1
  BY <1>1, <1>3
<1> QED
  BY <1>3, <1>4, <1>7, <1>8, <1>9

LEMMA FramesPop ==
  ASSUME Nested, NEW n \in 1 .. Len(ast), ast[n].k = "end", NEW bs, NEW cs, NEW fs,
         FramesMatch(n, bs, fs), Extends(bs, cs)
  PROVE  FramesMatch(n + 1, cs, SubSeq(fs, 1, Len(fs) - 1))
<1> DEFINE k == Len(fs)
           t == fs[k].node
           gs == SubSeq(fs, 1, k - 1)
<1>1. /\ k \in Nat \ {0} /\ fs # <<>> /\ Depth(n + 1) = k - 1
      /\ ast[t].lvl = k - 1
      /\ \A m : m \in LiveLoops(n + 1) <=> m \in LiveLoops(n) /\ m # t
  BY FewerLoops
<1>2. IsSeq(gs) /\ Len(gs) = k - 1 /\ \A j \in 1 .. k - 1 : gs[j] = fs[j] /\ j \in 1 .. k
  BY <1>1, FrontSeq, SMTT(40) DEF FramesMatch
<1> HIDE DEF gs
<1>3. n \in Nat /\ \A x \in 1 .. n - 1 : x \in 1 .. (n + 1) - 1
  BY DepthAt
<1>4. \A x \in 1 .. Len(bs) : x \in 1 .. Len(cs)
  BY DEF Extends
<1>5. ASSUME NEW j \in 1 .. k - 1
      PROVE  /\ {"node", "next", "end"} \subseteq DOMAIN gs[j]
             /\ gs[j].node \in 1 .. (n + 1) - 1 /\ ast[gs[j].node].k \in Openers
             /\ ast[gs[j].node].lvl = j - 1
             /\ ast[gs[j].node].k \in Loops => gs[j].node \in LiveLoops(n + 1)
             /\ gs[j].next \in 1 .. Len(cs) /\ gs[j].end \in 1 .. Len(cs)
  <2>1. /\ {"node", "next", "end"} \subseteq DOMAIN fs[j]
        /\ fs[j].node \in 1 .. n - 1 /\ ast[fs[j].node].k \in Openers
        /\ ast[fs[j].node].lvl = j - 1
        /\ ast[fs[j].node].k \in Loops => fs[j].node \in LiveLoops(n)
        /\ fs[j].next \in 1 .. Len(bs) /\ fs[j].end \in 1 .. Len(bs)
    BY <1>2 DEF FramesMatch
  <2>2. fs[j].node # t
    <3>1. j - 1 # k - 1
      BY <1>1
    <3> QED
      BY <1>1, <2>1, <3>1
  <2> QED
    BY <1>1, <1>2, <1>3, <1>4, <2>1, <2>2
<1>6. ASSUME NEW m \in LiveLoops(n + 1)
      PROVE  ast[m].lvl + 1 \in 1 .. k - 1 /\ gs[ast[m].lvl + 1].node = m
  <2>1. m \in LiveLoops(n) /\ m # t
    BY <1>1
  <2>2. ast[m].lvl + 1 \in 1 .. k /\ fs[ast[m].lvl + 1].node = m
    BY <2>1 DEF FramesMatch
  <2>3. ast[m].lvl + 1 # k
    BY <2>1, <2>2
  <2>4. \A x \in 1 .. k : x # k => x \in 1 .. k - 1
    BY <1>1
  <2>5. ast[m].lvl + 1 \in 1 .. k - 1
    BY <2>2, <2>3, <2>4
  <2> QED
    BY <1>2, <2>2, <2>5
<1>7. FramesMatch(n + 1, cs, gs)
  BY <1>1, <1>2, <1>5, <1>6 DEF FramesMatch
<1> QED
  BY <1>7 DEF gs

\* The last of loop_end_blocks is of the innermost loop around.
LEMMA LastEnd ==
  ASSUME NEW n \in Nat, NEW bs, NEW le, EndsMatch(n, bs, le), NEW t \in LiveLoops(n),
         \A m \in LiveLoops(n) : m <= t
  PROVE  /\ Len(le) \in Nat \ {0} /\ le # <<>>
         /\ AfterLoop(bs, le[Len(le)], t)
         /\ \A i \in 1 .. Len(le) : bs[le[i]].node = t => i = Len(le)
<1> DEFINE k == Len(le)
<1>1. k \in Nat
  BY AppendSeq DEF EndsMatch
<1>2. \A m \in LiveLoops(n) : m \in Nat
  BY DEF LiveLoops, Live
<1>3. PICK i \in 1 .. k : bs[le[i]].node = t
  BY DEF EndsMatch
<1>4. k \in 1 .. k /\ k # 0 /\ le # <<>>
  BY <1>1, <1>3
<1>5. \A j \in 1 .. k : bs[le[j]].node \in LiveLoops(n)
  BY DEF EndsMatch
<1>6. ASSUME NEW j \in 1 .. k, bs[le[j]].node = t
      PROVE  j = k
  <2>1. CASE j < k
    <3>1. bs[le[j]].node < bs[le[k]].node
      BY <1>4, <2>1 DEF EndsMatch
    <3>2. bs[le[k]].node <= t /\ bs[le[k]].node \in Nat /\ t \in Nat
      BY <1>2, <1>4, <1>5
    <3> QED
      BY <1>6, <3>1, <3>2
  <2> QED
    BY <1>1, <2>1
<1>7. bs[le[k]].node = t
  BY <1>3, <1>6
<1>8. AfterLoop(bs, le[k], t)
  BY <1>4, <1>7 DEF EndsMatch
<1> QED
  BY <1>1, <1>4, <1>6, <1>8

LEMMA EndsPop ==
  ASSUME NEW n \in Nat, NEW o, NEW bs, NEW cs, NEW le, EndsMatch(n, bs, le), Extends(bs, cs),
         NEW t \in LiveLoops(n), \A m \in LiveLoops(n) : m <= t,
         \A m : m \in LiveLoops(o) <=> m \in LiveLoops(n) /\ m # t
  PROVE  EndsMatch(o, cs, SubSeq(le, 1, Len(le) - 1))
<1> DEFINE k == Len(le)
           me == SubSeq(le, 1, k - 1)
<1>1. /\ k \in Nat \ {0} /\ le # <<>>
      /\ \A i \in 1 .. k : bs[le[i]].node = t => i = k
      /\ bs[le[k]].node = t
  BY LastEnd DEF AfterLoop
<1>2. IsSeq(me) /\ Len(me) = k - 1 /\ \A i \in 1 .. k - 1 : me[i] = le[i]
  BY <1>1, FrontSeq DEF EndsMatch
<1> HIDE DEF me
<1>3. \A i \in 1 .. k - 1 : i \in 1 .. k /\ i # k
  BY <1>1
<1>4. EndsMatch(n, cs, le)
  BY EndsStay
<1>5. \A i \in 1 .. k : cs[le[i]].node = bs[le[i]].node
  <2>1. \A i \in 1 .. k : le[i] \in 1 .. Len(bs)
    BY DEF EndsMatch, AfterLoop
  <2> QED
    BY <2>1 DEF Extends
<1>6. \A i \in 1 .. k - 1 :
        AfterLoop(cs, me[i], cs[me[i]].node) /\ cs[me[i]].node \in LiveLoops(o)
  BY <1>1, <1>2, <1>3, <1>4, <1>5, ZenonT(60) DEF EndsMatch
<1>7. \A i, j \in 1 .. k - 1 : i < j => cs[me[i]].node < cs[me[j]].node
  BY <1>2, <1>3, <1>4 DEF EndsMatch
<1>8. ASSUME NEW m \in LiveLoops(o)
      PROVE  \E i \in 1 .. k - 1 : cs[me[i]].node = m
  <2>1. PICK i \in 1 .. k : cs[le[i]].node = m
    BY <1>4 DEF EndsMatch
  <2>2. i # k
    BY <1>1, <1>5, <2>1
  <2>3. i \in 1 .. k - 1
    BY <1>1, <2>2
  <2> QED
    BY <1>2, <2>1, <2>3
<1>9. EndsMatch(o, cs, me)
  BY <1>2, <1>6, <1>7, <1>8 DEF EndsMatch
<1> QED
  BY <1>9 DEF me

LEMMA FramesWider ==
  ASSUME NEW n, NEW bs, NEW cs, NEW fs, FramesMatch(n, bs, fs), Extends(bs, cs)
  PROVE  FramesMatch(n, cs, fs)
<1>1. \A x \in 1 .. Len(bs) : x \in 1 .. Len(cs)
  BY DEF Extends
<1> QED
  BY <1>1 DEF FramesMatch

-------------------------------------------------------------------------------
(* The invariant of both walks.                                            *)

CgInv ==
  /\ BreakInv
  /\ FinalsEnd(ast)
  /\ phase = "parse" => OpenFinals(ast, nest)
  /\ phase \in {"parse", "typecheck", "rejected"}
       => cgPc = 1 /\ blocks = <<>> /\ frames = <<>> /\ loop_end_blocks = <<>>
  /\ phase \notin {"parse", "typecheck", "rejected"} => tcPc > Len(ast)
  /\ Sound(blocks)
  /\ phase = "codegen" =>
       cgPc \in 1 .. Len(ast) + 1 /\ Walk(cgPc, blocks, cur, frames, loop_end_blocks)

\* What is said of the generated code is read off the tree.
LEMMA SameTree ==
  ASSUME ast' = ast
  PROVE  /\ FinalsEnd(ast)' <=> FinalsEnd(ast)
         /\ \A bs : Sound(bs)' <=> Sound(bs)
         /\ \A n, bs, c, fs, le : Walk(n, bs, c, fs, le)' <=> Walk(n, bs, c, fs, le)
<1>1. \A n : LiveLoops(n)' = LiveLoops(n) /\ EnclosingLoop(n)' = EnclosingLoop(n) /\ Depth(n)' = Depth(n)
  BY DEF LiveLoops, Live, EnclosingLoop, LoopsAround, Around, Depth
<1>2. \A bs, i : BreakGoes(bs, i)' <=> BreakGoes(bs, i)
  BY <1>1 DEF BreakGoes
<1>3. \A bs : Sound(bs)' <=> Sound(bs)
  BY <1>2 DEF Sound
<1>4. \A n, bs, fs : FramesMatch(n, bs, fs)' <=> FramesMatch(n, bs, fs)
  BY <1>1 DEF FramesMatch
<1>5. \A n, bs, le : EndsMatch(n, bs, le)' <=> EndsMatch(n, bs, le)
  BY <1>1 DEF EndsMatch
<1>6. \A n, bs, c, fs, le : Walk(n, bs, c, fs, le)' <=> Walk(n, bs, c, fs, le)
  BY <1>3, <1>4, <1>5 DEF Walk
<1> QED
  BY <1>3, <1>6

\* A step that leaves the front end's variables alone and goes on to the next node.
LEMMA GoOnInv ==
  ASSUME CgInv, phase = "codegen", cgPc \in 1 .. Len(ast), UNCHANGED tcVars,
         cgPc' = cgPc + 1,
         Walk(cgPc + 1, blocks', cur', frames', loop_end_blocks')
  PROVE  CgInv'
<1>1. BreakInv'
  BY BreakStep DEF CgInv
<1>2. phase' = phase /\ ast' = ast /\ tcPc' = tcPc
  BY DEF tcVars
<1>3. FinalsEnd(ast)'
  BY <1>2, SameTree DEF CgInv
<1>4. Walk(cgPc, blocks, cur, frames, loop_end_blocks)'
  BY <1>2, SameTree
<1>5. Sound(blocks)'
  BY <1>4 DEF Walk
<1>6. cgPc' \in 1 .. Len(ast) + 1
  BY NodesTyped DEF CgInv, BreakInv, WalkInv
<1> QED
  BY <1>1, <1>2, <1>3, <1>4, <1>5, <1>6 DEF CgInv

\* A step that ends the walk.
LEMMA LeaveInv ==
  ASSUME CgInv, phase = "codegen", phase' \in Phases \ {"parse", "typecheck", "rejected", "codegen"},
         UNCHANGED <<ast, nest, tcPc, table, attributes>>, Sound(blocks')
  PROVE  CgInv'
<1>1. UNCHANGED <<ast, nest, tcPc, table, loop_target>>
  BY DEF attributes
<1>2. BreakInv'
  <2>1. WalkInv'
    BY <1>1, LeaveStep DEF CgInv, BreakInv
  <2>2. Len(ast) \in Nat /\ tcPc \in Nat
    BY NodesTyped DEF CgInv, BreakInv, WalkInv
  <2>3. Targets'
    BY <1>1, <2>2, TargetsKeep DEF CgInv, BreakInv
  <2> QED
    BY <1>1, <2>1, <2>3 DEF CgInv, BreakInv, Fits
<1>3. FinalsEnd(ast)' /\ Sound(blocks)'
  BY <1>1, SameTree DEF CgInv
<1> QED
  BY <1>1, <1>2, <1>3 DEF CgInv

LEMMA FailInv ==
  ASSUME CgInv, phase = "codegen", NEW ok, Fail(ok)
  PROVE  CgInv'
<1>1. Sound(blocks')
  BY DEF Fail, CgInv, cgVars
<1> QED
  BY <1>1, LeaveInv DEF Fail, Phases

\* Where the walk stands at a node.
LEMMA AtCg ==
  ASSUME CgInv, NEW kinds, CgAt(kinds)
  PROVE  /\ phase = "codegen" /\ Nested /\ FinalsEnd(ast)
         /\ cgPc \in 1 .. Len(ast) /\ Here.k \in kinds /\ Here = ast[cgPc] /\ Here.lvl \in Nat
         /\ Sound(blocks) /\ Len(blocks) \in Nat /\ cur \in 1 .. Len(blocks)
         /\ FramesMatch(cgPc, blocks, frames) /\ EndsMatch(cgPc, blocks, loop_end_blocks)
         /\ Extends(blocks, blocks)
<1>1. /\ phase = "codegen" /\ Nested /\ FinalsEnd(ast) /\ Here.k \in kinds
      /\ Sound(blocks) /\ cur \in 1 .. Len(blocks)
      /\ FramesMatch(cgPc, blocks, frames) /\ EndsMatch(cgPc, blocks, loop_end_blocks)
  BY DEF CgAt, CgInv, BreakInv, WalkInv, Walk
<1>2. cgPc \in 1 .. Len(ast)
  BY NodesTyped DEF CgAt, CgInv, BreakInv, WalkInv
<1>3. Here.lvl \in Nat
  BY <1>1, <1>2, NodesTyped DEF Here
<1>4. Len(blocks) \in Nat
  BY <1>1, AppendSeq DEF Sound
<1>5. Extends(blocks, blocks)
  BY <1>4 DEF Extends
<1> QED
  BY <1>1, <1>2, <1>3, <1>4, <1>5 DEF Here

\* A statement without a block, or a clause, is generated.
LEMMA StatementInv ==
  ASSUME CgInv, NEW kinds, CgAt(kinds), ast[cgPc].k \notin Openers \cup {"end"},
         NEW ok, NEW cs, NEW c, NEW nv, Proceed(ok, cs, c, nv),
         Sound(cs), Extends(blocks, cs), c \in 1 .. Len(cs),
         FramesMatch(cgPc, cs, frames'), loop_end_blocks' = loop_end_blocks
  PROVE  CgInv'
<1>1. /\ phase = "codegen" /\ Nested /\ FinalsEnd(ast) /\ cgPc \in 1 .. Len(ast)
      /\ EndsMatch(cgPc, blocks, loop_end_blocks)
  BY AtCg
<1>2. UNCHANGED tcVars /\ cgPc' = cgPc + 1 /\ blocks' = cs /\ cur' = c
  BY DEF Proceed
<1>3. Depth(cgPc + 1) = Depth(cgPc) /\ LiveLoops(cgPc + 1) = LiveLoops(cgPc)
  BY <1>1, SameLoops
<1>4. Extends(cs, cs) /\ cgPc \in Nat
  BY <1>1, NodesTyped DEF Extends
<1>5. FramesMatch(cgPc + 1, cs, frames')
  BY <1>3, <1>4, FramesStay
<1>6. EndsMatch(cgPc + 1, cs, loop_end_blocks)
  BY <1>1, <1>3, EndsStay
<1> QED
  BY <1>1, <1>2, <1>5, <1>6, GoOnInv DEF Walk

-------------------------------------------------------------------------------
(* The statements.                                                         *)

LEMMA EntryInv ==
  ASSUME CgInv, CgEntry
  PROVE  CgInv'
<1>1. /\ phase = "codegen" /\ blocks = <<>> /\ blocks' = <<NewBlock("entry", TRUE)>> /\ cur' = 1
      /\ UNCHANGED tcVars /\ UNCHANGED <<cgPc, frames, loop_end_blocks>>
  BY DEF CgEntry
<1>2. phase' = phase /\ ast' = ast /\ tcPc' = tcPc
  BY <1>1 DEF tcVars
<1>3. BreakInv'
  BY <1>1, BreakStep DEF CgInv
<1>4. Sound(blocks)
  BY DEF CgInv
<1>5. blocks' = Append(blocks, NewBlock("entry", TRUE))
  BY <1>1
<1>6. Sound(blocks') /\ Extends(blocks, blocks') /\ Len(blocks') = 1
  <2>1. Len(blocks) = 0
    BY <1>1
  <2> DEFINE cs == Append(blocks, NewBlock("entry", TRUE))
  <2>2. Sound(cs) /\ Extends(blocks, cs) /\ Len(cs) = Len(blocks) + 1
    BY <1>4, SoundNew
  <2>3. blocks' = cs
    BY <1>5
  <2> HIDE DEF cs
  <2> QED
    BY <2>1, <2>2, <2>3
<1>7. /\ FramesMatch(cgPc, blocks', frames) /\ EndsMatch(cgPc, blocks', loop_end_blocks)
      /\ cgPc \in 1 .. Len(ast) + 1
  BY <1>1, <1>6, FramesWider, EndsStay DEF CgInv, Walk
<1>8. Walk(cgPc, blocks', cur', frames, loop_end_blocks)
  BY <1>1, <1>6, <1>7 DEF Walk
<1>9. Walk(cgPc, blocks, cur, frames, loop_end_blocks)'
  BY <1>1, <1>2, <1>8, SameTree
<1>10. FinalsEnd(ast)' /\ Sound(blocks)'
  BY <1>2, <1>6, SameTree DEF CgInv
<1> QED
  BY <1>1, <1>2, <1>3, <1>7, <1>9, <1>10 DEF CgInv

\* The statements that emit nothing, or loads, stores and returns.
LEMMA PlainInv ==
  ASSUME CgInv, NEW kinds, CgAt(kinds), ast[cgPc].k \notin Openers \cup {"end"},
         NEW ok, NEW cs, NEW nv, Proceed(ok, cs, cur, nv),
         UNCHANGED <<loop_end_blocks, frames>>,
         cs = blocks \/ \E x : x.op # "br" /\ cs = Emit(blocks, cur, x)
  PROVE  CgInv'
<1>1. /\ Sound(blocks) /\ cur \in 1 .. Len(blocks) /\ Extends(blocks, blocks)
      /\ FramesMatch(cgPc, blocks, frames)
  BY AtCg
<1>2. Sound(cs) /\ Extends(blocks, cs) /\ Len(cs) = Len(blocks)
  <2>1. CASE cs = blocks
    BY <1>1, <2>1
  <2>2. CASE \E x : x.op # "br" /\ cs = Emit(blocks, cur, x)
    <3>1. PICK x : x.op # "br" /\ cs = Emit(blocks, cur, x)
      BY <2>2
    <3> QED
      BY <1>1, <3>1, SoundOther
  <2> QED
    BY <2>1, <2>2
<1>3. FramesMatch(cgPc, cs, frames)
  BY <1>1, <1>2, FramesWider
<1>4. cur \in 1 .. Len(cs)
  BY <1>1, <1>2
<1>5. FramesMatch(cgPc, cs, frames') /\ loop_end_blocks' = loop_end_blocks
  BY <1>3
<1> QED
  BY <1>2, <1>4, <1>5, StatementInv

LEMMA NoBranch ==
  /\ \A n, role, id, rd : Effect(n, role, id, rd).op # "br"
  /\ \A n, a : Ret(n, a).op # "br"
  /\ \A n, a, b, c : CondBr(n, a, b, c).op # "br"
BY DEF Effect, Ret, CondBr, Instruction

LEMMA DeclarationsInv ==
  ASSUME CgInv, CgParam \/ CgDeclaration \/ CgVarInit \/ CgAssignment
  PROVE  CgInv'
<1> USE DEF Openers, Loops
<1>1. CASE CgParam
  <2>1. CgAt({"param"})
    BY <1>1 DEF CgParam
  <2>2. ast[cgPc].k \notin Openers \cup {"end"}
    BY <2>1, AtCg
  <2> QED
    BY <1>1, <2>1, <2>2, NoBranch, PlainInv DEF CgParam
<1>2. CASE CgDeclaration
  <2>1. CgAt({"decl"})
    BY <1>2 DEF CgDeclaration
  <2>2. ast[cgPc].k \notin Openers \cup {"end"}
    BY <2>1, AtCg
  <2> QED
    BY <1>2, <2>1, <2>2, PlainInv DEF CgDeclaration
<1>3. CASE CgVarInit
  <2>1. CgAt({"init"})
    BY <1>3 DEF CgVarInit
  <2>2. ast[cgPc].k \notin Openers \cup {"end"}
    BY <2>1, AtCg
  <2>3. CASE \E ok : Fail(ok)
    BY <2>1, <2>3, FailInv DEF CgAt
  <2>4. CASE \E ok, nv, v : /\ Proceed(ok, Initialised(blocks, nv, v), cur, nv)
                            /\ UNCHANGED <<loop_end_blocks, frames>>
    BY <2>1, <2>2, <2>4, NoBranch, PlainInv DEF Initialised
  <2> QED
    BY <1>3, <2>3, <2>4 DEF CgVarInit
<1>4. CASE CgAssignment
  <2>1. CgAt({"asst"})
    BY <1>4 DEF CgAssignment
  <2>2. ast[cgPc].k \notin Openers \cup {"end"}
    BY <2>1, AtCg
  <2>3. CASE \E ok : Fail(ok)
    BY <2>1, <2>3, FailInv DEF CgAt
  <2>4. CASE \E ok, nv, v : /\ Proceed(ok, Assigned(nv, v), cur, nv)
                            /\ UNCHANGED <<loop_end_blocks, frames>>
    BY <2>1, <2>2, <2>4, NoBranch, PlainInv DEF Assigned
  <2> QED
    BY <1>4, <2>3, <2>4 DEF CgAssignment
<1> QED
  BY <1>1, <1>2, <1>3, <1>4

LEMMA ExpressionsInv ==
  ASSUME CgInv, CgExpression \/ CgReturn
  PROVE  CgInv'
<1> USE DEF Openers, Loops
<1>1. CASE CgExpression
  <2>1. CgAt({"expr", "print", "delete"})
    BY <1>1 DEF CgExpression
  <2>2. ast[cgPc].k \notin Openers \cup {"end"}
    BY <2>1, AtCg
  <2>3. CASE \E ok : Fail(ok)
    BY <2>1, <2>3, FailInv DEF CgAt
  <2>4. CASE \E ok, a : /\ Proceed(ok, Emit(blocks, cur, Effect(cgPc, "do", None, a)),
                                   cur, named_values)
                        /\ UNCHANGED <<loop_end_blocks, frames>>
    BY <2>1, <2>2, <2>4, NoBranch, PlainInv
  <2> QED
    BY <1>1, <2>3, <2>4 DEF CgExpression
<1>2. CASE CgReturn
  <2>1. CgAt({"return"})
    BY <1>2 DEF CgReturn
  <2>2. ast[cgPc].k \notin Openers \cup {"end"}
    BY <2>1, AtCg
  <2>3. CASE \E ok : Fail(ok)
    BY <2>1, <2>3, FailInv DEF CgAt
  <2>4. CASE \E ok, a : /\ Proceed(ok, Emit(blocks, cur, Ret(cgPc, a)), cur, named_values)
                        /\ UNCHANGED <<loop_end_blocks, frames>>
    BY <2>1, <2>2, <2>4, NoBranch, PlainInv
  <2> QED
    BY <1>2, <2>3, <2>4 DEF CgReturn
<1> QED
  BY <1>1, <1>2

\* A break: the last of loop_end_blocks is of the loop BreakNode's walk found.
LEMMA BreakGoesThere ==
  ASSUME CgInv, CgAt({"break"}), loop_end_blocks # <<>>
  PROVE  BreakGoes(blocks, Br(cgPc, BreakBlock(loop_end_blocks)))
<1> DEFINE le == loop_end_blocks
           t == EnclosingLoop(cgPc)
<1>1. /\ Nested /\ cgPc \in 1 .. Len(ast) /\ ast[cgPc].k = "break"
      /\ EndsMatch(cgPc, blocks, le)
  BY AtCg
<1>2. LoopsAround(cgPc) = LiveLoops(cgPc)
  BY <1>1, LoopsAroundBreak
<1>3. LiveLoops(cgPc) # {}
  <2>1. Len(le) \in Nat /\ IsSeq(le)
    BY <1>1, AppendSeq DEF EndsMatch
  <2>2. 1 \in 1 .. Len(le)
    BY <2>1, FrontSeq
  <2> QED
    BY <1>1, <2>2 DEF EndsMatch
<1>4. cgPc \in Nat /\ LiveLoops(cgPc) \subseteq 1 .. cgPc - 1 /\ cgPc - 1 \in Nat
  BY <1>1, NodesTyped DEF LiveLoops, Live
<1>5. t \in LiveLoops(cgPc) /\ \A m \in LiveLoops(cgPc) : m <= t
  BY <1>2, <1>3, <1>4, MaxIsGreatest DEF EnclosingLoop
<1> HIDE DEF t
<1>6. AfterLoop(blocks, le[Len(le)], t)
  BY <1>1, <1>4, <1>5, LastEnd
<1>7. Br(cgPc, BreakBlock(le)).to[1] = le[Len(le)] /\ Br(cgPc, BreakBlock(le)).n = cgPc
  BY DEF Br, Instruction, BreakBlock
<1> QED
  BY <1>1, <1>6, <1>7 DEF BreakGoes, t

LEMMA BreaksInv ==
  ASSUME CgInv, CgBreak
  PROVE  CgInv'
<1>1. CgAt({"break"})
  BY DEF CgBreak
<1>2. /\ ast[cgPc].k \notin Openers \cup {"end"} /\ phase = "codegen"
      /\ Sound(blocks) /\ cur \in 1 .. Len(blocks)
      /\ FramesMatch(cgPc, blocks, frames)
  BY <1>1, AtCg DEF Openers, Loops
<1>3. CASE Fail(loop_end_blocks # <<>>)
  BY <1>2, <1>3, FailInv
<1> DEFINE cs == Emit(blocks, cur, Br(cgPc, BreakBlock(loop_end_blocks)))
<1>4. CASE /\ Proceed(loop_end_blocks # <<>>, cs, cur, named_values)
           /\ UNCHANGED <<loop_end_blocks, frames>>
  <2>1. BreakGoes(blocks, Br(cgPc, BreakBlock(loop_end_blocks)))
    BY <1>1, <1>4, BreakGoesThere DEF Proceed
  <2>2. Sound(cs) /\ Extends(blocks, cs) /\ Len(cs) = Len(blocks)
    BY <1>2, <2>1, SoundEmit
  <2>3. FramesMatch(cgPc, cs, frames) /\ cur \in 1 .. Len(cs)
    BY <1>2, <2>2, FramesWider
  <2> HIDE DEF cs
  <2>4. FramesMatch(cgPc, cs, frames') /\ loop_end_blocks' = loop_end_blocks
    BY <1>4, <2>3
  <2> QED
    BY <1>1, <1>2, <1>4, <2>2, <2>3, <2>4, StatementInv
<1> QED
  BY <1>3, <1>4 DEF CgBreak

-------------------------------------------------------------------------------
(* The statements with blocks.                                             *)

\* A clause with a condition makes its then block and, if another clause
\* follows, the block that its condition falls through to.
LEMMA SoundClause ==
  ASSUME NEW bs, Sound(bs), NEW b \in 1 .. Len(bs), NEW merge \in 1 .. Len(bs), NEW nv
  PROVE  LET cs == ClauseBlocks(bs, b, merge, nv)
         IN  /\ Sound(cs) /\ Extends(bs, cs)
             /\ ThenBlock(bs) \in 1 .. Len(cs) /\ NextBlock(bs, merge) \in 1 .. Len(cs)
<1> DEFINE then == NewBlock("then", TRUE)
           next == NewBlock("elif_fallthrough", FALSE)
           more == IF IsLastClause(cgPc) THEN <<>> ELSE <<next>>
           x == CondBr(cgPc, Address(nv, Here.cd), ThenBlock(bs), NextBlock(bs, merge))
           ds == bs \o <<then>> \o more
           ps == Append(bs, then)
           qs == Append(ps, next)
<1>1. Len(bs) \in Nat /\ Sound(ps) /\ Extends(bs, ps) /\ Len(ps) = Len(bs) + 1
  BY SoundNew
<1>2. Sound(qs) /\ Extends(ps, qs) /\ Len(qs) = Len(ps) + 1
  BY <1>1, SoundNew
<1>3. bs \o <<then>> = ps /\ ps \o <<next>> = qs
  <2> HIDE DEF then, next
  <2>1. bs \o <<then>> = ps
    BY ConcatIs DEF Sound
  <2> HIDE DEF ps
  <2>2. ps \o <<next>> = qs
    BY <1>1, ConcatIs DEF Sound
  <2> QED
    BY <2>1, <2>2
<1>4. ps \o <<>> = ps
  BY <1>1, ConcatEmptySeq DEF Sound, IsSeq
<1>5. ds = IF IsLastClause(cgPc) THEN ps ELSE qs
  BY <1>3, <1>4
<1>6. /\ Sound(ds) /\ Extends(bs, ds)
      /\ Len(ds) = IF IsLastClause(cgPc) THEN Len(bs) + 1 ELSE Len(bs) + 2
  <2> HIDE DEF ds, ps, qs
  <2>1. Extends(bs, qs)
    BY <1>1, <1>2, ExtendsAll
  <2> QED
    BY <1>1, <1>2, <1>5, <2>1
<1>7. ClauseBlocks(bs, b, merge, nv) = Emit(ds, b, x)
  BY DEF ClauseBlocks
<1> HIDE DEF ds, x
<1>8. x.op # "br"
  BY NoBranch DEF x
<1>9. b \in 1 .. Len(ds) /\ merge \in 1 .. Len(ds) /\ Len(bs) + 1 \in 1 .. Len(ds)
      /\ (~IsLastClause(cgPc) => Len(bs) + 2 \in 1 .. Len(ds))
  BY <1>1, <1>6
<1>10. /\ Sound(Emit(ds, b, x)) /\ Extends(ds, Emit(ds, b, x))
       /\ Len(Emit(ds, b, x)) = Len(ds)
  BY <1>6, <1>8, <1>9, SoundOther
<1>11. Extends(bs, Emit(ds, b, x))
  BY <1>6, <1>10, ExtendsAll
<1>12. ThenBlock(bs) \in 1 .. Len(ds) /\ NextBlock(bs, merge) \in 1 .. Len(ds)
  BY <1>9 DEF ThenBlock, NextBlock
<1> QED
  BY <1>7, <1>10, <1>11, <1>12

\* A statement with a block is entered: a frame, and for a loop its end too.
LEMMA OpenInv ==
  ASSUME CgInv, NEW kinds, CgAt(kinds), ast[cgPc].k \in Openers,
         NEW ok, NEW cs, NEW c, NEW nv, Proceed(ok, cs, c, nv),
         Sound(cs), Extends(blocks, cs), c \in 1 .. Len(cs),
         NEW f, frames' = Append(frames, f),
         {"node", "next", "end"} \subseteq DOMAIN f, f.node = cgPc,
         f.next \in 1 .. Len(cs), f.end \in 1 .. Len(cs),
         IF ast[cgPc].k \in Loops
         THEN \E e : AfterLoop(cs, e, cgPc) /\ loop_end_blocks' = Append(loop_end_blocks, e)
         ELSE loop_end_blocks' = loop_end_blocks
  PROVE  CgInv'
<1>1. /\ phase = "codegen" /\ Nested /\ cgPc \in 1 .. Len(ast)
      /\ FramesMatch(cgPc, blocks, frames) /\ EndsMatch(cgPc, blocks, loop_end_blocks)
  BY AtCg
<1>2. UNCHANGED tcVars /\ cgPc' = cgPc + 1 /\ blocks' = cs /\ cur' = c
  BY DEF Proceed
<1>3. FramesMatch(cgPc + 1, cs, frames')
  BY <1>1, FramesPush
<1>4. EndsMatch(cgPc + 1, cs, loop_end_blocks')
  <2>1. CASE ast[cgPc].k \in Loops
    <3>1. PICK e : AfterLoop(cs, e, cgPc) /\ loop_end_blocks' = Append(loop_end_blocks, e)
      BY <2>1
    <3> QED
      BY <1>1, <2>1, <3>1, EndsPush
  <2>2. CASE ast[cgPc].k \notin Loops
    <3>1. LiveLoops(cgPc + 1) = LiveLoops(cgPc)
      BY <1>1, <2>2, MoreLoops
    <3> QED
      BY <1>1, <2>2, <3>1, EndsStay
  <2> QED
    BY <2>1, <2>2
<1> QED
  BY <1>1, <1>2, <1>3, <1>4, GoOnInv DEF Walk

LEMMA FrameFields ==
  ASSUME NEW saved, NEW outer, NEW cond, NEW next, NEW end
  PROVE  LET f == Frame(saved, outer, cond, next, end)
         IN  /\ {"node", "next", "end"} \subseteq DOMAIN f
             /\ f.node = cgPc /\ f.next = next /\ f.end = end /\ f.cond = cond
BY DEF Frame

LEMMA IfInv ==
  ASSUME CgInv, CgIf
  PROVE  CgInv'
<1> DEFINE merge == Len(blocks) + 1
           bs == Append(blocks, NewBlock("if_merge", FALSE))
           cs == ClauseBlocks(bs, cur, merge, named_values)
           f == Frame(named_values, NoNames, 0, NextBlock(bs, merge), merge)
           ok == Loads(named_values, Here.cd)
<1>1. CgAt({"if"})
  BY DEF CgIf
<1>2. /\ phase = "codegen" /\ ast[cgPc].k = "if" /\ Sound(blocks) /\ Len(blocks) \in Nat
      /\ cur \in 1 .. Len(blocks)
  BY <1>1, AtCg
<1>3. CASE Fail(ok)
  BY <1>2, <1>3, FailInv
<1>4. CASE /\ Proceed(ok, cs, ThenBlock(bs), named_values)
           /\ frames' = Append(frames, f)
           /\ UNCHANGED loop_end_blocks
  <2>1. Sound(bs) /\ Extends(blocks, bs) /\ Len(bs) = Len(blocks) + 1
    BY <1>2, SoundNew
  <2>2. cur \in 1 .. Len(bs) /\ merge \in 1 .. Len(bs)
    <3> HIDE DEF bs
    <3> QED
      BY <1>2, <2>1
  <2> HIDE DEF bs, merge
  <2>3. /\ Sound(cs) /\ Extends(bs, cs)
        /\ ThenBlock(bs) \in 1 .. Len(cs) /\ NextBlock(bs, merge) \in 1 .. Len(cs)
    BY <2>1, <2>2, SoundClause
  <2>4. merge \in 1 .. Len(cs)
    BY <2>2, <2>3 DEF Extends
  <2>5. /\ {"node", "next", "end"} \subseteq DOMAIN f
        /\ f.node = cgPc /\ f.next = NextBlock(bs, merge) /\ f.end = merge
    BY FrameFields
  <2> HIDE DEF cs, f, ok
  <2>6. Extends(blocks, cs)
    BY <2>1, <2>3, ExtendsAll
  <2>7. ast[cgPc].k \in Openers /\ ast[cgPc].k \notin Loops
    BY <1>2 DEF Openers, Loops
  <2> QED
    BY <1>1, <1>4, <2>3, <2>4, <2>5, <2>6, <2>7, OpenInv
<1> QED
  BY <1>3, <1>4 DEF CgIf

\* cs is bs with n blocks made at this node after it, the last of them so named.
MoreBlocks(bs, cs, n, name) ==
  /\ Sound(cs) /\ Extends(bs, cs) /\ Len(cs) = Len(bs) + n /\ Len(bs) \in Nat
  /\ cs[Len(cs)].node = cgPc /\ cs[Len(cs)].name = name

LEMMA OneMore ==
  ASSUME NEW bs, Sound(bs), NEW name
  PROVE  MoreBlocks(bs, Append(bs, NewBlock(name, TRUE)), 1, name)
<1> DEFINE cs == Append(bs, NewBlock(name, TRUE))
<1>1. /\ Sound(cs) /\ Extends(bs, cs) /\ Len(cs) = Len(bs) + 1 /\ Len(bs) \in Nat
      /\ cs[Len(cs)].node = cgPc /\ cs[Len(cs)].name = name
  BY SoundNew
<1> HIDE DEF cs
<1>2. MoreBlocks(bs, cs, 1, name)
  BY <1>1 DEF MoreBlocks
<1> QED
  BY <1>2 DEF cs

LEMMA MoreAndMore ==
  ASSUME NEW bs, NEW cs, NEW ds, NEW n \in Nat, NEW a, NEW b,
         MoreBlocks(bs, cs, n, a), MoreBlocks(cs, ds, 1, b)
  PROVE  MoreBlocks(bs, ds, n + 1, b)
<1>1. Extends(bs, ds)
  BY ExtendsAll DEF MoreBlocks
<1> QED
  BY <1>1 DEF MoreBlocks

\* The blocks of a loop, made together; what follows the loop goes to the last.
LEMMA LoopBlocks ==
  ASSUME NEW bs, Sound(bs), NEW a, NEW b, NEW c, NEW d
  PROVE  /\ MoreBlocks(bs, bs \o <<NewBlock(a, TRUE), NewBlock(b, TRUE), NewBlock(c, TRUE)>>, 3, c)
         /\ MoreBlocks(bs, bs \o <<NewBlock(a, TRUE), NewBlock(b, TRUE), NewBlock(c, TRUE),
                                   NewBlock(d, TRUE)>>, 4, d)
<1> DEFINE x == NewBlock(a, TRUE)
           y == NewBlock(b, TRUE)
           z == NewBlock(c, TRUE)
           w == NewBlock(d, TRUE)
           p1 == Append(bs, x)
           p2 == Append(p1, y)
           p3 == Append(p2, z)
           p4 == Append(p3, w)
<1>1. MoreBlocks(bs, p1, 1, a)
  BY OneMore
<1>2. bs \o <<x, y, z>> = p3 /\ bs \o <<x, y, z, w>> = p4
  <2> HIDE DEF x, y, z, w
  <2> QED
    BY ConcatIs, SMTT(40) DEF Sound
<1> HIDE DEF p1
<1>3. MoreBlocks(p1, p2, 1, b)
  BY <1>1, OneMore DEF MoreBlocks
<1> HIDE DEF p2
<1>4. MoreBlocks(p2, p3, 1, c)
  BY <1>3, OneMore DEF MoreBlocks
<1> HIDE DEF p3
<1>5. MoreBlocks(p3, p4, 1, d)
  BY <1>4, OneMore DEF MoreBlocks
<1> HIDE DEF p4
<1>6. MoreBlocks(bs, p2, 2, b)
  BY <1>1, <1>3, MoreAndMore
<1>7. MoreBlocks(bs, p3, 3, c)
  BY <1>4, <1>6, MoreAndMore
<1>8. MoreBlocks(bs, p4, 4, d)
  BY <1>5, <1>7, MoreAndMore
<1> QED
  BY <1>2, <1>7, <1>8

\* The branch into a loop's condition, and the one it ends with.
LEMMA LoopBranches ==
  ASSUME NEW ps, Sound(ps), NEW c \in 1 .. Len(ps), NEW cond \in 1 .. Len(ps),
         ast[cgPc].k # "break", NEW x, x.op # "br"
  PROVE  LET cs == Emit(Emit(ps, c, Br(cgPc, cond)), cond, x)
         IN  Sound(cs) /\ Extends(ps, cs) /\ Len(cs) = Len(ps)
<1> DEFINE bs == Emit(ps, c, Br(cgPc, cond))
           cs == Emit(bs, cond, x)
<1>1. Sound(bs) /\ Extends(ps, bs) /\ Len(bs) = Len(ps)
  BY SoundBranch
<1> HIDE DEF bs
<1>2. Sound(cs) /\ Extends(bs, cs) /\ Len(cs) = Len(bs)
  BY <1>1, SoundOther
<1> HIDE DEF cs
<1>3. Extends(ps, cs)
  BY <1>1, <1>2, ExtendsAll
<1>4. Sound(cs) /\ Extends(ps, cs) /\ Len(cs) = Len(ps)
  BY <1>1, <1>2, <1>3
<1> QED
  BY <1>4 DEF cs, bs

LEMMA WhileInv ==
  ASSUME CgInv, CgWhile
  PROVE  CgInv'
<1> DEFINE k == Len(blocks)
           ps == blocks \o <<NewBlock("while_cond", TRUE), NewBlock("while_body", TRUE),
                             NewBlock("while_after", TRUE)>>
           x == CondBr(cgPc, Address(named_values, Here.cd), k + 2, k + 3)
           cs == Emit(Emit(ps, cur, Br(cgPc, k + 1)), k + 1, x)
           f == Frame(named_values, NoNames, k + 1, k + 1, k + 3)
           ok == Loads(named_values, Here.cd)
<1>1. CgAt({"while"})
  BY DEF CgWhile
<1>2. /\ phase = "codegen" /\ ast[cgPc].k = "while" /\ Sound(blocks) /\ k \in Nat
      /\ cur \in 1 .. k
  BY <1>1, AtCg
<1>3. CASE Fail(ok)
  BY <1>2, <1>3, FailInv
<1>4. ASSUME /\ Proceed(ok, cs, k + 2, named_values)
             /\ frames' = Append(frames, f)
             /\ loop_end_blocks' = Append(loop_end_blocks, k + 3)
      PROVE  CgInv'
  <2>1. /\ Sound(ps) /\ Extends(blocks, ps) /\ Len(ps) = k + 3
        /\ ps[k + 3].node = cgPc /\ ps[k + 3].name = "while_after"
    <3>1. MoreBlocks(blocks, ps, 3, "while_after")
      BY <1>2, LoopBlocks
    <3> HIDE DEF ps
    <3> QED
      BY <3>1 DEF MoreBlocks
  <2> HIDE DEF ps
  <2>2. k + 1 \in 1 .. k + 3 /\ k + 2 \in 1 .. k + 3 /\ k + 3 \in 1 .. k + 3 /\ cur \in 1 .. k + 3
    BY <1>2
  <2>3. x.op # "br"
    BY NoBranch
  <2>4. AfterLoop(ps, k + 3, cgPc)
    BY <2>1, <2>2 DEF AfterLoop
  <2>5. cur \in 1 .. Len(ps) /\ k + 1 \in 1 .. Len(ps) /\ ast[cgPc].k # "break"
    BY <1>2, <2>1, <2>2
  <2> HIDE DEF x
  <2>6. Sound(cs) /\ Extends(ps, cs) /\ Len(cs) = k + 3
    BY <2>1, <2>3, <2>5, LoopBranches, SMTT(40)
  <2>7. /\ {"node", "next", "end"} \subseteq DOMAIN f
        /\ f.node = cgPc /\ f.next = k + 1 /\ f.end = k + 3
    BY FrameFields
  <2> HIDE DEF f, ok, cs
  <2>8. Extends(blocks, cs) /\ AfterLoop(cs, k + 3, cgPc)
    BY <2>1, <2>4, <2>6, ExtendsAll, AfterLoopStays
  <2>9. ast[cgPc].k \in Openers /\ ast[cgPc].k \in Loops
    BY <1>2 DEF Openers, Loops
  <2>10. k + 2 \in 1 .. Len(cs) /\ f.next \in 1 .. Len(cs) /\ f.end \in 1 .. Len(cs)
    BY <2>2, <2>6, <2>7
  <2> QED
    BY <1>1, <1>4, <2>6, <2>7, <2>8, <2>9, <2>10, OpenInv
<1> QED
  BY <1>3, <1>4 DEF CgWhile

\* The prologue has left bs; the loop's blocks come after it.
LEMMA EnterForInv ==
  ASSUME CgInv, NEW kinds, CgAt(kinds), ast[cgPc].k \in Loops, NEW ok, NEW bs, NEW nv,
         EnterFor(ok, bs, nv), Sound(bs), Extends(blocks, bs), Len(bs) = Len(blocks)
  PROVE  CgInv'
<1> DEFINE k == Len(bs)
           ps == bs \o <<NewBlock("for_cond", TRUE), NewBlock("for_body", TRUE),
                         NewBlock("for_inc", TRUE), NewBlock("for_after", TRUE)>>
           x == CondBr(cgPc, Address(nv, Here.cd), (k + 1) + 1, (k + 1) + 3)
           cs == Emit(Emit(ps, cur, Br(cgPc, k + 1)), k + 1, x)
           f == Frame(nv, named_values, k + 1, (k + 1) + 2, (k + 1) + 3)
<1>1. k \in Nat /\ cur \in 1 .. k
  BY AtCg
<1>2. /\ Proceed(ok, cs, (k + 1) + 1, nv)
      /\ frames' = Append(frames, f)
      /\ loop_end_blocks' = Append(loop_end_blocks, (k + 1) + 3)
  BY DEF EnterFor, ForBlocks
<1>3. /\ (k + 1) + 1 \in 1 .. k + 4 /\ (k + 1) + 2 \in 1 .. k + 4 /\ (k + 1) + 3 \in 1 .. k + 4
      /\ (k + 1) + 3 = k + 4 /\ k + 1 \in 1 .. k + 4 /\ cur \in 1 .. k + 4
  BY <1>1
<1>4. /\ Sound(ps) /\ Extends(bs, ps) /\ Len(ps) = k + 4
      /\ ps[k + 4].node = cgPc /\ ps[k + 4].name = "for_after"
  <2>1. MoreBlocks(bs, ps, 4, "for_after")
    BY LoopBlocks
  <2> HIDE DEF ps
  <2> QED
    BY <2>1 DEF MoreBlocks
<1> HIDE DEF ps
<1>5. AfterLoop(ps, (k + 1) + 3, cgPc)
  BY <1>3, <1>4 DEF AfterLoop
<1>6. x.op # "br" /\ ast[cgPc].k # "break"
  BY NoBranch DEF Loops
<1> HIDE DEF x
<1>7. cur \in 1 .. Len(ps) /\ k + 1 \in 1 .. Len(ps)
  BY <1>3, <1>4
<1>8. Sound(cs) /\ Extends(ps, cs) /\ Len(cs) = k + 4
  BY <1>4, <1>6, <1>7, LoopBranches
<1>9. /\ {"node", "next", "end"} \subseteq DOMAIN f
      /\ f.node = cgPc /\ f.next = (k + 1) + 2 /\ f.end = (k + 1) + 3
  BY FrameFields
<1> HIDE DEF f, cs
<1>10. AfterLoop(cs, (k + 1) + 3, cgPc)
  BY <1>5, <1>8, AfterLoopStays
<1>11. Extends(blocks, cs)
  <2>1. Extends(blocks, ps)
    BY <1>4, ExtendsAll
  <2> QED
    BY <1>8, <2>1, ExtendsAll
<1>12. (k + 1) + 1 \in 1 .. Len(cs) /\ f.next \in 1 .. Len(cs) /\ f.end \in 1 .. Len(cs)
  BY <1>3, <1>8, <1>9
<1>13. ast[cgPc].k \in Openers
  BY DEF Openers
<1> QED
  BY <1>2, <1>8, <1>9, <1>10, <1>11, <1>12, <1>13, OpenInv

LEMMA ForInv ==
  ASSUME CgInv, CgForDeclaration \/ CgForAssignment
  PROVE  CgInv'
<1>1. \E kinds : CgAt(kinds) /\ kinds \subseteq Loops
  BY DEF CgForDeclaration, CgForAssignment, Loops
<1>2. PICK kinds : CgAt(kinds) /\ kinds \subseteq Loops
  BY <1>1
<1>3. /\ phase = "codegen" /\ ast[cgPc].k \in Loops /\ Sound(blocks) /\ cur \in 1 .. Len(blocks)
      /\ Extends(blocks, blocks)
  BY <1>2, AtCg
<1>4. CASE \E ok : Fail(ok)
  BY <1>3, <1>4, FailInv
<1>5. \A nv, v : /\ Sound(Initialised(blocks, nv, v)) /\ Extends(blocks, Initialised(blocks, nv, v))
                 /\ Len(Initialised(blocks, nv, v)) = Len(blocks)
                 /\ Sound(Assigned(nv, v)) /\ Extends(blocks, Assigned(nv, v))
                 /\ Len(Assigned(nv, v)) = Len(blocks)
  BY <1>3, NoBranch, SoundOther DEF Initialised, Assigned
<1>6. CASE \E ok, nv, v : \/ EnterFor(ok, Initialised(blocks, nv, v), nv)
                          \/ EnterFor(ok, Assigned(nv, v), nv)
  BY <1>2, <1>3, <1>5, <1>6, EnterForInv
<1> QED
  BY <1>4, <1>6 DEF CgForDeclaration, CgForAssignment

\* Where a clause or an end marker finds the frame of its statement.
LEMMA TopFrame ==
  ASSUME CgInv, NEW kinds, CgAt(kinds), ast[cgPc].k \in Markers
  PROVE  /\ frames # <<>> /\ Len(frames) \in 1 .. Len(frames)
         /\ Top.next \in 1 .. Len(blocks) /\ Top.end \in 1 .. Len(blocks)
         /\ ast[Top.node].k \in Openers /\ ast[Top.node].k # "break"
<1>1. /\ Nested /\ cgPc \in 1 .. Len(ast) /\ ast[cgPc].lvl \in Nat
      /\ FramesMatch(cgPc, blocks, frames)
  BY AtCg DEF Here
<1>2. Depth(cgPc) = ast[cgPc].lvl + 1
  BY <1>1, DepthAt DEF Before
<1>3. Len(frames) = ast[cgPc].lvl + 1
  BY <1>1, <1>2 DEF FramesMatch
<1>4. frames # <<>> /\ Len(frames) \in 1 .. Len(frames)
  BY <1>1, <1>3
<1> QED
  BY <1>1, <1>4 DEF FramesMatch, Top, Openers, Loops

LEMMA ClausesInv ==
  ASSUME CgInv, CgElif \/ CgElse
  PROVE  CgInv'
<1> DEFINE bs == ClauseEnded
           merge == Top.end
           nv == Restored
           cs == ClauseBlocks(bs, Top.next, merge, nv)
           ok == Loads(nv, Here.cd)
<1>1. CgAt({"elif", "else"})
  BY DEF CgElif, CgElse, CgAt
<1>2. /\ phase = "codegen" /\ ast[cgPc].k \in {"elif", "else"}
      /\ Sound(blocks) /\ cur \in 1 .. Len(blocks)
      /\ FramesMatch(cgPc, blocks, frames)
  BY <1>1, AtCg
<1>3. ast[cgPc].k \in Markers /\ ast[cgPc].k \notin Openers \cup {"end"}
  BY <1>2 DEF Markers, Clauses, Openers, Loops
<1>4. /\ frames # <<>> /\ Top.next \in 1 .. Len(blocks) /\ merge \in 1 .. Len(blocks)
      /\ ast[Top.node].k # "break"
  BY <1>1, <1>3, TopFrame
<1>5. Sound(bs) /\ Extends(blocks, bs) /\ Len(bs) = Len(blocks)
  <2> DEFINE ds == BrIfOpen(blocks, cur, Top.node, Top.end)
  <2>1. Sound(ds) /\ Extends(blocks, ds) /\ Len(ds) = Len(blocks)
    BY <1>2, <1>4, SoundBranch
  <2>2. bs = Place(ds, Top.next)
    BY DEF ClauseEnded
  <2> HIDE DEF ds, bs
  <2>3. Sound(Place(ds, Top.next)) /\ Extends(ds, Place(ds, Top.next))
        /\ Len(Place(ds, Top.next)) = Len(ds)
    BY <1>4, <2>1, SoundPlace
  <2> QED
    BY <2>1, <2>2, <2>3, ExtendsAll
<1> HIDE DEF bs
<1>6. Top.next \in 1 .. Len(bs) /\ merge \in 1 .. Len(bs)
  BY <1>4, <1>5
<1>7. CASE Fail(ok)
  BY <1>2, <1>7, FailInv
<1>8. CASE /\ Proceed(TRUE, bs, Top.next, nv)
           /\ UNCHANGED <<loop_end_blocks, frames>>
  <2>1. FramesMatch(cgPc, bs, frames)
    BY <1>2, <1>5, FramesWider
  <2>2. FramesMatch(cgPc, bs, frames') /\ loop_end_blocks' = loop_end_blocks
    BY <1>8, <2>1
  <2> QED
    BY <1>1, <1>3, <1>5, <1>6, <1>8, <2>2, StatementInv
<1>9. CASE /\ Proceed(ok, cs, ThenBlock(bs), nv)
           /\ frames' = [frames EXCEPT ![Len(frames)].next = NextBlock(bs, merge)]
           /\ UNCHANGED loop_end_blocks
  <2>1. /\ Sound(cs) /\ Extends(bs, cs)
        /\ ThenBlock(bs) \in 1 .. Len(cs) /\ NextBlock(bs, merge) \in 1 .. Len(cs)
    BY <1>5, <1>6, SoundClause
  <2> HIDE DEF cs, ok
  <2>2. Extends(blocks, cs)
    BY <1>5, <2>1, ExtendsAll
  <2>3. FramesMatch(cgPc, cs, frames)
    BY <1>2, <2>2, FramesWider
  <2>4. FramesMatch(cgPc, cs, frames')
    BY <1>4, <1>9, <2>1, <2>3, FrameFallsThrough
  <2>5. loop_end_blocks' = loop_end_blocks
    BY <1>9
  <2> QED
    BY <1>1, <1>3, <1>9, <2>1, <2>2, <2>4, <2>5, StatementInv
<1>10. CgElif => \/ Fail(ok)
                 \/ /\ Proceed(ok, cs, ThenBlock(bs), nv)
                    /\ frames' = [frames EXCEPT ![Len(frames)].next = NextBlock(bs, merge)]
                    /\ UNCHANGED loop_end_blocks
  BY DEF CgElif, bs
<1>11. CgElse => /\ Proceed(TRUE, bs, Top.next, nv)
                 /\ UNCHANGED <<loop_end_blocks, frames>>
  BY DEF CgElse, bs
<1> QED
  BY <1>7, <1>8, <1>9, <1>10, <1>11

\* A block is left: its frame goes, and for a loop its end.
LEMMA CloseInv ==
  ASSUME CgInv, NEW kinds, CgAt(kinds), ast[cgPc].k = "end",
         NEW ok, NEW cs, NEW nv, Proceed(ok, cs, Top.end, nv),
         Sound(cs), Extends(blocks, cs), PopFrame,
         IF ast[Top.node].k \in Loops THEN PopLoop ELSE loop_end_blocks' = loop_end_blocks
  PROVE  CgInv'
<1> DEFINE t == frames[Len(frames)].node
<1>1. /\ phase = "codegen" /\ Nested /\ cgPc \in 1 .. Len(ast) /\ cgPc \in Nat
      /\ FramesMatch(cgPc, blocks, frames) /\ EndsMatch(cgPc, blocks, loop_end_blocks)
  BY AtCg, NodesTyped
<1>2. UNCHANGED tcVars /\ cgPc' = cgPc + 1 /\ blocks' = cs /\ cur' = Top.end
  BY DEF Proceed
<1>3. Top.end \in 1 .. Len(cs)
  <2>1. Top.end \in 1 .. Len(blocks)
    BY TopFrame DEF Markers
  <2> QED
    BY <2>1 DEF Extends
<1>4. FramesMatch(cgPc + 1, cs, frames')
  BY <1>1, FramesPop DEF PopFrame
<1>5. /\ \A m : m \in LiveLoops(cgPc + 1) <=> m \in LiveLoops(cgPc) /\ m # t
      /\ ast[t].k \in Loops => t \in LiveLoops(cgPc) /\ \A m \in LiveLoops(cgPc) : m <= t
  BY <1>1, FewerLoops
<1>6. t = Top.node
  BY DEF Top
<1> HIDE DEF t
<1>7. EndsMatch(cgPc + 1, cs, loop_end_blocks')
  <2>1. CASE ast[t].k \in Loops
    BY <1>1, <1>5, <1>6, <2>1, EndsPop DEF PopLoop
  <2>2. CASE ast[t].k \notin Loops
    <3>1. t \notin LiveLoops(cgPc)
      BY <2>2 DEF LiveLoops, Live
    <3>2. LiveLoops(cgPc + 1) = LiveLoops(cgPc)
      BY <1>5, <3>1
    <3>3. loop_end_blocks' = loop_end_blocks
      BY <1>6, <2>2
    <3> QED
      BY <1>1, <3>2, <3>3, EndsStay
  <2> QED
    BY <2>1, <2>2
<1> QED
  BY <1>1, <1>2, <1>3, <1>4, <1>7, GoOnInv DEF Walk

LEMMA EndsInv ==
  ASSUME CgInv, CgEndIf \/ CgEndWhile \/ CgEndFor
  PROVE  CgInv'
<1>1. CgAt({"end"})
  BY DEF CgEndIf, CgEndWhile, CgEndFor
<1>2. /\ phase = "codegen" /\ ast[cgPc].k = "end" /\ ast[cgPc].k \in Markers
      /\ Sound(blocks) /\ cur \in 1 .. Len(blocks)
  BY <1>1, AtCg DEF Markers
<1>3. /\ Top.next \in 1 .. Len(blocks) /\ Top.end \in 1 .. Len(blocks)
      /\ ast[Top.node].k # "break"
  BY <1>1, <1>2, TopFrame
<1>4. \A b : LET ds == BrIfOpen(blocks, cur, Top.node, b)
             IN  Sound(ds) /\ Extends(blocks, ds) /\ Len(ds) = Len(blocks)
  BY <1>2, <1>3, SoundBranch
<1>5. CASE CgEndIf
  <2>1. Sound(IfEnded) /\ Extends(blocks, IfEnded)
    <3> DEFINE ds == BrIfOpen(blocks, cur, Top.node, Top.end)
    <3>1. Sound(ds) /\ Extends(blocks, ds) /\ Len(ds) = Len(blocks)
      BY <1>4
    <3>2. IfEnded = Place(ds, Top.end)
      BY DEF IfEnded
    <3> HIDE DEF ds
    <3>3. Sound(Place(ds, Top.end)) /\ Extends(ds, Place(ds, Top.end))
      BY <1>3, <3>1, SoundPlace
    <3> QED
      BY <3>1, <3>2, <3>3, ExtendsAll
  <2>2. /\ Proceed(TRUE, IfEnded, Top.end, Restored) /\ PopFrame
        /\ ast[Top.node].k \notin Loops /\ loop_end_blocks' = loop_end_blocks
    BY <1>5 DEF CgEndIf, Loops
  <2> QED
    BY <1>1, <1>2, <2>1, <2>2, CloseInv
<1>6. CASE CgEndWhile
  <2> DEFINE ds == BrIfOpen(blocks, cur, Top.node, Top.cond)
  <2>1. Sound(ds) /\ Extends(blocks, ds)
    BY <1>4
  <2>2. /\ Proceed(TRUE, ds, Top.end, Restored) /\ PopFrame
        /\ ast[Top.node].k \in Loops /\ PopLoop
    BY <1>6 DEF CgEndWhile, Loops
  <2> HIDE DEF ds
  <2> QED
    BY <1>1, <1>2, <2>1, <2>2, CloseInv
<1>7. CASE CgEndFor
  <2> DEFINE v == ast[Top.node]
             ok == Loads(Restored, v.ep)
             ds == BrIfOpen(blocks, cur, Top.node, Top.next)
             x == Effect(Top.node, "ep", None, Address(Restored, v.ep))
             es == Emit(ds, Top.next, x)
             cs == Emit(es, Top.next, Br(Top.node, Top.cond))
  <2>1. CASE Fail(ok)
    BY <1>2, <2>1, FailInv
  <2>2. CASE Proceed(ok, ForEnded(blocks, v), Top.end, Top.outer) /\ PopFrame /\ PopLoop
    <3>1. Sound(ds) /\ Extends(blocks, ds) /\ Len(ds) = Len(blocks)
      BY <1>4
    <3>2. x.op # "br"
      BY NoBranch
    <3>3. ForEnded(blocks, v) = cs
      BY DEF ForEnded
    <3> HIDE DEF ds, x
    <3>4. Sound(es) /\ Extends(ds, es) /\ Len(es) = Len(ds)
      BY <1>3, <3>1, <3>2, SoundOther
    <3> HIDE DEF es
    <3>5. Sound(cs) /\ Extends(es, cs)
      BY <1>3, <3>1, <3>4, SoundBranch
    <3> HIDE DEF cs
    <3>6. Extends(blocks, cs)
      BY <3>1, <3>4, <3>5, ExtendsAll
    <3>7. ast[Top.node].k \in Loops
      BY <1>7 DEF CgEndFor, Loops
    <3>8. Proceed(ok, cs, Top.end, Top.outer) /\ PopFrame /\ PopLoop
      BY <2>2, <3>3
    <3> QED
      BY <1>1, <1>2, <3>5, <3>6, <3>7, <3>8, CloseInv
  <2> QED
    BY <1>7, <2>1, <2>2 DEF CgEndFor
<1> QED
  BY <1>5, <1>6, <1>7

LEMMA FinishInv ==
  ASSUME CgInv, CgFinish
  PROVE  CgInv'
<1>1. phase = "codegen" /\ blocks # <<>>
  BY DEF CgFinish
<1>2. Sound(blocks) /\ cur \in 1 .. Len(blocks)
  BY <1>1 DEF CgInv, Walk
<1>3. CASE \E ok : Fail(ok)
  BY <1>1, <1>3, FailInv
<1>4. CASE ~(\E ok : Fail(ok))
  <2>1. /\ blocks' = blocks \/ blocks' = Emit(blocks, cur, Ret(cgPc, None))
        /\ phase' \in {"run", "malformed"}
        /\ UNCHANGED <<ast, nest, tcPc, table, attributes>>
    BY <1>4 DEF CgFinish
  <2>2. Sound(blocks')
    BY <1>2, <2>1, NoBranch, SoundOther
  <2> QED
    BY <1>1, <2>1, <2>2, LeaveInv DEF Phases
<1> QED
  BY <1>3, <1>4

-------------------------------------------------------------------------------
(* The parser.                                                             *)

\* What the parser adds does not take the end of such a block from it.
LEMMA ParseFinals ==
  ASSUME WalkInv, Parse, FinalsEnd(ast), OpenFinals(ast, nest)
  PROVE  FinalsEnd(ast') /\ OpenFinals(ast', nest')
<1> USE DEF AllKinds, Leaves, Openers, Loops, Finals, Markers, Clauses
<1>1. ast \in Seq(Node) /\ nest \in Seq(AllKinds) /\ Len(nest) \in Nat
  BY DEF WalkInv, Nested
<1>2. CASE ParseParam \/ ParseStatement
  <2>1. \E k \in Leaves \cup {"param"} : \E v \in NodesOf(k) : ast' = Append(ast, v)
    BY <1>2 DEF ParseParam, ParseStatement, Add
  <2>2. PICK k \in Leaves \cup {"param"} : \E v \in NodesOf(k) : ast' = Append(ast, v)
    BY <2>1
  <2>3. PICK v \in NodesOf(k) : ast' = Append(ast, v)
    BY <2>2
  <2>4. v \in Node /\ v.k = k /\ Before(v) = Len(nest)
    BY <1>1, NodeMade
  <2>5. nest' = nest /\ v.k \notin Clauses /\ v.k \notin Finals
    BY <1>2, <2>4 DEF ParseParam, ParseStatement
  <2> HIDE DEF AllKinds, Leaves, Openers, Loops, Finals, Markers, Clauses
  <2>6. FinalsEnd(Append(ast, v)) /\ OpenFinals(Append(ast, v), nest)
    BY <1>1, <2>4, <2>5, AppendFinals
  <2> QED
    BY <2>3, <2>5, <2>6
<1>3. CASE ParseOpener
  <2>1. PICK k \in Openers : \E v \in NodesOf(k) :
          ast' = Append(ast, v) /\ nest' = Append(nest, k)
    BY <1>3 DEF ParseOpener, Add
  <2>2. PICK v \in NodesOf(k) : ast' = Append(ast, v) /\ nest' = Append(nest, k)
    BY <2>1
  <2>3. v \in Node /\ v.k = k /\ Before(v) = Len(nest) /\ k \in AllKinds
    BY <1>1, NodeMade
  <2>4. v.lvl = Len(nest) /\ v.k \notin Clauses
    BY <2>3 DEF Before
  <2> DEFINE ms == Append(nest, k)
  <2> HIDE DEF AllKinds, Leaves, Openers, Loops, Finals, Markers, Clauses
  <2>5. /\ ms \in Seq(AllKinds) /\ Len(ms) = Len(nest) + 1 /\ ms[Len(nest) + 1] = k
        /\ \A j \in 1 .. Len(nest) : j \in 1 .. Len(ms) /\ ms[j] = nest[j]
    BY <1>1, <2>3
  <2>6. v.lvl + 1 \in 1 .. Len(ms) /\ ms[v.lvl + 1] = v.k
    BY <1>1, <2>3, <2>4, <2>5
  <2> HIDE DEF ms
  <2>7. FinalsEnd(Append(ast, v)) /\ OpenFinals(Append(ast, v), ms)
    BY <1>1, <2>3, <2>4, <2>5, <2>6, AppendFinals
  <2> QED
    BY <2>2, <2>7 DEF ms
<1>4. CASE ParseClause
  <2>1. PICK k \in Clauses : \E v \in NodesOf(k) :
          ast' = Append(ast, v) /\ nest' = [nest EXCEPT ![Len(nest)] = k]
    BY <1>4 DEF ParseClause, Add
  <2>2. PICK v \in NodesOf(k) : ast' = Append(ast, v) /\ nest' = [nest EXCEPT ![Len(nest)] = k]
    BY <2>1
  <2>3. nest # <<>> /\ nest[Len(nest)] \in {"if", "elif"}
    BY <1>4 DEF ParseClause
  <2>4. v \in Node /\ v.k = k /\ Before(v) = Len(nest) /\ k \in AllKinds
    BY <1>1, <2>3, NodeMade
  <2>5. v.lvl + 1 = Len(nest) /\ v.lvl \in Nat /\ nest[Len(nest)] \notin Finals
    BY <2>3, <2>4 DEF Before, Node
  <2> DEFINE ms == [nest EXCEPT ![Len(nest)] = k]
  <2> HIDE DEF AllKinds, Leaves, Openers, Loops, Finals, Markers, Clauses
  <2>6. ms \in Seq(AllKinds) /\ Len(ms) = Len(nest)
    BY <1>1, <2>3, <2>4, SetLast, SMTT(40)
  <2>7. /\ ms[Len(nest)] = k /\ Len(nest) \in 1 .. Len(nest)
        /\ \A j \in 1 .. Len(nest) : j # Len(nest) => ms[j] = nest[j]
    <3>1. nest \in [1 .. Len(nest) -> AllKinds] /\ Len(nest) \in 1 .. Len(nest)
      BY <1>1, <2>3
    <3> QED
      BY <3>1
  <2> HIDE DEF ms
  <2>8. \A j \in 1 .. Len(nest) : j <= v.lvl => j \in 1 .. Len(ms) /\ ms[j] = nest[j]
    BY <1>1, <2>5, <2>6, <2>7
  <2>9. v.lvl + 1 \in 1 .. Len(ms) /\ ms[v.lvl + 1] = v.k
    BY <2>4, <2>5, <2>6, <2>7
  <2>10. FinalsEnd(Append(ast, v)) /\ OpenFinals(Append(ast, v), ms)
    BY <1>1, <2>4, <2>5, <2>6, <2>8, <2>9, AppendFinals
  <2> QED
    BY <2>2, <2>10 DEF ms
<1>5. CASE ParseEnd
  <2>1. PICK v \in NodesOf("end") : ast' = Append(ast, v)
    BY <1>5 DEF ParseEnd, Add
  <2> DEFINE ms == SubSeq(nest, 1, Len(nest) - 1)
  <2>2. nest # <<>> /\ nest' = ms
    BY <1>5 DEF ParseEnd
  <2>3. v \in Node /\ v.k = "end" /\ Before(v) = Len(nest)
    BY <1>1, <2>2, NodeMade
  <2>4. v.lvl + 1 = Len(nest) /\ v.lvl \in Nat /\ v.k \notin Finals /\ v.k \notin Clauses
    BY <2>3 DEF Before, Node
  <2> HIDE DEF AllKinds, Leaves, Openers, Loops, Finals, Markers, Clauses
  <2>5. ms \in Seq(AllKinds) /\ Len(ms) = Len(nest) - 1
    BY <1>1, <2>2, DropLast
  <2>6. \A j \in 1 .. Len(ms) : ms[j] = nest[j]
    <3>1. IsSeq(nest)
      BY <1>1 DEF IsSeq
    <3> QED
      BY <2>2, <3>1, FrontSeq
  <2> HIDE DEF ms
  <2>7. \A j \in 1 .. Len(nest) : j <= v.lvl => j \in 1 .. Len(ms) /\ ms[j] = nest[j]
    <3>1. Len(ms) = v.lvl /\ v.lvl \in Nat
      BY <1>1, <2>4, <2>5
    <3> QED
      BY <2>6, <3>1
  <2>8. FinalsEnd(Append(ast, v)) /\ OpenFinals(Append(ast, v), ms)
    BY <1>1, <2>3, <2>4, <2>5, <2>7, AppendFinals
  <2> QED
    BY <2>1, <2>2, <2>8
<1>6. CASE ParseDone
  BY <1>6 DEF ParseDone
<1> QED
  BY <1>2, <1>3, <1>4, <1>5, <1>6 DEF Parse

-------------------------------------------------------------------------------
(* The theorem.                                                            *)

LEMMA CgInvInit == TcInit /\ CgInit => CgInv
<1> SUFFICES ASSUME TcInit, CgInit PROVE CgInv
  OBVIOUS
<1>1. BreakInv
  BY BreakInit
<1>2. phase = "parse" /\ ast = <<>> /\ nest = <<>>
  BY DEF TcInit, ParseInit
<1>3. cgPc = 1 /\ blocks = <<>> /\ frames = <<>> /\ loop_end_blocks = <<>>
  BY DEF CgInit
<1>4. FinalsEnd(ast) /\ OpenFinals(ast, nest)
  BY <1>2 DEF FinalsEnd, OpenFinals
<1>5. Sound(blocks)
  <2>1. <<>> \in Seq({})
    OBVIOUS
  <2> QED
    BY <1>3, <2>1 DEF Sound, IsSeq
<1> QED
  BY <1>1, <1>2, <1>3, <1>4, <1>5 DEF CgInv

\* The generator has not begun.
LEMMA FrontEndInv ==
  ASSUME CgInv, TcNext, UNCHANGED cgVars
  PROVE  CgInv'
<1>1. UNCHANGED <<cgPc, blocks, cur, frames, loop_end_blocks>>
  BY DEF cgVars
<1>2. BreakInv'
  BY BreakStep DEF CgInv
<1>3. Sound(<<>>)' /\ <<>> \in Seq({}) /\ IsSeq(<<>>)
  BY DEF Sound, IsSeq
<1>4. CASE Parse /\ UNCHANGED <<tcPc, table, attributes>>
  <2>1. phase = "parse" /\ phase' \in {"parse", "typecheck"}
    BY <1>4 DEF Parse, ParseParam, ParseStatement, ParseOpener, ParseClause, ParseEnd, ParseDone
  <2>2. blocks = <<>> /\ cgPc = 1 /\ frames = <<>> /\ loop_end_blocks = <<>>
    BY <2>1 DEF CgInv
  <2>3. FinalsEnd(ast)' /\ OpenFinals(ast, nest)'
    BY <1>4, <2>1, ParseFinals DEF CgInv, BreakInv
  <2>4. Sound(blocks)'
    BY <1>1, <1>3, <2>2
  <2> QED
    BY <1>1, <1>2, <2>1, <2>2, <2>3, <2>4 DEF CgInv
<1>5. CASE TcVisit
  <2>1. phase = "typecheck" /\ ast' = ast
    BY <1>5 DEF TcVisit, TcParam, TcDeclaration, TcVarInit, TcAssignment, TcExpression, TcReturn,
                TcBranch, TcClause, TcForDeclaration, TcForAssignment, TcEnd, TcBreak, TcDone,
                At, GoOn, Reject
  <2>2. \/ phase' \in {"typecheck", "rejected"}
        \/ phase' = "codegen" /\ tcPc > Len(ast) /\ tcPc' = tcPc
    BY <1>5, <2>1 DEF TcVisit, TcParam, TcDeclaration, TcVarInit, TcAssignment, TcExpression,
                TcReturn, TcBranch, TcClause, TcForDeclaration, TcForAssignment, TcEnd, TcBreak,
                TcDone, GoOn, Reject
  <2>3. blocks = <<>> /\ cgPc = 1 /\ frames = <<>> /\ loop_end_blocks = <<>>
    BY <2>1 DEF CgInv
  <2>4. FinalsEnd(ast)' /\ Sound(blocks)'
    BY <1>1, <2>1, SameTree DEF CgInv
  <2>5. Walk(1, <<>>, cur, <<>>, <<>>)
    <3>1. LiveLoops(1) = {} /\ Depth(1) = 0
      BY DEF LiveLoops, Live, Depth
    <3>2. Sound(<<>>)
      BY <2>3 DEF CgInv
    <3>3. FramesMatch(1, <<>>, <<>>) /\ EndsMatch(1, <<>>, <<>>)
      BY <1>3, <3>1 DEF FramesMatch, EndsMatch
    <3> QED
      BY <3>2, <3>3 DEF Walk
  <2>6. Walk(cgPc, blocks, cur, frames, loop_end_blocks)'
    <3>1. Walk(cgPc', blocks', cur', frames', loop_end_blocks')
      BY <1>1, <2>3, <2>5
    <3> QED
      BY <2>1, <3>1, SameTree
  <2>7. cgPc' \in 1 .. Len(ast') + 1
    BY <1>1, <2>1, <2>3, NodesTyped DEF CgInv, BreakInv, WalkInv
  <2> QED
    BY <1>1, <1>2, <2>1, <2>2, <2>3, <2>4, <2>6, <2>7 DEF CgInv
<1> QED
  BY <1>4, <1>5 DEF TcNext

LEMMA CgInvNext == CgInv /\ [CgNext]_vars => CgInv'
<1> SUFFICES ASSUME CgInv, [CgNext]_vars PROVE CgInv'
  OBVIOUS
<1>1. CASE TcNext /\ UNCHANGED cgVars
  BY <1>1, FrontEndInv
<1>2. CASE CgVisit
  BY <1>2, EntryInv, DeclarationsInv, ExpressionsInv, BreaksInv, IfInv, ClausesInv, EndsInv,
     WhileInv, ForInv, FinishInv DEF CgVisit
<1>3. CASE UNCHANGED vars
  <2>1. UNCHANGED tcVars /\ UNCHANGED <<cgPc, blocks, cur, frames, loop_end_blocks>>
    BY <1>3 DEF vars, cgVars
  <2>2. BreakInv'
    BY <2>1, BreakStep DEF CgInv
  <2>3. UNCHANGED <<phase, ast, nest, tcPc>>
    BY <2>1 DEF tcVars
  <2>4. /\ FinalsEnd(ast)' /\ Sound(blocks)'
        /\ Walk(cgPc, blocks, cur, frames, loop_end_blocks)'
             <=> Walk(cgPc, blocks, cur, frames, loop_end_blocks)
    BY <2>1, <2>3, SameTree DEF CgInv
  <2>5. OpenFinals(ast, nest) => OpenFinals(ast, nest)'
    BY <2>3 DEF OpenFinals, Inside
  <2> QED
    BY <2>1, <2>2, <2>3, <2>4, <2>5 DEF CgInv
<1> QED
  BY <1>1, <1>2, <1>3 DEF CgNext

(***************************************************************************)
(* For every program: wherever CodeGen's walk has come to, each break that *)
(* TypeChecker reached goes to the block that is generated for what        *)
(* follows the very loop BreakNode's walk up the parents found.            *)
(***************************************************************************)
THEOREM PassesAgreeOnBreaks == CgSpec => []BreaksAgree
<1>1. CgInv => BreaksAgree
  <2> SUFFICES ASSUME CgInv, NEW i \in Instructions,
                      i.op = "br", i.n <= Len(ast), ast[i.n].k = "break", ~AfterReturn(i.n)
               PROVE  /\ blocks[i.to[1]].node = loop_target[i.n]
                      /\ blocks[i.to[1]].name \in {"while_after", "for_after"}
    BY DEF BreaksAgree
  <2>1. PICK b \in 1 .. Len(blocks) : \E x \in 1 .. Len(blocks[b].ins) : i = blocks[b].ins[x]
    BY DEF Instructions
  <2>2. BreakGoes(blocks, i)
    BY <2>1 DEF CgInv, Sound
  <2>3. i.n \in 1 .. Len(ast) /\ AfterLoop(blocks, i.to[1], EnclosingLoop(i.n))
    BY <2>2 DEF BreakGoes
  <2>4. tcPc > Len(ast) /\ phase # "parse"
    <3>1. blocks # <<>>
      BY <2>1
    <3> QED
      BY <3>1 DEF CgInv
  <2>5. i.n < tcPc
    BY <2>3, <2>4, NodesTyped DEF CgInv, BreakInv, WalkInv
  <2>6. loop_target[i.n] = EnclosingLoop(i.n)
    BY <2>3, <2>4, <2>5 DEF CgInv, BreakInv, Targets, Checked
  <2> QED
    BY <2>3, <2>6 DEF AfterLoop
<1>2. CgSpec => []CgInv
  BY CgInvInit, CgInvNext, PTL DEF CgSpec
<1> QED
  BY <1>1, <1>2, PTL

-------------------------------------------------------------------------------
(* The clauses around a place in the source.                               *)

Jumps == {"return", "break"}

\* No statement follows a jump in its block.
NoneAfterJump == \A n \in 1 .. Len(ast) : ~AfterJump(n)

\* The openers and clauses whose blocks are open just before node n: one for
\* each of those blocks.
LiveClauses(n) == Live(Openers \cup Clauses, n)

LEMMA ClauseBelow ==
  ASSUME Nested, NEW n \in 1 .. Len(ast), NEW m \in LiveClauses(n)
  PROVE  /\ m \in 1 .. n - 1 /\ m \in 1 .. Len(ast) /\ ast[m].k \in Openers \cup Clauses
         /\ ast[m].lvl \in Nat /\ Depth(n) \in Nat /\ ast[m].lvl < Depth(n)
BY OpenBelow DEF LiveClauses

LEMMA OneClauseEach ==
  ASSUME Nested, NEW n \in 1 .. Len(ast), NEW m \in LiveClauses(n), NEW o \in LiveClauses(n),
         ast[m].lvl = ast[o].lvl
  PROVE  m = o
<1>1. Len(ast) \in Nat /\ m \in 1 .. n - 1 /\ o \in 1 .. n - 1 /\ ast[m].lvl \in Nat
  BY ClauseBelow, NodesTyped
<1>2. CASE m < o
  <2>1. ast[m].lvl < ast[o].lvl
    BY <1>2, OpenOrdered DEF LiveClauses
  <2> QED
    BY <1>1, <2>1
<1>3. CASE o < m
  <2>1. ast[o].lvl < ast[m].lvl
    BY <1>3, OpenOrdered DEF LiveClauses
  <2> QED
    BY <1>1, <2>1
<1> QED
  BY <1>1, <1>2, <1>3

\* The block that n is a marker of closes, and a clause opens another.
LEMMA ClausesNext ==
  ASSUME Nested, NEW n \in 1 .. Len(ast)
  PROVE  LiveClauses(n + 1) =
           {m \in LiveClauses(n) : ast[n].k \in Markers => ast[m].lvl < ast[n].lvl}
           \cup (IF ast[n].k \in Openers \cup Clauses THEN {n} ELSE {})
<1>1. Depth(n) = Before(ast[n]) /\ ast[n].lvl \in Nat
  BY DepthAt
<1>2. \A m \in LiveClauses(n) : ast[m].lvl < Depth(n)
  BY ClauseBelow
<1>3. ast[n].k \notin Markers => \A m \in LiveClauses(n) : ast[m].lvl < ast[n].lvl
  BY <1>1, <1>2 DEF Before
<1>4. \A m : m \in LiveClauses(n + 1)
               <=> \/ m \in LiveClauses(n) /\ ast[m].lvl < ast[n].lvl
                   \/ m = n /\ ast[n].k \in Openers \cup Clauses
  BY OpenNext DEF LiveClauses
<1> QED
  BY <1>3, <1>4

\* A marker is the end of the block that is open at its level.
LEMMA BodyEndsHere ==
  ASSUME Nested, FinalsEnd(ast), NEW n \in 1 .. Len(ast), ast[n].k \in Markers,
         NEW m \in LiveClauses(n), ast[m].lvl = ast[n].lvl
  PROVE  /\ IsLastClause(m) <=> ast[n].k = "end"
         /\ ast[n].k # "end" => ast[m].k \in {"if", "elif"}
<1> DEFINE S == {j \in m + 1 .. Len(ast) : ast[j].k \in Markers /\ ast[j].lvl = ast[m].lvl}
                \cup {Len(ast) + 1}
<1>1. /\ Len(ast) \in Nat /\ m \in 1 .. n - 1 /\ m \in 1 .. Len(ast)
      /\ ast[m].k \in Openers \cup Clauses /\ ast[m].lvl \in Nat /\ Inside(ast, m, n - 1)
  BY ClauseBelow, NodesTyped DEF LiveClauses, Live
<1>2. n \in S /\ S \subseteq Nat /\ S # {}
  BY <1>1
<1>3. Min(S) \in S /\ \A j \in S : Min(S) <= j
  BY <1>2, MinIsLeast
<1>4. \A j \in S : j >= n
  <2> SUFFICES ASSUME NEW j \in S, j < n PROVE FALSE
    BY <1>1, <1>2
  <2>1. j \in m + 1 .. n - 1 /\ ast[j].lvl = ast[m].lvl
    BY <1>1
  <2> QED
    BY <1>1, <2>1 DEF Inside
<1>5. BodyEnd(m) = n
  <2>1. BodyEnd(m) = Min(S)
    BY DEF BodyEnd
  <2>2. Min(S) <= n /\ Min(S) >= n /\ Min(S) \in Nat
    BY <1>2, <1>3, <1>4
  <2> HIDE DEF S
  <2> QED
    BY <2>1, <2>2
<1>6. IsLastClause(m) <=> ast[n].k = "end"
  BY <1>5 DEF IsLastClause
<1>7. ASSUME ast[m].k \in Finals
      PROVE  ast[n].k = "end"
  <2>1. n \in m + 1 .. Len(ast) /\ ~(ast[n].lvl > ast[m].lvl)
    BY <1>1
  <2> QED
    BY <1>1, <1>7, <2>1 DEF FinalsEnd
<1>8. ast[m].k \in Finals \/ ast[m].k \in {"if", "elif"}
  BY <1>1 DEF Finals, Openers, Clauses
<1> QED
  BY <1>6, <1>7, <1>8

\* What follows a jump, if no statement does, is the end of its block.
LEMMA JumpEnds ==
  ASSUME Nested, NoneAfterJump, NEW n \in 1 .. Len(ast), n > 1, ast[n - 1].k \in Jumps
  PROVE  ast[n].k \in Markers
<1> DEFINE r == n - 1
           S == {m \in r + 1 .. Len(ast) : ast[m].k \in Markers /\ ast[m].lvl = ast[r].lvl - 1}
                \cup {Len(ast) + 1}
<1>1. Len(ast) \in Nat /\ r \in 1 .. n - 1 /\ r + 1 = n
  BY NodesTyped
<1>2. ~(n < BlockEnd(r))
  BY <1>1 DEF NoneAfterJump, AfterJump, After, Jumps
<1>3. S \subseteq Nat /\ S # {}
  BY <1>1
<1>4. Min(S) \in S
  BY <1>3, MinIsLeast
<1>5. BlockEnd(r) = Min(S)
  BY DEF BlockEnd
<1> HIDE DEF r
<1>6. BlockEnd(r) = n
  <2>1. BlockEnd(r) \in S
    BY <1>4, <1>5
  <2>2. \A x \in S : x \in Nat /\ x >= n
    BY <1>1
  <2> HIDE DEF S
  <2> QED
    BY <1>1, <1>2, <2>1, <2>2
<1> QED
  BY <1>1, <1>4, <1>5, <1>6

-------------------------------------------------------------------------------
(* The shape of the function while it is generated.                        *)

IsBlock(x) == {"node", "placed", "ins"} \subseteq DOMAIN x /\ IsSeq(x.ins)

\* A terminator can only be the last instruction.
Straight(x) == \A i \in 1 .. Len(x.ins) - 1 : x.ins[i].op \notin Terminators

\* An instruction branches to blocks that were made.
GoesWithin(bs, i) == \A j \in DOMAIN i.to : i.to[j] \in 1 .. Len(bs)

StaysWithin(bs, x) == \A i \in 1 .. Len(x.ins) : GoesWithin(bs, x.ins[i])

\* The blocks P are made and still empty; all others are part of the
\* function, and finished but for c, the insertion point.
InShape(bs, P, c) ==
  /\ IsSeq(bs) /\ P \subseteq 1 .. Len(bs) /\ c \in 1 .. Len(bs) /\ c \notin P
  /\ \A b \in 1 .. Len(bs) :
       /\ IsBlock(bs[b])
       /\ StaysWithin(bs, bs[b])
       /\ b \in P => bs[b].ins = <<>>
       /\ b \notin P => bs[b].placed /\ Straight(bs[b])
       /\ b \notin P /\ b # c => HasTerminator(bs[b])

\* What was made before is still there, the blocks P as they were.
Keeps(bs, cs, P) ==
  /\ Len(bs) \in Nat /\ Len(cs) \in Nat /\ Len(bs) <= Len(cs)
  /\ \A b \in P : b \in 1 .. Len(bs) /\ cs[b] = bs[b]

LEMMA KeepsAll ==
  ASSUME NEW bs, NEW cs, NEW ds, NEW P, NEW Q, NEW R, Keeps(bs, cs, P), Keeps(cs, ds, Q),
         R \subseteq P, R \subseteq Q
  PROVE  Keeps(bs, ds, R)
BY DEF Keeps

LEMMA WithinStill ==
  ASSUME NEW bs, NEW cs, Len(bs) \in Nat, Len(cs) \in Nat, Len(bs) <= Len(cs),
         NEW x, StaysWithin(bs, x)
  PROVE  StaysWithin(cs, x)
BY DEF StaysWithin, GoesWithin

\* A block with one more instruction.
Longer(x, i) == [x EXCEPT !.ins = Append(@, i)]

LEMMA LongerBlock ==
  ASSUME NEW x, IsBlock(x), NEW i, NEW y, y = Longer(x, i)
  PROVE  /\ IsBlock(y) /\ y.placed = x.placed /\ y.node = x.node
         /\ HasTerminator(y) <=> i.op \in Terminators
         /\ Straight(x) /\ ~HasTerminator(x) => Straight(y)
         /\ \A bs : StaysWithin(bs, x) /\ GoesWithin(bs, i) => StaysWithin(bs, y)
<1> DEFINE is == Append(x.ins, i)
           L == Len(x.ins)
<1>1. /\ L \in Nat /\ IsSeq(is) /\ Len(is) = L + 1 /\ is[L + 1] = i
      /\ \A j \in 1 .. L : is[j] = x.ins[j]
  BY AppendSeq DEF IsBlock
<1>2. y = [x EXCEPT !.ins = is]
  BY DEF Longer
<1> HIDE DEF is
<1>3. y.ins = is /\ y.placed = x.placed /\ y.node = x.node /\ DOMAIN y = DOMAIN x /\ is # <<>>
  BY <1>1, <1>2 DEF IsBlock
<1>4. IsBlock(y)
  BY <1>1, <1>3 DEF IsBlock
<1>5. HasTerminator(y) <=> i.op \in Terminators
  BY <1>1, <1>3 DEF HasTerminator
<1>6. ASSUME Straight(x), ~HasTerminator(x)
      PROVE  Straight(y)
  <2>1. ASSUME NEW j \in 1 .. L
        PROVE  x.ins[j].op \notin Terminators
    <3>1. CASE j = L
      <4>1. x.ins # <<>>
        BY <3>1
      <4> QED
        BY <1>6, <3>1, <4>1 DEF HasTerminator
    <3>2. CASE j # L
      BY <1>1, <1>6, <3>2 DEF Straight
    <3> QED
      BY <3>1, <3>2
  <2>2. \A j \in 1 .. Len(y.ins) - 1 : j \in 1 .. L /\ y.ins[j] = x.ins[j]
    BY <1>1, <1>3
  <2> QED
    BY <2>1, <2>2 DEF Straight
<1>7. \A j \in 1 .. Len(is) : j = L + 1 \/ j \in 1 .. L
  BY <1>1
<1>8. ASSUME NEW bs, StaysWithin(bs, x), GoesWithin(bs, i)
      PROVE  StaysWithin(bs, y)
  <2>1. \A j \in 1 .. L : GoesWithin(bs, is[j])
    BY <1>1, <1>8 DEF StaysWithin
  <2> QED
    BY <1>1, <1>3, <1>7, <1>8, <2>1 DEF StaysWithin
<1> QED
  BY <1>3, <1>4, <1>5, <1>6, <1>8

\* An instruction at the insertion point.
LEMMA EmitShaped ==
  ASSUME NEW bs, NEW P, NEW c, InShape(bs, P, c), ~HasTerminator(bs[c]),
         NEW i, GoesWithin(bs, i)
  PROVE  LET cs == Emit(bs, c, i)
         IN  /\ InShape(cs, P, c) /\ Keeps(bs, cs, P) /\ Len(cs) = Len(bs)
             /\ HasTerminator(cs[c]) <=> i.op \in Terminators
<1> DEFINE x == Longer(bs[c], i)
           cs == [bs EXCEPT ![c] = x]
<1>1. /\ IsSeq(bs) /\ P \subseteq 1 .. Len(bs) /\ c \in 1 .. Len(bs) /\ c \notin P
      /\ IsBlock(bs[c]) /\ bs[c].placed /\ Straight(bs[c]) /\ StaysWithin(bs, bs[c])
  BY DEF InShape
<1>2. Emit(bs, c, i) = cs
  BY DEF Emit, Longer
<1> HIDE DEF x
<1>3. /\ IsBlock(x) /\ x.placed = bs[c].placed /\ Straight(x)
      /\ HasTerminator(x) <=> i.op \in Terminators
      /\ StaysWithin(bs, x)
  BY <1>1, LongerBlock DEF x
<1>4. /\ Len(bs) \in Nat /\ IsSeq(cs) /\ Len(cs) = Len(bs) /\ cs[c] = x
      /\ \A b \in 1 .. Len(bs) : b # c => cs[b] = bs[b]
  BY <1>1, SetSeq
<1> HIDE DEF cs
<1>5. \A y : StaysWithin(bs, y) => StaysWithin(cs, y)
  BY <1>4, WithinStill
<1>7. ASSUME NEW b \in 1 .. Len(cs)
      PROVE  /\ IsBlock(cs[b])
             /\ StaysWithin(cs, cs[b])
             /\ b \in P => cs[b].ins = <<>>
             /\ b \notin P => cs[b].placed /\ Straight(cs[b])
             /\ b \notin P /\ b # c => HasTerminator(cs[b])
  <2>1. CASE b = c
    BY <1>1, <1>3, <1>4, <1>5, <2>1
  <2>2. CASE b # c
    BY <1>4, <1>5, <2>2 DEF InShape
  <2> QED
    BY <2>1, <2>2
<1>8. InShape(cs, P, c)
  BY <1>1, <1>4, <1>7 DEF InShape
<1>9. Keeps(bs, cs, P)
  BY <1>1, <1>4 DEF Keeps
<1> QED
  BY <1>2, <1>3, <1>4, <1>8, <1>9 DEF cs, x

\* A branch from the insertion point, if that is not finished.
LEMMA BranchShaped ==
  ASSUME NEW bs, NEW P, NEW c, InShape(bs, P, c), NEW n, NEW b \in 1 .. Len(bs)
  PROVE  LET cs == BrIfOpen(bs, c, n, b)
         IN  /\ InShape(cs, P, c) /\ Keeps(bs, cs, P) /\ Len(cs) = Len(bs)
             /\ HasTerminator(cs[c])
<1>1. GoesWithin(bs, Br(n, b)) /\ Br(n, b).op \in Terminators
  BY DEF GoesWithin, Br, Instruction, Terminators
<1>2. Len(bs) \in Nat /\ P \subseteq 1 .. Len(bs)
  BY AppendSeq DEF InShape
<1>3. Keeps(bs, bs, P)
  BY <1>2 DEF Keeps
<1> QED
  BY <1>1, <1>3, EmitShaped DEF BrIfOpen

\* A new block, empty.
Fresh(bs, b, placed) ==
  b \in 1 .. Len(bs) /\ bs[b].node = cgPc /\ (bs[b].placed <=> placed)

LEMMA FreshStill ==
  ASSUME NEW bs, NEW cs, NEW P, Keeps(bs, cs, P), NEW b \in P, NEW placed, Fresh(bs, b, placed)
  PROVE  Fresh(cs, b, placed)
BY DEF Keeps, Fresh

LEMMA NewShaped ==
  ASSUME NEW bs, NEW P, NEW c, InShape(bs, P, c), NEW name, NEW placed \in BOOLEAN
  PROVE  LET cs == Append(bs, NewBlock(name, placed))
         IN  /\ InShape(cs, P \cup {Len(bs) + 1}, c) /\ Keeps(bs, cs, P \cup {c})
             /\ Len(cs) = Len(bs) + 1 /\ Len(bs) \in Nat /\ Fresh(cs, Len(bs) + 1, placed)
<1> DEFINE x == NewBlock(name, placed)
           cs == Append(bs, x)
           k == Len(bs) + 1
<1>0. <<>> \in Seq({})
  OBVIOUS
<1>1. /\ {"node", "placed", "ins"} \subseteq DOMAIN x
      /\ x.node = cgPc /\ (x.placed <=> placed) /\ x.ins = <<>>
  BY DEF NewBlock
<1>2. IsBlock(x)
  BY <1>0, <1>1 DEF IsBlock, IsSeq
<1> HIDE DEF x
<1>3. /\ IsSeq(bs) /\ P \subseteq 1 .. Len(bs) /\ c \in 1 .. Len(bs) /\ c \notin P
  BY DEF InShape
<1>4. /\ Len(bs) \in Nat /\ IsSeq(cs) /\ Len(cs) = k /\ cs[k] = x
      /\ \A b \in 1 .. Len(bs) : cs[b] = bs[b] /\ b # k /\ b \in 1 .. k
  BY <1>3, AppendSeq
<1>5. \A b \in 1 .. Len(cs) : b = k \/ b \in 1 .. Len(bs)
  BY <1>4
<1> HIDE DEF cs
<1>6. \A y : StaysWithin(bs, y) => StaysWithin(cs, y)
  BY <1>4, WithinStill
<1>7. ASSUME NEW b \in 1 .. Len(cs)
      PROVE  /\ IsBlock(cs[b])
             /\ StaysWithin(cs, cs[b])
             /\ b \in P \cup {k} => cs[b].ins = <<>>
             /\ b \notin P \cup {k} => cs[b].placed /\ Straight(cs[b])
             /\ b \notin P \cup {k} /\ b # c => HasTerminator(cs[b])
  <2>1. CASE b = k
    <3>1. StaysWithin(cs, x)
      BY <1>1 DEF StaysWithin
    <3> QED
      BY <1>1, <1>2, <1>4, <2>1, <3>1
  <2>2. CASE b \in 1 .. Len(bs)
    BY <1>4, <1>6, <2>2 DEF InShape
  <2> QED
    BY <1>5, <2>1, <2>2
<1>8. /\ P \cup {k} \subseteq 1 .. Len(cs) /\ c \in 1 .. Len(cs) /\ c \notin P \cup {k}
      /\ k \in 1 .. Len(cs)
  <2>1. k \in 1 .. Len(cs) /\ \A b \in 1 .. Len(bs) : b \in 1 .. Len(cs) /\ b # k
    BY <1>4
  <2> HIDE DEF k
  <2> QED
    BY <1>3, <2>1
<1>9. InShape(cs, P \cup {k}, c)
  BY <1>4, <1>7, <1>8 DEF InShape
<1>10. Keeps(bs, cs, P \cup {c})
  BY <1>3, <1>4 DEF Keeps
<1>11. Fresh(cs, k, placed)
  BY <1>1, <1>4, <1>8 DEF Fresh
<1> QED
  BY <1>4, <1>9, <1>10, <1>11 DEF cs, x

\* An empty block joins the function.
LEMMA PlaceShaped ==
  ASSUME NEW bs, NEW P, NEW c, InShape(bs, P, c), NEW b \in P
  PROVE  LET cs == Place(bs, b)
         IN  /\ InShape(cs, P, c) /\ Keeps(bs, cs, (P \ {b}) \cup {c}) /\ Len(cs) = Len(bs)
             /\ cs[b].placed
<1> DEFINE x == [bs[b] EXCEPT !.placed = TRUE]
           cs == [bs EXCEPT ![b] = x]
<1>1. Place(bs, b) = cs
  BY DEF Place
<1>2. /\ IsSeq(bs) /\ P \subseteq 1 .. Len(bs) /\ c \in 1 .. Len(bs) /\ c \notin P /\ b \in 1 .. Len(bs)
      /\ IsBlock(bs[b]) /\ bs[b].ins = <<>> /\ StaysWithin(bs, bs[b])
  BY DEF InShape
<1>3. x.ins = bs[b].ins /\ x.placed /\ IsBlock(x)
  BY <1>2 DEF IsBlock
<1> HIDE DEF x
<1>4. /\ Len(bs) \in Nat /\ IsSeq(cs) /\ Len(cs) = Len(bs) /\ cs[b] = x
      /\ \A d \in 1 .. Len(bs) : d # b => cs[d] = bs[d]
  BY <1>2, SetSeq
<1> HIDE DEF cs
<1>5. \A y : StaysWithin(bs, y) => StaysWithin(cs, y)
  BY <1>4, WithinStill
<1>6. StaysWithin(bs, x)
  BY <1>2, <1>3 DEF StaysWithin
<1>7. ASSUME NEW d \in 1 .. Len(cs)
      PROVE  /\ IsBlock(cs[d])
             /\ StaysWithin(cs, cs[d])
             /\ d \in P => cs[d].ins = <<>>
             /\ d \notin P => cs[d].placed /\ Straight(cs[d])
             /\ d \notin P /\ d # c => HasTerminator(cs[d])
  <2>1. CASE d = b
    BY <1>2, <1>3, <1>4, <1>5, <1>6, <2>1
  <2>2. CASE d # b
    BY <1>4, <1>5, <2>2 DEF InShape
  <2> QED
    BY <2>1, <2>2
<1>8. InShape(cs, P, c)
  BY <1>2, <1>4, <1>7 DEF InShape
<1>9. Keeps(bs, cs, (P \ {b}) \cup {c})
  BY <1>2, <1>4 DEF Keeps
<1> QED
  BY <1>1, <1>3, <1>4, <1>8, <1>9

\* The insertion point moves from a finished block to one that was empty.
LEMMA MoveShaped ==
  ASSUME NEW bs, NEW P, NEW c, InShape(bs, P, c), HasTerminator(bs[c]),
         NEW b \in P, bs[b].placed
  PROVE  InShape(bs, P \ {b}, b) /\ ~HasTerminator(bs[b])
<1>1. bs[b].ins = <<>> /\ b \in 1 .. Len(bs)
  BY DEF InShape
<1>2. ~HasTerminator(bs[b])
  BY <1>1 DEF HasTerminator
<1>3. Straight(bs[b])
  BY <1>1 DEF Straight
<1>4. ASSUME NEW d \in 1 .. Len(bs)
      PROVE  /\ IsBlock(bs[d])
             /\ StaysWithin(bs, bs[d])
             /\ d \in P \ {b} => bs[d].ins = <<>>
             /\ d \notin P \ {b} => bs[d].placed /\ Straight(bs[d])
             /\ d \notin P \ {b} /\ d # b => HasTerminator(bs[d])
  BY <1>3 DEF InShape
<1> QED
  BY <1>1, <1>2, <1>4 DEF InShape

-------------------------------------------------------------------------------
(* The blocks that wait for the walk to come to them.                      *)

\* Of the frame f, when m opens the block the walk is in: the block after the
\* statement, and the one its clause falls through to or the loop's increment.
PendingOf(f, m) == {f.end} \cup (IF ast[m].k \in {"while", "else"} THEN {} ELSE {f.next})

FrameAt(fs, m) == fs[ast[m].lvl + 1]

PendingIn(M, fs) == UNION {PendingOf(FrameAt(fs, m), m) : m \in M}

Pending(n, fs) == PendingIn(LiveClauses(n), fs)

\* They were made for nodes at m's level; a loop's are placed when they are
\* made, an if tree's when the walk comes to them. An if tree's last clause
\* falls through to what is after the tree.
FrameOf(bs, f, m) ==
  /\ \A b \in PendingOf(f, m) :
       /\ b \in 1 .. Len(bs) /\ ast[bs[b].node].lvl = ast[m].lvl
       /\ bs[b].placed <=> ast[m].k \in Loops
  /\ ast[m].k \notin {"while", "else"} =>
       (f.next = f.end <=> ast[m].k \in {"if", "elif"} /\ IsLastClause(m))
  /\ ast[m].k \in Loops => f.cond \in 1 .. Len(bs)

Framed(n, bs, fs) ==
  /\ \A i \in 1 .. Len(fs) : \E m \in LiveClauses(n) : ast[m].lvl = i - 1
  /\ \A m \in LiveClauses(n) : FrameOf(bs, FrameAt(fs, m), m)

LEMMA FrameOfStill ==
  ASSUME NEW bs, NEW cs, NEW f, NEW m, FrameOf(bs, f, m), Keeps(bs, cs, PendingOf(f, m))
  PROVE  FrameOf(cs, f, m)
<1>1. /\ Len(bs) \in Nat /\ Len(cs) \in Nat /\ Len(bs) <= Len(cs)
      /\ \A b \in PendingOf(f, m) : b \in 1 .. Len(bs) /\ cs[b] = bs[b]
  BY DEF Keeps
<1>2. \A b \in 1 .. Len(bs) : b \in 1 .. Len(cs)
  BY <1>1
<1> QED
  BY <1>1, <1>2 DEF FrameOf

\* Frames that stay the same wait for the same blocks.
LEMMA SameFrames ==
  ASSUME NEW n, NEW bs, NEW cs, NEW fs, NEW gs, Framed(n, bs, fs),
         NEW M \in SUBSET LiveClauses(n), \A m \in M : FrameAt(gs, m) = FrameAt(fs, m),
         Keeps(bs, cs, PendingIn(M, fs))
  PROVE  /\ \A m \in M : FrameOf(cs, FrameAt(gs, m), m)
         /\ PendingIn(M, gs) = PendingIn(M, fs)
<1>1. ASSUME NEW m \in M
      PROVE  FrameOf(cs, FrameAt(fs, m), m)
  <2>1. PendingOf(FrameAt(fs, m), m) \subseteq PendingIn(M, fs)
    BY DEF PendingIn
  <2>2. Keeps(bs, cs, PendingOf(FrameAt(fs, m), m))
    BY <2>1 DEF Keeps
  <2>3. FrameOf(bs, FrameAt(fs, m), m)
    BY DEF Framed
  <2> QED
    BY <2>2, <2>3, FrameOfStill
<1>2. PendingIn(M, gs) = PendingIn(M, fs)
  BY DEF PendingIn
<1> QED
  BY <1>1, <1>2

\* No two frames wait for the same block.
LEMMA FramesApart ==
  ASSUME NEW n, NEW bs, NEW fs, Framed(n, bs, fs), NEW t \in LiveClauses(n),
         NEW M \in SUBSET LiveClauses(n), \A m \in M : ast[m].lvl # ast[t].lvl
  PROVE  \A b \in PendingIn(M, fs) : b \notin PendingOf(FrameAt(fs, t), t)
<1> SUFFICES ASSUME NEW m \in M, NEW b \in PendingOf(FrameAt(fs, m), m),
                    b \in PendingOf(FrameAt(fs, t), t)
             PROVE  FALSE
  BY DEF PendingIn
<1>1. ast[bs[b].node].lvl = ast[m].lvl
  BY DEF Framed, FrameOf
<1>2. ast[bs[b].node].lvl = ast[t].lvl
  BY DEF Framed, FrameOf
<1> QED
  BY <1>1, <1>2

\* A statement without a block, or a jump.
LEMMA FramedOn ==
  ASSUME Nested, NEW n \in 1 .. Len(ast), ast[n].k \notin Openers \cup Markers,
         NEW bs, NEW cs, NEW fs, Framed(n, bs, fs), Keeps(bs, cs, Pending(n, fs))
  PROVE  Framed(n + 1, cs, fs) /\ Pending(n + 1, fs) = Pending(n, fs)
<1>1. LiveClauses(n + 1) = LiveClauses(n)
  BY ClausesNext DEF Markers
<1>2. \A m \in LiveClauses(n) : FrameOf(cs, FrameAt(fs, m), m)
  BY SameFrames DEF Pending
<1> QED
  BY <1>1, <1>2 DEF Framed, Pending

\* A statement with a block: its frame is one more.
LEMMA FramedPush ==
  ASSUME Nested, NEW n \in 1 .. Len(ast), ast[n].k \in Openers,
         NEW bs, NEW cs, NEW fs, NEW f, IsSeq(fs), Len(fs) = Depth(n),
         Framed(n, bs, fs), Keeps(bs, cs, Pending(n, fs)), FrameOf(cs, f, n)
  PROVE  /\ Framed(n + 1, cs, Append(fs, f))
         /\ Pending(n + 1, Append(fs, f)) = Pending(n, fs) \cup PendingOf(f, n)
<1> DEFINE gs == Append(fs, f)
           k == Len(fs)
<1>1. ast[n].k \notin Markers
  BY DEF Openers, Loops, Markers, Clauses
<1>2. LiveClauses(n + 1) = LiveClauses(n) \cup {n}
  BY <1>1, ClausesNext
<1>3. k \in Nat /\ ast[n].lvl = k
  BY <1>1, DepthAt DEF Before
<1>4. Len(gs) = k + 1 /\ gs[k + 1] = f /\ \A i \in 1 .. k : gs[i] = fs[i]
  BY AppendSeq
<1> HIDE DEF gs
<1>5. FrameAt(gs, n) = f
  BY <1>3, <1>4 DEF FrameAt
<1>6. ASSUME NEW m \in LiveClauses(n)
      PROVE  FrameAt(gs, m) = FrameAt(fs, m)
  <2>1. ast[m].lvl \in Nat /\ ast[m].lvl < k
    BY ClauseBelow
  <2>2. ast[m].lvl + 1 \in 1 .. k
    BY <1>3, <2>1
  <2> QED
    BY <1>4, <2>2 DEF FrameAt
<1>7. /\ \A m \in LiveClauses(n) : FrameOf(cs, FrameAt(gs, m), m)
      /\ PendingIn(LiveClauses(n), gs) = Pending(n, fs)
  BY <1>6, SameFrames DEF Pending
<1>8. ASSUME NEW i \in 1 .. Len(gs)
      PROVE  \E m \in LiveClauses(n + 1) : ast[m].lvl = i - 1
  <2>1. CASE i = k + 1
    <3>1. ast[n].lvl = i - 1
      BY <1>3, <2>1
    <3> QED
      BY <1>2, <3>1
  <2>2. CASE i \in 1 .. k
    BY <1>2, <2>2 DEF Framed
  <2> QED
    BY <1>3, <1>4, <2>1, <2>2
<1>9. Framed(n + 1, cs, gs)
  BY <1>2, <1>5, <1>7, <1>8 DEF Framed
<1>10. Pending(n + 1, gs) = Pending(n, fs) \cup PendingOf(f, n)
  BY <1>2, <1>5, <1>7 DEF Pending, PendingIn
<1> QED
  BY <1>9, <1>10 DEF gs

\* The blocks around the statement that n is a marker of.
Outer(n) == {m \in LiveClauses(n) : ast[m].lvl < ast[n].lvl}

\* At a marker the top frame is of the block that ends there.
LEMMA TopClause ==
  ASSUME Nested, FinalsEnd(ast), NEW n \in 1 .. Len(ast), ast[n].k \in Markers,
         NEW bs, NEW fs, IsSeq(fs), Len(fs) = Depth(n), Framed(n, bs, fs)
  PROVE  /\ Len(fs) \in Nat \ {0} /\ fs # <<>> /\ ast[n].lvl = Len(fs) - 1
         /\ \E t \in LiveClauses(n) :
              /\ ast[t].lvl = ast[n].lvl /\ FrameAt(fs, t) = fs[Len(fs)]
              /\ FrameOf(bs, fs[Len(fs)], t)
              /\ IsLastClause(t) <=> ast[n].k = "end"
              /\ ast[n].k # "end" => ast[t].k \in {"if", "elif"}
              /\ Pending(n, fs) = PendingIn(Outer(n), fs) \cup PendingOf(fs[Len(fs)], t)
              /\ \A b \in PendingIn(Outer(n), fs) : b \notin PendingOf(fs[Len(fs)], t)
<1> DEFINE k == Len(fs)
<1>1. ast[n].lvl \in Nat /\ k = ast[n].lvl + 1
  BY DepthAt DEF Before
<1>2. k \in Nat \ {0} /\ ast[n].lvl = k - 1 /\ k \in 1 .. k
  BY <1>1
<1>3. PICK t \in LiveClauses(n) : ast[t].lvl = k - 1
  BY <1>2 DEF Framed
<1>4. FrameAt(fs, t) = fs[k]
  <2>1. ast[t].lvl + 1 = k
    BY <1>2, <1>3
  <2> QED
    BY <2>1 DEF FrameAt
<1>5. FrameOf(bs, fs[k], t)
  BY <1>4 DEF Framed
<1>6. /\ IsLastClause(t) <=> ast[n].k = "end"
      /\ ast[n].k # "end" => ast[t].k \in {"if", "elif"}
  BY <1>2, <1>3, BodyEndsHere
<1>7. \A m \in LiveClauses(n) : m \in Outer(n) \/ m = t
  <2> TAKE m \in LiveClauses(n)
  <2>1. ast[m].lvl \in Nat /\ ast[m].lvl < k
    BY ClauseBelow
  <2>2. CASE ast[m].lvl = ast[t].lvl
    BY <1>3, <2>2, OneClauseEach
  <2>3. CASE ast[m].lvl # ast[t].lvl
    <3>1. ast[m].lvl < ast[n].lvl
      BY <1>2, <1>3, <2>1, <2>3
    <3> QED
      BY <3>1 DEF Outer
  <2> QED
    BY <2>2, <2>3
<1>8. Pending(n, fs) = PendingIn(Outer(n), fs) \cup PendingOf(fs[k], t)
  <2>1. LiveClauses(n) = Outer(n) \cup {t}
    BY <1>7 DEF Outer
  <2> QED
    BY <1>4, <2>1 DEF Pending, PendingIn
<1>9. \A b \in PendingIn(Outer(n), fs) : b \notin PendingOf(fs[k], t)
  <2>1. Outer(n) \in SUBSET LiveClauses(n)
    BY DEF Outer
  <2>2. \A m \in Outer(n) : ast[m].lvl # ast[t].lvl
    <3>1. \A m \in LiveClauses(n) : ast[m].lvl \in Nat
      BY ClauseBelow
    <3> QED
      BY <1>1, <1>2, <1>3, <3>1 DEF Outer
  <2> QED
    BY <1>4, <2>1, <2>2, FramesApart
<1>10. fs # <<>>
  BY <1>2
<1> QED
  BY <1>2, <1>3, <1>4, <1>5, <1>6, <1>8, <1>9, <1>10

\* All frames but the top one are the same.
SameBelow(fs, gs) == \A i \in 1 .. Len(fs) - 1 : gs[i] = fs[i]

\* What a marker leaves of the frames below the top, in gs.
LEMMA OuterFrames ==
  ASSUME Nested, NEW n \in 1 .. Len(ast), ast[n].k \in Markers,
         NEW bs, NEW cs, NEW fs, NEW gs, Len(fs) = Depth(n), Framed(n, bs, fs),
         SameBelow(fs, gs),
         Keeps(bs, cs, PendingIn(Outer(n), fs))
  PROVE  /\ \A m \in Outer(n) : FrameOf(cs, FrameAt(gs, m), m)
         /\ PendingIn(Outer(n), gs) = PendingIn(Outer(n), fs)
         /\ \A i \in 1 .. Len(fs) - 1 : \E m \in Outer(n) : ast[m].lvl = i - 1
<1> DEFINE k == Len(fs)
<1>1. ast[n].lvl \in Nat /\ k = ast[n].lvl + 1
  BY DepthAt DEF Before
<1>2. Outer(n) \in SUBSET LiveClauses(n)
  BY DEF Outer
<1>3. ASSUME NEW m \in Outer(n)
      PROVE  FrameAt(gs, m) = FrameAt(fs, m)
  <2>1. ast[m].lvl \in Nat /\ ast[m].lvl < ast[n].lvl
    BY ClauseBelow DEF Outer
  <2>2. \A x, y \in Nat : x < y => x + 1 \in 1 .. (y + 1) - 1
    OBVIOUS
  <2>3. ast[m].lvl + 1 \in 1 .. k - 1
    BY <1>1, <2>1, <2>2
  <2> QED
    BY <2>3 DEF FrameAt, SameBelow
<1>4. ASSUME NEW i \in 1 .. k - 1
      PROVE  \E m \in Outer(n) : ast[m].lvl = i - 1
  <2>1. i \in 1 .. k /\ i - 1 < ast[n].lvl
    BY <1>1
  <2>2. PICK m \in LiveClauses(n) : ast[m].lvl = i - 1
    BY <2>1 DEF Framed
  <2> QED
    BY <2>1, <2>2 DEF Outer
<1> QED
  BY <1>2, <1>3, <1>4, SameFrames

\* A clause: the top frame goes on.
LEMMA FramedClause ==
  ASSUME Nested, NEW n \in 1 .. Len(ast), ast[n].k \in Clauses,
         NEW bs, NEW cs, NEW fs, NEW gs, Len(fs) = Depth(n), Framed(n, bs, fs),
         Len(gs) = Len(fs), SameBelow(fs, gs),
         Keeps(bs, cs, PendingIn(Outer(n), fs)), FrameOf(cs, gs[Len(fs)], n)
  PROVE  /\ Framed(n + 1, cs, gs)
         /\ Pending(n + 1, gs) = PendingIn(Outer(n), fs) \cup PendingOf(gs[Len(fs)], n)
<1> DEFINE k == Len(fs)
<1>1. ast[n].k \in Markers
  BY DEF Markers
<1>2. ast[n].lvl \in Nat /\ k = ast[n].lvl + 1
  BY <1>1, DepthAt DEF Before
<1>3. LiveClauses(n + 1) = Outer(n) \cup {n}
  BY <1>1, ClausesNext DEF Outer
<1>4. /\ \A m \in Outer(n) : FrameOf(cs, FrameAt(gs, m), m)
      /\ PendingIn(Outer(n), gs) = PendingIn(Outer(n), fs)
      /\ \A i \in 1 .. k - 1 : \E m \in Outer(n) : ast[m].lvl = i - 1
  BY <1>1, OuterFrames
<1>5. FrameAt(gs, n) = gs[k]
  BY <1>2 DEF FrameAt
<1>6. \A i \in 1 .. k : i \in 1 .. k - 1 \/ (i = k /\ ast[n].lvl = i - 1)
  BY <1>2
<1>7. \A i \in 1 .. k : \E m \in LiveClauses(n + 1) : ast[m].lvl = i - 1
  BY <1>3, <1>4, <1>6
<1>8. Framed(n + 1, cs, gs)
  BY <1>3, <1>4, <1>5, <1>7 DEF Framed
<1>9. Pending(n + 1, gs) = PendingIn(Outer(n), fs) \cup PendingOf(gs[k], n)
  BY <1>3, <1>4, <1>5 DEF Pending, PendingIn
<1> QED
  BY <1>8, <1>9

\* An end: the top frame is gone.
LEMMA FramedPop ==
  ASSUME Nested, NEW n \in 1 .. Len(ast), ast[n].k = "end",
         NEW bs, NEW cs, NEW fs, NEW gs, Len(fs) = Depth(n), Framed(n, bs, fs),
         Len(gs) = Len(fs) - 1, SameBelow(fs, gs),
         Keeps(bs, cs, PendingIn(Outer(n), fs))
  PROVE  /\ Framed(n + 1, cs, gs)
         /\ Pending(n + 1, gs) = PendingIn(Outer(n), fs)
<1>1. ast[n].k \in Markers /\ ast[n].k \notin Openers \cup Clauses
  BY DEF Markers, Openers, Loops, Clauses
<1>2. LiveClauses(n + 1) = Outer(n)
  BY <1>1, ClausesNext DEF Outer
<1>3. /\ \A m \in Outer(n) : FrameOf(cs, FrameAt(gs, m), m)
      /\ PendingIn(Outer(n), gs) = PendingIn(Outer(n), fs)
      /\ \A i \in 1 .. Len(fs) - 1 : \E m \in Outer(n) : ast[m].lvl = i - 1
  BY <1>1, OuterFrames, SMTT(40)
<1> QED
  BY <1>2, <1>3 DEF Framed, Pending

-------------------------------------------------------------------------------
(* The moves of the insertion point.                                       *)

\* A block is finished with a branch and another, placed now, comes next.
LEMMA EndedShaped ==
  ASSUME NEW bs, NEW P, NEW c, InShape(bs, P, c), NEW n, NEW b \in 1 .. Len(bs), NEW e \in P
  PROVE  LET cs == Place(BrIfOpen(bs, c, n, b), e)
         IN  /\ InShape(cs, P \ {e}, e) /\ ~HasTerminator(cs[e])
             /\ Keeps(bs, cs, P \ {e}) /\ Len(cs) = Len(bs)
<1> DEFINE ds == BrIfOpen(bs, c, n, b)
           cs == Place(ds, e)
<1>1. InShape(ds, P, c) /\ Keeps(bs, ds, P) /\ Len(ds) = Len(bs) /\ HasTerminator(ds[c])
  BY BranchShaped
<1> HIDE DEF ds
<1>2. /\ InShape(cs, P, c) /\ Keeps(ds, cs, (P \ {e}) \cup {c}) /\ Len(cs) = Len(ds)
      /\ cs[e].placed
  BY <1>1, PlaceShaped
<1> HIDE DEF cs
<1>3. HasTerminator(cs[c])
  BY <1>1, <1>2 DEF Keeps
<1>4. InShape(cs, P \ {e}, e) /\ ~HasTerminator(cs[e])
  BY <1>2, <1>3, MoveShaped
<1>5. Keeps(bs, cs, P \ {e})
  BY <1>1, <1>2, KeepsAll
<1> QED
  BY <1>1, <1>2, <1>4, <1>5 DEF cs, ds

\* A clause with a condition: the then block comes next, and if another
\* clause follows, the block that the condition falls through to waits.
LEMMA ClauseShaped ==
  ASSUME NEW bs, NEW P, NEW c, InShape(bs, P, c), ~HasTerminator(bs[c]),
         NEW merge \in 1 .. Len(bs), NEW nv
  PROVE  LET cs   == ClauseBlocks(bs, c, merge, nv)
             next == NextBlock(bs, merge)
         IN  /\ InShape(cs, P \cup (IF IsLastClause(cgPc) THEN {} ELSE {next}), ThenBlock(bs))
             /\ ~HasTerminator(cs[ThenBlock(bs)])
             /\ Keeps(bs, cs, P)
             /\ IsLastClause(cgPc) => next = merge
             /\ ~IsLastClause(cgPc) => Fresh(cs, next, FALSE) /\ next # merge
<1> DEFINE k == Len(bs)
           then == NewBlock("then", TRUE)
           next == NewBlock("elif_fallthrough", FALSE)
           more == IF IsLastClause(cgPc) THEN <<>> ELSE <<next>>
           x == CondBr(cgPc, Address(nv, Here.cd), ThenBlock(bs), NextBlock(bs, merge))
           ds == bs \o <<then>> \o more
           ps == Append(bs, then)
           qs == Append(ps, next)
           Q == P \cup {k + 1} \cup (IF IsLastClause(cgPc) THEN {} ELSE {k + 2})
           cs == Emit(ds, c, x)
<1>1. /\ InShape(ps, P \cup {k + 1}, c) /\ Keeps(bs, ps, P \cup {c})
      /\ Len(ps) = k + 1 /\ k \in Nat /\ Fresh(ps, k + 1, TRUE)
  BY NewShaped
<1>2. /\ InShape(qs, (P \cup {k + 1}) \cup {(k + 1) + 1}, c) /\ Keeps(ps, qs, (P \cup {k + 1}) \cup {c})
      /\ Len(qs) = (k + 1) + 1 /\ Fresh(qs, (k + 1) + 1, FALSE)
  <2> HIDE DEF ps
  <2> QED
    BY <1>1, NewShaped
<1>3. ds = IF IsLastClause(cgPc) THEN ps ELSE qs
  <2>1. bs \o <<then>> = ps /\ ps \o <<next>> = qs /\ ps \o <<>> = ps
    <3> HIDE DEF then, next
    <3>1. bs \o <<then>> = ps
      BY ConcatIs DEF InShape
    <3> HIDE DEF ps
    <3>2. IsSeq(ps)
      BY <1>1 DEF InShape
    <3>3. ps \o <<next>> = qs /\ ps \o <<>> = ps
      BY <3>2, ConcatIs, ConcatEmptySeq DEF IsSeq
    <3> QED
      BY <3>1, <3>3
  <2> QED
    BY <2>1
<1> HIDE DEF ps, qs, then, next
<1>4. /\ InShape(ds, Q, c) /\ Keeps(bs, ds, P \cup {c}) /\ Fresh(ds, k + 1, TRUE)
      /\ Len(ds) = IF IsLastClause(cgPc) THEN k + 1 ELSE k + 2
      /\ ~IsLastClause(cgPc) => Fresh(ds, k + 2, FALSE)
  <2>1. CASE IsLastClause(cgPc)
    <3>1. Q = P \cup {k + 1}
      BY <2>1
    <3> HIDE DEF Q, ds, k
    <3> QED
      BY <1>1, <1>3, <2>1, <3>1
  <2>2. CASE ~IsLastClause(cgPc)
    <3>1. (k + 1) + 1 = k + 2
      BY <1>1
    <3>2. Q = (P \cup {k + 1}) \cup {(k + 1) + 1}
      BY <2>2, <3>1
    <3>3. Keeps(bs, qs, P \cup {c})
      BY <1>1, <1>2, KeepsAll
    <3> HIDE DEF Q, ds, k
    <3>4. Fresh(qs, k + 1, TRUE)
      <4>1. k + 1 \in (P \cup {k + 1}) \cup {c}
        OBVIOUS
      <4> QED
        BY <1>1, <1>2, <4>1, FreshStill
    <3> QED
      BY <1>2, <1>3, <2>2, <3>1, <3>2, <3>3, <3>4
  <2> QED
    BY <2>1, <2>2
<1> HIDE DEF ds
<1>5. /\ ClauseBlocks(bs, c, merge, nv) = cs
      /\ ThenBlock(bs) = k + 1
      /\ NextBlock(bs, merge) = IF IsLastClause(cgPc) THEN merge ELSE k + 2
  BY DEF ClauseBlocks, ThenBlock, NextBlock, ds, then, next
<1>6. k + 1 \notin P /\ k + 2 \notin P \cup {k + 1} /\ merge # k + 2 /\ c # k + 1
      /\ P \subseteq 1 .. k /\ c \in 1 .. k
  BY <1>1 DEF InShape
<1>7. GoesWithin(ds, x) /\ x.op \in Terminators
  <2>1. ThenBlock(bs) \in 1 .. Len(ds) /\ NextBlock(bs, merge) \in 1 .. Len(ds)
    BY <1>1, <1>4, <1>5
  <2>2. x.to = <<ThenBlock(bs), NextBlock(bs, merge)>> /\ x.op = "condbr"
    BY DEF CondBr, Instruction
  <2>3. DOMAIN x.to = {1, 2}
    BY <2>2
  <2> QED
    BY <2>1, <2>2, <2>3 DEF GoesWithin, Terminators
<1>8. ~HasTerminator(ds[c])
  BY <1>4 DEF Keeps
<1> HIDE DEF x, Q
<1>9. InShape(cs, Q, c) /\ Keeps(ds, cs, Q) /\ Len(cs) = Len(ds) /\ HasTerminator(cs[c])
  BY <1>4, <1>7, <1>8, EmitShaped
<1> HIDE DEF cs
<1>10. k + 1 \in Q /\ P \subseteq Q /\ (~IsLastClause(cgPc) => k + 2 \in Q)
  BY DEF Q
<1>11. Fresh(cs, k + 1, TRUE) /\ (~IsLastClause(cgPc) => Fresh(cs, k + 2, FALSE))
  BY <1>4, <1>9, <1>10, FreshStill
<1>12. InShape(cs, Q \ {k + 1}, k + 1) /\ ~HasTerminator(cs[k + 1])
  BY <1>9, <1>10, <1>11, MoveShaped DEF Fresh
<1>13. Q \ {k + 1} = P \cup (IF IsLastClause(cgPc) THEN {} ELSE {k + 2})
  BY <1>6 DEF Q
<1>14. Keeps(bs, cs, P)
  BY <1>4, <1>9, <1>10, KeepsAll
<1> HIDE DEF k
<1> QED
  BY <1>5, <1>6, <1>11, <1>12, <1>13, <1>14

-------------------------------------------------------------------------------
(* The invariant of the blocks' shape.                                     *)

\* While the walk is at n: the blocks that the frames wait for are empty, all
\* others are finished but for the insertion point, and that one is too only
\* right after a jump.
Form(n, bs, c, fs) ==
  /\ Framed(n, bs, fs)
  /\ InShape(bs, Pending(n, fs), c)
  /\ HasTerminator(bs[c]) => n > 1 /\ ast[n - 1].k \in Jumps

FormInv ==
  /\ CgInv
  /\ phase # "parse" => nest = <<>>
  /\ phase = "codegen" /\ blocks # <<>> /\ NoneAfterJump => Form(cgPc, blocks, cur, frames)
  /\ MalformedOnlyAfterJump

LEMMA SameBlocks ==
  ASSUME ast' = ast
  PROVE  /\ \A n : BlockEnd(n)' = BlockEnd(n) /\ BodyEnd(n)' = BodyEnd(n)
                 /\ LiveClauses(n)' = LiveClauses(n)
         /\ \A n : IsLastClause(n)' <=> IsLastClause(n)
         /\ \A fs, m : FrameAt(fs, m)' = FrameAt(fs, m)
         /\ \A n, bs, fs : Framed(n, bs, fs)' <=> Framed(n, bs, fs)
         /\ \A n, fs : Pending(n, fs)' = Pending(n, fs)
<1>1. \A n : BlockEnd(n)' = BlockEnd(n) /\ BodyEnd(n)' = BodyEnd(n) /\ LiveClauses(n)' = LiveClauses(n)
  BY DEF BlockEnd, BodyEnd, LiveClauses, Live
<1>2. \A n : IsLastClause(n)' <=> IsLastClause(n)
  BY <1>1 DEF IsLastClause
<1>3. \A fs, m : FrameAt(fs, m)' = FrameAt(fs, m)
  BY DEF FrameAt
<1>4. \A f, m : PendingOf(f, m)' = PendingOf(f, m)
  BY DEF PendingOf
<1>5. \A bs, f, m : FrameOf(bs, f, m)' <=> FrameOf(bs, f, m)
  BY <1>2, <1>4 DEF FrameOf
<1>6. \A n, bs, fs : Framed(n, bs, fs)' <=> Framed(n, bs, fs)
  BY <1>1, <1>3, <1>5 DEF Framed
<1>7. \A n, fs : Pending(n, fs)' = Pending(n, fs)
  BY <1>1, <1>3, <1>4 DEF Pending, PendingIn
<1> QED
  BY <1>1, <1>2, <1>3, <1>6, <1>7

LEMMA SameForm ==
  ASSUME ast' = ast
  PROVE  /\ NoneAfterJump' <=> NoneAfterJump
         /\ \A n, bs, c, fs : Form(n, bs, c, fs)' <=> Form(n, bs, c, fs)
<1>1. \A n : AfterJump(n)' <=> AfterJump(n)
  BY SameBlocks DEF AfterJump, After
<1>2. \A n, bs, c, fs : Form(n, bs, c, fs)' <=> Form(n, bs, c, fs)
  BY SameBlocks DEF Form
<1>3. NoneAfterJump' <=> NoneAfterJump
  BY <1>1 DEF NoneAfterJump
<1> QED
  BY <1>2, <1>3

\* A step of the walk, or one that ends it.
LEMMA GoOnForm ==
  ASSUME FormInv, CgInv', phase = "codegen", UNCHANGED tcVars,
         NoneAfterJump => Form(cgPc', blocks', cur', frames')
  PROVE  FormInv'
<1>1. phase' = phase /\ ast' = ast /\ nest' = nest
  BY DEF tcVars
<1>2. NoneAfterJump' => Form(cgPc, blocks, cur, frames)'
  BY <1>1, SameForm
<1>3. MalformedOnlyAfterJump'
  BY <1>1 DEF MalformedOnlyAfterJump
<1>4. nest' = <<>>
  BY <1>1 DEF FormInv
<1> QED
  BY <1>2, <1>3, <1>4 DEF FormInv

LEMMA LeaveForm ==
  ASSUME FormInv, CgInv', phase = "codegen", phase' # "codegen",
         UNCHANGED <<ast, nest>>, phase' = "malformed" => ~NoneAfterJump
  PROVE  FormInv'
<1>1. MalformedOnlyAfterJump'
  BY SameForm DEF MalformedOnlyAfterJump, NoneAfterJump
<1>2. nest' = <<>>
  BY DEF FormInv
<1> QED
  BY <1>1, <1>2 DEF FormInv

\* Where the walk stands at a node.
LEMMA AtForm ==
  ASSUME FormInv, NoneAfterJump, NEW kinds, CgAt(kinds)
  PROVE  /\ Nested /\ FinalsEnd(ast) /\ cgPc \in 1 .. Len(ast) /\ ast[cgPc].k \in kinds
         /\ IsSeq(frames) /\ Len(frames) = Depth(cgPc)
         /\ Framed(cgPc, blocks, frames)
         /\ InShape(blocks, Pending(cgPc, frames), cur)
         /\ Keeps(blocks, blocks, Pending(cgPc, frames)) /\ Len(blocks) \in Nat
         /\ ast[cgPc].k \notin Markers => ~HasTerminator(blocks[cur])
<1>1. /\ Nested /\ FinalsEnd(ast) /\ cgPc \in 1 .. Len(ast) /\ ast[cgPc].k \in kinds
      /\ FramesMatch(cgPc, blocks, frames) /\ Len(blocks) \in Nat
  BY AtCg DEF FormInv
<1>2. Form(cgPc, blocks, cur, frames)
  BY DEF FormInv, CgAt
<1>3. Framed(cgPc, blocks, frames) /\ InShape(blocks, Pending(cgPc, frames), cur)
  BY <1>2 DEF Form
<1>4. IsSeq(frames) /\ Len(frames) = Depth(cgPc)
  BY <1>1 DEF FramesMatch
<1>5. ASSUME HasTerminator(blocks[cur])
      PROVE  ast[cgPc].k \in Markers
  BY <1>1, <1>2, <1>5, JumpEnds DEF Form
<1>6. Keeps(blocks, blocks, Pending(cgPc, frames))
  BY <1>1, <1>3 DEF Keeps, InShape
<1> QED
  BY <1>1, <1>3, <1>4, <1>5, <1>6

-------------------------------------------------------------------------------
(* The statements without blocks keep the shape.                           *)

\* Where no block is open but the procedure's, no frame waits.
LEMMA NoClauses ==
  ASSUME Nested, NEW n \in 1 .. Len(ast) + 1, Depth(n) = 0
  PROVE  LiveClauses(n) = {}
<1>1. Len(ast) \in Nat
  BY NodesTyped
<1>2. CASE n \in 1 .. Len(ast)
  <2>1. \A m \in LiveClauses(n) : ast[m].lvl \in Nat /\ ast[m].lvl < 0
    BY <1>2, ClauseBelow
  <2> QED
    BY <2>1
<1>3. CASE n = 1
  BY <1>3 DEF LiveClauses, Live
<1>4. CASE n = Len(ast) + 1 /\ n # 1
  <2> DEFINE p == Len(ast)
  <2>1. p \in 1 .. Len(ast)
    BY <1>1, <1>4
  <2>2. ast[p].lvl \in Nat /\ Depth(p) = Before(ast[p]) /\ Behind(ast[p]) = 0
    BY <1>4, <2>1, DepthAt
  <2>3. ast[p].k \notin Openers \cup Clauses /\ ast[p].lvl = 0
    BY <2>2 DEF Behind
  <2>4. ast[p].k \notin Markers => Depth(p) = 0
    BY <2>2, <2>3 DEF Before
  <2>5. \A m \in LiveClauses(p) : ast[m].lvl \in Nat /\ ast[m].lvl < Depth(p)
    BY <2>1, ClauseBelow
  <2>6. LiveClauses(n) = {m \in LiveClauses(p) : ast[p].k \in Markers => ast[m].lvl < ast[p].lvl}
    BY <1>4, <2>1, <2>3, ClausesNext
  <2> QED
    BY <2>3, <2>4, <2>5, <2>6
<1> QED
  BY <1>1, <1>2, <1>3, <1>4

LEMMA EntryForm ==
  ASSUME FormInv, CgEntry
  PROVE  Form(cgPc', blocks', cur', frames')
<1> DEFINE x == NewBlock("entry", TRUE)
           bs == <<x>>
<1>1. /\ blocks = <<>> /\ blocks' = bs /\ cur' = 1 /\ cgPc' = cgPc /\ frames' = frames
      /\ phase = "codegen"
  BY DEF CgEntry
<1>2. Nested /\ FramesMatch(cgPc, blocks, frames) /\ cgPc \in 1 .. Len(ast) + 1
  BY <1>1 DEF FormInv, CgInv, BreakInv, WalkInv, Walk
<1>3. Len(frames) = 0
  <2>1. \A j \in 1 .. Len(frames) : frames[j].next \in 1 .. Len(blocks)
    BY <1>2 DEF FramesMatch
  <2>2. Len(blocks) = 0 /\ Len(frames) \in Nat
    BY <1>1, <1>2, AppendSeq DEF FramesMatch
  <2>3. \A j \in 1 .. Len(frames) : FALSE
    BY <2>1, <2>2
  <2> QED
    BY <2>2, <2>3
<1>4. LiveClauses(cgPc) = {}
  BY <1>2, <1>3, NoClauses DEF FramesMatch
<1>5. Framed(cgPc, bs, frames) /\ Pending(cgPc, frames) = {}
  BY <1>3, <1>4 DEF Framed, Pending, PendingIn
<1>6. /\ <<>> \in Seq({}) /\ {"node", "placed", "ins"} \subseteq DOMAIN x
      /\ x.placed /\ x.ins = <<>>
  BY DEF NewBlock
<1> HIDE DEF x
<1>7. IsBlock(x) /\ Straight(x) /\ StaysWithin(bs, x) /\ ~HasTerminator(x)
  BY <1>6 DEF IsBlock, IsSeq, Straight, StaysWithin, HasTerminator
<1>8. IsSeq(bs) /\ Len(bs) = 1 /\ bs[1] = x
  <2>1. bs \in Seq({x})
    OBVIOUS
  <2> QED
    BY <2>1 DEF IsSeq
<1> HIDE DEF bs
<1>9. InShape(bs, {}, 1)
  <2>1. \A b \in 1 .. Len(bs) : b = 1
    BY <1>8
  <2>2. 1 \in 1 .. Len(bs)
    BY <1>8
  <2> QED
    BY <1>6, <1>7, <1>8, <2>1, <2>2 DEF InShape
<1> QED
  BY <1>1, <1>5, <1>7, <1>8, <1>9 DEF Form

\* The statements that emit nothing, or one instruction.
LEMMA PlainForm ==
  ASSUME FormInv, NoneAfterJump, NEW kinds, CgAt(kinds), kinds \cap (Openers \cup Markers) = {},
         NEW ok, NEW cs, NEW nv, Proceed(ok, cs, cur, nv), frames' = frames,
         \/ cs = blocks
         \/ \E x : /\ cs = Emit(blocks, cur, x) /\ GoesWithin(blocks, x)
                   /\ x.op \in Terminators => kinds \subseteq Jumps
  PROVE  Form(cgPc', blocks', cur', frames')
<1> DEFINE P == Pending(cgPc, frames)
<1>1. cgPc' = cgPc + 1 /\ blocks' = cs /\ cur' = cur /\ frames' = frames
  BY DEF Proceed
<1>2. ast[cgPc].k \in kinds /\ ast[cgPc].k \notin Openers \cup Markers
  BY AtForm
<1>3. /\ Nested /\ cgPc \in 1 .. Len(ast) /\ Framed(cgPc, blocks, frames)
      /\ InShape(blocks, P, cur) /\ ~HasTerminator(blocks[cur]) /\ Keeps(blocks, blocks, P)
  BY <1>2, AtForm
<1>4. /\ InShape(cs, P, cur) /\ Keeps(blocks, cs, P)
      /\ HasTerminator(cs[cur]) => ast[cgPc].k \in Jumps
  <2>1. CASE cs = blocks
    BY <1>3, <2>1
  <2>2. CASE cs # blocks
    <3>1. PICK x : /\ cs = Emit(blocks, cur, x) /\ GoesWithin(blocks, x)
                   /\ x.op \in Terminators => kinds \subseteq Jumps
      BY <2>2
    <3> HIDE DEF P
    <3> QED
      BY <1>2, <1>3, <3>1, EmitShaped
  <2> QED
    BY <2>1, <2>2
<1>5. Framed(cgPc + 1, cs, frames) /\ Pending(cgPc + 1, frames) = P
  BY <1>2, <1>3, <1>4, FramedOn
<1>6. cgPc + 1 > 1 /\ (cgPc + 1) - 1 = cgPc
  BY <1>3, NodesTyped
<1> QED
  BY <1>1, <1>4, <1>5, <1>6 DEF Form

LEMMA NoTarget ==
  /\ \A bs, n, role, id, rd : GoesWithin(bs, Effect(n, role, id, rd))
                              /\ Effect(n, role, id, rd).op \notin Terminators
  /\ \A bs, n, a : GoesWithin(bs, Ret(n, a)) /\ Ret(n, a).op \in Terminators
BY DEF GoesWithin, Effect, Ret, Instruction, Terminators

LEMMA StatementsForm ==
  ASSUME FormInv, NoneAfterJump,
         \/ CgParam \/ CgDeclaration \/ CgVarInit \/ CgAssignment
         \/ CgExpression \/ CgReturn \/ CgBreak
  PROVE  phase' = "failed" \/ Form(cgPc', blocks', cur', frames')
<1> USE DEF Openers, Loops, Markers, Clauses
<1>1. CASE CgParam
  BY <1>1, NoTarget, PlainForm DEF CgParam
<1>2. CASE CgDeclaration
  BY <1>2, PlainForm DEF CgDeclaration
<1>3. CASE CgVarInit
  BY <1>3, NoTarget, PlainForm DEF CgVarInit, Initialised, Fail
<1>4. CASE CgAssignment
  BY <1>4, NoTarget, PlainForm DEF CgAssignment, Assigned, Fail
<1>5. CASE CgExpression
  BY <1>5, NoTarget, PlainForm DEF CgExpression, Fail
<1>6. CASE CgReturn
  BY <1>6, NoTarget, PlainForm DEF CgReturn, Fail, Jumps
<1>7. CASE CgBreak
  <2> DEFINE x == Br(cgPc, BreakBlock(loop_end_blocks))
  <2>1. CgAt({"break"})
    BY <1>7 DEF CgBreak
  <2>2. loop_end_blocks # <<>> => GoesWithin(blocks, x)
    <3> SUFFICES ASSUME loop_end_blocks # <<>> PROVE GoesWithin(blocks, x)
      OBVIOUS
    <3>1. EndsMatch(cgPc, blocks, loop_end_blocks)
      BY <2>1, AtCg DEF FormInv
    <3>2. BreakBlock(loop_end_blocks) \in 1 .. Len(blocks)
      <4>1. Len(loop_end_blocks) \in 1 .. Len(loop_end_blocks)
        BY <3>1, FrontSeq DEF EndsMatch
      <4> QED
        BY <3>1, <4>1 DEF EndsMatch, AfterLoop, BreakBlock
    <3> QED
      BY <3>2 DEF GoesWithin, Br, Instruction
  <2>3. \/ phase' = "failed"
        \/ /\ Proceed(loop_end_blocks # <<>>, Emit(blocks, cur, x), cur, named_values)
           /\ frames' = frames
    BY <1>7 DEF CgBreak, Fail
  <2> HIDE DEF x
  <2> QED
    BY <2>1, <2>2, <2>3, PlainForm DEF Proceed, Jumps
<1> QED
  BY <1>1, <1>2, <1>3, <1>4, <1>5, <1>6, <1>7

-------------------------------------------------------------------------------
(* The if trees keep the shape.                                            *)

LEMMA IfForm ==
  ASSUME FormInv, NoneAfterJump, CgIf
  PROVE  phase' = "failed" \/ Form(cgPc', blocks', cur', frames')
<1> DEFINE P == Pending(cgPc, frames)
           merge == Len(blocks) + 1
           bs == Append(blocks, NewBlock("if_merge", FALSE))
           next == NextBlock(bs, merge)
           cs == ClauseBlocks(bs, cur, merge, named_values)
           f == Frame(named_values, NoNames, 0, next, merge)
           gs == Append(frames, f)
           more == IF IsLastClause(cgPc) THEN {} ELSE {next}
<1> SUFFICES ASSUME phase' # "failed" PROVE Form(cgPc', blocks', cur', frames')
  OBVIOUS
<1>1. /\ CgAt({"if"}) /\ cgPc' = cgPc + 1 /\ blocks' = cs /\ cur' = ThenBlock(bs) /\ frames' = gs
  BY DEF CgIf, Proceed, Fail
<1>2. /\ Nested /\ cgPc \in 1 .. Len(ast) /\ ast[cgPc].k = "if"
      /\ IsSeq(frames) /\ Len(frames) = Depth(cgPc) /\ Framed(cgPc, blocks, frames)
      /\ InShape(blocks, P, cur) /\ ~HasTerminator(blocks[cur])
  <2>1. ast[cgPc].k = "if"
    BY <1>1, AtForm
  <2> QED
    BY <1>1, <2>1, AtForm DEF Markers, Clauses
<1> HIDE DEF P
<1>3. /\ InShape(bs, P \cup {merge}, cur) /\ Keeps(blocks, bs, P \cup {cur})
      /\ Fresh(bs, merge, FALSE)
  BY <1>2, NewShaped
<1> HIDE DEF bs, merge
<1>4. ~HasTerminator(bs[cur]) /\ merge \in 1 .. Len(bs)
  BY <1>2, <1>3 DEF Keeps, Fresh
<1>5. /\ InShape(cs, (P \cup {merge}) \cup more, ThenBlock(bs))
      /\ ~HasTerminator(cs[ThenBlock(bs)])
      /\ Keeps(bs, cs, P \cup {merge})
      /\ IsLastClause(cgPc) => next = merge
      /\ ~IsLastClause(cgPc) => Fresh(cs, next, FALSE) /\ next # merge
  BY <1>3, <1>4, ClauseShaped
<1> HIDE DEF cs, next
<1>6. Fresh(cs, merge, FALSE)
  <2>1. merge \in P \cup {merge}
    OBVIOUS
  <2> QED
    BY <1>3, <1>5, <2>1, FreshStill
<1>7. f.end = merge /\ f.next = next
  BY FrameFields
<1> HIDE DEF f
<1>8. PendingOf(f, cgPc) = {merge} \cup {next} /\ (P \cup {merge}) \cup more = P \cup PendingOf(f, cgPc)
  BY <1>2, <1>5, <1>7 DEF PendingOf
<1>9. FrameOf(cs, f, cgPc)
  BY <1>2, <1>5, <1>6, <1>7, <1>8 DEF FrameOf, Fresh, Loops
<1>10. Keeps(blocks, cs, P)
  BY <1>3, <1>5, KeepsAll
<1>11. Framed(cgPc + 1, cs, gs) /\ Pending(cgPc + 1, gs) = P \cup PendingOf(f, cgPc)
  BY <1>2, <1>9, <1>10, FramedPush DEF P, Openers
<1> HIDE DEF gs
<1>12. InShape(cs, Pending(cgPc + 1, gs), ThenBlock(bs))
  BY <1>5, <1>8, <1>11
<1> QED
  BY <1>1, <1>5, <1>11, <1>12 DEF Form

\* What the clauses and ends find: the frame of their statement, on top.
LEMMA AtMarker ==
  ASSUME FormInv, NoneAfterJump, NEW kinds, CgAt(kinds), kinds \subseteq Markers
  PROVE  /\ Len(frames) \in Nat \ {0} /\ frames # <<>>
         /\ \E t \in LiveClauses(cgPc) :
              /\ ast[t].lvl = ast[cgPc].lvl /\ FrameOf(blocks, Top, t)
              /\ IsLastClause(t) <=> ast[cgPc].k = "end"
              /\ ast[cgPc].k # "end" => ast[t].k \in {"if", "elif"}
              /\ Pending(cgPc, frames) = PendingIn(Outer(cgPc), frames) \cup PendingOf(Top, t)
              /\ \A b \in PendingIn(Outer(cgPc), frames) : b \notin PendingOf(Top, t)
              /\ ast[t].k \in Loops \/ ast[Top.node].k \in Loops => Top.node = t
<1>1. /\ Nested /\ FinalsEnd(ast) /\ cgPc \in 1 .. Len(ast) /\ ast[cgPc].k \in Markers
      /\ IsSeq(frames) /\ Len(frames) = Depth(cgPc)
      /\ Framed(cgPc, blocks, frames)
  BY AtForm
<1>2. FramesMatch(cgPc, blocks, frames)
  BY AtCg DEF FormInv
<1>3. Top = frames[Len(frames)]
  BY DEF Top
<1>4. /\ Len(frames) \in Nat \ {0} /\ frames # <<>> /\ ast[cgPc].lvl = Len(frames) - 1
      /\ \E t \in LiveClauses(cgPc) :
              /\ ast[t].lvl = ast[cgPc].lvl /\ FrameAt(frames, t) = Top
              /\ FrameOf(blocks, Top, t)
              /\ IsLastClause(t) <=> ast[cgPc].k = "end"
              /\ ast[cgPc].k # "end" => ast[t].k \in {"if", "elif"}
              /\ Pending(cgPc, frames) = PendingIn(Outer(cgPc), frames) \cup PendingOf(Top, t)
              /\ \A b \in PendingIn(Outer(cgPc), frames) : b \notin PendingOf(Top, t)
  BY <1>1, TopClause, Zenon DEF Top
<1>5. ASSUME NEW t \in LiveClauses(cgPc), ast[t].lvl = ast[cgPc].lvl, FrameAt(frames, t) = Top,
             ast[t].k \in Loops \/ ast[Top.node].k \in Loops
      PROVE  Top.node = t
  <2>1. CASE ast[t].k \in Loops
    <3>1. t \in LiveLoops(cgPc)
      BY <2>1 DEF LiveClauses, LiveLoops, Live
    <3> QED
      BY <1>2, <1>5, <3>1 DEF FramesMatch, FrameAt
  <2>2. CASE ast[Top.node].k \in Loops
    <3>1. Len(frames) \in 1 .. Len(frames)
      BY <1>4
    <3>2. Top.node \in LiveLoops(cgPc) /\ ast[Top.node].lvl = Len(frames) - 1
      BY <1>2, <1>3, <2>2, <3>1 DEF FramesMatch
    <3>3. Top.node \in LiveClauses(cgPc)
      BY <3>2 DEF LiveClauses, LiveLoops, Live, Openers
    <3>4. ast[Top.node].lvl = ast[t].lvl
      BY <1>4, <1>5, <3>2
    <3> QED
      BY <1>1, <3>3, <3>4, OneClauseEach
  <2> QED
    BY <1>5, <2>1, <2>2
<1> QED
  BY <1>4, <1>5, Zenon

\* The clause before is finished, and the one that follows is entered.
LEMMA ClauseEndedForm ==
  ASSUME FormInv, NoneAfterJump, NEW kinds, CgAt(kinds), kinds \subseteq Clauses
  PROVE  LET O == PendingIn(Outer(cgPc), frames)
         IN  /\ InShape(ClauseEnded, O \cup {Top.end}, Top.next)
             /\ ~HasTerminator(ClauseEnded[Top.next])
             /\ Keeps(blocks, ClauseEnded, O \cup {Top.end})
             /\ ast[ClauseEnded[Top.end].node].lvl = ast[cgPc].lvl
             /\ ~ClauseEnded[Top.end].placed
<1> DEFINE O == PendingIn(Outer(cgPc), frames)
           P == Pending(cgPc, frames)
           cs == Place(BrIfOpen(blocks, cur, Top.node, Top.end), Top.next)
<1>1. ast[cgPc].k \in Clauses /\ ast[cgPc].k # "end" /\ InShape(blocks, P, cur)
  BY AtForm DEF Clauses
<1>2. kinds \subseteq Markers
  BY DEF Markers
<1>3. PICK t \in LiveClauses(cgPc) :
        /\ ast[t].lvl = ast[cgPc].lvl /\ FrameOf(blocks, Top, t)
        /\ IsLastClause(t) <=> ast[cgPc].k = "end"
        /\ ast[cgPc].k # "end" => ast[t].k \in {"if", "elif"}
        /\ P = O \cup PendingOf(Top, t)
        /\ \A b \in O : b \notin PendingOf(Top, t)
  BY <1>2, AtMarker
<1>4. ast[t].k \in {"if", "elif"} /\ ~IsLastClause(t)
  BY <1>1, <1>3
<1>5. PendingOf(Top, t) = {Top.end, Top.next} /\ Top.next # Top.end
  BY <1>3, <1>4 DEF PendingOf, FrameOf
<1>6. P \ {Top.next} = O \cup {Top.end} /\ Top.next \in P /\ Top.end \in P
  BY <1>3, <1>5
<1> HIDE DEF P, O
<1>7. /\ Top.end \in 1 .. Len(blocks) /\ ast[blocks[Top.end].node].lvl = ast[cgPc].lvl
      /\ ~blocks[Top.end].placed
  BY <1>3, <1>4, <1>5 DEF FrameOf, Loops
<1>8. /\ InShape(cs, P \ {Top.next}, Top.next) /\ ~HasTerminator(cs[Top.next])
      /\ Keeps(blocks, cs, P \ {Top.next})
  BY <1>1, <1>6, <1>7, EndedShaped
<1>9. ClauseEnded = cs
  BY DEF ClauseEnded
<1> HIDE DEF cs
<1>10. cs[Top.end] = blocks[Top.end]
  BY <1>6, <1>8 DEF Keeps
<1> QED
  BY <1>6, <1>7, <1>8, <1>9, <1>10 DEF O

LEMMA ElifForm ==
  ASSUME FormInv, NoneAfterJump, CgElif
  PROVE  phase' = "failed" \/ Form(cgPc', blocks', cur', frames')
<1> DEFINE O == PendingIn(Outer(cgPc), frames)
           k == Len(frames)
           bs == ClauseEnded
           end == Top.end
           next == NextBlock(bs, end)
           cs == ClauseBlocks(bs, Top.next, end, Restored)
           f == [Top EXCEPT !.next = next]
           gs == [frames EXCEPT ![k].next = next]
           more == IF IsLastClause(cgPc) THEN {} ELSE {next}
<1> SUFFICES ASSUME phase' # "failed" PROVE Form(cgPc', blocks', cur', frames')
  OBVIOUS
<1>1. /\ CgAt({"elif"}) /\ cgPc' = cgPc + 1 /\ blocks' = cs /\ cur' = ThenBlock(bs) /\ frames' = gs
  BY DEF CgElif, Proceed, Fail
<1>2. {"elif"} \subseteq Clauses /\ {"elif"} \subseteq Markers
  BY DEF Clauses, Markers
<1>3. /\ Nested /\ cgPc \in 1 .. Len(ast) /\ ast[cgPc].k = "elif"
      /\ IsSeq(frames) /\ k = Depth(cgPc) /\ Framed(cgPc, blocks, frames)
  BY <1>1, AtForm
<1>4. /\ InShape(bs, O \cup {end}, Top.next) /\ ~HasTerminator(bs[Top.next])
      /\ Keeps(blocks, bs, O \cup {end})
      /\ ast[bs[end].node].lvl = ast[cgPc].lvl /\ ~bs[end].placed
  BY <1>1, <1>2, ClauseEndedForm
<1>5. k \in 1 .. k /\ k \in Nat /\ Top = frames[k] /\ {"next", "end"} \subseteq DOMAIN Top
  <2>1. k \in Nat \ {0}
    BY <1>1, <1>2, AtMarker
  <2>2. FramesMatch(cgPc, blocks, frames)
    BY <1>1, AtCg DEF FormInv
  <2> QED
    BY <2>1, <2>2 DEF FramesMatch, Top
<1> HIDE DEF bs, O
<1>6. end \in 1 .. Len(bs)
  BY <1>4 DEF InShape
<1>0. Top.end = end
  OBVIOUS
<1> HIDE DEF end
<1>7. /\ InShape(cs, (O \cup {end}) \cup more, ThenBlock(bs))
      /\ ~HasTerminator(cs[ThenBlock(bs)])
      /\ Keeps(bs, cs, O \cup {end})
      /\ IsLastClause(cgPc) => next = end
      /\ ~IsLastClause(cgPc) => Fresh(cs, next, FALSE) /\ next # end
  BY <1>4, <1>6, ClauseShaped
<1> HIDE DEF cs, next
<1>8. Len(gs) = k /\ gs[k] = f /\ \A i \in 1 .. k - 1 : gs[i] = frames[i]
  <2>1. gs = [frames EXCEPT ![k] = f]
    BY <1>5
  <2>2. \A i \in 1 .. k - 1 : i \in 1 .. k /\ i # k
    BY <1>5
  <2> HIDE DEF f
  <2>3. LET s == [frames EXCEPT ![k] = f]
        IN  /\ Len(s) = Len(frames) /\ s[k] = f
            /\ \A i \in 1 .. Len(frames) : i # k => s[i] = frames[i]
    BY <1>3, <1>5, SetSeq
  <2> HIDE DEF gs
  <2> QED
    BY <2>1, <2>2, <2>3
<1>9. f.end = end /\ f.next = next
  BY <1>5, <1>0
<1> HIDE DEF f, gs, k
<1>10. PendingOf(f, cgPc) = {end} \cup {next} /\ (O \cup {end}) \cup more = O \cup PendingOf(f, cgPc)
  BY <1>3, <1>7, <1>9 DEF PendingOf
<1>11. cs[end] = bs[end] /\ end \in 1 .. Len(cs)
  BY <1>6, <1>7 DEF Keeps
<1>12. FrameOf(cs, f, cgPc)
  BY <1>3, <1>4, <1>7, <1>9, <1>10, <1>11 DEF FrameOf, Fresh, Loops
<1>13. Keeps(blocks, cs, O)
  BY <1>4, <1>7, KeepsAll
<1>14. Framed(cgPc + 1, cs, gs) /\ Pending(cgPc + 1, gs) = O \cup PendingOf(f, cgPc)
  BY <1>3, <1>8, <1>12, <1>13, FramedClause, ZenonT(60) DEF O, Clauses, k, SameBelow
<1>15. InShape(cs, Pending(cgPc + 1, gs), ThenBlock(bs))
  BY <1>7, <1>10, <1>14
<1> QED
  BY <1>1, <1>7, <1>14, <1>15 DEF Form

LEMMA ElseForm ==
  ASSUME FormInv, NoneAfterJump, CgElse
  PROVE  Form(cgPc', blocks', cur', frames')
<1> DEFINE O == PendingIn(Outer(cgPc), frames)
           cs == ClauseEnded
<1>1. /\ CgAt({"else"}) /\ cgPc' = cgPc + 1 /\ blocks' = cs /\ cur' = Top.next
      /\ frames' = frames
  BY DEF CgElse, Proceed
<1>2. {"else"} \subseteq Clauses /\ {"else"} \subseteq Markers
  BY DEF Clauses, Markers
<1>3. /\ Nested /\ cgPc \in 1 .. Len(ast) /\ ast[cgPc].k = "else"
      /\ Len(frames) = Depth(cgPc) /\ Framed(cgPc, blocks, frames)
  BY <1>1, AtForm
<1>4. /\ InShape(cs, O \cup {Top.end}, Top.next) /\ ~HasTerminator(cs[Top.next])
      /\ Keeps(blocks, cs, O \cup {Top.end})
      /\ ast[cs[Top.end].node].lvl = ast[cgPc].lvl /\ ~cs[Top.end].placed
  BY <1>1, <1>2, ClauseEndedForm
<1> HIDE DEF cs, O
<1>5. PendingOf(Top, cgPc) = {Top.end} /\ Top.end \in 1 .. Len(cs)
  BY <1>3, <1>4 DEF PendingOf, InShape
<1>6. FrameOf(cs, Top, cgPc)
  BY <1>3, <1>4, <1>5 DEF FrameOf, Loops
<1>7. Keeps(blocks, cs, O)
  BY <1>4 DEF Keeps
<1>8. Framed(cgPc + 1, cs, frames) /\ Pending(cgPc + 1, frames) = O \cup {Top.end}
  BY <1>3, <1>5, <1>6, <1>7, FramedClause, ZenonT(60) DEF O, Clauses, Top, SameBelow
<1>9. InShape(cs, Pending(cgPc + 1, frames), Top.next)
  BY <1>4, <1>8
<1> QED
  BY <1>1, <1>4, <1>8, <1>9 DEF Form

\* The statement ends and its frame goes: the block after it comes next.
LEMMA CloseForm ==
  ASSUME FormInv, NoneAfterJump, CgAt({"end"}),
         cgPc' = cgPc + 1, cur' = Top.end, PopFrame,
         InShape(blocks', PendingIn(Outer(cgPc), frames), Top.end),
         ~HasTerminator(blocks'[Top.end]),
         Keeps(blocks, blocks', PendingIn(Outer(cgPc), frames))
  PROVE  Form(cgPc', blocks', cur', frames')
<1> DEFINE O == PendingIn(Outer(cgPc), frames)
           gs == SubSeq(frames, 1, Len(frames) - 1)
           cs == blocks'
<1>1. /\ Nested /\ cgPc \in 1 .. Len(ast) /\ ast[cgPc].k = "end"
      /\ IsSeq(frames) /\ Len(frames) = Depth(cgPc) /\ Framed(cgPc, blocks, frames)
  BY AtForm
<1>2. frames' = gs
  BY DEF PopFrame
<1>3. {"end"} \subseteq Markers
  BY DEF Markers
<1>4. Len(gs) = Len(frames) - 1 /\ \A i \in 1 .. Len(frames) - 1 : gs[i] = frames[i]
  BY <1>1, <1>3, AtMarker, FrontSeq
<1> HIDE DEF gs, cs
<1>5. InShape(cs, O, Top.end) /\ ~HasTerminator(cs[Top.end]) /\ Keeps(blocks, cs, O)
  BY DEF cs
<1>6. Framed(cgPc + 1, cs, gs) /\ Pending(cgPc + 1, gs) = O
  BY <1>1, <1>4, <1>5, FramedPop, SMTT(40) DEF SameBelow
<1> HIDE DEF O
<1>7. InShape(cs, Pending(cgPc + 1, gs), Top.end)
  BY <1>5, <1>6
<1>8. Form(cgPc + 1, cs, Top.end, gs)
  BY <1>5, <1>6, <1>7 DEF Form
<1> QED
  BY <1>2, <1>8 DEF cs

LEMMA EndIfForm ==
  ASSUME FormInv, NoneAfterJump, CgEndIf
  PROVE  Form(cgPc', blocks', cur', frames')
<1> DEFINE O == PendingIn(Outer(cgPc), frames)
           P == Pending(cgPc, frames)
           end == Top.end
           cs == Place(BrIfOpen(blocks, cur, Top.node, end), end)
<1>1. /\ CgAt({"end"}) /\ ast[Top.node].k = "if" /\ cgPc' = cgPc + 1 /\ blocks' = cs
      /\ cur' = end /\ PopFrame
  BY DEF CgEndIf, Proceed, IfEnded
<1>2. {"end"} \subseteq Markers
  BY DEF Markers
<1>3. Nested /\ cgPc \in 1 .. Len(ast) /\ ast[cgPc].k = "end" /\ InShape(blocks, P, cur)
  BY <1>1, AtForm
<1>4. PICK t \in LiveClauses(cgPc) :
        /\ FrameOf(blocks, Top, t) /\ (IsLastClause(t) <=> ast[cgPc].k = "end")
        /\ P = O \cup PendingOf(Top, t)
        /\ \A b \in O : b \notin PendingOf(Top, t)
        /\ ast[t].k \in Loops => Top.node = t
  BY <1>1, <1>2, AtMarker
<1>5. ast[t].k \in {"if", "elif", "else"} /\ IsLastClause(t)
  BY <1>1, <1>3, <1>4, ClauseBelow DEF Openers, Loops, Clauses
<1>6. PendingOf(Top, t) = {end}
  BY <1>4, <1>5 DEF PendingOf, FrameOf
<1>7. P \ {end} = O /\ end \in P /\ end \in 1 .. Len(blocks)
  BY <1>3, <1>4, <1>6 DEF InShape
<1> HIDE DEF P, O, end
<1>8. InShape(cs, P \ {end}, end) /\ ~HasTerminator(cs[end]) /\ Keeps(blocks, cs, P \ {end})
  BY <1>3, <1>7, EndedShaped
<1>9. InShape(cs, O, end) /\ Keeps(blocks, cs, O)
  BY <1>7, <1>8
<1> HIDE DEF cs
<1> QED
  BY <1>1, <1>8, <1>9, CloseForm DEF O, end

-------------------------------------------------------------------------------
(* The loops keep the shape.                                               *)

\* cs is bs with n blocks made at this node and placed.
MadeTogether(bs, P, c, cs, n) ==
  /\ InShape(cs, P \cup (Len(bs) + 1 .. Len(bs) + n), c)
  /\ Keeps(bs, cs, P \cup {c})
  /\ Len(cs) = Len(bs) + n
  /\ \A b \in Len(bs) + 1 .. Len(bs) + n : Fresh(cs, b, TRUE)

LEMMA MadeNone ==
  ASSUME NEW bs, NEW P, NEW c, InShape(bs, P, c)
  PROVE  MadeTogether(bs, P, c, bs, 0)
<1>1. Len(bs) \in Nat /\ P \cup {c} \subseteq 1 .. Len(bs)
  BY AppendSeq DEF InShape
<1>2. Len(bs) + 1 .. Len(bs) + 0 = {} /\ Len(bs) + 0 = Len(bs)
  BY <1>1
<1>3. Keeps(bs, bs, P \cup {c})
  BY <1>1 DEF Keeps
<1>4. InShape(bs, P \cup (Len(bs) + 1 .. Len(bs) + 0), c)
  <2>1. P \cup (Len(bs) + 1 .. Len(bs) + 0) = P
    BY <1>2
  <2> QED
    BY <2>1
<1> QED
  BY <1>2, <1>3, <1>4 DEF MadeTogether

LEMMA MadeMore ==
  ASSUME NEW bs, NEW P, NEW c, NEW cs, NEW n \in Nat, MadeTogether(bs, P, c, cs, n), NEW name,
         NEW m, m = n + 1
  PROVE  MadeTogether(bs, P, c, Append(cs, NewBlock(name, TRUE)), m)
<1> DEFINE k == Len(bs)
           Q == P \cup (k + 1 .. k + n)
           ds == Append(cs, NewBlock(name, TRUE))
<1>1. InShape(cs, Q, c) /\ Keeps(bs, cs, P \cup {c}) /\ Len(cs) = k + n /\ k \in Nat
      /\ \A b \in k + 1 .. k + n : Fresh(cs, b, TRUE)
  BY DEF MadeTogether, Keeps
<1>2. /\ InShape(ds, Q \cup {Len(cs) + 1}, c) /\ Keeps(cs, ds, Q \cup {c})
      /\ Len(ds) = Len(cs) + 1 /\ Fresh(ds, Len(cs) + 1, TRUE)
  BY <1>1, NewShaped
<1> HIDE DEF ds
<1>3. k + 1 .. k + (n + 1) = (k + 1 .. k + n) \cup {k + (n + 1)} /\ Len(cs) + 1 = k + (n + 1)
  BY <1>1
<1>4. Q \cup {Len(cs) + 1} = P \cup (k + 1 .. k + (n + 1))
  BY <1>3
<1>5. Keeps(bs, ds, P \cup {c})
  BY <1>1, <1>2, KeepsAll
<1>6. ASSUME NEW b \in k + 1 .. k + (n + 1)
      PROVE  Fresh(ds, b, TRUE)
  <2>1. CASE b = Len(cs) + 1
    BY <1>2, <2>1
  <2>2. CASE b \in k + 1 .. k + n
    <3>1. b \in Q \cup {c}
      BY <2>2
    <3> HIDE DEF Q
    <3> QED
      BY <1>1, <1>2, <2>2, <3>1, FreshStill
  <2> QED
    BY <1>3, <2>1, <2>2
<1>7. Len(ds) = k + (n + 1)
  BY <1>1, <1>2
<1>8. InShape(ds, P \cup (k + 1 .. k + (n + 1)), c)
  BY <1>2, <1>4
<1> QED
  BY <1>5, <1>6, <1>7, <1>8 DEF MadeTogether, ds

\* The blocks of a loop, made together.
LEMMA LoopMade ==
  ASSUME NEW bs, NEW P, NEW s, InShape(bs, P, s), NEW a, NEW b, NEW c, NEW d
  PROVE  /\ MadeTogether(bs, P, s, bs \o <<NewBlock(a, TRUE), NewBlock(b, TRUE), NewBlock(c, TRUE)>>, 3)
         /\ MadeTogether(bs, P, s, bs \o <<NewBlock(a, TRUE), NewBlock(b, TRUE), NewBlock(c, TRUE),
                                   NewBlock(d, TRUE)>>, 4)
<1> DEFINE x == NewBlock(a, TRUE)
           y == NewBlock(b, TRUE)
           z == NewBlock(c, TRUE)
           w == NewBlock(d, TRUE)
           p1 == Append(bs, x)
           p2 == Append(p1, y)
           p3 == Append(p2, z)
           p4 == Append(p3, w)
<1>1. bs \o <<x, y, z>> = p3 /\ bs \o <<x, y, z, w>> = p4
  <2>1. IsSeq(bs)
    BY DEF InShape
  <2> HIDE DEF x, y, z, w
  <2> QED
    BY <2>1, ConcatIs, SMTT(40)
<1>0. /\ 0 \in Nat /\ 1 \in Nat /\ 2 \in Nat /\ 3 \in Nat
      /\ 1 = 0 + 1 /\ 2 = 1 + 1 /\ 3 = 2 + 1 /\ 4 = 3 + 1
  OBVIOUS
<1>2. MadeTogether(bs, P, s, p1, 1)
  <2>1. MadeTogether(bs, P, s, bs, 0)
    BY MadeNone
  <2> QED
    BY <1>0, <2>1, MadeMore, Zenon
<1> HIDE DEF p1
<1>3. MadeTogether(bs, P, s, p2, 2)
  BY <1>0, <1>2, MadeMore, Zenon
<1> HIDE DEF p2
<1>4. MadeTogether(bs, P, s, p3, 3)
  BY <1>0, <1>3, MadeMore, Zenon
<1> HIDE DEF p3
<1>5. MadeTogether(bs, P, s, p4, 4)
  BY <1>0, <1>4, MadeMore, Zenon
<1> HIDE DEF p4
<1> QED
  BY <1>1, <1>4, <1>5

\* The branch into the condition, and the one from there into the body: the
\* body comes next, and the blocks after it wait.
LEMMA LoopShaped ==
  ASSUME NEW bs, NEW P, NEW c, InShape(bs, P, c), ~HasTerminator(bs[c]),
         NEW ds, NEW n \in {3, 4}, MadeTogether(bs, P, c, ds, n), NEW a
  PROVE  LET k  == Len(bs)
             cs == Emit(Emit(ds, c, Br(cgPc, k + 1)), k + 1, CondBr(cgPc, a, k + 2, k + n))
         IN  /\ InShape(cs, P \cup (k + 3 .. k + n), k + 2) /\ ~HasTerminator(cs[k + 2])
             /\ Keeps(bs, cs, P) /\ k \in Nat /\ k + 1 \in 1 .. Len(cs)
             /\ \A b \in k + 3 .. k + n : Fresh(cs, b, TRUE)
<1> DEFINE k == Len(bs)
           x == Br(cgPc, k + 1)
           y == CondBr(cgPc, a, k + 2, k + n)
           Q == P \cup (k + 1 .. k + n)
           R == P \cup (k + 3 .. k + n)
           es == Emit(ds, c, x)
           cs == Emit(es, k + 1, y)
<1>1. /\ InShape(ds, Q, c) /\ Keeps(bs, ds, P \cup {c}) /\ Len(ds) = k + n
      /\ \A b \in k + 1 .. k + n : Fresh(ds, b, TRUE)
  BY DEF MadeTogether
<1>2. P \subseteq 1 .. k /\ k \in Nat
  BY AppendSeq DEF InShape
<1>3. /\ k + 1 \in k + 1 .. k + n /\ k + 2 \in k + 1 .. k + n /\ k + n \in k + 1 .. k + n
      /\ k + 1 \in 1 .. k + n /\ k + 2 \in 1 .. k + n /\ k + n \in 1 .. k + n
  BY <1>2
<1>4. (Q \ {k + 1}) \ {k + 2} = R
  <2>1. \A b \in 1 .. k : b # k + 1 /\ b # k + 2
    BY <1>2
  <2>2. \A b : b \in k + 3 .. k + n <=> b \in k + 1 .. k + n /\ b # k + 1 /\ b # k + 2
    BY <1>2
  <2> QED
    BY <1>2, <2>1, <2>2
<1>5. k + 1 \in Q /\ k + 2 \in Q \ {k + 1} /\ R \subseteq Q \ {k + 1} /\ R \subseteq Q /\ P \subseteq R
      /\ k + 2 \in Q
  <2>1. k + 1 # k + 2
    BY <1>2
  <2>2. R \subseteq Q \ {k + 1}
    BY <1>4
  <2> QED
    BY <1>3, <2>1, <2>2
<1>6. ~HasTerminator(ds[c])
  BY <1>1 DEF Keeps
<1>7. GoesWithin(ds, x) /\ x.op \in Terminators
  BY <1>1, <1>3 DEF GoesWithin, Br, Instruction, Terminators
<1> HIDE DEF x, Q, R
<1>8. InShape(es, Q, c) /\ Keeps(ds, es, Q) /\ Len(es) = k + n /\ HasTerminator(es[c])
  BY <1>1, <1>6, <1>7, EmitShaped
<1> HIDE DEF es
<1>9. \A b \in k + 1 .. k + n : Fresh(es, b, TRUE)
  <2>1. \A b \in k + 1 .. k + n : b \in Q
    BY DEF Q
  <2> QED
    BY <1>1, <1>8, <2>1, FreshStill
<1>10. InShape(es, Q \ {k + 1}, k + 1) /\ ~HasTerminator(es[k + 1])
  <2>1. es[k + 1].placed
    BY <1>3, <1>9 DEF Fresh
  <2> QED
    BY <1>5, <1>8, <2>1, MoveShaped
<1>11. GoesWithin(es, y) /\ y.op \in Terminators
  <2>1. y.to = <<k + 2, k + n>> /\ y.op = "condbr"
    BY DEF CondBr, Instruction
  <2>2. DOMAIN y.to = {1, 2}
    BY <2>1
  <2> QED
    BY <1>3, <1>8, <2>1, <2>2 DEF GoesWithin, Terminators
<1> DEFINE S == Q \ {k + 1}
<1> HIDE DEF y, S
<1>12. InShape(cs, S, k + 1) /\ Keeps(es, cs, S) /\ Len(cs) = k + n /\ HasTerminator(cs[k + 1])
  BY <1>8, <1>10, <1>11, EmitShaped DEF S
<1> HIDE DEF cs
<1>13. k + 2 \in S /\ R \subseteq S
  BY <1>5 DEF S
<1>14. Fresh(cs, k + 2, TRUE) /\ \A b \in k + 3 .. k + n : Fresh(cs, b, TRUE)
  <2>1. \A b \in k + 3 .. k + n : b \in R /\ b \in k + 1 .. k + n
    BY <1>2 DEF R
  <2> HIDE DEF k
  <2> QED
    BY <1>3, <1>9, <1>12, <1>13, <2>1, FreshStill
<1>15. InShape(cs, S \ {k + 2}, k + 2) /\ ~HasTerminator(cs[k + 2])
  <2>1. cs[k + 2].placed
    BY <1>14 DEF Fresh
  <2> QED
    BY <1>12, <1>13, <2>1, MoveShaped
<1>16. InShape(cs, R, k + 2)
  <2>1. S \ {k + 2} = R
    BY <1>4 DEF S
  <2> QED
    BY <1>15, <2>1
<1>17. Keeps(bs, cs, P)
  <2>1. Keeps(ds, cs, R)
    BY <1>5, <1>8, <1>12, <1>13, KeepsAll
  <2>2. P \subseteq P \cup {c}
    OBVIOUS
  <2> QED
    BY <1>1, <1>5, <2>1, <2>2, KeepsAll
<1> QED
  BY <1>2, <1>3, <1>12, <1>14, <1>15, <1>16, <1>17 DEF cs, es, x, y, R

\* A loop is entered: bs is what its prologue left, the blocks are made.
LEMMA LoopForm ==
  ASSUME FormInv, NoneAfterJump, NEW kinds, CgAt(kinds), kinds \subseteq Loops,
         NEW bs, InShape(bs, Pending(cgPc, frames), cur), ~HasTerminator(bs[cur]),
         Keeps(blocks, bs, Pending(cgPc, frames)),
         NEW ds, NEW n \in {3, 4}, MadeTogether(bs, Pending(cgPc, frames), cur, ds, n), NEW a,
         cgPc' = cgPc + 1, cur' = Len(bs) + 2,
         blocks' = Emit(Emit(ds, cur, Br(cgPc, Len(bs) + 1)), Len(bs) + 1,
                        CondBr(cgPc, a, Len(bs) + 2, Len(bs) + n)),
         NEW f, frames' = Append(frames, f), f.cond = Len(bs) + 1, f.end = Len(bs) + n,
         IF ast[cgPc].k = "while" THEN n = 3 ELSE n = 4 /\ f.next = Len(bs) + 3
  PROVE  Form(cgPc', blocks', cur', frames')
<1> DEFINE P == Pending(cgPc, frames)
           k == Len(bs)
           cs == blocks'
           gs == Append(frames, f)
<1>1. /\ Nested /\ cgPc \in 1 .. Len(ast) /\ ast[cgPc].k \in Loops
      /\ IsSeq(frames) /\ Len(frames) = Depth(cgPc) /\ Framed(cgPc, blocks, frames)
  BY AtForm
<1>2. /\ InShape(cs, P \cup (k + 3 .. k + n), k + 2) /\ ~HasTerminator(cs[k + 2])
      /\ Keeps(bs, cs, P) /\ k \in Nat /\ k + 1 \in 1 .. Len(cs)
      /\ \A b \in k + 3 .. k + n : Fresh(cs, b, TRUE)
  BY LoopShaped, ZenonT(60)
<1>3. PendingOf(f, cgPc) = k + 3 .. k + n
  <2>1. CASE ast[cgPc].k = "while"
    <3>1. k + 3 .. k + n = {k + 3}
      <4>1. \A i \in Nat : i .. i = {i}
        OBVIOUS
      <4>2. n = 3 /\ k + 3 \in Nat
        BY <1>2, <2>1
      <4> QED
        BY <4>1, <4>2
    <3> QED
      BY <2>1, <3>1 DEF PendingOf
  <2>2. CASE ast[cgPc].k # "while"
    <3>1. k + 3 .. k + n = {k + 3, k + 4}
      <4>1. \A i \in Nat : i .. i + 1 = {i, i + 1}
        OBVIOUS
      <4>2. k + n = (k + 3) + 1 /\ (k + 3) + 1 = k + 4 /\ k + 3 \in Nat
        BY <1>2, <2>2
      <4> HIDE DEF k
      <4> QED
        BY <4>1, <4>2
    <3> QED
      BY <1>1, <2>2, <3>1 DEF PendingOf, Loops
  <2> QED
    BY <2>1, <2>2
<1> HIDE DEF cs
<1>4. FrameOf(cs, f, cgPc)
  <2>1. \A b \in PendingOf(f, cgPc) :
          /\ b \in 1 .. Len(cs) /\ ast[cs[b].node].lvl = ast[cgPc].lvl
          /\ cs[b].placed <=> ast[cgPc].k \in Loops
    BY <1>1, <1>2, <1>3 DEF Fresh
  <2>2. ast[cgPc].k \notin {"while", "else"} => f.next # f.end /\ ast[cgPc].k \notin {"if", "elif"}
    BY <1>1, <1>2 DEF Loops
  <2> QED
    BY <1>2, <2>1, <2>2 DEF FrameOf
<1>5. Keeps(blocks, cs, P)
  BY <1>2, KeepsAll
<1>6. Framed(cgPc + 1, cs, gs) /\ Pending(cgPc + 1, gs) = P \cup PendingOf(f, cgPc)
  BY <1>1, <1>4, <1>5, FramedPush DEF Openers
<1> HIDE DEF gs
<1>7. InShape(cs, Pending(cgPc + 1, gs), k + 2)
  BY <1>2, <1>3, <1>6
<1> QED
  BY <1>2, <1>6, <1>7 DEF Form, gs, cs

LEMMA WhileForm ==
  ASSUME FormInv, NoneAfterJump, CgWhile
  PROVE  phase' = "failed" \/ Form(cgPc', blocks', cur', frames')
<1> DEFINE P == Pending(cgPc, frames)
           k == Len(blocks)
           ds == blocks \o <<NewBlock("while_cond", TRUE), NewBlock("while_body", TRUE),
                             NewBlock("while_after", TRUE)>>
           a == Address(named_values, Here.cd)
           f == Frame(named_values, NoNames, k + 1, k + 1, k + 3)
<1> SUFFICES ASSUME phase' # "failed" PROVE Form(cgPc', blocks', cur', frames')
  OBVIOUS
<1>1. /\ CgAt({"while"}) /\ cgPc' = cgPc + 1 /\ cur' = k + 2 /\ frames' = Append(frames, f)
      /\ blocks' = Emit(Emit(ds, cur, Br(cgPc, k + 1)), k + 1, CondBr(cgPc, a, k + 2, k + 3))
  BY DEF CgWhile, Proceed, Fail
<1>2. {"while"} \subseteq Loops /\ "while" \notin Markers
  BY DEF Loops, Markers, Clauses
<1>3. ast[cgPc].k = "while" /\ InShape(blocks, P, cur) /\ Keeps(blocks, blocks, P)
  <2>1. ast[cgPc].k \in {"while"} /\ InShape(blocks, P, cur) /\ Keeps(blocks, blocks, P)
    BY <1>1, AtForm, Zenon
  <2> QED
    BY <2>1
<1>4. ~HasTerminator(blocks[cur])
  BY <1>1, <1>2, <1>3, AtForm
<1>5. MadeTogether(blocks, P, cur, ds, 3)
  BY <1>3, LoopMade
<1>6. f.cond = k + 1 /\ f.end = k + 3
  BY FrameFields
<1> HIDE DEF ds, a, f
<1> QED
  BY <1>1, <1>2, <1>3, <1>4, <1>5, <1>6, LoopForm

\* The prologue has left bs.
LEMMA EnterForForm ==
  ASSUME FormInv, NoneAfterJump, NEW kinds, CgAt(kinds), kinds \subseteq {"fordcl", "forasst"},
         NEW ok, NEW bs, NEW nv, EnterFor(ok, bs, nv),
         \/ bs = blocks
         \/ \E x : bs = Emit(blocks, cur, x) /\ GoesWithin(blocks, x) /\ x.op \notin Terminators
  PROVE  Form(cgPc', blocks', cur', frames')
<1> DEFINE P == Pending(cgPc, frames)
           k == Len(bs)
           ds == bs \o <<NewBlock("for_cond", TRUE), NewBlock("for_body", TRUE),
                         NewBlock("for_inc", TRUE), NewBlock("for_after", TRUE)>>
           a == Address(nv, Here.cd)
           f == Frame(nv, named_values, k + 1, (k + 1) + 2, (k + 1) + 3)
<1>1. /\ cgPc' = cgPc + 1 /\ cur' = (k + 1) + 1 /\ frames' = Append(frames, f)
      /\ blocks' = Emit(Emit(ds, cur, Br(cgPc, k + 1)), k + 1,
                        CondBr(cgPc, a, (k + 1) + 1, (k + 1) + 3))
  BY DEF EnterFor, ForBlocks, Proceed
<1>2. kinds \subseteq Loops /\ kinds \cap Markers = {} /\ "while" \notin kinds
  BY DEF Loops, Markers, Clauses
<1>3. ast[cgPc].k \in kinds /\ InShape(blocks, P, cur) /\ Keeps(blocks, blocks, P)
  BY AtForm
<1>4. ~HasTerminator(blocks[cur])
  BY <1>2, <1>3, AtForm
<1> HIDE DEF P
<1>5. InShape(bs, P, cur) /\ ~HasTerminator(bs[cur]) /\ Keeps(blocks, bs, P)
  <2>1. CASE bs = blocks
    BY <1>3, <1>4, <2>1
  <2>2. CASE bs # blocks
    <3>1. PICK x : bs = Emit(blocks, cur, x) /\ GoesWithin(blocks, x) /\ x.op \notin Terminators
      BY <2>2
    <3> QED
      BY <1>3, <1>4, <3>1, EmitShaped
  <2> QED
    BY <2>1, <2>2
<1>6. MadeTogether(bs, P, cur, ds, 4) /\ k \in Nat
  BY <1>5, LoopMade DEF Keeps
<1>7. (k + 1) + 1 = k + 2 /\ (k + 1) + 2 = k + 3 /\ (k + 1) + 3 = k + 4
  BY <1>6
<1>8. f.cond = k + 1 /\ f.end = k + 4 /\ f.next = k + 3
  BY <1>7, FrameFields
<1> HIDE DEF ds, a, f
<1>9. /\ cgPc' = cgPc + 1 /\ cur' = k + 2 /\ frames' = Append(frames, f)
      /\ blocks' = Emit(Emit(ds, cur, Br(cgPc, k + 1)), k + 1, CondBr(cgPc, a, k + 2, k + 4))
  BY <1>1, <1>7
<1> QED
  BY <1>2, <1>3, <1>5, <1>6, <1>8, <1>9, LoopForm DEF P

LEMMA ForForm ==
  ASSUME FormInv, NoneAfterJump, CgForDeclaration \/ CgForAssignment
  PROVE  phase' = "failed" \/ Form(cgPc', blocks', cur', frames')
<1>1. CASE CgForDeclaration
  BY <1>1, NoTarget, EnterForForm DEF CgForDeclaration, Initialised, Fail
<1>2. CASE CgForAssignment
  BY <1>2, NoTarget, EnterForForm DEF CgForAssignment, Assigned, Fail
<1> QED
  BY <1>1, <1>2

\* A loop ends: what its frame still waits for.
LEMMA LoopEndsHere ==
  ASSUME FormInv, NoneAfterJump, CgAt({"end"}), ast[Top.node].k \in Loops
  PROVE  LET O == PendingIn(Outer(cgPc), frames)
             P == Pending(cgPc, frames)
         IN  /\ InShape(blocks, P, cur)
             /\ Top.end \in P /\ blocks[Top.end].placed
             /\ IF ast[Top.node].k = "while"
                THEN P \ {Top.end} = O
                ELSE /\ Top.next \in P /\ blocks[Top.next].placed /\ Top.next # Top.end
                     /\ (P \ {Top.next}) \ {Top.end} = O
             /\ Top.cond \in 1 .. Len(blocks)
<1> DEFINE O == PendingIn(Outer(cgPc), frames)
           P == Pending(cgPc, frames)
           t == Top.node
<1>1. {"end"} \subseteq Markers
  BY DEF Markers
<1>2. /\ FrameOf(blocks, Top, t)
      /\ P = O \cup PendingOf(Top, t)
      /\ \A b \in O : b \notin PendingOf(Top, t)
  BY <1>1, AtMarker
<1>3. InShape(blocks, P, cur)
  BY AtForm
<1> HIDE DEF P, O, t
<1>4. ast[t].k \in Loops
  BY DEF t
<1>5. Top.end \in PendingOf(Top, t) /\ \A b \in PendingOf(Top, t) : blocks[b].placed
  BY <1>2, <1>4 DEF PendingOf, FrameOf
<1>6. CASE ast[t].k = "while"
  <2>1. PendingOf(Top, t) = {Top.end}
    BY <1>6 DEF PendingOf
  <2>2. P \ {Top.end} = O
    BY <1>2, <2>1
  <2> QED
    BY <1>2, <1>3, <1>4, <1>5, <1>6, <2>2 DEF FrameOf, P, O, t
<1>7. CASE ast[t].k # "while"
  <2>1. PendingOf(Top, t) = {Top.end, Top.next} /\ Top.next # Top.end
    BY <1>2, <1>4, <1>7 DEF PendingOf, FrameOf, Loops
  <2>2. (P \ {Top.next}) \ {Top.end} = O
    BY <1>2, <2>1
  <2>3. Top.next \in P /\ blocks[Top.next].placed
    BY <1>2, <1>5, <2>1
  <2> QED
    BY <1>2, <1>3, <1>4, <1>5, <1>7, <2>1, <2>2, <2>3 DEF FrameOf, P, O, t
<1> QED
  BY <1>6, <1>7

LEMMA EndWhileForm ==
  ASSUME FormInv, NoneAfterJump, CgEndWhile
  PROVE  Form(cgPc', blocks', cur', frames')
<1> DEFINE O == PendingIn(Outer(cgPc), frames)
           P == Pending(cgPc, frames)
           cs == BrIfOpen(blocks, cur, Top.node, Top.cond)
<1>1. /\ CgAt({"end"}) /\ ast[Top.node].k = "while" /\ cgPc' = cgPc + 1 /\ blocks' = cs
      /\ cur' = Top.end /\ PopFrame
  BY DEF CgEndWhile, Proceed
<1>2. /\ InShape(blocks, P, cur) /\ Top.end \in P /\ blocks[Top.end].placed
      /\ P \ {Top.end} = O /\ Top.cond \in 1 .. Len(blocks)
  BY <1>1, LoopEndsHere DEF Loops
<1> HIDE DEF P
<1>3. InShape(cs, P, cur) /\ Keeps(blocks, cs, P) /\ HasTerminator(cs[cur])
  BY <1>2, BranchShaped
<1> HIDE DEF cs
<1>4. cs[Top.end].placed
  BY <1>2, <1>3 DEF Keeps
<1>5. InShape(cs, P \ {Top.end}, Top.end) /\ ~HasTerminator(cs[Top.end])
  BY <1>2, <1>3, <1>4, MoveShaped
<1>6. Keeps(blocks, cs, P \ {Top.end})
  BY <1>3 DEF Keeps
<1> QED
  BY <1>1, <1>2, <1>5, <1>6, CloseForm

LEMMA EndForForm ==
  ASSUME FormInv, NoneAfterJump, CgEndFor
  PROVE  phase' = "failed" \/ Form(cgPc', blocks', cur', frames')
<1> DEFINE O == PendingIn(Outer(cgPc), frames)
           P == Pending(cgPc, frames)
           Q == P \ {Top.next}
           x == Effect(Top.node, "ep", None, Address(Restored, ast[Top.node].ep))
           y == Br(Top.node, Top.cond)
           ds == BrIfOpen(blocks, cur, Top.node, Top.next)
           es == Emit(ds, Top.next, x)
           cs == Emit(es, Top.next, y)
<1> SUFFICES ASSUME phase' # "failed" PROVE Form(cgPc', blocks', cur', frames')
  OBVIOUS
<1>1. /\ CgAt({"end"}) /\ ast[Top.node].k \in {"fordcl", "forasst"} /\ cgPc' = cgPc + 1
      /\ blocks' = cs /\ cur' = Top.end /\ PopFrame
  BY DEF CgEndFor, Proceed, Fail, ForEnded
<1>2. /\ InShape(blocks, P, cur) /\ Top.end \in P /\ blocks[Top.end].placed
      /\ Top.next \in P /\ blocks[Top.next].placed /\ Top.next # Top.end
      /\ Q \ {Top.end} = O /\ Top.cond \in 1 .. Len(blocks)
  <2>1. ast[Top.node].k \in Loops /\ ast[Top.node].k # "while"
    BY <1>1 DEF Loops
  <2> QED
    BY <1>1, <2>1, LoopEndsHere
<1> HIDE DEF P, O
<1>3. Top.next \in 1 .. Len(blocks)
  BY <1>2 DEF InShape
<1>4. InShape(ds, P, cur) /\ Keeps(blocks, ds, P) /\ Len(ds) = Len(blocks) /\ HasTerminator(ds[cur])
  BY <1>2, <1>3, BranchShaped
<1> HIDE DEF ds
<1>5. ds[Top.next].placed /\ ds[Top.end].placed
  BY <1>2, <1>4 DEF Keeps
<1>6. InShape(ds, Q, Top.next) /\ ~HasTerminator(ds[Top.next])
  BY <1>2, <1>4, <1>5, MoveShaped
<1>7. GoesWithin(ds, x) /\ x.op \notin Terminators
  BY NoTarget
<1> HIDE DEF x, Q
<1>8. /\ InShape(es, Q, Top.next) /\ Keeps(ds, es, Q) /\ Len(es) = Len(blocks)
      /\ ~HasTerminator(es[Top.next])
  BY <1>4, <1>6, <1>7, EmitShaped
<1> HIDE DEF es
<1>9. GoesWithin(es, y) /\ y.op \in Terminators
  BY <1>2, <1>8 DEF GoesWithin, Br, Instruction, Terminators
<1> HIDE DEF y
<1>10. InShape(cs, Q, Top.next) /\ Keeps(es, cs, Q) /\ HasTerminator(cs[Top.next])
  BY <1>8, <1>9, EmitShaped
<1> HIDE DEF cs
<1>11. Top.end \in Q /\ Q \subseteq P
  BY <1>2 DEF Q
<1>12. Keeps(ds, cs, Q) /\ Keeps(blocks, cs, Q)
  <2>1. Keeps(ds, cs, Q)
    BY <1>8, <1>10, KeepsAll
  <2> QED
    BY <1>4, <1>11, <2>1, KeepsAll
<1>13. cs[Top.end].placed
  BY <1>5, <1>11, <1>12 DEF Keeps
<1>14. InShape(cs, Q \ {Top.end}, Top.end) /\ ~HasTerminator(cs[Top.end])
  BY <1>10, <1>11, <1>13, MoveShaped
<1>15. Keeps(blocks, cs, Q \ {Top.end})
  BY <1>12 DEF Keeps
<1>16. InShape(cs, O, Top.end) /\ Keeps(blocks, cs, O)
  BY <1>2, <1>14, <1>15
<1> QED
  BY <1>1, <1>14, <1>16, CloseForm DEF O

-------------------------------------------------------------------------------
(* The end of the function.                                                *)

\* When no block waits and the last one is finished, the function is sound.
LEMMA ShapedWellFormed ==
  ASSUME NEW bs, NEW c, InShape(bs, {}, c), HasTerminator(bs[c])
  PROVE  WellFormed(bs)
<1>1. IsSeq(bs) /\ DOMAIN bs = 1 .. Len(bs)
  BY DEF InShape, IsSeq
<1>2. ASSUME NEW b \in 1 .. Len(bs)
      PROVE  /\ bs[b].placed /\ HasTerminator(bs[b]) /\ Straight(bs[b])
             /\ StaysWithin(bs, bs[b]) /\ DOMAIN bs[b].ins = 1 .. Len(bs[b].ins)
  <2>1. IsBlock(bs[b])
    BY DEF InShape
  <2>2. DOMAIN bs[b].ins = 1 .. Len(bs[b].ins)
    BY <2>1 DEF IsBlock, IsSeq
  <2> QED
    BY <2>2 DEF InShape
<1>3. ASSUME NEW b \in 1 .. Len(bs), NEW i \in DOMAIN bs[b].ins, NEW j \in DOMAIN bs[b].ins[i].to
      PROVE  bs[bs[b].ins[i].to[j]].placed
  <2>1. bs[b].ins[i].to[j] \in 1 .. Len(bs)
    BY <1>2 DEF StaysWithin, GoesWithin
  <2> QED
    BY <1>2, <2>1
<1>4. \A b \in 1 .. Len(bs) : BlockOK(bs[b])
  BY <1>2 DEF BlockOK, Straight
<1> QED
  BY <1>1, <1>2, <1>3, <1>4 DEF WellFormed

LEMMA FinishForm ==
  ASSUME FormInv, NoneAfterJump, CgFinish
  PROVE  phase' # "malformed"
<1>1. phase = "codegen" /\ blocks # <<>> /\ cgPc > Len(ast)
  BY DEF CgFinish
<1>2. Nested /\ cgPc \in 1 .. Len(ast) + 1 /\ nest = <<>> /\ Len(ast) \in Nat
  BY <1>1, NodesTyped DEF FormInv, CgInv, BreakInv, WalkInv
<1>3. cgPc = Len(ast) + 1
  BY <1>1, <1>2
<1>4. Depth(cgPc) = 0
  <2>1. Len(nest) = IF ast = <<>> THEN 0 ELSE Behind(ast[Len(ast)])
    BY <1>2 DEF Nested
  <2>2. Len(nest) = 0 /\ cgPc - 1 = Len(ast) /\ (cgPc # 1 => ast # <<>>)
    BY <1>2, <1>3
  <2> QED
    BY <2>1, <2>2 DEF Depth
<1>5. Pending(cgPc, frames) = {}
  BY <1>2, <1>4, NoClauses DEF Pending, PendingIn
<1>6. InShape(blocks, {}, cur)
  <2>1. Form(cgPc, blocks, cur, frames)
    BY <1>1 DEF FormInv
  <2> QED
    BY <1>5, <2>1 DEF Form
<1> DEFINE bs == IF HasTerminator(blocks[cur]) THEN blocks ELSE Emit(blocks, cur, Ret(cgPc, None))
<1>7. WellFormed(bs)
  <2>1. CASE HasTerminator(blocks[cur])
    BY <1>6, <2>1, ShapedWellFormed
  <2>2. CASE ~HasTerminator(blocks[cur])
    <3>1. /\ InShape(Emit(blocks, cur, Ret(cgPc, None)), {}, cur)
          /\ HasTerminator(Emit(blocks, cur, Ret(cgPc, None))[cur])
      BY <1>6, <2>2, NoTarget, EmitShaped
    <3> QED
      BY <2>2, <3>1, ShapedWellFormed
  <2> QED
    BY <2>1, <2>2
<1> QED
  BY <1>7 DEF CgFinish, Fail

-------------------------------------------------------------------------------
(* The theorem.                                                            *)

LEMMA FormInit == TcInit /\ CgInit => FormInv
<1> SUFFICES ASSUME TcInit, CgInit PROVE FormInv
  OBVIOUS
<1>1. phase = "parse"
  BY DEF TcInit, ParseInit
<1> QED
  BY <1>1, CgInvInit DEF FormInv, MalformedOnlyAfterJump

\* The generator has not begun.
LEMMA FrontEndForm ==
  ASSUME FormInv, CgInv', TcNext, UNCHANGED cgVars
  PROVE  FormInv'
<1>1. CASE Parse /\ UNCHANGED <<tcPc, table, attributes>>
  <2>1. phase' \in {"parse", "typecheck"} /\ (phase' # "parse" => nest' = <<>>)
    BY <1>1 DEF Parse, ParseParam, ParseStatement, ParseOpener, ParseClause, ParseEnd, ParseDone
  <2> QED
    BY <2>1 DEF FormInv, MalformedOnlyAfterJump
<1>2. CASE TcVisit
  <2>1. /\ phase = "typecheck" /\ nest' = nest
        /\ phase' \in {"typecheck", "rejected", "codegen"}
    BY <1>2 DEF TcVisit, TcParam, TcDeclaration, TcVarInit, TcAssignment, TcExpression, TcReturn,
                TcBranch, TcClause, TcForDeclaration, TcForAssignment, TcEnd, TcBreak, TcDone,
                At, GoOn, Reject
  <2>2. blocks' = <<>> /\ nest' = <<>>
    BY <2>1 DEF FormInv, CgInv, cgVars
  <2> QED
    BY <2>1, <2>2 DEF FormInv, MalformedOnlyAfterJump
<1> QED
  BY <1>1, <1>2 DEF TcNext

\* What every visit of a node does, whichever it is.
LEMMA VisitGoesOn ==
  ASSUME CgVisit, ~CgFinish
  PROVE  /\ phase = "codegen"
         /\ (phase' = "failed" /\ UNCHANGED <<ast, nest>>) \/ UNCHANGED tcVars
BY DEF CgVisit, CgEntry, CgParam, CgDeclaration, CgVarInit, CgAssignment, CgExpression, CgReturn,
       CgBreak, CgIf, CgElif, CgElse, CgEndIf, CgWhile, CgForDeclaration, CgForAssignment,
       CgEndWhile, CgEndFor, EnterFor, CgAt, Proceed, Fail

LEMMA VisitForm ==
  ASSUME FormInv, CgInv', CgVisit
  PROVE  FormInv'
<1>1. CASE CgFinish
  <2>1. phase = "codegen" /\ phase' # "codegen" /\ UNCHANGED <<ast, nest>>
    BY <1>1 DEF CgFinish, Fail
  <2> QED
    BY <1>1, <2>1, FinishForm, LeaveForm
<1>2. CASE ~CgFinish
  <2>1. NoneAfterJump => phase' = "failed" \/ Form(cgPc', blocks', cur', frames')
    BY <1>2, EntryForm, StatementsForm, IfForm, ElifForm, ElseForm, EndIfForm, WhileForm, ForForm,
       EndWhileForm, EndForForm DEF CgVisit
  <2>2. /\ phase = "codegen"
        /\ (phase' = "failed" /\ UNCHANGED <<ast, nest>>) \/ UNCHANGED tcVars
    BY <1>2, VisitGoesOn
  <2>3. CASE UNCHANGED tcVars
    <3>1. phase' = "codegen"
      BY <2>2, <2>3 DEF tcVars
    <3> QED
      BY <2>1, <2>2, <2>3, <3>1, GoOnForm
  <2>4. CASE phase' = "failed" /\ UNCHANGED <<ast, nest>>
    BY <2>2, <2>4, LeaveForm
  <2> QED
    BY <2>2, <2>3, <2>4
<1> QED
  BY <1>1, <1>2

LEMMA FormNext == FormInv /\ [CgNext]_vars => FormInv'
<1> SUFFICES ASSUME FormInv, [CgNext]_vars PROVE FormInv'
  OBVIOUS
<1>1. CgInv'
  BY CgInvNext DEF FormInv
<1>2. CASE TcNext /\ UNCHANGED cgVars
  BY <1>1, <1>2, FrontEndForm
<1>3. CASE CgVisit
  BY <1>1, <1>3, VisitForm
<1>4. CASE UNCHANGED vars
  <2>1. /\ phase' = phase /\ ast' = ast /\ nest' = nest /\ cgPc' = cgPc /\ blocks' = blocks
        /\ cur' = cur /\ frames' = frames
    BY <1>4 DEF vars, tcVars, cgVars
  <2>2. NoneAfterJump' <=> NoneAfterJump
    BY <2>1, SameForm
  <2>3. Form(cgPc, blocks, cur, frames)' <=> Form(cgPc, blocks, cur, frames)
    BY <2>1, SameForm
  <2>4. MalformedOnlyAfterJump'
    BY <2>1, <2>2 DEF FormInv, MalformedOnlyAfterJump, NoneAfterJump
  <2> QED
    BY <1>1, <2>1, <2>2, <2>3, <2>4 DEF FormInv
<1> QED
  BY <1>2, <1>3, <1>4 DEF CgNext

(***************************************************************************)
(* For every program: the function that CodeGen hands to LLVM is well      *)
(* formed, every block in it and ended by the only terminator it has,      *)
(* unless the source has a statement after a return or a break in the same *)
(* block (CodeGen's visits of IfNode, WhileNode, ForNode and BreakNode).   *)
(***************************************************************************)
THEOREM JumpsLastWellFormed == CgSpec => []MalformedOnlyAfterJump
<1>1. FormInv => MalformedOnlyAfterJump
  BY DEF FormInv
<1>2. CgSpec => []FormInv
  BY FormInit, FormNext, PTL DEF CgSpec
<1> QED
  BY <1>1, <1>2, PTL

===============================================================================
