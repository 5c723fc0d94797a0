------------------------------ MODULE ExprProofs -------------------------------
(***************************************************************************)
(* For every expression: in the blocks of its && and ||, however they are  *)
(* nested and whatever other operators stand between, each phi has one     *)
(* value for every block that branches to its own.                         *)
(*                                                                         *)
(* PhiInv is about the blocks that the visits under way have in their      *)
(* locals (Awaited). Until the left operand has been visited, rhs_bb and   *)
(* merge_bb are empty and nothing branches to them; from then on, merge_bb *)
(* is still empty and lhs_eval_bb alone branches to it. Each visit has its *)
(* own, and none has the insertion point, which has no branch yet: this is *)
(* why the two values of a phi are never for the same block.               *)
(***************************************************************************)
EXTENDS ExprLower, SequenceTheorems, TLAPS

-------------------------------------------------------------------------------
(* Sequences of anything.                                                  *)

IsSeq(s) == \E S : s \in Seq(S)

LEMMA ShortSeqs ==
  /\ IsSeq(<<>>)
  /\ \A x : IsSeq(<<x>>)
  /\ \A x, y : IsSeq(<<x, y>>)
  /\ \A x, y, z : IsSeq(<<x, y, z>>)
<1>1. <<>> \in Seq({})
  OBVIOUS
<1>2. ASSUME NEW x PROVE IsSeq(<<x>>)
  <2>1. <<x>> \in Seq({x})
    OBVIOUS
  <2> QED
    BY <2>1 DEF IsSeq
<1>3. ASSUME NEW x, NEW y PROVE IsSeq(<<x, y>>)
  <2>1. <<x, y>> \in Seq({x, y})
    OBVIOUS
  <2> QED
    BY <2>1 DEF IsSeq
<1>4. ASSUME NEW x, NEW y, NEW z PROVE IsSeq(<<x, y, z>>)
  <2>1. <<x, y, z>> \in Seq({x, y, z})
    OBVIOUS
  <2> QED
    BY <2>1 DEF IsSeq
<1> QED
  BY <1>1, <1>2, <1>3, <1>4 DEF IsSeq

LEMMA SeqDomain ==
  ASSUME NEW s, IsSeq(s)
  PROVE  Len(s) \in Nat /\ DOMAIN s = 1 .. Len(s) /\ (s = <<>> <=> Len(s) = 0)
<1>1. PICK S : s \in Seq(S)
  BY DEF IsSeq
<1> QED
  BY <1>1

LEMMA AppendSeq ==
  ASSUME NEW s, IsSeq(s), NEW x
  PROVE  /\ Len(s) \in Nat /\ IsSeq(Append(s, x)) /\ Len(Append(s, x)) = Len(s) + 1
         /\ \A i \in 1 .. Len(s) : Append(s, x)[i] = s[i]
         /\ Append(s, x)[Len(s) + 1] = x
<1>1. PICK S : s \in Seq(S)
  BY DEF IsSeq
<1> DEFINE T == S \cup {x}
<1>2. s \in Seq(T) /\ x \in T
  BY <1>1
<1> HIDE DEF T
<1>3. Append(s, x) \in Seq(T)
  BY <1>2
<1>4. IsSeq(Append(s, x))
  BY <1>3 DEF IsSeq
<1> QED
  BY <1>2, <1>4

LEMMA ConcatSeq ==
  ASSUME NEW s, IsSeq(s), NEW t, IsSeq(t)
  PROVE  /\ Len(s) \in Nat /\ Len(t) \in Nat
         /\ IsSeq(s \o t) /\ Len(s \o t) = Len(s) + Len(t)
         /\ \A i \in 1 .. Len(s) : (s \o t)[i] = s[i]
         /\ \A i \in 1 .. Len(t) : (s \o t)[Len(s) + i] = t[i]
<1>1. PICK S : s \in Seq(S)
  BY DEF IsSeq
<1>2. PICK T : t \in Seq(T)
  BY DEF IsSeq
<1> DEFINE U == S \cup T
<1>3. s \in Seq(U) /\ t \in Seq(U)
  BY <1>1, <1>2
<1> HIDE DEF U
<1>4. s \o t \in Seq(U) /\ Len(s) \in Nat /\ Len(t) \in Nat
  BY <1>3
<1>5. IsSeq(s \o t)
  BY <1>4 DEF IsSeq
<1>6. Len(s \o t) = Len(s) + Len(t)
  BY <1>3
<1>7. ASSUME NEW i \in 1 .. Len(s) PROVE (s \o t)[i] = s[i]
  BY <1>3
<1>8. ASSUME NEW i \in 1 .. Len(t) PROVE (s \o t)[Len(s) + i] = t[i]
  BY <1>3, <1>4
<1> QED
  BY <1>4, <1>5, <1>6, <1>7, <1>8

Joins(s, t, u) ==
  /\ IsSeq(u) /\ Len(u) = Len(s) + Len(t)
  /\ \A i \in 1 .. Len(s) : u[i] = s[i]
  /\ \A i \in 1 .. Len(t) : u[Len(s) + i] = t[i]

LEMMA ConcatJoins ==
  ASSUME NEW s, NEW t, IsSeq(s), IsSeq(t)
  PROVE  Joins(s, t, s \o t)
BY ConcatSeq DEF Joins

LEMMA TailSeq ==
  ASSUME NEW s, IsSeq(s), s # <<>>
  PROVE  /\ Len(s) \in Nat \ {0} /\ IsSeq(Tail(s)) /\ Len(Tail(s)) = Len(s) - 1
         /\ Head(s) = s[1]
         /\ \A i \in 1 .. Len(s) - 1 : Tail(s)[i] = s[i + 1]
<1>1. PICK S : s \in Seq(S)
  BY DEF IsSeq
<1>2. Tail(s) \in Seq(S)
  BY <1>1
<1>3. IsSeq(Tail(s))
  BY <1>2 DEF IsSeq
<1> QED
  BY <1>1, <1>3

LEMMA SetSeq ==
  ASSUME NEW s, IsSeq(s), NEW n \in 1 .. Len(s), NEW x
  PROVE  LET t == [s EXCEPT ![n] = x]
         IN  /\ Len(s) \in Nat /\ IsSeq(t) /\ Len(t) = Len(s) /\ t[n] = x
             /\ \A i \in 1 .. Len(s) : i # n => t[i] = s[i]
<1>1. PICK S : s \in Seq(S)
  BY DEF IsSeq
<1> DEFINE T == S \cup {x}
           t == [s EXCEPT ![n] = x]
<1>2. Len(s) \in Nat /\ s \in [1 .. Len(s) -> S]
  BY <1>1
<1>3. t \in [1 .. Len(s) -> T]
  BY <1>2
<1>4. t[n] = x /\ \A i \in 1 .. Len(s) : i # n => t[i] = s[i]
  BY <1>2
<1> HIDE DEF t, T
<1>5. t \in Seq(T) /\ Len(t) = Len(s)
  BY <1>2, <1>3
<1>6. IsSeq(t)
  BY <1>5 DEF IsSeq
<1> QED
  BY <1>2, <1>4, <1>5, <1>6 DEF t

-------------------------------------------------------------------------------
(* Branches and phis.                                                      *)

Branches == {"br", "condbr"}

\* One of the instructions x is a branch to block b.
LeadsTo(x, b) ==
  \E i \in DOMAIN x : x[i].op \in Branches /\ \E j \in DOMAIN x[i].to : x[i].to[j] = b

\* None of the instructions is a branch; none is a phi; neither.
Straight(x) == \A i \in DOMAIN x : x[i].op \notin Branches
NoPhi(x)    == \A i \in DOMAIN x : x[i].op # "phi"
Plain(x)    == Straight(x) /\ NoPhi(x)

\* Each phi has two values, one for each block of P.
PhisOf(x, P) ==
  \A i \in DOMAIN x :
    x[i].op = "phi" => {x[i].to[j] : j \in {1, 2}} = P /\ x[i].to[1] # x[i].to[2]

LEMMA PhiRule ==
  ASSUME NEW bs, NEW b
  PROVE  PhiOK(bs, b) <=> PhisOf(bs[b], {c \in DOMAIN bs : LeadsTo(bs[c], b)})
BY DEF PhiOK, PhisOf, Predecessors, LeadsTo, Branches

LEMMA Joined ==
  ASSUME NEW x, IsSeq(x), NEW is, IsSeq(is)
  PROVE  /\ IsSeq(x \o is)
         /\ \A b : LeadsTo(x \o is, b) <=> LeadsTo(x, b) \/ LeadsTo(is, b)
         /\ Straight(x \o is) <=> Straight(x) /\ Straight(is)
         /\ NoPhi(is) => \A P : PhisOf(x \o is, P) <=> PhisOf(x, P)
<1> DEFINE y == x \o is
<1>1. IsSeq(y) /\ Len(x) \in Nat /\ Len(is) \in Nat /\ Len(y) = Len(x) + Len(is)
  BY ConcatSeq
<1>2. /\ \A i \in 1 .. Len(x) : y[i] = x[i]
      /\ \A i \in 1 .. Len(is) : y[Len(x) + i] = is[i]
  BY ConcatSeq
<1>3. /\ DOMAIN x = 1 .. Len(x) /\ DOMAIN is = 1 .. Len(is) /\ DOMAIN y = 1 .. Len(y)
  BY <1>1, SeqDomain
<1> HIDE DEF y
<1>4. \A i \in DOMAIN x : i \in DOMAIN y /\ y[i] = x[i]
  BY <1>1, <1>2, <1>3
<1>5. \A i \in DOMAIN is : \E k \in DOMAIN y : y[k] = is[i]
  <2> TAKE i \in DOMAIN is
  <2>1. Len(x) + i \in DOMAIN y /\ y[Len(x) + i] = is[i]
    BY <1>1, <1>2, <1>3
  <2> QED
    BY <2>1
<1>6. \A k \in DOMAIN y : (k \in DOMAIN x /\ y[k] = x[k]) \/ \E i \in DOMAIN is : y[k] = is[i]
  <2> TAKE k \in DOMAIN y
  <2>1. CASE k \in 1 .. Len(x)
    BY <2>1, <1>2, <1>3
  <2>2. CASE k \notin 1 .. Len(x)
    <3>1. k - Len(x) \in 1 .. Len(is) /\ k = Len(x) + (k - Len(x))
      BY <2>2, <1>1, <1>3
    <3>2. y[k] = is[k - Len(x)]
      BY <3>1, <1>2
    <3> QED
      BY <3>1, <3>2, <1>3
  <2> QED
    BY <2>1, <2>2
<1>7. \A b : LeadsTo(y, b) <=> LeadsTo(x, b) \/ LeadsTo(is, b)
  <2> TAKE b
  <2>1. ASSUME LeadsTo(y, b) PROVE LeadsTo(x, b) \/ LeadsTo(is, b)
    BY <2>1, <1>6 DEF LeadsTo
  <2>2. ASSUME LeadsTo(x, b) PROVE LeadsTo(y, b)
    BY <2>2, <1>4 DEF LeadsTo
  <2>3. ASSUME LeadsTo(is, b) PROVE LeadsTo(y, b)
    <3>1. PICK i \in DOMAIN is : is[i].op \in Branches /\ \E j \in DOMAIN is[i].to : is[i].to[j] = b
      BY <2>3 DEF LeadsTo
    <3>2. PICK k \in DOMAIN y : y[k] = is[i]
      BY <1>5
    <3> QED
      BY <3>1, <3>2 DEF LeadsTo
  <2> QED
    BY <2>1, <2>2, <2>3
<1>8. Straight(y) <=> Straight(x) /\ Straight(is)
  <2>1. ASSUME Straight(y) PROVE Straight(x)
    BY <2>1, <1>4 DEF Straight
  <2>2. ASSUME Straight(y), NEW i \in DOMAIN is PROVE is[i].op \notin Branches
    <3>1. PICK k \in DOMAIN y : y[k] = is[i]
      BY <1>5
    <3> QED
      BY <3>1, <2>2 DEF Straight
  <2>3. ASSUME Straight(x), Straight(is) PROVE Straight(y)
    BY <2>3, <1>6 DEF Straight
  <2> QED
    BY <2>1, <2>2, <2>3 DEF Straight
<1>9. ASSUME NoPhi(is), NEW P PROVE PhisOf(y, P) <=> PhisOf(x, P)
  <2>1. ASSUME PhisOf(y, P) PROVE PhisOf(x, P)
    BY <2>1, <1>4 DEF PhisOf
  <2>2. ASSUME PhisOf(x, P), NEW k \in DOMAIN y, y[k].op = "phi"
        PROVE  {y[k].to[j] : j \in {1, 2}} = P /\ y[k].to[1] # y[k].to[2]
    <3>1. ASSUME NEW i \in DOMAIN is, y[k] = is[i] PROVE FALSE
      BY <3>1, <2>2, <1>9 DEF NoPhi
    <3>2. k \in DOMAIN x /\ y[k] = x[k]
      BY <3>1, <1>6
    <3> QED
      BY <3>2, <2>2 DEF PhisOf
  <2> QED
    BY <2>1, <2>2 DEF PhisOf
<1> QED
  BY <1>1, <1>7, <1>8, <1>9 DEF y

-------------------------------------------------------------------------------
(* The visits under way.                                                   *)

\* The blocks that the visit t has made and not yet got to.
Waits(t) ==
  CASE t.do = "between" -> {t.sc.rhs, t.sc.merge}
    [] t.do = "merge"   -> {t.sc.merge}
    [] OTHER            -> {}

Awaited(bs, t) ==
  /\ \A b \in Waits(t) : b \in 1 .. Len(bs) /\ bs[b] = <<>>
  /\ t.do = "between" =>
       /\ {"merge", "lhs_eval"} \subseteq DOMAIN t.sc
       /\ t.sc.rhs # t.sc.merge
       /\ \A d \in 1 .. Len(bs) : ~LeadsTo(bs[d], t.sc.rhs) /\ ~LeadsTo(bs[d], t.sc.merge)
  /\ t.do = "merge" =>
       /\ t.sc.lhs_eval \in 1 .. Len(bs)
       /\ \A d \in 1 .. Len(bs) : LeadsTo(bs[d], t.sc.merge) <=> d = t.sc.lhs_eval

\* The blocks, added to in block c.
Made(bs, c) ==
  /\ IsSeq(bs) /\ \A b \in 1 .. Len(bs) : IsSeq(bs[b])
  /\ c \in 1 .. Len(bs) /\ Straight(bs[c])
  /\ \A b \in 1 .. Len(bs) : \A d : LeadsTo(bs[b], d) => d \in 1 .. Len(bs)
  /\ \A b \in 1 .. Len(bs) : PhiOK(bs, b)

\* Each visit has its own blocks, and none has the one that is added to.
Agenda(bs, c, td) ==
  /\ IsSeq(td)
  /\ \A j \in 1 .. Len(td) : Awaited(bs, td[j]) /\ c \notin Waits(td[j])
  /\ \A j, k \in 1 .. Len(td) : j # k => Waits(td[j]) \cap Waits(td[k]) = {}

PhiInv ==
  /\ phase \in {"parse", "typecheck", "rejected"} => blocks = <<>> /\ todo = <<>>
  /\ phase = "codegen" =>
       IF blocks = <<>> THEN todo = <<>> ELSE Made(blocks, cur) /\ Agenda(blocks, cur, todo)
  /\ phase \in {"run", "malformed"} => \A b \in DOMAIN blocks : PhiOK(blocks, b)

-------------------------------------------------------------------------------
(* What is emitted.                                                        *)

LEMMA Emitted ==
  /\ \A op, ty, args : Instruction(op, ty, args).op = op
  /\ \A v, ty : Cast(v, ty).op \in {"sext", "zext", "trunc"}
  /\ \A v : NotZero(v).op = "NEQ"
  /\ \A v, b, c : CondBr(v, b, c).op = "condbr" /\ CondBr(v, b, c).to = <<b, c>>
  /\ \A b : Br(b).op = "br" /\ Br(b).to = <<b>>
  /\ \A ty, v : Load(ty, v).op = "load"
  /\ \A x, ty, args : Call(x, ty, args).op = "call"
  /\ \A e, op, ty, args : Over(e, op, ty, args).op = op
  /\ \A f, v : Library(f, v).op = "call"
<1>1. ASSUME NEW op, NEW ty, NEW args PROVE Instruction(op, ty, args).op = op
  BY Zenon DEF Instruction
<1>2. ASSUME NEW v, NEW ty PROVE Cast(v, ty).op \in {"sext", "zext", "trunc"}
  BY <1>1 DEF Cast
<1>3. ASSUME NEW v PROVE NotZero(v).op = "NEQ"
  BY <1>1 DEF NotZero
<1>4. ASSUME NEW v, NEW b, NEW c
      PROVE  CondBr(v, b, c).op = "condbr" /\ CondBr(v, b, c).to = <<b, c>>
  BY Zenon DEF CondBr, Instruction
<1>5. ASSUME NEW b PROVE Br(b).op = "br" /\ Br(b).to = <<b>>
  BY Zenon DEF Br, Instruction
<1>6. ASSUME NEW ty, NEW v PROVE Load(ty, v).op = "load"
  BY <1>1 DEF Load
<1>7. ASSUME NEW x, NEW ty, NEW args PROVE Call(x, ty, args).op = "call"
  BY Zenon DEF Call, Instruction
<1>8. ASSUME NEW e, NEW op, NEW ty, NEW args PROVE Over(e, op, ty, args).op = op
  BY Zenon DEF Over, Instruction
<1>9. ASSUME NEW f, NEW v PROVE Library(f, v).op = "call"
  BY Zenon DEF Library, Instruction
<1> QED
  BY <1>1, <1>2, <1>3, <1>4, <1>5, <1>6, <1>7, <1>8, <1>9

LEMMA PlainSeqs ==
  /\ IsSeq(<<>>) /\ Plain(<<>>)
  /\ \A i : i.op \notin Branches \cup {"phi"} => IsSeq(<<i>>) /\ Plain(<<i>>)
  /\ \A x, i : IsSeq(x) /\ Plain(x) /\ i.op # "phi" =>
       /\ IsSeq(Append(x, i)) /\ NoPhi(Append(x, i))
       /\ \A b : LeadsTo(Append(x, i), b) => i.op \in Branches /\ \E j \in DOMAIN i.to : i.to[j] = b
       /\ i.op \notin Branches => Plain(Append(x, i))
       /\ \A b : i.op \in Branches /\ (\E j \in DOMAIN i.to : i.to[j] = b) => LeadsTo(Append(x, i), b)
<1>1. IsSeq(<<>>) /\ Plain(<<>>)
  <2>1. DOMAIN <<>> = {}
    OBVIOUS
  <2> QED
    BY <2>1, ShortSeqs DEF Plain, Straight, NoPhi
<1>2. ASSUME NEW i, i.op \notin Branches \cup {"phi"} PROVE IsSeq(<<i>>) /\ Plain(<<i>>)
  <2> DEFINE x == <<i>>
  <2>1. IsSeq(x) /\ DOMAIN x = {1} /\ x[1] = i
    BY ShortSeqs
  <2> HIDE DEF x
  <2>2. Plain(x)
    BY <2>1, <1>2 DEF Plain, Straight, NoPhi
  <2> QED
    BY <2>1, <2>2 DEF x
<1>3. ASSUME NEW x, NEW i, IsSeq(x), Plain(x), i.op # "phi"
      PROVE  /\ IsSeq(Append(x, i)) /\ NoPhi(Append(x, i))
             /\ \A b : LeadsTo(Append(x, i), b) => i.op \in Branches /\ \E j \in DOMAIN i.to : i.to[j] = b
             /\ i.op \notin Branches => Plain(Append(x, i))
             /\ \A b : i.op \in Branches /\ (\E j \in DOMAIN i.to : i.to[j] = b) => LeadsTo(Append(x, i), b)
  <2> DEFINE y == Append(x, i)
  <2>1. /\ Len(x) \in Nat /\ IsSeq(y) /\ Len(y) = Len(x) + 1
        /\ \A k \in 1 .. Len(x) : y[k] = x[k]
        /\ y[Len(x) + 1] = i
    BY <1>3, AppendSeq
  <2>2. DOMAIN x = 1 .. Len(x) /\ DOMAIN y = 1 .. Len(y)
    BY <1>3, <2>1, SeqDomain
  <2> HIDE DEF y
  <2>3. \A k \in DOMAIN y : (k \in DOMAIN x /\ y[k] = x[k]) \/ y[k] = i
    BY <2>1, <2>2
  <2>4. Len(x) + 1 \in DOMAIN y /\ y[Len(x) + 1] = i
    BY <2>1, <2>2
  <2>5. NoPhi(y)
    BY <2>3, <1>3 DEF NoPhi, Plain
  <2>6. i.op \notin Branches => Plain(y)
    BY <2>3, <2>5, <1>3 DEF Plain, Straight
  <2>7. ASSUME NEW b, LeadsTo(y, b) PROVE i.op \in Branches /\ \E j \in DOMAIN i.to : i.to[j] = b
    BY <2>3, <2>7, <1>3 DEF LeadsTo, Plain, Straight
  <2>8. ASSUME NEW b, i.op \in Branches, \E j \in DOMAIN i.to : i.to[j] = b PROVE LeadsTo(y, b)
    BY <2>4, <2>8 DEF LeadsTo
  <2> QED
    BY <2>1, <2>5, <2>6, <2>7, <2>8 DEF y
<1> QED
  BY <1>1, <1>2, <1>3

\* ds is bs, with the instructions is added to block c.
Emits(bs, c, is, ds) ==
  /\ IsSeq(ds) /\ Len(ds) = Len(bs) /\ \A b \in 1 .. Len(bs) : IsSeq(ds[b])
  /\ \A b \in 1 .. Len(bs) : b # c => ds[b] = bs[b]
  /\ \A b \in 1 .. Len(bs) : \A d :
       LeadsTo(ds[b], d) <=> LeadsTo(bs[b], d) \/ (b = c /\ LeadsTo(is, d))
  /\ \A b \in 1 .. Len(bs) : \A P : PhisOf(ds[b], P) <=> PhisOf(bs[b], P)
  /\ Straight(ds[c]) <=> Straight(bs[c]) /\ Straight(is)

LEMMA EmitsThem ==
  ASSUME NEW bs, IsSeq(bs), \A b \in 1 .. Len(bs) : IsSeq(bs[b]), NEW c \in 1 .. Len(bs),
         NEW is, IsSeq(is), NoPhi(is)
  PROVE  Emits(bs, c, is, [bs EXCEPT ![c] = @ \o is])
<1> DEFINE y == bs[c] \o is
           ds == [bs EXCEPT ![c] = y]
<1>1. /\ IsSeq(y)
      /\ \A b : LeadsTo(y, b) <=> LeadsTo(bs[c], b) \/ LeadsTo(is, b)
      /\ Straight(y) <=> Straight(bs[c]) /\ Straight(is)
      /\ \A P : PhisOf(y, P) <=> PhisOf(bs[c], P)
  <2>1. IsSeq(bs[c])
    OBVIOUS
  <2> QED
    BY <2>1, Joined
<1> HIDE DEF y
<1>2. /\ IsSeq(ds) /\ Len(ds) = Len(bs) /\ ds[c] = y
      /\ \A b \in 1 .. Len(bs) : b # c => ds[b] = bs[b]
  BY SetSeq
<1>3. [bs EXCEPT ![c] = @ \o is] = ds
  BY DEF y
<1> HIDE DEF ds
<1>4. Emits(bs, c, is, ds)
  BY <1>1, <1>2 DEF Emits
<1> QED
  BY <1>3, <1>4

LEMMA PhiStays ==
  ASSUME NEW bs, NEW ds, IsSeq(bs), IsSeq(ds), Len(ds) = Len(bs), NEW b \in 1 .. Len(bs),
         \A c \in 1 .. Len(bs) : LeadsTo(ds[c], b) <=> LeadsTo(bs[c], b),
         \A P : PhisOf(bs[b], P) => PhisOf(ds[b], P),
         PhiOK(bs, b)
  PROVE  PhiOK(ds, b)
<1>1. DOMAIN bs = 1 .. Len(bs) /\ DOMAIN ds = 1 .. Len(bs)
  BY SeqDomain
<1>2. {c \in DOMAIN ds : LeadsTo(ds[c], b)} = {c \in DOMAIN bs : LeadsTo(bs[c], b)}
  BY <1>1
<1>3. PhisOf(bs[b], {c \in DOMAIN bs : LeadsTo(bs[c], b)})
  BY PhiRule
<1> QED
  BY <1>2, <1>3, PhiRule

LEMMA NoPhiOK ==
  ASSUME NEW bs, NEW b, bs[b] = <<>>
  PROVE  PhiOK(bs, b)
BY DEF PhiOK

-------------------------------------------------------------------------------
(* What is asked for in place of a visit.                                  *)

Idle(t) == t.do \notin {"between", "merge"}

LEMMA Items ==
  /\ \A do, n : Item(do, n).do = do
  /\ \A do, s : Holding(do, s).do = do /\ Holding(do, s).sc = s
<1>1. ASSUME NEW do, NEW n PROVE Item(do, n).do = do
  BY Zenon DEF Item
<1>2. ASSUME NEW do, NEW s PROVE Holding(do, s).do = do /\ Holding(do, s).sc = s
  BY Zenon DEF Holding, Item
<1> QED
  BY <1>1, <1>2

LEMMA IdleWaits ==
  ASSUME NEW t, Idle(t)
  PROVE  Waits(t) = {} /\ \A bs : Awaited(bs, t)
BY DEF Idle, Waits, Awaited

LEMMA Replaced ==
  ASSUME NEW bs, NEW c, NEW td, IsSeq(td), td # <<>>,
         \A j \in 2 .. Len(td) : Awaited(bs, td[j]) /\ c \notin Waits(td[j]),
         \A j, k \in 2 .. Len(td) : j # k => Waits(td[j]) \cap Waits(td[k]) = {},
         NEW items, IsSeq(items),
         \A j \in 1 .. Len(items) : Awaited(bs, items[j]) /\ c \notin Waits(items[j]),
         \A j, k \in 1 .. Len(items) : j # k => Waits(items[j]) \cap Waits(items[k]) = {},
         \A j \in 1 .. Len(items), k \in 2 .. Len(td) : Waits(items[j]) \cap Waits(td[k]) = {}
  PROVE  Agenda(bs, c, items \o Tail(td))
<1> DEFINE rest == Tail(td)
           te   == items \o rest
           m    == Len(items)
<1>1. /\ Len(td) \in Nat \ {0} /\ IsSeq(rest) /\ Len(rest) = Len(td) - 1
      /\ \A i \in 1 .. Len(td) - 1 : rest[i] = td[i + 1]
  BY TailSeq
<1> HIDE DEF rest
<1>2. /\ m \in Nat /\ IsSeq(te) /\ Len(te) = m + Len(rest)
      /\ \A i \in 1 .. m : te[i] = items[i]
      /\ \A i \in 1 .. Len(rest) : te[m + i] = rest[i]
  <2>1. IsSeq(items) /\ IsSeq(rest)
    BY <1>1
  <2> QED
    BY ONLY <2>1, ConcatSeq
<1> HIDE DEF te, m
<1>3. ASSUME NEW j \in 1 .. Len(te)
      PROVE  \/ j \in 1 .. m /\ te[j] = items[j]
             \/ j \notin 1 .. m /\ j - m + 1 \in 2 .. Len(td) /\ te[j] = td[j - m + 1]
  <2>1. CASE j \in 1 .. m
    BY <2>1, <1>2
  <2>2. CASE j \notin 1 .. m
    <3>1. j - m \in 1 .. Len(rest) /\ j = m + (j - m)
      BY <2>2, <1>1, <1>2
    <3>2. te[j] = rest[j - m]
      BY <3>1, <1>2
    <3>3. rest[j - m] = td[j - m + 1] /\ j - m + 1 \in 2 .. Len(td)
      BY <3>1, <1>1
    <3> QED
      BY <3>2, <3>3, <2>2
  <2> QED
    BY <2>1, <2>2
<1>4. ASSUME NEW j \in 1 .. Len(te) PROVE Awaited(bs, te[j]) /\ c \notin Waits(te[j])
  BY <1>3 DEF m
<1>5. ASSUME NEW j \in 1 .. Len(te), NEW k \in 1 .. Len(te), j # k
      PROVE  Waits(te[j]) \cap Waits(te[k]) = {}
  <2>1. CASE j \in 1 .. m /\ k \in 1 .. m
    BY <2>1, <1>5, <1>3 DEF m
  <2>2. CASE j \in 1 .. m /\ k \notin 1 .. m
    BY <2>2, <1>3 DEF m
  <2>3. CASE j \notin 1 .. m /\ k \in 1 .. m
    BY <2>3, <1>3 DEF m
  <2>4. CASE j \notin 1 .. m /\ k \notin 1 .. m
    <3>1. j - m + 1 # k - m + 1
      BY <1>5, <1>2
    <3> QED
      BY <3>1, <2>4, <1>3
  <2> QED
    BY <2>1, <2>2, <2>3, <2>4
<1>6. Agenda(bs, c, te)
  BY <1>2, <1>4, <1>5 DEF Agenda
<1> QED
  BY <1>6 DEF te, rest

\* A visit that has no blocks of its own, or is done with them, leaves the
\* others to go on.
LEMMA AgendaGoesOn ==
  ASSUME NEW bs, NEW c, NEW td, Agenda(bs, c, td), td # <<>>,
         NEW items, IsSeq(items), \A j \in 1 .. Len(items) : Idle(items[j])
  PROVE  Agenda(bs, c, items \o Tail(td))
<1>1. /\ IsSeq(td)
      /\ \A j \in 1 .. Len(td) : Awaited(bs, td[j]) /\ c \notin Waits(td[j])
      /\ \A j, k \in 1 .. Len(td) : j # k => Waits(td[j]) \cap Waits(td[k]) = {}
  BY DEF Agenda
<1>2. Len(td) \in Nat
  BY <1>1, SeqDomain
<1>3. \A j \in 2 .. Len(td) : j \in 1 .. Len(td)
  BY <1>2
<1>4. /\ \A j \in 2 .. Len(td) : Awaited(bs, td[j]) /\ c \notin Waits(td[j])
      /\ \A j, k \in 2 .. Len(td) : j # k => Waits(td[j]) \cap Waits(td[k]) = {}
  BY <1>1, <1>3
<1>5. \A j \in 1 .. Len(items) : Waits(items[j]) = {} /\ Awaited(bs, items[j])
  BY IdleWaits
<1> QED
  BY <1>1, <1>4, <1>5, Replaced

-------------------------------------------------------------------------------
(* The steps of the blocks and of what awaits them.                        *)

LEMMA AwaitedStays ==
  ASSUME NEW bs, NEW ds, Len(ds) = Len(bs), NEW t, Awaited(bs, t),
         \A b \in Waits(t) : ds[b] = bs[b],
         \A d \in 1 .. Len(bs), b \in Waits(t) : LeadsTo(ds[d], b) <=> LeadsTo(bs[d], b)
  PROVE  Awaited(ds, t)
<1>1. \A b \in Waits(t) : b \in 1 .. Len(ds) /\ ds[b] = <<>>
  BY DEF Awaited
<1>2. ASSUME t.do = "between"
      PROVE  /\ {"merge", "lhs_eval"} \subseteq DOMAIN t.sc
             /\ t.sc.rhs # t.sc.merge
             /\ \A d \in 1 .. Len(ds) : ~LeadsTo(ds[d], t.sc.rhs) /\ ~LeadsTo(ds[d], t.sc.merge)
  <2>1. t.sc.rhs \in Waits(t) /\ t.sc.merge \in Waits(t)
    BY <1>2 DEF Waits
  <2> QED
    BY <2>1, <1>2 DEF Awaited
<1>3. ASSUME t.do = "merge"
      PROVE  /\ t.sc.lhs_eval \in 1 .. Len(ds)
             /\ \A d \in 1 .. Len(ds) : LeadsTo(ds[d], t.sc.merge) <=> d = t.sc.lhs_eval
  <2>1. t.sc.merge \in Waits(t)
    BY <1>3 DEF Waits
  <2> QED
    BY <2>1, <1>3 DEF Awaited
<1> QED
  BY <1>1, <1>2, <1>3 DEF Awaited

LEMMA PlainGoesOn ==
  ASSUME NEW bs, NEW c, Made(bs, c), NEW td, Agenda(bs, c, td),
         NEW is, IsSeq(is), Plain(is)
  PROVE  LET ds == [bs EXCEPT ![c] = @ \o is]
         IN  Made(ds, c) /\ Agenda(ds, c, td)
<1> DEFINE ds == [bs EXCEPT ![c] = @ \o is]
<1>1. /\ IsSeq(bs) /\ \A b \in 1 .. Len(bs) : IsSeq(bs[b])
      /\ c \in 1 .. Len(bs) /\ Straight(bs[c])
      /\ \A b \in 1 .. Len(bs) : \A d : LeadsTo(bs[b], d) => d \in 1 .. Len(bs)
      /\ \A b \in 1 .. Len(bs) : PhiOK(bs, b)
  BY DEF Made
<1>2. NoPhi(is) /\ Straight(is) /\ \A d : ~LeadsTo(is, d)
  BY DEF Plain, Straight, LeadsTo
<1>3. Emits(bs, c, is, ds)
  BY <1>1, <1>2, EmitsThem
<1> HIDE DEF ds
<1>4. /\ IsSeq(ds) /\ Len(ds) = Len(bs) /\ \A b \in 1 .. Len(bs) : IsSeq(ds[b])
      /\ \A b \in 1 .. Len(bs) : b # c => ds[b] = bs[b]
      /\ \A b \in 1 .. Len(bs) : \A d : LeadsTo(ds[b], d) <=> LeadsTo(bs[b], d)
      /\ \A b \in 1 .. Len(bs) : \A P : PhisOf(ds[b], P) <=> PhisOf(bs[b], P)
      /\ Straight(ds[c])
  BY <1>1, <1>2, <1>3 DEF Emits
<1>5. ASSUME NEW b \in 1 .. Len(bs) PROVE PhiOK(ds, b)
  BY <1>1, <1>4, PhiStays
<1>6. Made(ds, c)
  BY <1>1, <1>4, <1>5 DEF Made
<1>7. ASSUME NEW j \in 1 .. Len(td) PROVE Awaited(ds, td[j])
  <2>1. Awaited(bs, td[j]) /\ c \notin Waits(td[j])
    BY DEF Agenda
  <2>2. \A b \in Waits(td[j]) : b \in 1 .. Len(bs) /\ b # c
    BY <2>1 DEF Awaited
  <2> QED
    BY <2>1, <2>2, <1>4, AwaitedStays
<1>8. Agenda(ds, c, td)
  BY <1>7 DEF Agenda
<1> QED
  BY <1>6, <1>8 DEF ds

LEMMA ContinueKeeps ==
  ASSUME PhiInv, phase = "codegen", todo # <<>>,
         NEW items, IsSeq(items), \A j \in 1 .. Len(items) : Idle(items[j]),
         NEW drop, NEW vs, NEW is, IsSeq(is), Plain(is),
         Continue(items, drop, vs, is)
  PROVE  PhiInv'
<1> DEFINE ds == [blocks EXCEPT ![cur] = @ \o is]
           te == items \o Tail(todo)
<1>1. blocks # <<>> /\ Made(blocks, cur) /\ Agenda(blocks, cur, todo)
  BY DEF PhiInv
<1>2. Made(ds, cur) /\ Agenda(ds, cur, todo)
  BY <1>1, PlainGoesOn
<1>3. blocks' = ds /\ cur' = cur /\ phase' = "codegen" /\ todo' = te
  BY DEF Continue, Emit, exprVars
<1> HIDE DEF ds
<1>4. Agenda(ds, cur, te)
  BY <1>2, AgendaGoesOn
<1>5. ds # <<>>
  BY <1>2 DEF Made
<1> HIDE DEF te
<1>6. Made(blocks', cur') /\ Agenda(blocks', cur', todo') /\ blocks' # <<>>
  BY <1>2, <1>3, <1>4, <1>5
<1> QED
  BY <1>3, <1>6 DEF PhiInv

LEMMA ThrowKeeps ==
  ASSUME PhiInv, Throw
  PROVE  PhiInv'
<1>1. phase' = "failed"
  BY DEF Throw
<1> QED
  BY <1>1 DEF PhiInv

\* A single instruction in place of a visit.
LEMMA YieldKeeps ==
  ASSUME PhiInv, phase = "codegen", todo # <<>>, NEW drop, NEW i, NEW elem,
         i.op \notin Branches \cup {"phi"}, Yield(drop, i, elem)
  PROVE  PhiInv'
<1>1. IsSeq(<<i>>) /\ Plain(<<i>>)
  BY PlainSeqs
<1>2. IsSeq(<<>>) /\ \A j \in 1 .. Len(<<>>) : Idle(<<>>[j])
  BY ShortSeqs
<1>3. Continue(<<>>, drop, <<Next(1, i.ty, elem)>>, <<i>>)
  BY DEF Yield
<1> QED
  BY <1>1, <1>2, <1>3, ContinueKeeps

-------------------------------------------------------------------------------
(* The visits of the operands, and of the operators once they have theirs. *)

LEMMA DoingFacts ==
  ASSUME NEW do, Doing(do)
  PROVE  phase = "codegen" /\ todo # <<>> /\ Head(todo).do = do
BY DEF Doing

LEMMA Nothing == IsSeq(<<>>) /\ Plain(<<>>) /\ \A j \in 1 .. Len(<<>>) : Idle(<<>>[j])
BY PlainSeqs

LEMMA OperandKeeps ==
  ASSUME PhiInv, VisitOperand
  PROVE  PhiInv'
<1>1. phase = "codegen" /\ todo # <<>>
  BY DoingFacts DEF VisitOperand
<1>2. PICK vs : Continue(<<>>, 0, vs, <<>>)
  BY Zenon DEF VisitOperand
<1> QED
  BY <1>1, <1>2, Nothing, ContinueKeeps

LEMMA VisitIDKeeps ==
  ASSUME PhiInv, VisitID
  PROVE  PhiInv'
<1>1. phase = "codegen" /\ todo # <<>>
  BY DoingFacts DEF VisitID
<1>2. PICK ty, v, elem : Yield(0, Load(ty, v), elem)
  BY Zenon DEF VisitID
<1>3. Load(ty, v).op \notin Branches \cup {"phi"}
  BY Emitted DEF Branches
<1> QED
  BY <1>1, <1>2, <1>3, YieldKeeps

LEMMA VisitCallKeeps ==
  ASSUME PhiInv, VisitCall
  PROVE  PhiInv'
<1>1. phase = "codegen" /\ todo # <<>>
  BY DoingFacts DEF VisitCall
<1>2. PICK i, elem : /\ Yield(0, i, elem)
                     /\ i.op \notin Branches \cup {"phi"}
  <2>1. PICK elem : Yield(0, CASE Op = "NEW"  -> Call("malloc", "ptr", <<Const("i64", AllocSize(LlvmType(TypeOf[N])))>>)
                [] Op = "READ" -> Call("scanf", "i8", <<>>)
                [] Op = "CALL" -> Call(expr[N].x, LlvmType(FunType[expr[N].x]), <<>>), elem)
    BY Zenon DEF VisitCall
  <2> DEFINE i == CASE Op = "NEW"  -> Call("malloc", "ptr", <<Const("i64", AllocSize(LlvmType(TypeOf[N])))>>)
                [] Op = "READ" -> Call("scanf", "i8", <<>>)
                [] Op = "CALL" -> Call(expr[N].x, LlvmType(FunType[expr[N].x]), <<>>)
  <2>2. Op \in {"NEW", "CALL", "READ"}
    BY DEF VisitCall
  <2>3. i.op = "call"
    <3>1. CASE Op = "NEW"
      BY <3>1, Emitted
    <3>2. CASE Op = "READ"
      BY <3>2, Emitted
    <3>3. CASE Op = "CALL"
      BY <3>3, Emitted
    <3> QED
      BY <2>2, <3>1, <3>2, <3>3
  <2> HIDE DEF i
  <2>4. i.op \notin Branches \cup {"phi"}
    BY <2>3 DEF Branches
  <2> QED
    BY <2>1, <2>4 DEF i
<1> QED
  BY <1>1, <1>2, YieldKeeps

LEMMA IdleItems ==
  /\ \A do, n : do \notin {"between", "merge"} => Idle(Item(do, n))
  /\ \A x : Idle(x) => IsSeq(<<x>>) /\ \A j \in 1 .. Len(<<x>>) : Idle(<<x>>[j])
  /\ \A x, y : Idle(x) /\ Idle(y) =>
       IsSeq(<<x, y>>) /\ \A j \in 1 .. Len(<<x, y>>) : Idle(<<x, y>>[j])
  /\ \A x, y, z : Idle(x) /\ Idle(y) /\ Idle(z) =>
       IsSeq(<<x, y, z>>) /\ \A j \in 1 .. Len(<<x, y, z>>) : Idle(<<x, y, z>>[j])
<1>1. ASSUME NEW do, NEW n, do \notin {"between", "merge"} PROVE Idle(Item(do, n))
  BY <1>1, Items DEF Idle
<1>2. ASSUME NEW x, Idle(x)
      PROVE  IsSeq(<<x>>) /\ \A j \in 1 .. Len(<<x>>) : Idle(<<x>>[j])
  BY <1>2, ShortSeqs
<1>3. ASSUME NEW x, NEW y, Idle(x), Idle(y)
      PROVE  IsSeq(<<x, y>>) /\ \A j \in 1 .. Len(<<x, y>>) : Idle(<<x, y>>[j])
  BY <1>3, ShortSeqs
<1>4. ASSUME NEW x, NEW y, NEW z, Idle(x), Idle(y), Idle(z)
      PROVE  IsSeq(<<x, y, z>>) /\ \A j \in 1 .. Len(<<x, y, z>>) : Idle(<<x, y, z>>[j])
  BY <1>4, ShortSeqs
<1> QED
  BY <1>1, <1>2, <1>3, <1>4

LEMMA PartsIdle ==
  ASSUME NEW op, NEW n
  PROVE  IsSeq(Parts(op, n)) /\ \A j \in 1 .. Len(Parts(op, n)) : Idle(Parts(op, n)[j])
<1> DEFINE a == Item("lvalue", n + 1)
           b == Item("visit", n + 1)
           c == Item("close", n)
           d == Item("lvalue", n)
           e == Item("visit", Second(n))
<1>1. Idle(a) /\ Idle(b) /\ Idle(c) /\ Idle(d) /\ Idle(e)
  BY IdleItems
<1>2. \/ Parts(op, n) = <<a>>
      \/ Parts(op, n) = <<b, a, c>>
      \/ Parts(op, n) = <<d, c>>
      \/ Parts(op, n) = <<b, e, c>>
      \/ Parts(op, n) = <<b, c>>
  BY DEF Parts
<1> HIDE DEF a, b, c, d, e
<1> DEFINE p == Parts(op, n)
<1> HIDE DEF p
<1>3. CASE p = <<a>>
  BY <1>3, <1>1, IdleItems DEF p
<1>4. CASE p = <<b, a, c>>
  BY <1>4, <1>1, IdleItems DEF p
<1>5. CASE p = <<d, c>>
  BY <1>5, <1>1, IdleItems DEF p
<1>6. CASE p = <<b, e, c>>
  BY <1>6, <1>1, IdleItems DEF p
<1>7. CASE p = <<b, c>>
  BY <1>7, <1>1, IdleItems DEF p
<1> QED
  BY <1>2, <1>3, <1>4, <1>5, <1>6, <1>7 DEF p

LEMMA OperatorKeeps ==
  ASSUME PhiInv, VisitOperator
  PROVE  PhiInv'
<1>1. phase = "codegen" /\ todo # <<>>
  BY DoingFacts DEF VisitOperator
<1>2. Continue(Parts(Op, N), 0, <<>>, <<>>)
  BY DEF VisitOperator
<1>3. IsSeq(Parts(Op, N)) /\ \A j \in 1 .. Len(Parts(Op, N)) : Idle(Parts(Op, N)[j])
  BY PartsIdle
<1> QED
  BY <1>1, <1>2, <1>3, Nothing, ContinueKeeps

LEMMA LValueKeeps ==
  ASSUME PhiInv, LValue
  PROVE  PhiInv'
<1>1. phase = "codegen" /\ todo # <<>>
  BY DoingFacts DEF LValue
<1>2. \/ \E vs : Continue(<<>>, 0, vs, <<>>)
      \/ Continue(<<Item("visit", N + 1)>>, 0, <<>>, <<>>)
      \/ Continue(<<Base(Op, N + 1), Item("field", N)>>, 0, <<>>, <<>>)
      \/ Throw
  BY DEF LValue
<1>3. ASSUME NEW vs, Continue(<<>>, 0, vs, <<>>) PROVE PhiInv'
  BY <1>1, <1>3, Nothing, ContinueKeeps
<1>4. ASSUME Continue(<<Item("visit", N + 1)>>, 0, <<>>, <<>>) PROVE PhiInv'
  <2> DEFINE x == <<Item("visit", N + 1)>>
  <2>1. IsSeq(x) /\ \A j \in 1 .. Len(x) : Idle(x[j])
    BY IdleItems
  <2>2. Continue(x, 0, <<>>, <<>>)
    BY <1>4
  <2> HIDE DEF x
  <2> QED
    BY <1>1, <2>1, <2>2, Nothing, ContinueKeeps
<1>5. ASSUME Continue(<<Base(Op, N + 1), Item("field", N)>>, 0, <<>>, <<>>) PROVE PhiInv'
  <2> DEFINE x == <<Base(Op, N + 1), Item("field", N)>>
  <2>1. Idle(Base(Op, N + 1)) /\ Idle(Item("field", N))
    BY IdleItems DEF Base
  <2>2. IsSeq(x) /\ \A j \in 1 .. Len(x) : Idle(x[j])
    BY <2>1, IdleItems
  <2>3. Continue(x, 0, <<>>, <<>>)
    BY <1>5
  <2> HIDE DEF x
  <2> QED
    BY <1>1, <2>2, <2>3, Nothing, ContinueKeeps
<1> QED
  BY <1>2, <1>3, <1>4, <1>5, ThrowKeeps

LEMMA FieldKeeps ==
  ASSUME PhiInv, LValueField
  PROVE  PhiInv'
<1>1. phase = "codegen" /\ todo # <<>>
  BY DoingFacts DEF LValueField
<1>2. PICK args, elem : Yield(1, Instruction("gep", "ptr", args), elem)
  BY Zenon DEF LValueField
<1>3. Instruction("gep", "ptr", args).op \notin Branches \cup {"phi"}
  BY Emitted DEF Branches
<1> QED
  BY <1>1, <1>2, <1>3, YieldKeeps

\* Of a conversion.
LEMMA ConvertedPlain ==
  ASSUME NEW v, NEW need_it, NEW i, i.op \notin Branches \cup {"phi"}
  PROVE  IsSeq(Converted(v, need_it, i).is) /\ Plain(Converted(v, need_it, i).is)
<1>1. Converted(v, need_it, i).is = <<i>> \/ Converted(v, need_it, i).is = <<>>
  BY Zenon DEF Converted
<1> QED
  BY <1>1, PlainSeqs

LEMMA ConversionsPlain ==
  /\ \A v : IsSeq(AsBool(v).is) /\ Plain(AsBool(v).is)
  /\ \A v, ty : IsSeq(AsStored(v, ty).is) /\ Plain(AsStored(v, ty).is)
  /\ \A l, r : IsSeq(Widened(l, r).is) /\ Plain(Widened(l, r).is)
<1>1. ASSUME NEW v PROVE NotZero(v).op \notin Branches \cup {"phi"}
  BY Emitted DEF Branches
<1>2. ASSUME NEW v, NEW ty PROVE Cast(v, ty).op \notin Branches \cup {"phi"}
  BY Emitted DEF Branches
<1>3. ASSUME NEW v PROVE IsSeq(AsBool(v).is) /\ Plain(AsBool(v).is)
  BY <1>1, ConvertedPlain DEF AsBool
<1>4. ASSUME NEW v, NEW ty PROVE IsSeq(AsStored(v, ty).is) /\ Plain(AsStored(v, ty).is)
  BY <1>2, ConvertedPlain DEF AsStored
<1>5. ASSUME NEW l, NEW r PROVE IsSeq(Widened(l, r).is) /\ Plain(Widened(l, r).is)
  <2>1. PICK v, need_it : Widened(l, r).is = Converted(v, need_it, Cast(v, "i32")).is
    BY Zenon DEF Widened
  <2> QED
    BY <2>1, <1>2, ConvertedPlain
<1> QED
  BY <1>3, <1>4, <1>5

LEMMA BinaryKeeps ==
  ASSUME PhiInv, CloseBinary
  PROVE  PhiInv'
<1>1. phase = "codegen" /\ todo # <<>> /\ Op \in Binary
  BY DoingFacts DEF CloseBinary
<1> DEFINE pointers == IsPointer(TypeOf[N + 1]) \/ IsPointer(TypeOf[Second(N)])
           w == IF pointers THEN [is |-> <<>>, l |-> vals[2], r |-> vals[1]]
                            ELSE Widened(vals[2], vals[1])
           i == Instruction(Op, IF Op \in Compare THEN "i1" ELSE w.l.ty, <<w.l, w.r>>)
           is == Append(w.is, i)
<1>2. \E vs : Continue(<<>>, 2, vs, is)
  BY Zenon DEF CloseBinary
<1>3. IsSeq(w.is) /\ Plain(w.is)
  <2>1. CASE pointers
    <3>1. w.is = <<>>
      BY <2>1, Zenon
    <3> HIDE DEF w
    <3> QED
      BY <3>1, PlainSeqs
  <2>2. CASE ~pointers
    <3>1. w.is = Widened(vals[2], vals[1]).is
      BY <2>2, Zenon
    <3> HIDE DEF w
    <3> QED
      BY <3>1, ConversionsPlain
  <2> QED
    BY <2>1, <2>2
<1>4. i.op = Op
  <2> HIDE DEF w
  <2>1. \A ty, args : Instruction(Op, ty, args).op = Op
    BY Emitted
  <2> QED
    BY <2>1, Zenon
<1>5. Op \notin Branches \cup {"phi"}
  BY <1>1 DEF Binary, Logical, Compare, Additive, Arithmetic, Branches
<1> HIDE DEF w, i
<1>6. IsSeq(is) /\ Plain(is)
  BY <1>3, <1>4, <1>5, PlainSeqs
<1> HIDE DEF is
<1> QED
  BY <1>1, <1>2, <1>6, Nothing, ContinueKeeps

LEMMA PointerPlusKeeps ==
  ASSUME PhiInv, ClosePointerPlus
  PROVE  PhiInv'
<1>1. phase = "codegen" /\ todo # <<>>
  BY DoingFacts DEF ClosePointerPlus
<1>2. Throw \/ \E e, args : Yield(2, Over(e, "gep", "ptr", args), e)
  BY Zenon DEF ClosePointerPlus
<1>3. ASSUME NEW e, NEW args PROVE Over(e, "gep", "ptr", args).op \notin Branches \cup {"phi"}
  BY Emitted DEF Branches
<1> QED
  BY <1>1, <1>2, <1>3, YieldKeeps, ThrowKeeps

LEMMA PointerSubKeeps ==
  ASSUME PhiInv, ClosePointerSub
  PROVE  PhiInv'
<1>1. phase = "codegen" /\ todo # <<>>
  BY DoingFacts DEF ClosePointerSub
<1>2. Throw \/ \E e, args, elem : Yield(2, Over(e, "ptrdiff", "i32", args), elem)
  BY Zenon DEF ClosePointerSub
<1>3. ASSUME NEW e, NEW args PROVE Over(e, "ptrdiff", "i32", args).op \notin Branches \cup {"phi"}
  BY Emitted DEF Branches
<1> QED
  BY <1>1, <1>2, <1>3, YieldKeeps, ThrowKeeps

LEMMA UnaryKeeps ==
  ASSUME PhiInv, CloseUnary
  PROVE  PhiInv'
<1>1. phase = "codegen" /\ todo # <<>>
  BY DoingFacts DEF CloseUnary
<1>2. CASE Op = "expr3"
  <2>1. Continue(<<>>, 0, <<>>, <<>>)
    BY <1>2, Zenon DEF CloseUnary
  <2> QED
    BY <1>1, <2>1, Nothing, ContinueKeeps
<1>3. CASE Op # "expr3"
  <2> DEFINE op == IF Op = "expr4" THEN "neg" ELSE "not"
  <2>1. PICK ty, args, elem : Yield(1, Instruction(op, ty, args), elem)
    BY <1>3, Zenon DEF CloseUnary
  <2>2. op \in {"neg", "not"}
    OBVIOUS
  <2> HIDE DEF op
  <2>3. Instruction(op, ty, args).op \notin Branches \cup {"phi"}
    BY <2>2, Emitted DEF Branches
  <2> QED
    BY <1>1, <2>1, <2>3, YieldKeeps
<1> QED
  BY <1>2, <1>3

LEMMA LoadKeeps ==
  ASSUME PhiInv, CloseLoad
  PROVE  PhiInv'
<1>1. phase = "codegen" /\ todo # <<>>
  BY DoingFacts DEF CloseLoad
<1>2. Throw \/ \E ty, v, elem : Yield(1, Load(ty, v), elem)
  BY Zenon DEF CloseLoad
<1>3. ASSUME NEW ty, NEW v PROVE Load(ty, v).op \notin Branches \cup {"phi"}
  BY Emitted DEF Branches
<1> QED
  BY <1>1, <1>2, <1>3, YieldKeeps, ThrowKeeps

LEMMA StepKeeps ==
  ASSUME PhiInv, CloseStep
  PROVE  PhiInv'
<1>1. phase = "codegen" /\ todo # <<>>
  BY DoingFacts DEF CloseStep
<1>2. \/ Throw
      \/ \E vs, a, b, e, op, args, st :
           /\ Continue(<<>>, 2, vs, <<Load(a, b), Over(e, op, e, args), Instruction("store", "void", st)>>)
           /\ op \in {"gep", "PLUS"}
  <2> DEFINE a == vals[1]
             op == IF a.elem = "ptr" THEN "gep" ELSE "PLUS"
  <2>1. \/ Throw
        \/ \E vs, args, st :
             Continue(<<>>, 2, vs, <<Load(a.elem, a), Over(a.elem, op, a.elem, args),
                                     Instruction("store", "void", st)>>)
    BY Zenon DEF CloseStep
  <2>2. op \in {"gep", "PLUS"}
    OBVIOUS
  <2> HIDE DEF a, op
  <2> QED
    BY <2>1, <2>2, Zenon
<1>3. ASSUME NEW vs, NEW a, NEW b, NEW e, NEW op \in {"gep", "PLUS"}, NEW args, NEW st,
             Continue(<<>>, 2, vs, <<Load(a, b), Over(e, op, e, args), Instruction("store", "void", st)>>)
      PROVE  PhiInv'
  <2> DEFINE x == Load(a, b)
             y == Over(e, op, e, args)
             z == Instruction("store", "void", st)
             is == <<x, y, z>>
  <2>1. x.op = "load"
    BY Emitted
  <2>2. y.op = op
    BY Emitted
  <2>3. z.op = "store"
    BY Emitted
  <2> HIDE DEF x, y, z
  <2>4. IsSeq(is) /\ DOMAIN is = {1, 2, 3} /\ is[1] = x /\ is[2] = y /\ is[3] = z
    BY ShortSeqs
  <2>5. Continue(<<>>, 2, vs, is)
    BY <1>3, Zenon DEF x, y, z
  <2> HIDE DEF is
  <2>6. Plain(is)
    BY <2>1, <2>2, <2>3, <2>4 DEF Plain, Straight, NoPhi, Branches
  <2> QED
    BY <1>1, <2>4, <2>5, <2>6, Nothing, ContinueKeeps
<1> QED
  BY <1>2, <1>3, ThrowKeeps

LEMMA ArgumentKeeps ==
  ASSUME PhiInv, CloseArgument
  PROVE  PhiInv'
<1>1. phase = "codegen" /\ todo # <<>>
  BY DoingFacts DEF CloseArgument
<1>2. PICK x, ty, args, elem : Yield(1, Call(x, ty, args), elem)
  BY Zenon DEF CloseArgument
<1>3. Call(x, ty, args).op \notin Branches \cup {"phi"}
  BY Emitted DEF Branches
<1> QED
  BY <1>1, <1>2, <1>3, YieldKeeps

-------------------------------------------------------------------------------
(* && and ||, and the statement.                                           *)

IdleSeq(s) == IsSeq(s) /\ \A j \in 1 .. Len(s) : Idle(s[j])

LEMMA IdleConcat ==
  ASSUME NEW s, NEW t, IdleSeq(s), IdleSeq(t)
  PROVE  IdleSeq(s \o t)
<1> DEFINE u == s \o t
<1>1. IsSeq(s) /\ IsSeq(t)
  BY DEF IdleSeq
<1>2. /\ Len(s) \in Nat /\ Len(t) \in Nat
      /\ IsSeq(u) /\ Len(u) = Len(s) + Len(t)
      /\ \A i \in 1 .. Len(s) : u[i] = s[i]
      /\ \A i \in 1 .. Len(t) : u[Len(s) + i] = t[i]
  BY ONLY <1>1, ConcatSeq
<1> HIDE DEF u
<1>3. ASSUME NEW j \in 1 .. Len(u) PROVE Idle(u[j])
  <2>1. CASE j \in 1 .. Len(s)
    BY <2>1, <1>2 DEF IdleSeq
  <2>2. CASE j \notin 1 .. Len(s)
    <3>1. j - Len(s) \in 1 .. Len(t) /\ j = Len(s) + (j - Len(s))
      BY <2>2, <1>2
    <3>2. u[j] = t[j - Len(s)]
      BY <3>1, <1>2
    <3> QED
      BY <3>1, <3>2 DEF IdleSeq
  <2> QED
    BY <2>1, <2>2
<1> QED
  BY <1>2, <1>3 DEF IdleSeq, u

LEMMA StartKeeps ==
  ASSUME PhiInv, Start
  PROVE  PhiInv'
<1> DEFINE bs == <<<<>>>>
           a  == Item("visit", Root)
           b  == Item("lvalue", 1)
           c  == Item("finish", 0)
           td == <<a>> \o (IF stmt.k = "asst" THEN <<b>> ELSE <<>>) \o <<c>>
<1>1. blocks' = bs /\ cur' = 1 /\ todo' = td /\ phase' = "codegen"
  BY DEF Start, exprVars
<1>2. Idle(a) /\ Idle(b) /\ Idle(c)
  BY IdleItems
<1> HIDE DEF a, b, c
<1>3. IsSeq(td) /\ \A j \in 1 .. Len(td) : Idle(td[j])
  <2> DEFINE e == <<a>>
             f == IF stmt.k = "asst" THEN <<b>> ELSE <<>>
             g == <<c>>
  <2>1. IdleSeq(e) /\ IdleSeq(f) /\ IdleSeq(g)
    BY <1>2, Nothing, IdleItems DEF IdleSeq
  <2> HIDE DEF e, f, g
  <2>2. IdleSeq(e \o f)
    BY <2>1, IdleConcat
  <2>3. IdleSeq((e \o f) \o g)
    BY <2>1, <2>2, IdleConcat
  <2> QED
    BY <2>3 DEF IdleSeq, e, f, g
<1> HIDE DEF td
<1>4. Agenda(bs, 1, td)
  <2>1. \A j \in 1 .. Len(td) : Waits(td[j]) = {} /\ Awaited(bs, td[j])
    BY <1>3, IdleWaits
  <2> QED
    BY <1>3, <2>1 DEF Agenda
<1>5. IsSeq(bs) /\ Len(bs) = 1 /\ bs[1] = <<>> /\ bs # <<>>
  BY ShortSeqs
<1> HIDE DEF bs
<1>6. DOMAIN bs[1] = {}
  BY <1>5
<1>7. Made(bs, 1)
  <2>1. \A b_1 \in 1 .. Len(bs) : b_1 = 1
    BY <1>5
  <2>2. PhiOK(bs, 1)
    BY <1>5, NoPhiOK
  <2>3. Straight(bs[1]) /\ \A d : ~LeadsTo(bs[1], d)
    BY <1>6 DEF Straight, LeadsTo
  <2> QED
    BY <2>1, <2>2, <2>3, <1>5, ShortSeqs DEF Made
<1>8. Made(blocks', cur') /\ Agenda(blocks', cur', todo') /\ blocks' # <<>>
  BY <1>1, <1>4, <1>5, <1>7
<1> QED
  BY <1>1, <1>8 DEF PhiInv

LEMMA LogicalKeeps ==
  ASSUME PhiInv, VisitLogical
  PROVE  PhiInv'
<1> DEFINE n    == Len(blocks)
           ds   == blocks \o <<<<>>, <<>>>>
           s    == [rhs |-> n + 1, merge |-> n + 2, lhs_eval |-> cur]
           x    == Item("visit", N + 1)
           y    == Holding("between", s)
           te   == <<x, y>> \o Tail(todo)
<1>1. phase = "codegen" /\ todo # <<>>
  BY DoingFacts DEF VisitLogical
<1>2. blocks # <<>> /\ Made(blocks, cur) /\ Agenda(blocks, cur, todo)
  BY <1>1 DEF PhiInv
<1>3. n \in Nat \ {0} /\ IsSeq(blocks) /\ DOMAIN blocks = 1 .. n
  BY <1>2, SeqDomain DEF Made
<1>4. blocks' = ds /\ cur' = cur /\ phase' = "codegen" /\ todo' = te
  <2>1. n + 1 + 1 = n + 2
    BY <1>3
  <2> QED
    BY <1>1, <2>1 DEF VisitLogical, exprVars
<1>5. /\ IsSeq(ds) /\ Len(ds) = n + 2
      /\ \A b \in 1 .. n : ds[b] = blocks[b]
      /\ ds[n + 1] = <<>> /\ ds[n + 2] = <<>>
  <2> DEFINE e == <<<<>>, <<>>>>
  <2>1. IsSeq(e) /\ Len(e) = 2 /\ e[1] = <<>> /\ e[2] = <<>>
    BY ShortSeqs
  <2> HIDE DEF e
  <2>2. /\ IsSeq(blocks \o e) /\ Len(blocks \o e) = n + 2
        /\ \A b \in 1 .. n : (blocks \o e)[b] = blocks[b]
        /\ \A b \in 1 .. 2 : (blocks \o e)[n + b] = e[b]
    <3>1. /\ IsSeq(blocks \o e) /\ Len(blocks \o e) = Len(blocks) + Len(e)
          /\ \A b \in 1 .. Len(blocks) : (blocks \o e)[b] = blocks[b]
          /\ \A b \in 1 .. Len(e) : (blocks \o e)[Len(blocks) + b] = e[b]
      <4>1. IsSeq(blocks) /\ IsSeq(e)
        BY <1>3, <2>1
      <4>2. Joins(blocks, e, blocks \o e)
        BY ONLY <4>1, ConcatJoins
      <4> QED
        BY <4>2 DEF Joins
    <3>2. Len(blocks) = n /\ Len(e) = 2
      BY <2>1
    <3> HIDE DEF n, ds, s, x, y
    <3>3. /\ IsSeq(blocks \o e) /\ Len(blocks \o e) = n + 2
          /\ \A b \in 1 .. n : (blocks \o e)[b] = blocks[b]
          /\ \A b \in 1 .. 2 : (blocks \o e)[n + b] = e[b]
      BY ONLY <3>1, <3>2
    <3> QED
      BY <3>3
  <2>3. (blocks \o e)[n + 1] = <<>> /\ (blocks \o e)[n + 2] = <<>>
    BY <2>1, <2>2
  <2> QED
    BY <2>2, <2>3 DEF e
<1>6. /\ s.rhs = n + 1 /\ s.merge = n + 2 /\ {"merge", "lhs_eval"} \subseteq DOMAIN s
      /\ x.do = "visit" /\ y.do = "between" /\ y.sc = s
  BY Items
<1>7. IsSeq(<<x, y>>) /\ Len(<<x, y>>) = 2 /\ <<x, y>>[1] = x /\ <<x, y>>[2] = y
  BY ShortSeqs
<1> DEFINE two == <<x, y>>
<1> HIDE DEF n, ds, s, x, y
<1>8. /\ \A b \in 1 .. n : IsSeq(blocks[b]) /\ PhiOK(blocks, b)
      /\ \A b \in 1 .. n : \A d : LeadsTo(blocks[b], d) => d \in 1 .. n
      /\ cur \in 1 .. n /\ Straight(blocks[cur])
  BY <1>2 DEF Made, n
<1>9. \A d : ~LeadsTo(<<>>, d)
  BY PlainSeqs DEF Plain, Straight, LeadsTo
<1>10. \A b \in 1 .. n + 2 : b \in 1 .. n \/ ds[b] = <<>>
  BY <1>3, <1>5
<1>11. \A b \in 1 .. n + 2 : \A d : LeadsTo(ds[b], d) => b \in 1 .. n /\ LeadsTo(blocks[b], d)
  BY <1>5, <1>9, <1>10
<1>12. ASSUME NEW b \in 1 .. n PROVE PhiOK(ds, b)
  <2>1. DOMAIN ds = 1 .. n + 2
    BY <1>5, SeqDomain
  <2>2. {c \in DOMAIN ds : LeadsTo(ds[c], b)} = {c \in DOMAIN blocks : LeadsTo(blocks[c], b)}
    <3>1. \A c \in 1 .. n : c \in 1 .. n + 2 /\ ds[c] = blocks[c]
      BY <1>3, <1>5
    <3> QED
      BY <3>1, <2>1, <1>3, <1>11
  <2>3. PhisOf(blocks[b], {c \in DOMAIN blocks : LeadsTo(blocks[c], b)})
    BY <1>8, PhiRule
  <2>4. PhisOf(ds[b], {c \in DOMAIN ds : LeadsTo(ds[c], b)})
    BY <2>2, <2>3, <1>5
  <2> QED
    BY <2>4, PhiRule
<1>13. Made(ds, cur)
  <2>1. \A b \in 1 .. n + 2 : IsSeq(ds[b]) /\ PhiOK(ds, b)
    BY <1>5, <1>8, <1>10, <1>12, NoPhiOK, ShortSeqs
  <2>2. cur \in 1 .. n + 2 /\ Straight(ds[cur])
    BY <1>3, <1>5, <1>8
  <2>3. ASSUME NEW b \in 1 .. n + 2, NEW d, LeadsTo(ds[b], d) PROVE d \in 1 .. n + 2
    <3>1. b \in 1 .. n /\ LeadsTo(blocks[b], d)
      BY <2>3, <1>11
    <3>2. d \in 1 .. n
      BY <3>1, <1>8
    <3> QED
      BY <3>2, <1>3
  <2> QED
    BY <2>1, <2>2, <2>3, <1>5 DEF Made
<1>14. Waits(y) = {n + 1, n + 2} /\ Waits(x) = {}
  BY <1>6 DEF Waits
<1>15. Awaited(ds, x) /\ Awaited(ds, y)
  <2>1. Awaited(ds, x)
    BY <1>6, IdleWaits DEF Idle
  <2>2. \A b \in Waits(y) : b \in 1 .. Len(ds) /\ ds[b] = <<>>
    BY <1>3, <1>5, <1>14
  <2>3. n + 1 # n + 2 /\ n + 1 \notin 1 .. n /\ n + 2 \notin 1 .. n
    BY <1>3
  <2>4. \A d \in 1 .. Len(ds) : ~LeadsTo(ds[d], n + 1) /\ ~LeadsTo(ds[d], n + 2)
    BY <2>3, <1>5, <1>8, <1>11
  <2> QED
    BY <2>1, <2>2, <2>3, <2>4, <1>6 DEF Awaited
<1>16. /\ IsSeq(todo) /\ Len(todo) \in Nat
       /\ \A j \in 2 .. Len(todo) : Awaited(ds, todo[j]) /\ cur \notin Waits(todo[j])
                                    /\ Waits(todo[j]) \subseteq 1 .. n
       /\ \A j, k \in 2 .. Len(todo) : j # k => Waits(todo[j]) \cap Waits(todo[k]) = {}
  <2>1. IsSeq(todo) /\ Len(todo) \in Nat
    BY <1>2, SeqDomain DEF Agenda
  <2>2. \A j \in 2 .. Len(todo) : j \in 1 .. Len(todo)
    BY <2>1
  <2>3. ASSUME NEW j \in 2 .. Len(todo)
        PROVE  Awaited(ds, todo[j]) /\ cur \notin Waits(todo[j]) /\ Waits(todo[j]) \subseteq 1 .. n
    <3> DEFINE t == todo[j]
    <3>1. Awaited(blocks, t) /\ cur \notin Waits(t)
      BY <2>2, <1>2 DEF Agenda
    <3> HIDE DEF t
    <3>2. \A b \in Waits(t) : b \in 1 .. n /\ blocks[b] = <<>>
      BY <3>1 DEF Awaited, n
    <3>3. \A b \in 1 .. n : b \in 1 .. n + 2
      BY <1>3
    <3>4. \A b \in Waits(t) : b \in 1 .. Len(ds) /\ ds[b] = <<>>
      BY <3>2, <3>3, <1>5
    <3>5. ASSUME t.do = "between"
          PROVE  /\ {"merge", "lhs_eval"} \subseteq DOMAIN t.sc
                 /\ t.sc.rhs # t.sc.merge
                 /\ \A d \in 1 .. Len(ds) : ~LeadsTo(ds[d], t.sc.rhs) /\ ~LeadsTo(ds[d], t.sc.merge)
      <4>1. /\ {"merge", "lhs_eval"} \subseteq DOMAIN t.sc
            /\ t.sc.rhs # t.sc.merge
            /\ \A d \in 1 .. n : ~LeadsTo(blocks[d], t.sc.rhs) /\ ~LeadsTo(blocks[d], t.sc.merge)
        BY <3>1, <3>5 DEF Awaited, n
      <4> QED
        BY <4>1, <1>5, <1>11
    <3>6. ASSUME t.do = "merge"
          PROVE  /\ t.sc.lhs_eval \in 1 .. Len(ds)
                 /\ \A d \in 1 .. Len(ds) : LeadsTo(ds[d], t.sc.merge) <=> d = t.sc.lhs_eval
      <4>1. /\ t.sc.lhs_eval \in 1 .. n
            /\ \A d \in 1 .. n : LeadsTo(blocks[d], t.sc.merge) <=> d = t.sc.lhs_eval
        BY <3>1, <3>6 DEF Awaited, n
      <4> QED
        BY <4>1, <3>3, <1>5, <1>11
    <3>7. Awaited(ds, t)
      BY <3>4, <3>5, <3>6 DEF Awaited
    <3> QED
      BY <3>1, <3>2, <3>7 DEF t
  <2>4. \A j, k \in 2 .. Len(todo) : j # k => Waits(todo[j]) \cap Waits(todo[k]) = {}
    BY <2>2, <1>2 DEF Agenda
  <2> QED
    BY <2>1, <2>3, <2>4
<1>17. /\ IsSeq(two)
       /\ \A j \in 1 .. Len(two) : Awaited(ds, two[j]) /\ cur \notin Waits(two[j])
       /\ \A j, k \in 1 .. Len(two) : j # k => Waits(two[j]) \cap Waits(two[k]) = {}
       /\ \A j \in 1 .. Len(two), k \in 2 .. Len(todo) : Waits(two[j]) \cap Waits(todo[k]) = {}
  <2>1. \A j \in 1 .. 2 : (j = 1 /\ two[j] = x) \/ (j = 2 /\ two[j] = y)
    BY <1>7
  <2> HIDE DEF two
  <2>2. n + 1 \notin 1 .. n /\ n + 2 \notin 1 .. n
    BY <1>3
  <2>3. cur \notin Waits(y) /\ cur \notin Waits(x)
    BY <2>2, <1>8, <1>14
  <2>4. \A k \in 2 .. Len(todo) : Waits(y) \cap Waits(todo[k]) = {}
    BY <2>2, <1>14, <1>16
  <2> QED
    BY <2>1, <2>3, <2>4, <1>7, <1>14, <1>15 DEF two
<1> HIDE DEF two
<1>18. Agenda(ds, cur, two \o Tail(todo))
  <2>1. \A j \in 2 .. Len(todo) : Awaited(ds, todo[j]) /\ cur \notin Waits(todo[j])
    BY <1>16
  <2> QED
    BY <1>1, <1>16, <1>17, <2>1, Replaced
<1>19. ds # <<>>
  BY <1>3, <1>5
<1>20. Made(blocks', cur') /\ Agenda(blocks', cur', todo') /\ blocks' # <<>>
  BY <1>4, <1>13, <1>18, <1>19 DEF two
<1> QED
  BY <1>4, <1>20 DEF PhiInv

LEMMA BetweenKeeps ==
  ASSUME PhiInv, LogicalBetween
  PROVE  PhiInv'
<1> DEFINE t  == Head(todo)
           s  == t.sc
           l  == AsBool(vals[1])
           i  == Branch(Op, l.v, s)
           is == Append(l.is, i)
           ds == [blocks EXCEPT ![cur] = @ \o is]
           x  == Item("visit", Second(N))
           y  == Holding("merge", LhsEval(s))
           two == <<x, y>>
<1>1. phase = "codegen" /\ todo # <<>> /\ t.do = "between"
  BY DoingFacts DEF LogicalBetween
<1>2. blocks # <<>> /\ Made(blocks, cur) /\ Agenda(blocks, cur, todo)
  BY <1>1 DEF PhiInv
<1>3. blocks' = ds /\ cur' = s.rhs /\ phase' = "codegen" /\ todo' = two \o Tail(todo)
  BY <1>1 DEF LogicalBetween, exprVars, Emit
<1>4. /\ IsSeq(blocks) /\ \A b \in 1 .. Len(blocks) : IsSeq(blocks[b]) /\ PhiOK(blocks, b)
      /\ cur \in 1 .. Len(blocks) /\ Straight(blocks[cur])
      /\ \A b \in 1 .. Len(blocks) : \A d : LeadsTo(blocks[b], d) => d \in 1 .. Len(blocks)
  BY <1>2 DEF Made
<1>5. IsSeq(todo) /\ Len(todo) \in Nat \ {0} /\ t = todo[1]
  <2>1. IsSeq(todo)
    BY <1>2 DEF Agenda
  <2> QED
    BY <1>1, <2>1, TailSeq
<1>6. /\ Awaited(blocks, t) /\ cur \notin Waits(t) /\ Waits(t) = {s.rhs, s.merge}
      /\ \A j \in 2 .. Len(todo) : Waits(t) \cap Waits(todo[j]) = {}
  <2>1. 1 \in 1 .. Len(todo) /\ \A j \in 2 .. Len(todo) : j \in 1 .. Len(todo) /\ j # 1
    BY <1>5
  <2>2. Awaited(blocks, t) /\ cur \notin Waits(t)
    BY <2>1, <1>2, <1>5 DEF Agenda
  <2>3. Waits(t) = {s.rhs, s.merge}
    BY <1>1 DEF Waits
  <2>4. \A j \in 2 .. Len(todo) : Waits(t) \cap Waits(todo[j]) = {}
    BY <2>1, <1>2, <1>5 DEF Agenda
  <2> QED
    BY <2>2, <2>3, <2>4
<1>7. /\ s.rhs \in 1 .. Len(blocks) /\ s.merge \in 1 .. Len(blocks) /\ s.rhs # s.merge
      /\ blocks[s.rhs] = <<>> /\ blocks[s.merge] = <<>>
      /\ s.rhs # cur /\ s.merge # cur
      /\ \A d \in 1 .. Len(blocks) : ~LeadsTo(blocks[d], s.merge)
      /\ {"merge", "lhs_eval"} \subseteq DOMAIN s
  BY <1>1, <1>6 DEF Awaited
<1>8. /\ IsSeq(is) /\ NoPhi(is)
      /\ \A b : LeadsTo(is, b) <=> b \in {s.rhs, s.merge}
  <2>1. i.op = "condbr" /\ (i.to = <<s.rhs, s.merge>> \/ i.to = <<s.merge, s.rhs>>)
    BY Emitted DEF Branch
  <2>2. IsSeq(l.is) /\ Plain(l.is)
    BY ConversionsPlain
  <2> HIDE DEF i, l, s
  <2>3. i.op # "phi" /\ i.op \in Branches
    BY <2>1 DEF Branches
  <2>4. \A b : (\E j \in DOMAIN i.to : i.to[j] = b) <=> b \in {s.rhs, s.merge}
    <3>1. DOMAIN i.to = {1, 2}
      BY <2>1
    <3>2. {i.to[1], i.to[2]} = {s.rhs, s.merge}
      BY <2>1
    <3> QED
      BY <3>1, <3>2
  <2> QED
    BY <2>2, <2>3, <2>4, PlainSeqs
<1> HIDE DEF is
<1>9. Emits(blocks, cur, is, ds)
  BY <1>4, <1>8, EmitsThem
<1> HIDE DEF ds
<1>10. /\ IsSeq(ds) /\ Len(ds) = Len(blocks) /\ \A b \in 1 .. Len(blocks) : IsSeq(ds[b])
       /\ \A b \in 1 .. Len(blocks) : b # cur => ds[b] = blocks[b]
       /\ \A b \in 1 .. Len(blocks) : \A d :
            LeadsTo(ds[b], d) <=> LeadsTo(blocks[b], d) \/ (b = cur /\ d \in {s.rhs, s.merge})
       /\ \A b \in 1 .. Len(blocks) : \A P : PhisOf(ds[b], P) <=> PhisOf(blocks[b], P)
  BY <1>8, <1>9 DEF Emits
<1>11. LhsEval(s).merge = s.merge /\ LhsEval(s).lhs_eval = cur
  BY <1>7 DEF LhsEval
<1>12. x.do = "visit" /\ y.do = "merge" /\ y.sc.merge = s.merge /\ y.sc.lhs_eval = cur
  BY <1>11, Items
<1>13. IsSeq(two) /\ Len(two) = 2 /\ two[1] = x /\ two[2] = y
  BY ShortSeqs
<1> HIDE DEF x, y, s, t, two
<1>14. Made(ds, s.rhs)
  <2>1. ASSUME NEW b \in 1 .. Len(blocks) PROVE PhiOK(ds, b)
    <3>1. CASE b \in {s.rhs, s.merge}
      BY <3>1, <1>7, <1>10, NoPhiOK
    <3>2. CASE b \notin {s.rhs, s.merge}
      <4>1. \A c \in 1 .. Len(blocks) : LeadsTo(ds[c], b) <=> LeadsTo(blocks[c], b)
        BY <3>2, <1>10
      <4> QED
        BY <4>1, <1>4, <1>10, PhiStays
    <3> QED
      BY <3>1, <3>2
  <2>2. ds[s.rhs] = <<>>
    BY <1>7, <1>10
  <2>3. Straight(ds[s.rhs])
    BY <2>2, PlainSeqs DEF Plain
  <2>4. \A b \in 1 .. Len(ds) : \A d : LeadsTo(ds[b], d) => d \in 1 .. Len(ds)
    BY <1>4, <1>7, <1>10
  <2> QED
    BY <2>1, <2>3, <2>4, <1>7, <1>10 DEF Made
<1>15. Waits(x) = {} /\ Waits(y) = {s.merge} /\ Awaited(ds, x) /\ Awaited(ds, y)
  <2>1. Waits(x) = {} /\ Awaited(ds, x)
    BY <1>12, IdleWaits DEF Idle
  <2>2. Waits(y) = {s.merge}
    BY <1>12 DEF Waits
  <2>3. \A b \in Waits(y) : b \in 1 .. Len(ds) /\ ds[b] = <<>>
    BY <2>2, <1>7, <1>10
  <2>4. \A d \in 1 .. Len(ds) : LeadsTo(ds[d], s.merge) <=> d = cur
    BY <1>4, <1>7, <1>10
  <2>5. Awaited(ds, y)
    BY <2>3, <2>4, <1>4, <1>10, <1>12 DEF Awaited
  <2> QED
    BY <2>1, <2>2, <2>5
<1>16. /\ \A j \in 2 .. Len(todo) : Awaited(ds, todo[j]) /\ s.rhs \notin Waits(todo[j])
                                    /\ s.merge \notin Waits(todo[j])
       /\ \A j, k \in 2 .. Len(todo) : j # k => Waits(todo[j]) \cap Waits(todo[k]) = {}
  <2>1. \A j \in 2 .. Len(todo) : j \in 1 .. Len(todo)
    BY <1>5
  <2>2. ASSUME NEW j \in 2 .. Len(todo)
        PROVE  Awaited(ds, todo[j]) /\ s.rhs \notin Waits(todo[j]) /\ s.merge \notin Waits(todo[j])
    <3> DEFINE u == todo[j]
    <3>1. Awaited(blocks, u) /\ cur \notin Waits(u)
      BY <2>1, <1>2 DEF Agenda
    <3>2. s.rhs \notin Waits(u) /\ s.merge \notin Waits(u)
      BY <1>6
    <3> HIDE DEF u
    <3>3. \A b \in Waits(u) : b \in 1 .. Len(blocks) /\ b # cur /\ b \notin {s.rhs, s.merge}
      BY <3>1, <3>2 DEF Awaited
    <3>4. \A b \in Waits(u) : ds[b] = blocks[b]
      BY <3>3, <1>10
    <3>5. \A d \in 1 .. Len(blocks), b \in Waits(u) : LeadsTo(ds[d], b) <=> LeadsTo(blocks[d], b)
      BY <3>3, <1>10
    <3>6. Awaited(ds, u)
      BY <3>1, <3>4, <3>5, <1>10, AwaitedStays
    <3> QED
      BY <3>2, <3>6 DEF u
  <2>3. \A j, k \in 2 .. Len(todo) : j # k => Waits(todo[j]) \cap Waits(todo[k]) = {}
    BY <2>1, <1>2 DEF Agenda
  <2> QED
    BY <2>2, <2>3
<1>17. /\ \A j \in 1 .. Len(two) : Awaited(ds, two[j]) /\ s.rhs \notin Waits(two[j])
       /\ \A j, k \in 1 .. Len(two) : j # k => Waits(two[j]) \cap Waits(two[k]) = {}
       /\ \A j \in 1 .. Len(two), k \in 2 .. Len(todo) : Waits(two[j]) \cap Waits(todo[k]) = {}
  <2>1. \A j \in 1 .. 2 : (j = 1 /\ two[j] = x) \/ (j = 2 /\ two[j] = y)
    BY <1>13
  <2> QED
    BY <2>1, <1>7, <1>13, <1>15, <1>16
<1>18. Agenda(ds, s.rhs, two \o Tail(todo))
  <2>1. \A j \in 2 .. Len(todo) : Awaited(ds, todo[j]) /\ s.rhs \notin Waits(todo[j])
    BY <1>16
  <2> QED
    BY <1>1, <1>5, <1>13, <1>16, <1>17, <2>1, Replaced
<1>19. ds # <<>>
  BY <1>4, <1>10
<1>20. Made(blocks', cur') /\ Agenda(blocks', cur', todo') /\ blocks' # <<>>
  BY <1>3, <1>14, <1>18, <1>19
<1> QED
  BY <1>3, <1>20 DEF PhiInv

LEMMA MergeKeeps ==
  ASSUME PhiInv, LogicalMerge
  PROVE  PhiInv'
<1> DEFINE t   == Head(todo)
           s   == t.sc
           r   == AsBool(vals[1])
           args == <<Const("i1", IF Op = "AND" THEN 0 ELSE 1), r.v>>
           phi == [Instruction("phi", "i1", args) EXCEPT !.to = <<s.lhs_eval, cur>>]
           zext == Cast([Value("i1", "ins", "") EXCEPT !.b = s.merge, !.i = 1], "i32")
           new == <<phi, zext>>
           is  == Append(r.is, Br(s.merge))
           es  == [blocks EXCEPT ![cur] = @ \o is]
           ds  == [es EXCEPT ![s.merge] = new]
<1>1. phase = "codegen" /\ todo # <<>> /\ t.do = "merge"
  BY DoingFacts DEF LogicalMerge
<1>2. blocks # <<>> /\ Made(blocks, cur) /\ Agenda(blocks, cur, todo)
  BY <1>1 DEF PhiInv
<1>3. blocks' = ds /\ cur' = s.merge /\ phase' = "codegen" /\ todo' = Tail(todo)
  <2>1. blocks' = ds
    BY Zenon DEF LogicalMerge, Emit
  <2>2. cur' = s.merge /\ todo' = Tail(todo) /\ phase' = phase
    BY Zenon DEF LogicalMerge, exprVars
  <2> QED
    BY <2>1, <2>2, <1>1
<1>4. phi.op = "phi" /\ phi.to = <<s.lhs_eval, cur>>
  <2> HIDE DEF args, s
  <2> QED
    BY Zenon DEF Instruction
<1>5. zext.op \in {"sext", "zext", "trunc"}
  BY Emitted, Zenon
<1> HIDE DEF phi, zext
<1>6. /\ IsSeq(blocks) /\ \A b \in 1 .. Len(blocks) : IsSeq(blocks[b]) /\ PhiOK(blocks, b)
      /\ cur \in 1 .. Len(blocks) /\ Straight(blocks[cur])
      /\ \A b \in 1 .. Len(blocks) : \A d : LeadsTo(blocks[b], d) => d \in 1 .. Len(blocks)
  BY <1>2 DEF Made
<1>7. IsSeq(todo) /\ Len(todo) \in Nat \ {0} /\ t = todo[1]
  <2>1. IsSeq(todo)
    BY <1>2 DEF Agenda
  <2> QED
    BY <1>1, <2>1, TailSeq
<1>8. /\ Awaited(blocks, t) /\ cur \notin Waits(t) /\ Waits(t) = {s.merge}
      /\ \A j \in 2 .. Len(todo) : s.merge \notin Waits(todo[j])
  <2>1. 1 \in 1 .. Len(todo) /\ \A j \in 2 .. Len(todo) : j \in 1 .. Len(todo) /\ j # 1
    BY <1>7
  <2>2. Awaited(blocks, t) /\ cur \notin Waits(t)
    BY <2>1, <1>2, <1>7 DEF Agenda
  <2>3. Waits(t) = {s.merge}
    BY <1>1 DEF Waits
  <2>4. \A j \in 2 .. Len(todo) : Waits(t) \cap Waits(todo[j]) = {}
    BY <2>1, <1>2, <1>7 DEF Agenda
  <2> QED
    BY <2>2, <2>3, <2>4
<1>9. /\ s.merge \in 1 .. Len(blocks) /\ blocks[s.merge] = <<>> /\ s.merge # cur
      /\ s.lhs_eval \in 1 .. Len(blocks)
      /\ \A d \in 1 .. Len(blocks) : LeadsTo(blocks[d], s.merge) <=> d = s.lhs_eval
  BY <1>1, <1>8 DEF Awaited
<1>10. s.lhs_eval # cur
  <2>1. LeadsTo(blocks[s.lhs_eval], s.merge)
    BY <1>9
  <2> QED
    BY <2>1, <1>6 DEF LeadsTo, Straight
<1>11. /\ IsSeq(is) /\ NoPhi(is)
       /\ \A b : LeadsTo(is, b) <=> b = s.merge
  <2> DEFINE i == Br(s.merge)
  <2>1. i.op = "br" /\ i.to = <<s.merge>>
    BY Emitted
  <2>2. IsSeq(r.is) /\ Plain(r.is)
    BY ConversionsPlain
  <2> HIDE DEF i, r, s
  <2>3. i.op # "phi" /\ i.op \in Branches
    BY <2>1 DEF Branches
  <2>4. \A b : (\E j \in DOMAIN i.to : i.to[j] = b) <=> b = s.merge
    <3>1. DOMAIN i.to = {1} /\ i.to[1] = s.merge
      BY <2>1
    <3> QED
      BY <3>1
  <2>5. IsSeq(Append(r.is, i)) /\ NoPhi(Append(r.is, i))
        /\ \A b : LeadsTo(Append(r.is, i), b) <=> b = s.merge
    BY <2>2, <2>3, <2>4, PlainSeqs
  <2> QED
    BY <2>5 DEF i
<1> HIDE DEF is
<1>12. Emits(blocks, cur, is, es)
  BY <1>6, <1>11, EmitsThem
<1> HIDE DEF es
<1>13. /\ IsSeq(es) /\ Len(es) = Len(blocks) /\ \A b \in 1 .. Len(blocks) : IsSeq(es[b])
       /\ es[s.merge] = <<>>
       /\ \A b \in 1 .. Len(blocks) : \A d :
            LeadsTo(es[b], d) <=> LeadsTo(blocks[b], d) \/ (b = cur /\ d = s.merge)
       /\ \A b \in 1 .. Len(blocks) : \A P : PhisOf(es[b], P) <=> PhisOf(blocks[b], P)
  BY <1>9, <1>11, <1>12 DEF Emits
<1>14. IsSeq(new) /\ DOMAIN new = {1, 2} /\ new[1] = phi /\ new[2] = zext
  BY ShortSeqs
<1> HIDE DEF new, s, t
<1>15. /\ IsSeq(ds) /\ Len(ds) = Len(blocks) /\ ds[s.merge] = new
       /\ \A b \in 1 .. Len(blocks) : b # s.merge => ds[b] = es[b]
  <2>1. IsSeq(es) /\ s.merge \in 1 .. Len(es) /\ Len(es) = Len(blocks)
    BY <1>9, <1>13
  <2>2. ds = [es EXCEPT ![s.merge] = new]
    OBVIOUS
  <2> HIDE DEF ds
  <2>3. PICK m : m = s.merge
    OBVIOUS
  <2>4. m \in 1 .. Len(es) /\ ds = [es EXCEPT ![m] = new]
    BY <2>1, <2>2, <2>3
  <2>5. IsSeq(es) /\ m \in 1 .. Len(es)
    BY <2>1, <2>4
  <2>6. LET u == [es EXCEPT ![m] = new]
        IN  /\ IsSeq(u) /\ Len(u) = Len(es) /\ u[m] = new
            /\ \A b \in 1 .. Len(es) : b # m => u[b] = es[b]
    BY ONLY <2>5, SetSeq
  <2>7. /\ IsSeq(ds) /\ Len(ds) = Len(es) /\ ds[m] = new
        /\ \A b \in 1 .. Len(es) : b # m => ds[b] = es[b]
    BY ONLY <2>4, <2>6, Zenon
  <2> QED
    BY <2>1, <2>3, <2>7
<1> HIDE DEF ds
<1>16. Straight(new) /\ \A d : ~LeadsTo(new, d)
  <2>1. phi.op \notin Branches /\ zext.op \notin Branches
    BY <1>4, <1>5 DEF Branches
  <2>2. Straight(new)
    BY <2>1, <1>14 DEF Straight
  <2> QED
    BY <2>2 DEF Straight, LeadsTo
<1>17. \A d : ~LeadsTo(<<>>, d)
  BY PlainSeqs DEF Plain, Straight, LeadsTo
<1>18. \A b \in 1 .. Len(blocks) : \A d :
         LeadsTo(ds[b], d) <=> LeadsTo(blocks[b], d) \/ (b = cur /\ d = s.merge)
  <2> TAKE b \in 1 .. Len(blocks)
  <2> TAKE d
  <2>1. CASE b = s.merge
    BY <2>1, <1>9, <1>15, <1>16, <1>17
  <2>2. CASE b # s.merge
    BY <2>2, <1>13, <1>15
  <2> QED
    BY <2>1, <2>2
<1>19. PhiOK(ds, s.merge)
  <2>1. DOMAIN ds = 1 .. Len(blocks)
    BY <1>15, SeqDomain
  <2>2. {c \in DOMAIN ds : LeadsTo(ds[c], s.merge)} = {s.lhs_eval, cur}
    BY <2>1, <1>6, <1>9, <1>18
  <2>3. {phi.to[j] : j \in {1, 2}} = {s.lhs_eval, cur} /\ phi.to[1] # phi.to[2]
    BY <1>4, <1>10
  <2>4. zext.op # "phi"
    BY <1>5
  <2>5. PhisOf(new, {s.lhs_eval, cur})
    BY <2>3, <2>4, <1>14 DEF PhisOf
  <2>6. PhisOf(ds[s.merge], {c \in DOMAIN ds : LeadsTo(ds[c], s.merge)})
    BY <2>2, <2>5, <1>15
  <2> QED
    BY <2>6, PhiRule
<1>20. ASSUME NEW b \in 1 .. Len(blocks), b # s.merge PROVE PhiOK(ds, b)
  <2>1. \A c \in 1 .. Len(blocks) : LeadsTo(ds[c], b) <=> LeadsTo(blocks[c], b)
    BY <1>18, <1>20
  <2>2. \A P : PhisOf(blocks[b], P) => PhisOf(ds[b], P)
    BY <1>13, <1>15, <1>20
  <2> QED
    BY <2>1, <2>2, <1>6, <1>15, PhiStays
<1>21. Made(ds, s.merge)
  <2>1. \A b \in 1 .. Len(ds) : IsSeq(ds[b]) /\ PhiOK(ds, b)
    BY <1>13, <1>14, <1>15, <1>19, <1>20
  <2>2. Straight(ds[s.merge])
    BY <1>15, <1>16
  <2>3. \A b \in 1 .. Len(ds) : \A d : LeadsTo(ds[b], d) => d \in 1 .. Len(ds)
    BY <1>6, <1>9, <1>15, <1>18
  <2> QED
    BY <2>1, <2>2, <2>3, <1>9, <1>15 DEF Made
<1>22. Agenda(ds, s.merge, Tail(todo))
  <2>1. \A j \in 2 .. Len(todo) : j \in 1 .. Len(todo)
    BY <1>7
  <2>2. ASSUME NEW j \in 2 .. Len(todo)
        PROVE  Awaited(ds, todo[j]) /\ s.merge \notin Waits(todo[j])
    <3> DEFINE u == todo[j]
    <3>1. Awaited(blocks, u) /\ cur \notin Waits(u)
      BY <2>1, <1>2 DEF Agenda
    <3>2. s.merge \notin Waits(u)
      BY <1>8
    <3> HIDE DEF u
    <3>3. \A b \in Waits(u) : b \in 1 .. Len(blocks) /\ b # cur /\ b # s.merge
      BY <3>1, <3>2 DEF Awaited
    <3>4. \A b \in Waits(u) : ds[b] = blocks[b]
      <4>1. \A b \in 1 .. Len(blocks) : b # cur => es[b] = blocks[b]
        BY <1>12 DEF Emits
      <4> QED
        BY <4>1, <3>3, <1>15
    <3>5. \A d \in 1 .. Len(blocks), b \in Waits(u) : LeadsTo(ds[d], b) <=> LeadsTo(blocks[d], b)
      BY <3>3, <1>18
    <3>6. Awaited(ds, u)
      BY <3>1, <3>4, <3>5, <1>15, AwaitedStays
    <3> QED
      BY <3>2, <3>6 DEF u
  <2>3. \A j, k \in 2 .. Len(todo) : j # k => Waits(todo[j]) \cap Waits(todo[k]) = {}
    BY <2>1, <1>2 DEF Agenda
  <2> DEFINE none == <<>>
  <2>4. IsSeq(none) /\ 1 .. Len(none) = {}
    BY ShortSeqs
  <2>5. none \o Tail(todo) = Tail(todo)
    <3>1. PICK S : todo \in Seq(S)
      BY <1>7 DEF IsSeq
    <3>2. Tail(todo) \in Seq(S)
      BY <3>1, <1>1
    <3> QED
      BY <3>2
  <2> HIDE DEF none
  <2>6. Agenda(ds, s.merge, none \o Tail(todo))
    BY <1>1, <1>7, <2>2, <2>3, <2>4, Replaced
  <2> QED
    BY <2>5, <2>6
<1>23. ds # <<>>
  BY <1>9, <1>15
<1>24. Made(blocks', cur') /\ Agenda(blocks', cur', todo') /\ blocks' # <<>>
  BY <1>3, <1>21, <1>22, <1>23
<1> QED
  BY <1>3, <1>24 DEF PhiInv

\* The branch of a condition leads out of the expression: no phi is there.
LEMMA FinishKeeps ==
  ASSUME PhiInv, Finish
  PROVE  PhiInv'
<1>1. phase = "codegen" /\ todo # <<>>
  BY DoingFacts DEF Finish
<1>2. Made(blocks, cur)
  BY <1>1 DEF PhiInv
<1>3. \E is : /\ Finished = [blocks EXCEPT ![cur] = @ \o is]
              /\ IsSeq(is) /\ NoPhi(is) /\ \A b : LeadsTo(is, b) => b = 0
  <2> DEFINE Ends(is) == IsSeq(is) /\ NoPhi(is) /\ \A b : LeadsTo(is, b) => b = 0
  <2>1. \A is : IsSeq(is) /\ Plain(is) => Ends(is)
    BY DEF Plain, Straight, LeadsTo
  <2>2. \A f, v : Ends(<<Library(f, v)>>)
    <3>1. \A f, v : Library(f, v).op \notin Branches \cup {"phi"}
      BY Emitted DEF Branches
    <3> QED
      BY <2>1, <3>1, PlainSeqs
  <2>3. \A v : Ends(PrintCall(v))
    BY <2>1, <2>2, PlainSeqs DEF PrintCall
  <2>4. \A v : Ends(<<Instruction("ret", "void", <<v>>)>>)
    <3>1. \A v : Instruction("ret", "void", <<v>>).op \notin Branches \cup {"phi"}
      BY Emitted DEF Branches
    <3> QED
      BY <2>1, <3>1, PlainSeqs
  <2>5. \A v, w : Ends(Append(AsBool(v).is, CondBr(w, 0, 0)))
    <3> TAKE v, w
    <3> DEFINE x == AsBool(v).is
               i == CondBr(w, 0, 0)
    <3>1. IsSeq(x) /\ Plain(x)
      BY ConversionsPlain
    <3>2. i.op = "condbr" /\ i.to = <<0, 0>>
      BY Emitted
    <3> HIDE DEF x, i
    <3>3. \A b : (\E j \in DOMAIN i.to : i.to[j] = b) => b = 0
      BY <3>2
    <3>4. i.op # "phi"
      BY <3>2
    <3>5. Ends(Append(x, i))
      BY <3>1, <3>3, <3>4, PlainSeqs
    <3> QED
      BY <3>5 DEF x, i
  <2>6. \A v, ty, args : Ends(Append(AsStored(v, ty).is, Instruction("store", "void", args)))
    <3> TAKE v, ty, args
    <3> DEFINE x == AsStored(v, ty).is
               i == Instruction("store", "void", args)
    <3>1. IsSeq(x) /\ Plain(x)
      BY ConversionsPlain
    <3>2. i.op = "store"
      BY Emitted
    <3> HIDE DEF x, i
    <3>3. i.op \notin Branches /\ i.op # "phi"
      BY <3>2 DEF Branches
    <3>4. IsSeq(Append(x, i)) /\ Plain(Append(x, i))
      BY <3>1, <3>3, PlainSeqs
    <3>5. Ends(Append(x, i))
      BY <3>4, <2>1
    <3> QED
      BY <3>5 DEF x, i
  <2>7. Ends(<<>>)
    BY <2>1, PlainSeqs
  <2> HIDE DEF Ends
  <2>8. \E is : Finished = Emit(is) /\ Ends(is)
    <3>1. CASE stmt.k = "expr"
      <4>1. Finished = Emit(<<>>)
        BY <3>1 DEF Finished
      <4> QED
        BY <4>1, <2>7
    <3>2. CASE stmt.k = "print"
      <4>1. \E v : Finished = Emit(PrintCall(v))
        BY <3>2 DEF Finished
      <4> QED
        BY <4>1, <2>3
    <3>3. CASE stmt.k = "delete"
      <4>1. \E f, v : Finished = Emit(<<Library(f, v)>>)
        BY <3>3 DEF Finished
      <4> QED
        BY <4>1, <2>2
    <3>4. CASE stmt.k = "return"
      <4>1. \E v : Finished = Emit(<<Instruction("ret", "void", <<v>>)>>)
        BY <3>4 DEF Finished
      <4> QED
        BY <4>1, <2>4
    <3>5. CASE stmt.k = "cond"
      <4>1. \E v, w : Finished = Emit(Append(AsBool(v).is, CondBr(w, 0, 0)))
        BY <3>5 DEF Finished
      <4> QED
        BY <4>1, <2>5
    <3>6. CASE stmt.k \notin {"expr", "print", "delete", "return", "cond"}
      <4>1. \E v, ty, args :
              Finished = Emit(Append(AsStored(v, ty).is, Instruction("store", "void", args)))
        BY <3>6 DEF Finished
      <4> QED
        BY <4>1, <2>6
    <3> QED
      BY <3>1, <3>2, <3>3, <3>4, <3>5, <3>6
  <2> QED
    BY <2>8 DEF Ends, Emit
<1>4. PICK is : /\ Finished = [blocks EXCEPT ![cur] = @ \o is]
                /\ IsSeq(is) /\ NoPhi(is) /\ \A b : LeadsTo(is, b) => b = 0
  BY <1>3
<1> DEFINE ds == [blocks EXCEPT ![cur] = @ \o is]
<1>5. /\ IsSeq(blocks) /\ \A b \in 1 .. Len(blocks) : IsSeq(blocks[b]) /\ PhiOK(blocks, b)
      /\ cur \in 1 .. Len(blocks)
  BY <1>2 DEF Made
<1>6. Emits(blocks, cur, is, ds)
  BY <1>4, <1>5, EmitsThem
<1>7. blocks' = ds /\ phase' \in {"run", "malformed"}
  BY <1>4 DEF Finish
<1> HIDE DEF ds
<1>8. /\ IsSeq(ds) /\ Len(ds) = Len(blocks)
      /\ \A b \in 1 .. Len(blocks) : \A d :
           LeadsTo(ds[b], d) <=> LeadsTo(blocks[b], d) \/ (b = cur /\ LeadsTo(is, d))
      /\ \A b \in 1 .. Len(blocks) : \A P : PhisOf(ds[b], P) <=> PhisOf(blocks[b], P)
  BY <1>6 DEF Emits
<1>9. ASSUME NEW b \in 1 .. Len(blocks) PROVE PhiOK(ds, b)
  <2>1. ~LeadsTo(is, b)
    BY <1>4
  <2>2. \A c \in 1 .. Len(blocks) : LeadsTo(ds[c], b) <=> LeadsTo(blocks[c], b)
    BY <2>1, <1>8
  <2> QED
    BY <2>2, <1>5, <1>8, PhiStays
<1>10. DOMAIN ds = 1 .. Len(blocks)
  BY <1>8, SeqDomain
<1> QED
  BY <1>7, <1>9, <1>10 DEF PhiInv, PhiOK, Predecessors

-------------------------------------------------------------------------------

LEMMA PhiInvInit == LowerInit => PhiInv
BY DEF LowerInit, ExprInit, PhiInv

LEMMA FrontKeeps ==
  ASSUME PhiInv, Front
  PROVE  PhiInv'
<1>1. UNCHANGED <<todo, blocks>>
  BY DEF Front
<1>2. \/ phase = "parse" /\ phase' = "parse"
      \/ phase = "parse" /\ phase' = "typecheck"
      \/ phase = "typecheck" /\ phase' \in {"codegen", "rejected"}
  BY DEF Front, Grow, ExprDone, ExprTypeCheck
<1>3. blocks = <<>> /\ todo = <<>>
  BY <1>2 DEF PhiInv
<1> QED
  BY <1>1, <1>2, <1>3 DEF PhiInv

LEMMA PhiInvNext ==
  ASSUME PhiInv, [LowerNext]_lowerVars
  PROVE  PhiInv'
<1>1. CASE UNCHANGED lowerVars
  BY <1>1 DEF PhiInv, lowerVars, exprVars
<1> QED
  BY <1>1, FrontKeeps, StartKeeps, OperandKeeps, VisitIDKeeps, VisitCallKeeps, OperatorKeeps,
     LogicalKeeps, LValueKeeps, FieldKeeps, BinaryKeeps, PointerPlusKeeps, PointerSubKeeps,
     UnaryKeeps, LoadKeeps, StepKeeps, ArgumentKeeps, BetweenKeeps, MergeKeeps, FinishKeeps
  DEF LowerNext

\* A phi lists exactly the blocks that branch to its own, whatever && and ||
\* have as operands, however long the expression: lhs_eval_bb and
\* rhs_eval_bb, taken after the visit of each operand, are the blocks that the
\* visits end in (CodeGen::visit of BinaryExprNode).
THEOREM LogicalBlocksMerge == LowerSpec => []PhisMatchPredecessors
<1>1. PhiInv => PhisMatchPredecessors
  BY DEF PhiInv, PhisMatchPredecessors
<1> QED
  BY <1>1, PhiInvInit, PhiInvNext, PTL DEF LowerSpec

===============================================================================
