------------------------------ MODULE ExecProofs ------------------------------
(***************************************************************************)
(* For every program: the generated function does what the statements      *)
(* mean, Exec => RunsAsWritten.                                            *)
(*                                                                         *)
(* Each block has a point of the source that control is to come to when it *)
(* enters it, which its name and its node tell (Leads). A block is right   *)
(* when its code, read from there, is at each instruction the code of the  *)
(* point that control has come to, and goes on as the source does (Flows). *)
(* The walk's invariant says that of every block as far as it goes, and of *)
(* the insertion point that it has come to the node visited next (FlowAt). *)
(* The blocks that wait in the frames are still empty, and are the ones    *)
(* that the source needs there (Promised). Where blocks lead past empty    *)
(* ones, branches only go on to later nodes, so that they land (Onwards).  *)
(***************************************************************************)
EXTENDS Exec, AddressProofs

\* Every break is in a loop.
BreaksInLoops == \A n \in 1 .. Len(ast) : ast[n].k = "break" => LoopsAround(n) # {}

First == S!First

\* The point that control is to come to when it enters the block x.
Leads(x) ==
  CASE x.name = "entry" -> First[1]
    [] x.name \in {"then", "while_body", "for_body"} -> First[x.node + 1]
    [] x.name = "if_merge" -> First[S!TreeEnd(x.node) + 1]
    [] x.name \in {"elif_fallthrough", "while_after", "for_after"} -> S!Otherwise(x.node)
    [] x.name \in {"while_cond", "for_cond"} -> <<x.node, "cd">>
    [] x.name = "for_inc" -> <<x.node, "ep">>

\* The node that the code of block x begins at, or after: past the last one for
\* the blocks that code leads back to.
Begins(x) ==
  CASE x.name = "entry" -> 1
    [] x.name \in {"then", "while_body", "for_body", "elif_fallthrough"} -> x.node + 1
    [] x.name = "if_merge" -> S!TreeEnd(x.node) + 1
    [] x.name \in {"while_after", "for_after"} -> BodyEnd(x.node) + 1
    [] x.name \in {"while_cond", "for_cond", "for_inc"} -> Len(ast) + 2

\* The point that control is to come to from the instruction i.
Then(i) ==
  IF i.role = "ep" \/ ast[i.n].k \in Loops THEN <<i.n, "cd">> ELSE First[i.n + 1]

\* The point the execution stands before at instruction k of block x.
StandsAt(x, k) == IF k = 1 THEN Leads(x) ELSE Then(x.ins[k - 1])

Stands(x) == StandsAt(x, Len(x.ins) + 1)

\* Instruction i is the one to come to for the point p, and goes on from there
\* as the source does.
Right(bs, i, p) ==
  /\ i.op \in {"eff"} \cup Terminators
  /\ i.n \in 1 .. Len(ast) + 1
  /\ GoesWithin(bs, i)
  /\ i.op = "br" => 1 \in DOMAIN i.to /\ Leads(bs[i.to[1]]) = p
  /\ i.op # "br" => PointOf(i) = p
  /\ i.op = "eff" => i.role \in {"do", "ep"} /\ i.n <= Len(ast)
  /\ i.op = "condbr" =>
       /\ {1, 2} \subseteq DOMAIN i.to
       /\ Leads(bs[i.to[1]]) = First[i.n + 1] /\ Leads(bs[i.to[2]]) = S!Otherwise(i.n)

\* A block that begins with a branch is left for one further on.
Onwards(bs, x) ==
  x.ins # <<>> /\ x.ins[1].op = "br" => Begins(x) < Begins(bs[x.ins[1].to[1]])

Flows(bs, x) ==
  /\ \A k \in 1 .. Len(x.ins) : Right(bs, x.ins[k], StandsAt(x, k))
  /\ Onwards(bs, x)

AllStraight(bs) == \A b \in 1 .. Len(bs) : Straight(bs[b])

IsPlain(x) == {"node", "name", "ins"} \subseteq DOMAIN x /\ IsSeq(x.ins)

\* While the blocks P are empty: unless code follows a jump in its block, and
\* the function is not well formed, every block is right as far as it goes.
Flowing(bs, P) ==
  /\ IsSeq(bs) /\ P \subseteq 1 .. Len(bs)
  /\ \A b \in 1 .. Len(bs) : IsPlain(bs[b]) /\ Begins(bs[b]) \in 1 .. Len(ast) + 2
  /\ \A b \in P : bs[b].ins = <<>>
  /\ AllStraight(bs) => \A b \in 1 .. Len(bs) : Flows(bs, bs[b])

\* What the frame f has ready, when m opens the block the walk is in.
Promised(bs, f, m) ==
  IF ast[m].k \in Loops
  THEN /\ AfterLoop(bs, f.end, m)
       /\ bs[f.cond].name \in {"while_cond", "for_cond"} /\ bs[f.cond].node = m
       /\ ast[m].k # "while" => bs[f.next].name = "for_inc" /\ bs[f.next].node = m
  ELSE /\ bs[f.end].name = "if_merge" /\ S!TreeEnd(bs[f.end].node) = S!TreeEnd(m)
       /\ ast[m].k # "else" /\ ~IsLastClause(m) =>
            bs[f.next].name = "elif_fallthrough" /\ bs[f.next].node = m

AllPromised(n, bs, fs) == \A m \in LiveClauses(n) : Promised(bs, FrameAt(fs, m), m)

\* The walk is at n and adds to block x: what x comes to is what control comes
\* to at n. After a return x is finished, and only the statements of the
\* return's own block come before the end of that.
Arrives(n, x) ==
  /\ ~HasTerminator(x) => Stands(x) = First[n]
  /\ \A r \in 1 .. n - 1 :
       ast[r].k = "return" /\ n < BlockEnd(r) => HasTerminator(x) /\ Depth(n) = ast[r].lvl

FlowAt(n, bs, c, fs) ==
  /\ Framed(n, bs, fs) /\ AllPromised(n, bs, fs)
  /\ Flowing(bs, Pending(n, fs))
  /\ c \in 1 .. Len(bs) /\ c \notin Pending(n, fs)
  /\ bs[1].name = "entry"
  /\ Begins(bs[c]) <= n
  /\ AllStraight(bs) => Arrives(n, bs[c])

Runs ==
  /\ blocks[1].name = "entry" /\ blocks # <<>>
  /\ Flowing(blocks, {})
  /\ \A b \in 1 .. Len(blocks) : BlockOK(blocks[b])

\* pos is at an instruction that control comes to.
Arrived ==
  /\ pos[1] \in 1 .. Len(blocks) /\ pos[2] \in 1 .. Len(blocks[pos[1]].ins)

\* An assignment has a name on its left side.
AssignsNamed ==
  \A n \in 1 .. Len(ast) : ast[n].k \in {"asst", "forasst"} => ast[n].id \in Ids

\* The inductive invariant. What is said of the blocks needs every break of the
\* tree to be in a loop; CodeGen throws at the first that is not, and until
\* then nothing is said.
FlowInv ==
  /\ phase # "done" => AddressInv
  /\ AssignsNamed
  /\ phase = "codegen" =>
       \A n \in 1 .. cgPc - 1 : ast[n].k = "break" => LoopsAround(n) # {}
  /\ phase = "codegen" /\ BreaksInLoops =>
       IF blocks = <<>> THEN cgPc = 1 ELSE FlowAt(cgPc, blocks, cur, frames)
  /\ phase \in {"run", "done"} => Len(ast) \in Nat /\ Len(ast) <= MaxNodes /\ Runs
  /\ pos # NotCalled => phase \in {"run", "done"} /\ Arrived
  /\ phase = "done" => pos # NotCalled

-------------------------------------------------------------------------------
(* The blocks and trees of the source.                                     *)

\* What the instance of Structured says of the tree.
LEMMA InstanceIs ==
  /\ \A n : S!BodyEnd(n) = BodyEnd(n)
  /\ \A n : S!LoopOf(n) = Max(LoopsAround(n))
  /\ \A n : S!TreeEnd(n)
              = Min({m \in n .. Len(ast) : ast[m].k = "end" /\ ast[m].lvl = ast[n].lvl})
  /\ \A n : S!Ended(n)
              = Max({m \in 1 .. n - 1 : ast[m].k \in Openers /\ ast[m].lvl = ast[n].lvl})
<1>1. \A n : S!Around(n) = Around(n)
  BY DEF S!Around, Around, S!Openers, Openers, S!Clauses, Clauses, S!Loops, Loops
<1>2. \A n : S!BodyEnd(n) = BodyEnd(n)
  BY DEF S!BodyEnd, BodyEnd, S!Min, Min, S!Markers, Markers, S!Clauses, Clauses
<1>3. \A n : S!LoopOf(n) = Max(LoopsAround(n))
  BY <1>1 DEF S!LoopOf, LoopsAround, S!Max, Max, S!Loops, Loops
<1>4. \A n : S!TreeEnd(n)
              = Min({m \in n .. Len(ast) : ast[m].k = "end" /\ ast[m].lvl = ast[n].lvl})
  BY DEF S!TreeEnd, S!Min, Min
<1>5. \A n : S!Ended(n)
              = Max({m \in 1 .. n - 1 : ast[m].k \in Openers /\ ast[m].lvl = ast[n].lvl})
  BY DEF S!Ended, S!Max, Max, S!Openers, Openers, S!Loops, Loops
<1> QED
  BY <1>2, <1>3, <1>4, <1>5

\* A block ends, at a marker at the level of the node that opens it.
LEMMA BodyCloses ==
  ASSUME Nested, nest = <<>>, FinalsEnd(ast), NEW n \in 1 .. Len(ast),
         ast[n].k \in Openers \cup Clauses
  PROVE  /\ BodyEnd(n) \in n + 1 .. Len(ast)
         /\ ast[BodyEnd(n)].k \in Markers /\ ast[BodyEnd(n)].lvl = ast[n].lvl
         /\ ast[n].k \in Loops => ast[BodyEnd(n)].k = "end"
         /\ \A j \in n + 1 .. Len(ast) :
              ast[j].k \in Markers /\ ast[j].lvl = ast[n].lvl => BodyEnd(n) <= j
<1> DEFINE l == ast[n].lvl
           R == {j \in n + 1 .. Len(ast) : ast[j].lvl <= l}
           E == {m \in n + 1 .. Len(ast) : ast[m].k \in Markers /\ ast[m].lvl = l}
                \cup {Len(ast) + 1}
<1>1. Len(ast) \in Nat /\ l \in Nat /\ \A m \in 1 .. Len(ast) : ast[m].lvl \in Nat
  BY NodesTyped
<1>2. Depth(n + 1) = l + 1
  BY <1>1, DepthAt DEF Behind
<1>3. Depth(Len(ast) + 1) = 0
  <2>1. ast # <<>> /\ Len(ast) + 1 # 1 /\ (Len(ast) + 1) - 1 = Len(ast)
    BY <1>1
  <2> QED
    BY <2>1 DEF Nested, Depth
<1>4. R # {}
  <2> SUFFICES ASSUME R = {} PROVE FALSE
    OBVIOUS
  <2>1. n # Len(ast)
    BY <1>1, <1>2, <1>3
  <2>2. Len(ast) \in n + 1 .. Len(ast) /\ Len(ast) \in 1 .. Len(ast)
    BY <1>1, <2>1
  <2>3. ast[Len(ast)].lvl > l /\ Depth(Len(ast) + 1) = Behind(ast[Len(ast)])
    BY <1>1, <2>2, DepthAt
  <2> QED
    BY <1>1, <1>3, <2>2, <2>3 DEF Behind
<1> DEFINE p == Min(R)
<1>5. p \in R /\ \A j \in R : p <= j
  <2>1. R \subseteq Nat
    BY <1>1
  <2> QED
    BY <1>4, <2>1, MinIsLeast
<1> HIDE DEF p
<1>6. /\ p \in n + 1 .. Len(ast) /\ p \in 1 .. Len(ast) /\ ast[p].lvl <= l
      /\ \A j \in n + 1 .. p - 1 : ast[j].lvl > l
  BY <1>1, <1>5
<1>7. Depth(p) >= l + 1
  <2>1. CASE p = n + 1
    BY <1>1, <1>2, <2>1
  <2>2. CASE p # n + 1
    <3>1. p - 1 \in n + 1 .. p - 1 /\ p - 1 \in 1 .. Len(ast) /\ (p - 1) + 1 = p
      BY <1>1, <1>6, <2>2
    <3>2. Depth(p) = Behind(ast[p - 1]) /\ ast[p - 1].lvl \in Nat /\ ast[p - 1].lvl > l
      BY <1>1, <1>6, <3>1, DepthAt
    <3> QED
      BY <1>1, <3>2 DEF Behind
  <2> QED
    BY <2>1, <2>2
<1>8. ast[p].k \in Markers /\ ast[p].lvl = l
  <2>1. Depth(p) = Before(ast[p]) /\ ast[p].lvl \in Nat
    BY <1>6, DepthAt
  <2> QED
    BY <1>1, <1>6, <1>7, <2>1 DEF Before
<1>9. BodyEnd(n) = Min(E)
  BY DEF BodyEnd
<1>10. Min(E) \in E /\ \A y \in E : Min(E) <= y
  <2>1. E \subseteq Nat /\ E # {}
    BY <1>1
  <2> QED
    BY <2>1, MinIsLeast
<1> DEFINE b == Min(E)
<1>11. b = p
  <2>1. p \in E
    BY <1>6, <1>8
  <2>2. b <= p /\ b \in n + 1 .. Len(ast) /\ ast[b].lvl = l
    BY <1>1, <1>6, <1>10, <2>1
  <2>3. b \in R
    BY <1>1, <2>2
  <2> HIDE DEF b
  <2> QED
    BY <1>1, <1>5, <1>6, <2>2, <2>3
<1>12. ast[n].k \in Loops => ast[p].k = "end"
  <2>1. Inside(ast, n, p - 1) /\ ~(ast[p].lvl > ast[n].lvl)
    BY <1>1, <1>6 DEF Inside
  <2> QED
    BY <1>6, <2>1 DEF FinalsEnd, Finals
<1> QED
  BY <1>6, <1>8, <1>9, <1>10, <1>11, <1>12

\* The if tree or loop that n is part of ends, at n's own level.
LEMMA TreeCloses ==
  ASSUME Nested, nest = <<>>, NEW n \in 1 .. Len(ast), ast[n].k \in Openers \cup Markers
  PROVE  /\ S!TreeEnd(n) \in n .. Len(ast)
         /\ ast[S!TreeEnd(n)].k = "end" /\ ast[S!TreeEnd(n)].lvl = ast[n].lvl
         /\ \A j \in n .. Len(ast) : ast[j].k = "end" /\ ast[j].lvl = ast[n].lvl
                                       => S!TreeEnd(n) <= j
<1> DEFINE l == ast[n].lvl
           R == {j \in n .. Len(ast) : Behind(ast[j]) <= l}
           E == {m \in n .. Len(ast) : ast[m].k = "end" /\ ast[m].lvl = l}
<1>1. Len(ast) \in Nat /\ l \in Nat /\ \A m \in 1 .. Len(ast) : ast[m].lvl \in Nat
  BY NodesTyped
<1>2. Len(ast) \in R
  <2>1. ast # <<>>
    BY <1>1
  <2>2. Behind(ast[Len(ast)]) = 0
    BY <2>1 DEF Nested
  <2> QED
    BY <1>1, <2>2
<1> DEFINE p == Min(R)
<1>3. p \in R /\ \A j \in R : p <= j
  <2>1. R \subseteq Nat
    BY <1>1
  <2> QED
    BY <1>2, <2>1, MinIsLeast
<1> HIDE DEF p
<1>4. p \in n .. Len(ast) /\ p \in 1 .. Len(ast) /\ Behind(ast[p]) <= l
  BY <1>1, <1>3
<1>5. ast[p].k = "end" /\ ast[p].lvl = l
  <2>1. CASE p = n
    BY <1>1, <1>4, <2>1 DEF Behind, Markers
  <2>2. CASE p # n
    <3>1. /\ p - 1 \in n .. Len(ast) /\ p - 1 \in 1 .. Len(ast) /\ (p - 1) + 1 = p
          /\ ~(p <= p - 1)
      BY <1>1, <1>4, <2>2
    <3>2. ~(Behind(ast[p - 1]) <= l)
      BY <1>3, <3>1
    <3>3. /\ Behind(ast[p - 1]) = Before(ast[p]) /\ ast[p].lvl \in Nat
          /\ Behind(ast[p - 1]) \in Nat
      <4>1. Behind(ast[p - 1]) = Depth(p)
        BY <3>1, DepthAt
      <4>2. Depth(p) = Before(ast[p]) /\ ast[p].lvl \in Nat
        BY <1>4, DepthAt
      <4> QED
        BY <4>1, <4>2 DEF Before
    <3> QED
      BY <1>1, <1>4, <3>2, <3>3 DEF Before, Behind, Markers, Clauses, Openers, Loops
  <2> QED
    BY <2>1, <2>2
<1>6. E \subseteq Nat /\ E # {}
  BY <1>1, <1>4, <1>5
<1>7. S!TreeEnd(n) = Min(E)
  BY InstanceIs
<1>8. Min(E) \in E /\ \A y \in E : Min(E) <= y
  BY <1>6, MinIsLeast
<1> QED
  BY <1>7, <1>8

\* The clauses of a tree end where it does.
LEMMA TreeEndOn ==
  ASSUME Nested, nest = <<>>, FinalsEnd(ast), NEW n \in 1 .. Len(ast)
  PROVE  /\ ast[n].k = "end" => S!TreeEnd(n) = n
         /\ ast[n].k \in Openers \cup Clauses =>
              /\ S!TreeEnd(n) = S!TreeEnd(BodyEnd(n))
              /\ IsLastClause(n) => S!TreeEnd(n) = BodyEnd(n)
<1>1. Len(ast) \in Nat /\ \A m \in 1 .. Len(ast) : ast[m].lvl \in Nat
  BY NodesTyped
<1>2. ASSUME NEW m \in 1 .. Len(ast), ast[m].k = "end"
      PROVE  S!TreeEnd(m) = m
  <2>1. ast[m].k \in Openers \cup Markers /\ m \in m .. Len(ast)
    BY <1>1, <1>2 DEF Markers
  <2>2. S!TreeEnd(m) \in m .. Len(ast) /\ S!TreeEnd(m) <= m
    BY <1>2, <2>1, TreeCloses
  <2> QED
    BY <1>1, <2>2
<1>3. ASSUME ast[n].k \in Openers \cup Clauses
      PROVE  S!TreeEnd(n) = S!TreeEnd(BodyEnd(n))
  <2> DEFINE b == BodyEnd(n)
             t == S!TreeEnd(n)
             u == S!TreeEnd(b)
  <2>1. /\ b \in n + 1 .. Len(ast) /\ ast[b].k \in Markers /\ ast[b].lvl = ast[n].lvl
        /\ \A j \in n + 1 .. Len(ast) :
              ast[j].k \in Markers /\ ast[j].lvl = ast[n].lvl => b <= j
    BY <1>3, BodyCloses
  <2>2. /\ t \in n .. Len(ast) /\ ast[t].k = "end" /\ ast[t].lvl = ast[n].lvl
        /\ \A j \in n .. Len(ast) : ast[j].k = "end" /\ ast[j].lvl = ast[n].lvl => t <= j
    <3>1. ast[n].k \in Openers \cup Markers
      BY <1>3 DEF Markers
    <3> QED
      BY <3>1, TreeCloses
  <2>3. b \in 1 .. Len(ast) /\ ast[b].k \in Openers \cup Markers
    BY <1>1, <2>1
  <2>4. /\ u \in b .. Len(ast) /\ ast[u].k = "end" /\ ast[u].lvl = ast[b].lvl
        /\ \A j \in b .. Len(ast) : ast[j].k = "end" /\ ast[j].lvl = ast[b].lvl => u <= j
    BY <2>3, TreeCloses
  <2> HIDE DEF b, t, u
  <2>5. t # n /\ t \in n + 1 .. Len(ast) /\ ast[t].k \in Markers
    BY <1>1, <1>3, <2>2 DEF Openers, Loops, Clauses, Markers
  <2>6. b <= t /\ t \in b .. Len(ast) /\ u \in n .. Len(ast)
    BY <1>1, <2>1, <2>2, <2>4, <2>5
  <2>7. u <= t /\ t <= u
    BY <2>1, <2>2, <2>4, <2>6
  <2>8. t = u
    BY <1>1, <2>6, <2>7
  <2> QED
    BY <2>8 DEF b, t, u
<1>4. ASSUME ast[n].k \in Openers \cup Clauses, IsLastClause(n)
      PROVE  S!TreeEnd(n) = BodyEnd(n)
  <2>1. BodyEnd(n) \in 1 .. Len(ast)
    BY <1>1, <1>4, BodyCloses
  <2>2. ast[BodyEnd(n)].k = "end"
    BY <1>4 DEF IsLastClause
  <2> QED
    BY <1>2, <1>3, <1>4, <2>1, <2>2
<1> QED
  BY <1>2, <1>3, <1>4

-------------------------------------------------------------------------------
(* The points of the source.                                               *)

\* What First says of node n, where f is what it says of the nodes after it.
Comes(f, n) ==
  IF n > Len(ast) THEN <<n, "return">>
  ELSE CASE ast[n].k = "decl" -> f[n + 1]
         [] ast[n].k \in {"param", "init", "asst", "expr", "print", "delete"} -> <<n, "do">>
         [] ast[n].k = "return" -> <<n, "return">>
         [] ast[n].k = "break" -> f[S!BodyEnd(S!LoopOf(n)) + 1]
         [] ast[n].k \in {"if", "while"} -> <<n, "cd">>
         [] ast[n].k \in {"fordcl", "forasst"} -> <<n, "do">>
         [] ast[n].k \in S!Clauses -> f[S!TreeEnd(n) + 1]
         [] ast[n].k = "end" ->
              LET o == S!Ended(n)
              IN  CASE ast[o].k = "if"    -> f[n + 1]
                    [] ast[o].k = "while" -> <<o, "cd">>
                    [] OTHER              -> <<o, "ep">>

LEMMA FirstComes == First = CHOOSE f : f = [n \in 1 .. Len(ast) + 1 |-> Comes(f, n)]
BY DEF First, S!First, Comes

LEMMA ComesIs ==
  ASSUME NEW f, NEW n, ~(n > Len(ast))
  PROVE  /\ ast[n].k = "decl" => Comes(f, n) = f[n + 1]
         /\ ast[n].k \in {"param", "init", "asst", "expr", "print", "delete", "fordcl", "forasst"}
              => Comes(f, n) = <<n, "do">>
         /\ ast[n].k = "return" => Comes(f, n) = <<n, "return">>
         /\ ast[n].k = "break" => Comes(f, n) = f[BodyEnd(Max(LoopsAround(n))) + 1]
         /\ ast[n].k \in {"if", "while"} => Comes(f, n) = <<n, "cd">>
         /\ ast[n].k \in Clauses => Comes(f, n) = f[S!TreeEnd(n) + 1]
         /\ ast[n].k = "end" =>
              Comes(f, n) = CASE ast[S!Ended(n)].k = "if"    -> f[n + 1]
                              [] ast[S!Ended(n)].k = "while" -> <<S!Ended(n), "cd">>
                              [] OTHER                       -> <<S!Ended(n), "ep">>
<1>1. /\ S!BodyEnd(S!LoopOf(n)) = BodyEnd(Max(LoopsAround(n)))
      /\ S!Clauses = {"elif", "else"} /\ Clauses = {"elif", "else"}
  BY InstanceIs DEF S!Clauses, Clauses
<1>2. ast[n].k = "decl" => Comes(f, n) = f[n + 1]
  BY <1>1, Zenon DEF Comes
<1>3. ast[n].k \in {"param", "init", "asst", "expr", "print", "delete", "fordcl", "forasst"}
        => Comes(f, n) = <<n, "do">>
  BY <1>1 DEF Comes
<1>4. ast[n].k = "return" => Comes(f, n) = <<n, "return">>
  BY <1>1 DEF Comes
<1>5. ast[n].k = "break" => Comes(f, n) = f[BodyEnd(Max(LoopsAround(n))) + 1]
  BY <1>1 DEF Comes
<1>6. ast[n].k \in {"if", "while"} => Comes(f, n) = <<n, "cd">>
  BY <1>1 DEF Comes
<1>7. ast[n].k \in Clauses => Comes(f, n) = f[S!TreeEnd(n) + 1]
  BY <1>1 DEF Comes
<1>8. ast[n].k = "end" =>
              Comes(f, n) = CASE ast[S!Ended(n)].k = "if"    -> f[n + 1]
                              [] ast[S!Ended(n)].k = "while" -> <<S!Ended(n), "cd">>
                              [] OTHER                       -> <<S!Ended(n), "ep">>
  BY <1>1 DEF Comes
<1> QED
  BY <1>2, <1>3, <1>4, <1>5, <1>6, <1>7, <1>8

\* The innermost loop around a break ends after it.
LEMMA BreakLeaves ==
  ASSUME Nested, nest = <<>>, FinalsEnd(ast), NEW n \in 1 .. Len(ast), ast[n].k = "break",
         LoopsAround(n) # {}
  PROVE  /\ Max(LoopsAround(n)) = EnclosingLoop(n)
         /\ EnclosingLoop(n) \in 1 .. Len(ast) /\ ast[EnclosingLoop(n)].k \in Loops
         /\ BodyEnd(EnclosingLoop(n)) + 1 \in n + 1 .. Len(ast) + 1
<1> DEFINE t == EnclosingLoop(n)
<1>1. Max(LoopsAround(n)) = t
  BY DEF EnclosingLoop
<1>2. t \in 1 .. n - 1 /\ ast[t].k \in Loops /\ n < BodyEnd(t) /\ Len(ast) \in Nat
  BY InnermostLoop, NodesTyped
<1> HIDE DEF t
<1>3. t \in 1 .. Len(ast) /\ ast[t].k \in Openers \cup Clauses
  BY <1>2 DEF Openers
<1>4. BodyEnd(t) \in t + 1 .. Len(ast)
  BY <1>3, BodyCloses
<1> QED
  BY <1>1, <1>2, <1>3, <1>4 DEF t

\* It looks only at what it says of the nodes after n.
LEMMA ComesLater ==
  ASSUME Nested, nest = <<>>, FinalsEnd(ast), BreaksInLoops,
         NEW n \in 1 .. Len(ast) + 1, NEW f, NEW g,
         \A m \in n + 1 .. Len(ast) + 1 : f[m] = g[m]
  PROVE  Comes(f, n) = Comes(g, n)
<1>1. Len(ast) \in Nat
  BY NodesTyped
<1>2. CASE n > Len(ast)
  BY <1>2 DEF Comes
<1>3. CASE ~(n > Len(ast))
  <2>1. n \in 1 .. Len(ast) /\ n + 1 \in n + 1 .. Len(ast) + 1
    BY <1>1, <1>3
  <2>2. ast[n].k \in AllKinds
    BY <2>1, NodesTyped DEF Node
  <2>3. CASE ast[n].k = "break"
    <3>1. LoopsAround(n) # {}
      BY <2>1, <2>3 DEF BreaksInLoops
    <3>2. BodyEnd(Max(LoopsAround(n))) + 1 \in n + 1 .. Len(ast) + 1
      BY <2>1, <2>3, <3>1, BreakLeaves
    <3>3. f[BodyEnd(Max(LoopsAround(n))) + 1] = g[BodyEnd(Max(LoopsAround(n))) + 1]
      BY <3>2
    <3> QED
      BY <1>3, <2>3, <3>3, ComesIs
  <2>4. CASE ast[n].k \in Clauses
    <3>1. S!TreeEnd(n) \in n .. Len(ast)
      BY <2>1, <2>4, TreeCloses DEF Markers
    <3>2. S!TreeEnd(n) + 1 \in n + 1 .. Len(ast) + 1
      BY <1>1, <2>1, <3>1
    <3>3. f[S!TreeEnd(n) + 1] = g[S!TreeEnd(n) + 1]
      BY <3>2
    <3> QED
      BY <1>3, <2>4, <3>3, ComesIs
  <2>5. CASE ast[n].k \in {"decl", "end"}
    <3>1. f[n + 1] = g[n + 1]
      BY <2>1
    <3> QED
      BY <1>3, <2>5, <3>1, ComesIs
  <2>6. CASE ast[n].k \notin Clauses \cup {"break", "decl", "end"}
    <3>1. \/ ast[n].k \in {"param", "init", "asst", "expr", "print", "delete", "fordcl", "forasst"}
          \/ ast[n].k = "return" \/ ast[n].k \in {"if", "while"}
      BY <2>2, <2>6 DEF AllKinds, Leaves, Openers, Loops, Markers, Clauses
    <3> QED
      BY <1>3, <3>1, ComesIs
  <2> QED
    BY <2>3, <2>4, <2>5, <2>6
<1> QED
  BY <1>2, <1>3

\* So there is a function that it is the rule of: from the last node to the first.
FollowsFrom(f, k) ==
  f = [n \in 1 .. Len(ast) + 1 |-> IF n >= k THEN Comes(f, n) ELSE f[n]]

LEMMA PointsExist ==
  ASSUME Nested, nest = <<>>, FinalsEnd(ast), BreaksInLoops
  PROVE  \E f : f = [n \in 1 .. Len(ast) + 1 |-> Comes(f, n)]
<1> DEFINE N == Len(ast) + 1
           K == {k \in 1 .. N + 1 : \E f : FollowsFrom(f, k)}
<1>1. N \in Nat /\ N >= 1
  BY NodesTyped
<1>2. N + 1 \in K
  <2> DEFINE f == [n \in 1 .. N |-> 0]
  <2>1. FollowsFrom(f, N + 1)
    BY <1>1 DEF FollowsFrom
  <2> QED
    BY <1>1, <2>1
<1> DEFINE k == Min(K)
<1>3. k \in K /\ \A j \in K : k <= j
  <2>1. K \subseteq Nat
    BY <1>1
  <2> QED
    BY <1>2, <2>1, MinIsLeast
<1> HIDE DEF k
<1>4. PICK f : FollowsFrom(f, k)
  BY <1>3
<1>5. k = 1
  <2> SUFFICES ASSUME k # 1 PROVE FALSE
    OBVIOUS
  <2> DEFINE j == k - 1
             g == [f EXCEPT ![j] = Comes(f, j)]
  <2>1. j \in 1 .. N /\ k \in 2 .. N + 1 /\ j + 1 = k /\ ~(k <= j)
    BY <1>1, <1>3
  <2>2. DOMAIN f = 1 .. N /\ \A n \in 1 .. N : n >= k => f[n] = Comes(f, n)
    BY <1>4 DEF FollowsFrom
  <2>3. DOMAIN g = 1 .. N /\ g[j] = Comes(f, j) /\ \A n \in 1 .. N : n # j => g[n] = f[n]
    BY <2>1, <2>2
  <2> HIDE DEF g
  <2>4. \A n \in 1 .. N : n >= j => Comes(f, n) = Comes(g, n)
    <3> SUFFICES ASSUME NEW n \in 1 .. N, n >= j PROVE Comes(f, n) = Comes(g, n)
      OBVIOUS
    <3>1. \A m \in n + 1 .. N : f[m] = g[m]
      BY <1>1, <2>1, <2>3
    <3> QED
      BY <3>1, ComesLater
  <2>5. \A n \in 1 .. N : g[n] = IF n >= j THEN Comes(g, n) ELSE g[n]
    BY <1>1, <2>1, <2>2, <2>3, <2>4
  <2>6. g = [n \in 1 .. N |-> g[n]]
    BY <2>3 DEF g
  <2>7. FollowsFrom(g, j)
    BY <2>5, <2>6 DEF FollowsFrom
  <2>8. j \in K
    BY <2>1, <2>7
  <2> QED
    BY <1>3, <2>1, <2>8
<1>6. f = [n \in 1 .. N |-> Comes(f, n)]
  <2>1. \A n \in 1 .. N : n >= k
    BY <1>1, <1>5
  <2> QED
    BY <1>4, <2>1 DEF FollowsFrom
<1> QED
  BY <1>6

\* Where the tree's breaks are in loops, First is what its definition says.
LEMMA FirstIs ==
  ASSUME Nested, nest = <<>>, FinalsEnd(ast), BreaksInLoops, NEW n \in 1 .. Len(ast) + 1
  PROVE  First[n] = Comes(First, n)
<1>1. First = [m \in 1 .. Len(ast) + 1 |-> Comes(First, m)]
  BY FirstComes, PointsExist, Zenon
<1> HIDE DEF First
<1> QED
  BY <1>1

\* Node by node.
LEMMA FirstAt ==
  ASSUME Nested, nest = <<>>, FinalsEnd(ast), BreaksInLoops, NEW n \in 1 .. Len(ast)
  PROVE  /\ ast[n].k = "decl" => First[n] = First[n + 1]
         /\ ast[n].k \in {"param", "init", "asst", "expr", "print", "delete", "fordcl", "forasst"}
              => First[n] = <<n, "do">>
         /\ ast[n].k = "return" => First[n] = <<n, "return">>
         /\ ast[n].k = "break" => First[n] = First[BodyEnd(EnclosingLoop(n)) + 1]
         /\ ast[n].k \in {"if", "while"} => First[n] = <<n, "cd">>
         /\ ast[n].k \in Clauses => First[n] = First[S!TreeEnd(n) + 1]
<1>1. n \in 1 .. Len(ast) + 1 /\ ~(n > Len(ast))
  BY NodesTyped
<1>2. First[n] = Comes(First, n)
  BY <1>1, FirstIs
<1>3. ast[n].k = "break" => Max(LoopsAround(n)) = EnclosingLoop(n)
  BY BreakLeaves DEF BreaksInLoops
<1> HIDE DEF First
<1> QED
  BY <1>1, <1>2, <1>3, ComesIs

LEMMA FirstLast ==
  ASSUME Nested, nest = <<>>, FinalsEnd(ast), BreaksInLoops
  PROVE  First[Len(ast) + 1] = <<Len(ast) + 1, "return">>
<1>1. Len(ast) \in Nat
  BY NodesTyped
<1>2. First[Len(ast) + 1] = Comes(First, Len(ast) + 1)
  BY <1>1, FirstIs
<1> HIDE DEF First
<1> QED
  BY <1>1, <1>2 DEF Comes

\* At an end marker, o the statement that ends.
LEMMA FirstEnd ==
  ASSUME Nested, nest = <<>>, FinalsEnd(ast), BreaksInLoops, NEW n \in 1 .. Len(ast),
         ast[n].k = "end", NEW o \in 1 .. n - 1, ast[o].k \in Openers, ast[o].lvl = ast[n].lvl,
         Holds(o, n)
  PROVE  /\ ast[o].k = "if" => First[n] = First[n + 1]
         /\ ast[o].k = "while" => First[n] = <<o, "cd">>
         /\ ast[o].k \in {"fordcl", "forasst"} => First[n] = <<o, "ep">>
<1> DEFINE M == {m \in 1 .. n - 1 : ast[m].k \in Openers /\ ast[m].lvl = ast[n].lvl}
<1>1. n \in 1 .. Len(ast) + 1 /\ ~(n > Len(ast)) /\ n - 1 \in Nat /\ Len(ast) \in Nat
      /\ \A m \in 1 .. Len(ast) : ast[m].lvl \in Nat
  BY NodesTyped
<1>2. Max(M) \in M /\ \A y \in M : y <= Max(M)
  BY <1>1, MaxIsGreatest
<1> DEFINE t == Max(M)
<1>3. t = o
  <2>1. o \in M
    OBVIOUS
  <2>2. t \in 1 .. n - 1 /\ ast[t].k \in Openers /\ ast[t].lvl = ast[n].lvl /\ o <= t
    BY <1>2, <2>1
  <2> HIDE DEF t
  <2>3. CASE t # o
    <3>1. t \in o + 1 .. n - 1 /\ t \in 1 .. Len(ast)
      BY <1>1, <2>2, <2>3
    <3>2. ast[t].lvl > ast[o].lvl \/ ast[t].k \in Clauses
      BY <3>1 DEF Holds
    <3> QED
      BY <1>1, <2>2, <3>1, <3>2 DEF Openers, Loops, Clauses
  <2> QED
    BY <2>3
<1>4. S!Ended(n) = o
  BY <1>3, InstanceIs
<1>5. First[n] = Comes(First, n)
  BY <1>1, FirstIs
<1> HIDE DEF First
<1>6. First[n] = CASE ast[o].k = "if"    -> First[n + 1]
                   [] ast[o].k = "while" -> <<o, "cd">>
                   [] OTHER              -> <<o, "ep">>
  BY <1>1, <1>4, <1>5, ComesIs
<1> QED
  BY <1>6

\* When the condition at n does not hold.
LEMMA OtherwiseIs ==
  ASSUME Nested, nest = <<>>, FinalsEnd(ast), NEW n \in 1 .. Len(ast),
         ast[n].k \in Openers \cup Clauses
  PROVE  /\ ast[BodyEnd(n)].k = "elif" => S!Otherwise(n) = <<BodyEnd(n), "cd">>
         /\ ast[BodyEnd(n)].k # "elif" => S!Otherwise(n) = First[BodyEnd(n) + 1]
         /\ ast[n].k \in Loops => S!Otherwise(n) = First[BodyEnd(n) + 1]
<1>1. S!Otherwise(n) = IF ast[BodyEnd(n)].k = "elif" THEN <<BodyEnd(n), "cd">>
                                                     ELSE First[BodyEnd(n) + 1]
  BY InstanceIs DEF S!Otherwise, First
<1>2. ast[n].k \in Loops => ast[BodyEnd(n)].k = "end"
  BY BodyCloses
<1> HIDE DEF First
<1> QED
  BY <1>1, <1>2

\* What is said of the points does not change while the tree does not.
LEMMA SamePoints ==
  ASSUME ast' = ast
  PROVE  /\ First' = First
         /\ \A n : S!TreeEnd(n)' = S!TreeEnd(n) /\ S!Otherwise(n)' = S!Otherwise(n)
         /\ \A n : BodyEnd(n)' = BodyEnd(n)
<1>1. First' = First
  BY SMT DEF First, S!First, S!TreeEnd, S!Ended, S!LoopOf, S!BodyEnd, S!Around, S!Max, S!Min,
             S!Openers, S!Loops, S!Clauses, S!Markers
<1>2. \A n : S!TreeEnd(n)' = S!TreeEnd(n)
  BY DEF S!TreeEnd, S!Min
<1>3. \A n : S!BodyEnd(n)' = S!BodyEnd(n) /\ BodyEnd(n)' = BodyEnd(n)
  BY DEF S!BodyEnd, S!Min, S!Markers, S!Clauses, BodyEnd, Min, Markers, Clauses
<1>4. \A n : S!Otherwise(n)' = S!Otherwise(n)
  <2>1. S!First' = S!First
    BY <1>1 DEF First
  <2> QED
    BY <1>3, <2>1 DEF S!Otherwise
<1> QED
  BY <1>1, <1>2, <1>3, <1>4

-------------------------------------------------------------------------------
(* What the blocks are called.                                             *)

LEMMA LeadsIs ==
  ASSUME NEW x
  PROVE  /\ x.name = "entry" => Leads(x) = First[1]
         /\ x.name \in {"then", "while_body", "for_body"} => Leads(x) = First[x.node + 1]
         /\ x.name = "if_merge" => Leads(x) = First[S!TreeEnd(x.node) + 1]
         /\ x.name \in {"elif_fallthrough", "while_after", "for_after"}
              => Leads(x) = S!Otherwise(x.node)
         /\ x.name \in {"while_cond", "for_cond"} => Leads(x) = <<x.node, "cd">>
         /\ x.name = "for_inc" => Leads(x) = <<x.node, "ep">>
BY DEF Leads

LEMMA BeginsIs ==
  ASSUME NEW x
  PROVE  /\ x.name = "entry" => Begins(x) = 1
         /\ x.name \in {"then", "while_body", "for_body", "elif_fallthrough"}
              => Begins(x) = x.node + 1
         /\ x.name = "if_merge" => Begins(x) = S!TreeEnd(x.node) + 1
         /\ x.name \in {"while_after", "for_after"} => Begins(x) = BodyEnd(x.node) + 1
         /\ x.name \in {"while_cond", "for_cond", "for_inc"} => Begins(x) = Len(ast) + 2
BY DEF Begins

\* Where a block leads to is a matter of its name and its node.
LEMMA SameName ==
  ASSUME NEW x, NEW y, x.name = y.name, x.node = y.node
  PROVE  Leads(x) = Leads(y) /\ Begins(x) = Begins(y)
BY DEF Leads, Begins

-------------------------------------------------------------------------------
(* Code is added.                                                          *)

LEMMA RightStill ==
  ASSUME NEW bs, NEW cs, Extends(bs, cs), NEW i, NEW p, Right(bs, i, p)
  PROVE  Right(cs, i, p)
<1>1. \A j \in DOMAIN i.to : Leads(cs[i.to[j]]) = Leads(bs[i.to[j]])
  <2> TAKE j \in DOMAIN i.to
  <2>1. i.to[j] \in 1 .. Len(bs)
    BY DEF Right, GoesWithin
  <2> QED
    BY <2>1, SameName DEF Extends
<1>2. GoesWithin(cs, i)
  BY DEF Right, GoesWithin, Extends
<1>3. i.op = "br" => Leads(cs[i.to[1]]) = p
  BY <1>1 DEF Right
<1>4. i.op = "condbr" =>
        Leads(cs[i.to[1]]) = First[i.n + 1] /\ Leads(cs[i.to[2]]) = S!Otherwise(i.n)
  <2> SUFFICES ASSUME i.op = "condbr"
               PROVE  Leads(cs[i.to[1]]) = First[i.n + 1] /\ Leads(cs[i.to[2]]) = S!Otherwise(i.n)
    OBVIOUS
  <2>1. /\ 1 \in DOMAIN i.to /\ 2 \in DOMAIN i.to
        /\ Leads(bs[i.to[1]]) = First[i.n + 1] /\ Leads(bs[i.to[2]]) = S!Otherwise(i.n)
    BY DEF Right
  <2> QED
    BY <1>1, <2>1
<1> QED
  BY <1>2, <1>3, <1>4 DEF Right

LEMMA FlowsStill ==
  ASSUME NEW bs, NEW cs, Extends(bs, cs), NEW x, IsPlain(x), Flows(bs, x)
  PROVE  Flows(cs, x)
<1>1. \A k \in 1 .. Len(x.ins) : Right(cs, x.ins[k], StandsAt(x, k))
  BY RightStill DEF Flows
<1>2. Onwards(cs, x)
  <2> SUFFICES ASSUME x.ins # <<>>, x.ins[1].op = "br"
               PROVE  Begins(x) < Begins(cs[x.ins[1].to[1]])
    BY DEF Onwards
  <2>1. 1 \in 1 .. Len(x.ins)
    BY DEF IsPlain, IsSeq
  <2>2. Right(bs, x.ins[1], StandsAt(x, 1))
    BY <2>1 DEF Flows
  <2>3. x.ins[1].to[1] \in 1 .. Len(bs)
    BY <2>2 DEF Right, GoesWithin
  <2>4. Begins(cs[x.ins[1].to[1]]) = Begins(bs[x.ins[1].to[1]])
    BY <2>3, SameName DEF Extends
  <2> QED
    BY <2>4 DEF Flows, Onwards
<1> QED
  BY <1>1, <1>2 DEF Flows

\* y is block x with one more instruction.
Lengthened(x, i, y) ==
  /\ IsPlain(y) /\ y.name = x.name /\ y.node = x.node
  /\ Len(x.ins) \in Nat /\ Len(y.ins) = Len(x.ins) + 1
  /\ y.ins[Len(x.ins) + 1] = i /\ \A k \in 1 .. Len(x.ins) : y.ins[k] = x.ins[k]
  /\ \A k \in 1 .. Len(x.ins) + 1 : StandsAt(y, k) = StandsAt(x, k)
  /\ Stands(y) = Then(i)
  /\ HasTerminator(y) <=> i.op \in Terminators
  /\ Straight(y) => Straight(x) /\ ~HasTerminator(x)

LEMMA LongerPlain ==
  ASSUME NEW x, IsPlain(x), NEW i, NEW y, y = Longer(x, i)
  PROVE  Lengthened(x, i, y)
<1>1. /\ {"node", "name", "ins"} \subseteq DOMAIN x /\ IsSeq(x.ins)
  BY DEF IsPlain
<1>2. /\ y.ins = Append(x.ins, i) /\ DOMAIN y = DOMAIN x
      /\ y.name = x.name /\ y.node = x.node
  BY <1>1 DEF Longer
<1>3. /\ Len(x.ins) \in Nat /\ IsSeq(y.ins) /\ Len(y.ins) = Len(x.ins) + 1
      /\ \A k \in 1 .. Len(x.ins) : y.ins[k] = x.ins[k]
      /\ y.ins[Len(x.ins) + 1] = i
  BY <1>1, <1>2, AppendSeq
<1>4. IsPlain(y)
  BY <1>1, <1>2, <1>3 DEF IsPlain
<1>5. \A k \in 1 .. Len(x.ins) + 1 : StandsAt(y, k) = StandsAt(x, k)
  <2> TAKE k \in 1 .. Len(x.ins) + 1
  <2>1. CASE k = 1
    BY <1>2, <2>1, SameName DEF StandsAt
  <2>2. CASE k # 1
    <3>1. k - 1 \in 1 .. Len(x.ins)
      BY <1>3, <2>2
    <3>2. y.ins[k - 1] = x.ins[k - 1]
      BY <1>3, <3>1
    <3> QED
      BY <2>2, <3>2 DEF StandsAt
  <2> QED
    BY <2>1, <2>2
<1>6. Stands(y) = Then(i)
  <2>1. Len(y.ins) + 1 # 1 /\ (Len(y.ins) + 1) - 1 = Len(x.ins) + 1
    BY <1>3
  <2> QED
    BY <1>3, <2>1 DEF Stands, StandsAt
<1>7. HasTerminator(y) <=> i.op \in Terminators
  <2>1. y.ins # <<>> /\ y.ins[Len(y.ins)] = i
    BY <1>3
  <2> QED
    BY <2>1 DEF HasTerminator
<1>8. Straight(y) => Straight(x) /\ ~HasTerminator(x)
  <2> SUFFICES ASSUME Straight(y) PROVE Straight(x) /\ ~HasTerminator(x)
    OBVIOUS
  <2>1. \A k \in 1 .. Len(x.ins) : x.ins[k].op \notin Terminators
    BY <1>3 DEF Straight
  <2>2. x.ins # <<>> => Len(x.ins) \in 1 .. Len(x.ins)
    BY <1>1, <1>3 DEF IsSeq
  <2>3. \A k \in 1 .. Len(x.ins) - 1 : k \in 1 .. Len(x.ins)
    BY <1>3
  <2> QED
    BY <2>1, <2>2, <2>3 DEF Straight, HasTerminator
<1> QED
  BY <1>2, <1>3, <1>4, <1>5, <1>6, <1>7, <1>8 DEF Lengthened

\* What was there is still there, the blocks P as they were; and code that
\* followed a jump still does.
Grown(bs, cs, P) ==
  Extends(bs, cs) /\ Keeps(bs, cs, P) /\ (AllStraight(cs) => AllStraight(bs))

LEMMA GrownAll ==
  ASSUME NEW bs, NEW cs, NEW ds, NEW P, NEW Q, NEW R, Grown(bs, cs, P), Grown(cs, ds, Q),
         R \subseteq P, R \subseteq Q
  PROVE  Grown(bs, ds, R)
BY ExtendsAll, KeepsAll DEF Grown

LEMMA GrownLess ==
  ASSUME NEW bs, NEW cs, NEW P, NEW R, Grown(bs, cs, P), R \subseteq P
  PROVE  Grown(bs, cs, R)
BY DEF Grown, Keeps

LEMMA GrownSame ==
  ASSUME NEW bs, NEW P, Flowing(bs, P)
  PROVE  Grown(bs, bs, 1 .. Len(bs))
<1>1. Len(bs) \in Nat
  BY DEF Flowing, IsSeq
<1> QED
  BY <1>1 DEF Grown, Extends, Keeps

\* What an instruction that is added to the block c has to be.
Continues(bs, c, i) ==
  AllStraight(bs) /\ ~HasTerminator(bs[c]) =>
    /\ Right(bs, i, Stands(bs[c]))
    /\ bs[c].ins = <<>> /\ i.op = "br" => Begins(bs[c]) < Begins(bs[i.to[1]])

LEMMA FlowEmit ==
  ASSUME NEW bs, NEW P, Flowing(bs, P), NEW c \in 1 .. Len(bs), c \notin P, NEW i,
         Continues(bs, c, i)
  PROVE  LET cs == Emit(bs, c, i)
         IN  /\ Flowing(cs, P) /\ Grown(bs, cs, P) /\ Len(cs) = Len(bs)
             /\ \A b \in 1 .. Len(bs) : b # c => cs[b] = bs[b]
             /\ HasTerminator(cs[c]) <=> i.op \in Terminators
             /\ Stands(cs[c]) = Then(i)
             /\ AllStraight(cs) => ~HasTerminator(bs[c])
<1> DEFINE y  == Longer(bs[c], i)
           cs == [bs EXCEPT ![c] = y]
<1>1. Emit(bs, c, i) = cs
  BY DEF Emit, Longer
<1>2. /\ IsSeq(bs) /\ P \subseteq 1 .. Len(bs)
      /\ \A b \in 1 .. Len(bs) : IsPlain(bs[b]) /\ Begins(bs[b]) \in 1 .. Len(ast) + 2
      /\ \A b \in P : bs[b].ins = <<>>
      /\ AllStraight(bs) => \A b \in 1 .. Len(bs) : Flows(bs, bs[b])
  BY DEF Flowing
<1>3. /\ IsPlain(y) /\ y.name = bs[c].name /\ y.node = bs[c].node
      /\ Len(bs[c].ins) \in Nat /\ Len(y.ins) = Len(bs[c].ins) + 1
      /\ y.ins[Len(bs[c].ins) + 1] = i /\ \A k \in 1 .. Len(bs[c].ins) : y.ins[k] = bs[c].ins[k]
      /\ \A k \in 1 .. Len(bs[c].ins) + 1 : StandsAt(y, k) = StandsAt(bs[c], k)
      /\ Stands(y) = Then(i)
      /\ HasTerminator(y) <=> i.op \in Terminators
      /\ Straight(y) => Straight(bs[c]) /\ ~HasTerminator(bs[c])
  <2>1. IsPlain(bs[c]) /\ y = Longer(bs[c], i)
    BY <1>2
  <2> HIDE DEF y
  <2>2. Lengthened(bs[c], i, y)
    BY <2>1, LongerPlain
  <2> QED
    BY <2>2 DEF Lengthened
<1> HIDE DEF y
<1>4. /\ Len(bs) \in Nat /\ IsSeq(cs) /\ Len(cs) = Len(bs) /\ cs[c] = y
      /\ \A b \in 1 .. Len(bs) : b # c => cs[b] = bs[b]
  <2>1. IsSeq(bs)
    BY <1>2
  <2> QED
    BY <2>1, SetSeq
<1> HIDE DEF cs
<1>5. Extends(bs, cs)
  BY <1>3, <1>4 DEF Extends
<1>6. Keeps(bs, cs, P)
  <2>1. \A b \in P : b \in 1 .. Len(bs) /\ b # c
    BY <1>2
  <2> QED
    BY <1>4, <2>1 DEF Keeps
<1>7. ASSUME AllStraight(cs)
      PROVE  AllStraight(bs) /\ ~HasTerminator(bs[c])
  BY <1>3, <1>4, <1>7 DEF AllStraight
<1>8. ASSUME AllStraight(cs), NEW b \in 1 .. Len(cs)
      PROVE  Flows(cs, cs[b])
  <2>1. /\ Flows(bs, bs[b]) /\ IsPlain(bs[b]) /\ b \in 1 .. Len(bs)
        /\ Right(bs, i, Stands(bs[c])) /\ Flows(bs, bs[c])
        /\ bs[c].ins = <<>> /\ i.op = "br" => Begins(bs[c]) < Begins(bs[i.to[1]])
    BY <1>2, <1>4, <1>7, <1>8 DEF Continues
  <2>2. CASE b # c
    BY <1>4, <1>5, <2>1, <2>2, FlowsStill
  <2>3. CASE b = c
    <3>1. Flows(cs, bs[c]) /\ Right(cs, i, Stands(bs[c]))
      BY <1>5, <2>1, <2>3, FlowsStill, RightStill
    <3>2. ASSUME NEW k \in 1 .. Len(y.ins)
          PROVE  Right(cs, y.ins[k], StandsAt(y, k))
      <4>1. CASE k \in 1 .. Len(bs[c].ins)
        <5>1. y.ins[k] = bs[c].ins[k] /\ StandsAt(y, k) = StandsAt(bs[c], k)
          BY <1>3, <4>1
        <5>2. Right(cs, bs[c].ins[k], StandsAt(bs[c], k))
          BY <3>1, <4>1 DEF Flows
        <5> QED
          BY <5>1, <5>2
      <4>2. CASE k = Len(bs[c].ins) + 1
        <5>1. y.ins[k] = i /\ StandsAt(y, k) = Stands(bs[c])
          BY <1>3, <4>2 DEF Stands
        <5> QED
          BY <3>1, <5>1
      <4> QED
        BY <1>3, <4>1, <4>2
    <3>3. Onwards(cs, y)
      <4>1. CASE bs[c].ins = <<>>
        <5>1. y.ins[1] = i
          BY <1>3, <4>1
        <5>2. i.op = "br" => i.to[1] \in 1 .. Len(bs)
          BY <2>1 DEF Right, GoesWithin
        <5>3. i.op = "br" => Begins(cs[i.to[1]]) = Begins(bs[i.to[1]])
          BY <1>5, <5>2, SameName DEF Extends
        <5>4. Begins(y) = Begins(bs[c])
          BY <1>3, SameName
        <5> QED
          BY <2>1, <4>1, <5>1, <5>3, <5>4 DEF Onwards
      <4>2. CASE bs[c].ins # <<>>
        <5>1. 1 \in 1 .. Len(bs[c].ins)
          BY <1>2, <4>2 DEF IsPlain, IsSeq
        <5>2. y.ins[1] = bs[c].ins[1] /\ Begins(y) = Begins(bs[c])
          BY <1>3, <5>1, SameName
        <5> QED
          BY <3>1, <4>2, <5>2 DEF Flows, Onwards
      <4> QED
        BY <4>1, <4>2
    <3> QED
      BY <1>4, <2>3, <3>2, <3>3 DEF Flows
  <2> QED
    BY <2>2, <2>3
<1>9. \A b \in 1 .. Len(cs) : IsPlain(cs[b]) /\ Begins(cs[b]) \in 1 .. Len(ast) + 2
  <2> TAKE b \in 1 .. Len(cs)
  <2>1. b \in 1 .. Len(bs) /\ Begins(cs[b]) = Begins(bs[b])
    BY <1>3, <1>4, SameName
  <2> QED
    BY <1>2, <1>3, <1>4, <2>1
<1>10. \A b \in P : cs[b].ins = <<>>
  BY <1>2, <1>4
<1>11. Flowing(cs, P)
  BY <1>2, <1>4, <1>8, <1>9, <1>10 DEF Flowing
<1> QED
  BY <1>1, <1>3, <1>4, <1>5, <1>6, <1>7, <1>11 DEF Grown

\* A block joins the function.
LEMMA FlowPlace ==
  ASSUME NEW bs, NEW P, Flowing(bs, P), NEW e \in 1 .. Len(bs)
  PROVE  LET cs == Place(bs, e)
         IN  /\ Flowing(cs, P) /\ Grown(bs, cs, P \ {e}) /\ Len(cs) = Len(bs)
             /\ \A b \in 1 .. Len(bs) : cs[b].ins = bs[b].ins
<1> DEFINE y  == [bs[e] EXCEPT !.placed = TRUE]
           cs == [bs EXCEPT ![e] = y]
<1>1. Place(bs, e) = cs
  BY DEF Place
<1>2. /\ IsSeq(bs) /\ P \subseteq 1 .. Len(bs)
      /\ \A b \in 1 .. Len(bs) : IsPlain(bs[b]) /\ Begins(bs[b]) \in 1 .. Len(ast) + 2
      /\ \A b \in P : bs[b].ins = <<>>
      /\ AllStraight(bs) => \A b \in 1 .. Len(bs) : Flows(bs, bs[b])
  BY DEF Flowing
<1>3. DOMAIN y = DOMAIN bs[e] /\ y.name = bs[e].name /\ y.node = bs[e].node /\ y.ins = bs[e].ins
  BY <1>2 DEF IsPlain
<1> HIDE DEF y
<1>4. /\ Len(bs) \in Nat /\ IsSeq(cs) /\ Len(cs) = Len(bs) /\ cs[e] = y
      /\ \A b \in 1 .. Len(bs) : b # e => cs[b] = bs[b]
  <2>1. IsSeq(bs)
    BY <1>2
  <2> QED
    BY <2>1, SetSeq
<1> HIDE DEF cs
<1>5. \A b \in 1 .. Len(bs) : /\ DOMAIN cs[b] = DOMAIN bs[b] /\ cs[b].name = bs[b].name
                              /\ cs[b].node = bs[b].node /\ cs[b].ins = bs[b].ins
  BY <1>3, <1>4
<1>6. Extends(bs, cs) /\ Keeps(bs, cs, P \ {e})
  BY <1>2, <1>4, <1>5 DEF Extends, Keeps
<1>7. AllStraight(cs) => AllStraight(bs)
  BY <1>4, <1>5 DEF AllStraight, Straight
<1>8. ASSUME AllStraight(cs), NEW b \in 1 .. Len(cs)
      PROVE  Flows(cs, cs[b])
  <2>1. Flows(cs, bs[b])
    BY <1>2, <1>4, <1>6, <1>7, <1>8, FlowsStill
  <2>2. /\ cs[b].ins = bs[b].ins /\ Leads(cs[b]) = Leads(bs[b]) /\ Begins(cs[b]) = Begins(bs[b])
    BY <1>4, <1>5, <1>8, SameName
  <2>3. \A k : StandsAt(cs[b], k) = StandsAt(bs[b], k)
    BY <2>2 DEF StandsAt
  <2> QED
    BY <2>1, <2>2, <2>3 DEF Flows, Onwards
<1>9. \A b \in 1 .. Len(cs) : IsPlain(cs[b]) /\ Begins(cs[b]) \in 1 .. Len(ast) + 2
  <2> TAKE b \in 1 .. Len(cs)
  <2>1. Begins(cs[b]) = Begins(bs[b]) /\ b \in 1 .. Len(bs)
    BY <1>4, <1>5, SameName
  <2> QED
    BY <1>2, <1>5, <2>1 DEF IsPlain
<1>10. \A b \in P : cs[b].ins = <<>>
  BY <1>2, <1>5
<1>11. Flowing(cs, P)
  BY <1>2, <1>4, <1>8, <1>9, <1>10 DEF Flowing
<1> QED
  BY <1>1, <1>4, <1>5, <1>6, <1>7, <1>11 DEF Grown

\* A new block, empty.
IsNew(bs, b, name, placed) ==
  Fresh(bs, b, placed) /\ bs[b].name = name /\ bs[b].ins = <<>>

LEMMA FlowNew ==
  ASSUME NEW bs, NEW P, Flowing(bs, P), NEW name, NEW placed \in BOOLEAN,
         Begins(NewBlock(name, placed)) \in 1 .. Len(ast) + 2
  PROVE  LET cs == Append(bs, NewBlock(name, placed))
         IN  /\ Flowing(cs, P \cup {Len(bs) + 1}) /\ Grown(bs, cs, 1 .. Len(bs))
             /\ Len(bs) \in Nat /\ Len(cs) = Len(bs) + 1
             /\ IsNew(cs, Len(bs) + 1, name, placed)
<1> DEFINE x  == NewBlock(name, placed)
           cs == Append(bs, x)
           l  == Len(bs) + 1
<1>1. /\ IsSeq(bs) /\ P \subseteq 1 .. Len(bs)
      /\ \A b \in 1 .. Len(bs) : IsPlain(bs[b]) /\ Begins(bs[b]) \in 1 .. Len(ast) + 2
      /\ \A b \in P : bs[b].ins = <<>>
      /\ AllStraight(bs) => \A b \in 1 .. Len(bs) : Flows(bs, bs[b])
  BY DEF Flowing
<1>2. /\ {"node", "name", "ins"} \subseteq DOMAIN x /\ x.ins = <<>> /\ x.node = cgPc
      /\ x.name = name /\ (x.placed <=> placed) /\ <<>> \in Seq({})
      /\ Begins(x) \in 1 .. Len(ast) + 2
  BY DEF NewBlock
<1> HIDE DEF x
<1>3. IsPlain(x) /\ Len(x.ins) = 0
  BY <1>2 DEF IsPlain, IsSeq
<1>4. /\ Len(bs) \in Nat /\ IsSeq(cs) /\ Len(cs) = l /\ l \in 1 .. Len(cs)
      /\ \A b \in 1 .. Len(bs) : cs[b] = bs[b]
      /\ cs[l] = x
  BY <1>1, AppendSeq
<1> HIDE DEF cs, l
<1>5. \A b \in 1 .. Len(cs) : b \in 1 .. Len(bs) \/ b = l
  BY <1>4 DEF l
<1>6. \A b \in 1 .. Len(bs) : b \in 1 .. Len(cs)
  BY <1>4 DEF l
<1>7. Extends(bs, cs) /\ Keeps(bs, cs, 1 .. Len(bs))
  BY <1>4 DEF Extends, Keeps, l
<1>8. AllStraight(cs) => AllStraight(bs)
  BY <1>4, <1>6 DEF AllStraight
<1>9. ASSUME AllStraight(cs), NEW b \in 1 .. Len(cs)
      PROVE  Flows(cs, cs[b])
  <2>1. CASE b = l
    BY <1>2, <1>3, <1>4, <2>1 DEF Flows, Onwards
  <2>2. CASE b \in 1 .. Len(bs)
    BY <1>1, <1>4, <1>7, <1>8, <1>9, <2>2, FlowsStill
  <2> QED
    BY <1>5, <2>1, <2>2
<1>10. \A b \in 1 .. Len(cs) : IsPlain(cs[b]) /\ Begins(cs[b]) \in 1 .. Len(ast) + 2
  BY <1>1, <1>2, <1>3, <1>4, <1>5
<1>11. \A b \in P \cup {l} : b \in 1 .. Len(cs) /\ cs[b].ins = <<>>
  BY <1>1, <1>2, <1>4, <1>6
<1>12. Flowing(cs, P \cup {l})
  BY <1>4, <1>9, <1>10, <1>11 DEF Flowing
<1>13. IsNew(cs, l, name, placed)
  BY <1>2, <1>4 DEF IsNew, Fresh
<1> QED
  BY <1>4, <1>7, <1>8, <1>12, <1>13 DEF Grown, cs, l, x

\* The insertion point moves on: a block is waited for no longer.
LEMMA FlowMove ==
  ASSUME NEW bs, NEW P, Flowing(bs, P), NEW Q, Q \subseteq P
  PROVE  Flowing(bs, Q)
BY DEF Flowing

\* An empty block is where control comes first.
LEMMA NewStands ==
  ASSUME NEW x, x.ins = <<>>
  PROVE  Stands(x) = Leads(x) /\ ~HasTerminator(x)
BY DEF Stands, StandsAt, HasTerminator

-------------------------------------------------------------------------------
(* The instructions.                                                       *)

LEMMA InstructionFields ==
  ASSUME NEW op, NEW n, NEW role, NEW addr, NEW to
  PROVE  LET i == Instruction(op, n, role, addr, to)
         IN  i.op = op /\ i.n = n /\ i.role = role /\ i.to = to
BY DEF Instruction

LEMMA BrRight ==
  ASSUME NEW bs, NEW n \in 1 .. Len(ast) + 1, NEW b \in 1 .. Len(bs), NEW p, Leads(bs[b]) = p
  PROVE  Right(bs, Br(n, b), p) /\ Br(n, b).op = "br" /\ Br(n, b).to[1] = b
<1> DEFINE i == Br(n, b)
<1>1. i.op = "br" /\ i.n = n /\ i.to = <<b>>
  BY InstructionFields DEF Br
<1> HIDE DEF i
<1>2. i.to[1] = b /\ DOMAIN i.to = {1}
  BY <1>1
<1>3. GoesWithin(bs, i)
  BY <1>2 DEF GoesWithin
<1>4. "br" \in Terminators
  BY DEF Terminators
<1> QED
  BY <1>1, <1>2, <1>3, <1>4 DEF Right, i

LEMMA CondBrRight ==
  ASSUME NEW bs, NEW n \in 1 .. Len(ast) + 1, NEW a, NEW b \in 1 .. Len(bs), NEW c \in 1 .. Len(bs),
         Leads(bs[b]) = First[n + 1], Leads(bs[c]) = S!Otherwise(n)
  PROVE  Right(bs, CondBr(n, a, b, c), <<n, "cd">>) /\ CondBr(n, a, b, c).op = "condbr"
<1> DEFINE i == CondBr(n, a, b, c)
<1>1. i.op = "condbr" /\ i.n = n /\ i.to = <<b, c>>
  BY InstructionFields DEF CondBr
<1> HIDE DEF i
<1>2. i.to[1] = b /\ i.to[2] = c /\ DOMAIN i.to = {1, 2}
  BY <1>1
<1>3. GoesWithin(bs, i)
  BY <1>2 DEF GoesWithin
<1>4. "condbr" \in Terminators
  BY DEF Terminators
<1>5. PointOf(i) = <<n, "cd">>
  BY <1>1 DEF PointOf
<1> QED
  BY <1>1, <1>2, <1>3, <1>4, <1>5 DEF Right, i

LEMMA RetRight ==
  ASSUME NEW bs, NEW n \in 1 .. Len(ast) + 1, NEW a
  PROVE  Right(bs, Ret(n, a), <<n, "return">>) /\ Ret(n, a).op = "ret"
<1> DEFINE i == Ret(n, a)
<1>1. i.op = "ret" /\ i.n = n /\ i.to = <<>>
  BY InstructionFields DEF Ret
<1> HIDE DEF i
<1>2. GoesWithin(bs, i)
  BY <1>1 DEF GoesWithin
<1>3. "ret" \in Terminators
  BY DEF Terminators
<1>4. PointOf(i) = <<n, "return">>
  BY <1>1 DEF PointOf
<1> QED
  BY <1>1, <1>2, <1>3, <1>4 DEF Right, i

LEMMA EffectRight ==
  ASSUME NEW bs, NEW n \in 1 .. Len(ast), NEW role \in {"do", "ep"}, NEW id, NEW rd
  PROVE  LET i == Effect(n, role, id, rd)
         IN  /\ Right(bs, i, <<n, role>>) /\ i.op = "eff" /\ i.op \notin Terminators
             /\ Then(i) = IF role = "ep" \/ ast[n].k \in Loops THEN <<n, "cd">> ELSE First[n + 1]
<1> DEFINE i == Effect(n, role, id, rd)
<1>1. i.op = "eff" /\ i.n = n /\ i.role = role /\ i.to = <<>>
  BY InstructionFields DEF Effect
<1> HIDE DEF i
<1>2. GoesWithin(bs, i)
  BY <1>1 DEF GoesWithin
<1>3. "eff" \notin Terminators
  BY DEF Terminators
<1>4. PointOf(i) = <<n, role>>
  BY <1>1 DEF PointOf
<1>5. n \in 1 .. Len(ast) + 1 /\ n <= Len(ast)
  OBVIOUS
<1>6. Then(i) = IF role = "ep" \/ ast[n].k \in Loops THEN <<n, "cd">> ELSE First[n + 1]
  BY <1>1 DEF Then
<1>7. Right(bs, i, <<n, role>>)
  BY <1>1, <1>2, <1>3, <1>4, <1>5 DEF Right
<1> QED
  BY <1>1, <1>3, <1>6, <1>7 DEF i

\* A branch to where control comes to at the end of the block c.
LEMMA FlowBr ==
  ASSUME NEW bs, NEW P, Flowing(bs, P), NEW c \in 1 .. Len(bs), c \notin P,
         NEW n \in 1 .. Len(ast) + 1, NEW e \in 1 .. Len(bs),
         AllStraight(bs) /\ ~HasTerminator(bs[c]) =>
           Leads(bs[e]) = Stands(bs[c]) /\ (bs[c].ins = <<>> => Begins(bs[c]) < Begins(bs[e]))
  PROVE  LET cs == Emit(bs, c, Br(n, e))
         IN  /\ Flowing(cs, P) /\ Grown(bs, cs, P) /\ Len(cs) = Len(bs)
             /\ \A b \in 1 .. Len(bs) : b # c => cs[b] = bs[b]
             /\ HasTerminator(cs[c])
             /\ AllStraight(cs) => ~HasTerminator(bs[c])
<1>1. Br(n, e).op = "br" /\ Br(n, e).to[1] = e /\ "br" \in Terminators
  BY InstructionFields DEF Br, Terminators
<1>2. Continues(bs, c, Br(n, e))
  <2> SUFFICES ASSUME AllStraight(bs), ~HasTerminator(bs[c])
               PROVE  /\ Right(bs, Br(n, e), Stands(bs[c]))
                      /\ bs[c].ins = <<>> => Begins(bs[c]) < Begins(bs[e])
    BY <1>1 DEF Continues
  <2>1. Leads(bs[e]) = Stands(bs[c])
    OBVIOUS
  <2> QED
    BY <2>1, BrRight
<1> QED
  BY <1>1, <1>2, FlowEmit

LEMMA FlowBrIfOpen ==
  ASSUME NEW bs, NEW P, Flowing(bs, P), NEW c \in 1 .. Len(bs), c \notin P,
         NEW n \in 1 .. Len(ast) + 1, NEW e \in 1 .. Len(bs),
         AllStraight(bs) /\ ~HasTerminator(bs[c]) =>
           Leads(bs[e]) = Stands(bs[c]) /\ (bs[c].ins = <<>> => Begins(bs[c]) < Begins(bs[e]))
  PROVE  LET cs == BrIfOpen(bs, c, n, e)
         IN  /\ Flowing(cs, P) /\ Grown(bs, cs, P) /\ Len(cs) = Len(bs)
             /\ \A b \in 1 .. Len(bs) : b # c => cs[b] = bs[b]
<1>1. CASE HasTerminator(bs[c])
  <2>1. Grown(bs, bs, P)
    BY GrownSame, GrownLess DEF Flowing
  <2> QED
    BY <1>1, <2>1 DEF BrIfOpen
<1>2. CASE ~HasTerminator(bs[c])
  BY <1>2, FlowBr DEF BrIfOpen
<1> QED
  BY <1>1, <1>2

-------------------------------------------------------------------------------
(* The blocks that the frames have ready.                                  *)

LEMMA PromisedStill ==
  ASSUME NEW bs, NEW cs, Extends(bs, cs), NEW f, NEW m, FrameOf(bs, f, m), Promised(bs, f, m)
  PROVE  Promised(cs, f, m)
<1>1. \A b \in 1 .. Len(bs) : cs[b].name = bs[b].name /\ cs[b].node = bs[b].node
  BY DEF Extends
<1>2. CASE ast[m].k \in Loops
  <2>1. f.cond \in 1 .. Len(bs) /\ (ast[m].k # "while" => f.next \in 1 .. Len(bs))
    BY <1>2 DEF FrameOf, PendingOf, Loops
  <2>2. AfterLoop(cs, f.end, m)
    BY <1>2, AfterLoopStays DEF Promised
  <2> QED
    BY <1>1, <1>2, <2>1, <2>2 DEF Promised
<1>3. CASE ast[m].k \notin Loops
  <2>1. f.end \in 1 .. Len(bs) /\ (ast[m].k # "else" => f.next \in 1 .. Len(bs))
    BY <1>3 DEF FrameOf, PendingOf, Loops
  <2> QED
    BY <1>1, <1>3, <2>1 DEF Promised
<1> QED
  BY <1>2, <1>3

LEMMA PromisedOn ==
  ASSUME Nested, NEW n \in 1 .. Len(ast), ast[n].k \notin Openers \cup Markers,
         NEW bs, NEW cs, NEW fs, Framed(n, bs, fs), AllPromised(n, bs, fs), Extends(bs, cs)
  PROVE  AllPromised(n + 1, cs, fs)
<1>1. LiveClauses(n + 1) = LiveClauses(n)
  BY ClausesNext DEF Markers
<1> QED
  BY <1>1, PromisedStill DEF AllPromised, Framed

LEMMA PromisedPush ==
  ASSUME Nested, NEW n \in 1 .. Len(ast), ast[n].k \in Openers,
         NEW bs, NEW cs, NEW fs, NEW f, IsSeq(fs), Len(fs) = Depth(n),
         Framed(n, bs, fs), AllPromised(n, bs, fs), Extends(bs, cs), Promised(cs, f, n)
  PROVE  AllPromised(n + 1, cs, Append(fs, f))
<1> DEFINE gs == Append(fs, f)
           k == Len(fs)
<1>1. ast[n].k \notin Markers
  BY DEF Openers, Loops, Markers, Clauses
<1>2. LiveClauses(n + 1) = LiveClauses(n) \cup {n}
  BY <1>1, ClausesNext
<1>3. k \in Nat /\ ast[n].lvl = k
  BY <1>1, DepthAt DEF Before
<1>4. Len(gs) = k + 1 /\ gs[k + 1] = f /\ \A i \in 1 .. k : gs[i] = fs[i]
  BY AppendSeq
<1> HIDE DEF gs
<1>5. FrameAt(gs, n) = f
  BY <1>3, <1>4 DEF FrameAt
<1>6. ASSUME NEW m \in LiveClauses(n)
      PROVE  Promised(cs, FrameAt(gs, m), m)
  <2>1. ast[m].lvl \in Nat /\ ast[m].lvl < k
    BY ClauseBelow
  <2>2. ast[m].lvl + 1 \in 1 .. k
    BY <1>3, <2>1
  <2>3. FrameAt(gs, m) = FrameAt(fs, m)
    BY <1>4, <2>2 DEF FrameAt
  <2>4. FrameOf(bs, FrameAt(fs, m), m) /\ Promised(bs, FrameAt(fs, m), m)
    BY DEF Framed, AllPromised
  <2> QED
    BY <2>3, <2>4, PromisedStill
<1> QED
  BY <1>2, <1>5, <1>6 DEF AllPromised, gs

\* What a marker leaves of the frames below the top.
LEMMA PromisedBelow ==
  ASSUME Nested, NEW n \in 1 .. Len(ast), ast[n].k \in Markers,
         NEW bs, NEW cs, NEW fs, NEW gs, Len(fs) = Depth(n), Framed(n, bs, fs),
         AllPromised(n, bs, fs), Extends(bs, cs), SameBelow(fs, gs)
  PROVE  \A m \in Outer(n) : Promised(cs, FrameAt(gs, m), m)
<1> TAKE m \in Outer(n)
<1>1. m \in LiveClauses(n) /\ ast[m].lvl < ast[n].lvl
  BY DEF Outer
<1>2. ast[n].lvl \in Nat /\ Len(fs) = ast[n].lvl + 1 /\ ast[m].lvl \in Nat
  BY <1>1, DepthAt, ClauseBelow DEF Before
<1>3. ast[m].lvl + 1 \in 1 .. Len(fs) - 1
  BY <1>1, <1>2, SMTT(40)
<1>4. FrameAt(gs, m) = FrameAt(fs, m)
  BY <1>3 DEF FrameAt, SameBelow
<1>5. FrameOf(bs, FrameAt(fs, m), m) /\ Promised(bs, FrameAt(fs, m), m)
  BY <1>1 DEF Framed, AllPromised
<1> QED
  BY <1>4, <1>5, PromisedStill

LEMMA PromisedClause ==
  ASSUME Nested, NEW n \in 1 .. Len(ast), ast[n].k \in Clauses,
         NEW bs, NEW cs, NEW fs, NEW gs, Len(fs) = Depth(n), Framed(n, bs, fs),
         AllPromised(n, bs, fs), Extends(bs, cs), SameBelow(fs, gs), Promised(cs, gs[Len(fs)], n)
  PROVE  AllPromised(n + 1, cs, gs)
<1>1. ast[n].k \in Markers
  BY DEF Markers
<1>2. ast[n].lvl \in Nat /\ Len(fs) = ast[n].lvl + 1
  BY <1>1, DepthAt DEF Before
<1>3. LiveClauses(n + 1) = Outer(n) \cup {n}
  BY <1>1, ClausesNext DEF Outer
<1>4. FrameAt(gs, n) = gs[Len(fs)]
  BY <1>2 DEF FrameAt
<1>5. \A m \in Outer(n) : Promised(cs, FrameAt(gs, m), m)
  BY <1>1, PromisedBelow
<1> QED
  BY <1>3, <1>4, <1>5 DEF AllPromised

LEMMA PromisedPop ==
  ASSUME Nested, NEW n \in 1 .. Len(ast), ast[n].k = "end",
         NEW bs, NEW cs, NEW fs, NEW gs, Len(fs) = Depth(n), Framed(n, bs, fs),
         AllPromised(n, bs, fs), Extends(bs, cs), SameBelow(fs, gs)
  PROVE  AllPromised(n + 1, cs, gs)
<1>1. ast[n].k \in Markers /\ ast[n].k \notin Openers \cup Clauses
  BY DEF Markers, Openers, Loops, Clauses
<1>2. LiveClauses(n + 1) = Outer(n)
  BY <1>1, ClausesNext DEF Outer
<1>3. \A m \in Outer(n) : Promised(cs, FrameAt(gs, m), m)
  BY <1>1, PromisedBelow
<1> QED
  BY <1>2, <1>3 DEF AllPromised

-------------------------------------------------------------------------------
(* Where the walk stands.                                                  *)

\* At a node.
LEMMA AtFlow ==
  ASSUME FlowInv, BreaksInLoops, NEW kinds, CgAt(kinds)
  PROVE  /\ phase = "codegen" /\ AddressInv /\ CgInv
         /\ Nested /\ nest = <<>> /\ FinalsEnd(ast) /\ Len(ast) \in Nat
         /\ cgPc \in 1 .. Len(ast) /\ Here = ast[cgPc] /\ ast[cgPc].k \in kinds
         /\ ast[cgPc].lvl \in Nat
         /\ IsSeq(frames) /\ Len(frames) = Depth(cgPc)
         /\ FramesMatch(cgPc, blocks, frames) /\ FramesHold(cgPc, frames)
         /\ Binds(named_values, Scoped(cgPc))
         /\ FlowAt(cgPc, blocks, cur, frames)
<1>1. phase = "codegen" /\ blocks # <<>>
  BY DEF CgAt
<1>2. AddressInv /\ CgInv
  BY <1>1 DEF FlowInv, AddressInv
<1>3. FlowAt(cgPc, blocks, cur, frames)
  BY <1>1 DEF FlowInv
<1>4. /\ Nested /\ nest = <<>> /\ cgPc \in 1 .. Len(ast) /\ Here = ast[cgPc] /\ ast[cgPc].k \in kinds
      /\ Binds(named_values, Scoped(cgPc))
      /\ FramesMatch(cgPc, blocks, frames) /\ FramesHold(cgPc, frames)
  BY <1>2, AtAddress
<1>5. FinalsEnd(ast)
  BY <1>2 DEF CgInv
<1>6. Len(ast) \in Nat /\ ast[cgPc].lvl \in Nat
  BY <1>4, NodesTyped
<1>7. IsSeq(frames) /\ Len(frames) = Depth(cgPc)
  BY <1>4 DEF FramesMatch
<1> QED
  BY <1>1, <1>2, <1>3, <1>4, <1>5, <1>6, <1>7

\* And what the blocks are like there.
LEMMA AtFlowBlocks ==
  ASSUME NEW n, NEW bs, NEW c, NEW fs, FlowAt(n, bs, c, fs)
  PROVE  /\ Framed(n, bs, fs) /\ AllPromised(n, bs, fs) /\ Flowing(bs, Pending(n, fs))
         /\ IsSeq(bs) /\ Len(bs) \in Nat
         /\ c \in 1 .. Len(bs) /\ c \notin Pending(n, fs)
         /\ bs[1].name = "entry" /\ Begins(bs[c]) <= n /\ Begins(bs[c]) \in 1 .. Len(ast) + 2
         /\ AllStraight(bs) => Arrives(n, bs[c])
         /\ Extends(bs, bs) /\ Keeps(bs, bs, Pending(n, fs))
         /\ Grown(bs, bs, Pending(n, fs))
<1>1. /\ Framed(n, bs, fs) /\ AllPromised(n, bs, fs) /\ Flowing(bs, Pending(n, fs))
      /\ c \in 1 .. Len(bs) /\ c \notin Pending(n, fs)
      /\ bs[1].name = "entry" /\ Begins(bs[c]) <= n
      /\ AllStraight(bs) => Arrives(n, bs[c])
  BY DEF FlowAt
<1>2. IsSeq(bs) /\ Begins(bs[c]) \in 1 .. Len(ast) + 2 /\ Pending(n, fs) \subseteq 1 .. Len(bs)
  BY <1>1 DEF Flowing
<1>3. Len(bs) \in Nat
  BY <1>2 DEF IsSeq
<1>4. Grown(bs, bs, Pending(n, fs))
  BY <1>1, <1>2, GrownSame, GrownLess
<1> QED
  BY <1>1, <1>2, <1>3, <1>4 DEF Grown

\* A return ends its statement's block.
LEMMA ReturnCloses ==
  ASSUME Nested, nest = <<>>, NEW r \in 1 .. Len(ast), ast[r].k = "return"
  PROVE  BlockEnd(r) \in r + 1 .. Len(ast) + 1 /\ BlockEnd(r) \in Nat /\ Len(ast) \in Nat
<1>1. ast[r].k \in Declarers \cup {"return"} /\ ast[r].k # "fordcl"
  OBVIOUS
<1>2. BlockEnd(r) \in r + 1 .. Len(ast) + 1
  BY <1>1, ReturnIsLeaf, InBlock
<1>3. Len(ast) \in Nat
  BY NodesTyped
<1> QED
  BY <1>2, <1>3

\* No return cuts a marker off from the block it ends.
LEMMA MarkerIsReached ==
  ASSUME Nested, nest = <<>>, NEW n \in 1 .. Len(ast), ast[n].k \in Markers,
         NEW x, Arrives(n, x)
  PROVE  ~AfterReturn(n)
<1> SUFFICES ASSUME NEW r \in 1 .. n - 1, ast[r].k = "return", n < BlockEnd(r) PROVE FALSE
  BY DEF AfterReturn, After
<1>1. Depth(n) = ast[r].lvl
  BY DEF Arrives
<1>2. Depth(n) = ast[n].lvl + 1 /\ ast[n].lvl \in Nat /\ Len(ast) \in Nat
  BY DepthAt DEF Before
<1> DEFINE E == {m \in r + 1 .. Len(ast) : ast[m].k \in Markers /\ ast[m].lvl = ast[r].lvl - 1}
                \cup {Len(ast) + 1}
<1>3. n \in E /\ E \subseteq Nat
  BY <1>1, <1>2
<1>4. Min(E) <= n /\ Min(E) \in Nat
  BY <1>3, MinIsLeast
<1>5. BlockEnd(r) = Min(E)
  BY DEF BlockEnd
<1> HIDE DEF E
<1> QED
  BY <1>4, <1>5

\* Nor what follows a node that is no return and was not cut off.
LEMMA StillReached ==
  ASSUME Nested, nest = <<>>, NEW n \in 1 .. Len(ast), ast[n].k # "return", ~AfterReturn(n)
  PROVE  ~AfterReturn(n + 1)
<1> SUFFICES ASSUME NEW r \in 1 .. (n + 1) - 1, ast[r].k = "return", n + 1 < BlockEnd(r) PROVE FALSE
  BY DEF AfterReturn, After
<1>1. n \in Nat /\ Len(ast) \in Nat
  BY NodesTyped
<1>2. r \in 1 .. n - 1 /\ r \in 1 .. Len(ast)
  BY <1>1
<1>3. BlockEnd(r) \in Nat
  BY <1>2, ReturnCloses
<1>4. n < BlockEnd(r)
  BY <1>1, <1>3
<1> QED
  BY <1>2, <1>4 DEF AfterReturn, After

LEMMA ArrivesThere ==
  ASSUME NEW n, ~AfterReturn(n), NEW x, ~HasTerminator(x) => Stands(x) = First[n]
  PROVE  Arrives(n, x)
BY DEF Arrives, AfterReturn, After

\* In a block that has no terminator the walk comes to a node no return cut off.
LEMMA OpenIsReached ==
  ASSUME NEW n, NEW x, Arrives(n, x), ~HasTerminator(x)
  PROVE  ~AfterReturn(n) /\ Stands(x) = First[n]
BY DEF Arrives, AfterReturn, After

\* A node that emits nothing: what follows is come to as it is.
LEMMA ArrivesOn ==
  ASSUME Nested, nest = <<>>, NEW n \in 1 .. Len(ast), ast[n].k \notin Openers \cup Markers \cup {"return"},
         NEW x, Arrives(n, x), ~HasTerminator(x) => First[n] = First[n + 1]
  PROVE  Arrives(n + 1, x)
<1>1. n \in Nat /\ Len(ast) \in Nat
  BY NodesTyped
<1>2. Depth(n + 1) = Depth(n)
  BY DepthAt DEF Before, Behind, Markers
<1>3. ~HasTerminator(x) => Stands(x) = First[n + 1]
  BY DEF Arrives
<1>4. ASSUME NEW r \in 1 .. (n + 1) - 1, ast[r].k = "return", n + 1 < BlockEnd(r)
      PROVE  HasTerminator(x) /\ Depth(n + 1) = ast[r].lvl
  <2>1. r \in 1 .. n - 1 /\ r \in 1 .. Len(ast)
    BY <1>1, <1>4
  <2>2. BlockEnd(r) \in Nat
    BY <1>4, <2>1, ReturnCloses
  <2>3. n < BlockEnd(r)
    BY <1>1, <1>4, <2>2
  <2> QED
    BY <1>2, <1>4, <2>1, <2>3 DEF Arrives
<1> QED
  BY <1>3, <1>4 DEF Arrives

\* An assignment that stores nothing is one that TypeChecker never came to.
LEMMA UnstoredIsCut ==
  ASSUME AddressInv, phase = "codegen", AssignsNamed, NEW n \in 1 .. Len(ast),
         ast[n].k \in {"asst", "forasst"},
         NEW nv, Binds(nv, Scoped(n + 1)), Address(nv, ast[n].id) = None
  PROVE  AfterReturn(n)
<1> DEFINE x == ast[n]["id"]
<1>1. Nested /\ tcPc \in Nat /\ Len(ast) \in Nat /\ n < tcPc
  <2>1. Nested /\ tcPc \in 1 .. Len(ast) + 1 /\ tcPc > Len(ast)
    BY DEF AddressInv, CgInv, BreakInv, WalkInv
  <2> QED
    BY <2>1, NodesTyped
<1>2. x = ast[n].id /\ x \in Ids
  BY DEF AssignsNamed
<1>3. ~Loads(nv, x)
  BY <1>2 DEF Loads
<1>4. InScope(x, n) = {} /\ x \notin Globals
  BY <1>1, <1>3, AddressIs
<1>5. ast[n].k \notin Declarers /\ "id" \in Roles
  BY DEF Declarers, Roles
<1>6. <<n, "id">> \in Uses /\ <<n, "id">>[1] = n /\ <<n, "id">>[2] = "id"
  BY <1>2, <1>5 DEF Uses
<1>7. Checked(n) => Found(table, frame_offset, offset[n]["id"], x, n)
  BY <1>6 DEF AddressInv, NameInv, UsesFound
<1> QED
  BY <1>1, <1>4, <1>7 DEF Found, Checked

\* The node t opens the block that ends at the marker the walk is at.
EndsHere(t) ==
  /\ t \in 1 .. Len(ast) /\ t \in 1 .. cgPc - 1 /\ ast[t].k \in Openers \cup Clauses
  /\ ast[t].lvl = ast[cgPc].lvl /\ FrameOf(blocks, Top, t) /\ Promised(blocks, Top, t)
  /\ BodyEnd(t) = cgPc /\ S!TreeEnd(t) = S!TreeEnd(cgPc)
  /\ IsLastClause(t) <=> ast[cgPc].k = "end"
  /\ ast[cgPc].k # "end" => ast[t].k \in {"if", "elif"}
  /\ Pending(cgPc, frames) = PendingIn(Outer(cgPc), frames) \cup PendingOf(Top, t)
  /\ \A b \in PendingIn(Outer(cgPc), frames) : b \notin PendingOf(Top, t)
  /\ ast[t].k \in Loops \/ ast[Top.node].k \in Loops => Top.node = t

LEMMA AtFlowMarker ==
  ASSUME FlowInv, BreaksInLoops, NEW kinds, CgAt(kinds), kinds \subseteq Markers
  PROVE  /\ Len(frames) \in Nat \ {0} /\ frames # <<>>
         /\ Top.node \in 1 .. cgPc - 1 /\ ast[Top.node].k \in Openers
         /\ ast[Top.node].lvl = ast[cgPc].lvl /\ Holds(Top.node, cgPc)
         /\ AllStraight(blocks) => ~AfterReturn(cgPc)
         /\ \E t \in LiveClauses(cgPc) : EndsHere(t)
<1>1. /\ AddressInv /\ CgInv
      /\ Nested /\ nest = <<>> /\ FinalsEnd(ast) /\ Len(ast) \in Nat
      /\ cgPc \in 1 .. Len(ast) /\ ast[cgPc].k \in Markers /\ ast[cgPc].lvl \in Nat
      /\ IsSeq(frames) /\ Len(frames) = Depth(cgPc)
      /\ FramesMatch(cgPc, blocks, frames) /\ FramesHold(cgPc, frames)
      /\ FlowAt(cgPc, blocks, cur, frames)
  BY AtFlow
<1>2. /\ Framed(cgPc, blocks, frames) /\ AllPromised(cgPc, blocks, frames)
      /\ AllStraight(blocks) => Arrives(cgPc, blocks[cur])
  BY <1>1, AtFlowBlocks
<1>3. AllStraight(blocks) => ~AfterReturn(cgPc)
  BY <1>1, <1>2, MarkerIsReached
<1>4. /\ Top.node \in 1 .. cgPc - 1 /\ ast[Top.node].k \in Openers
      /\ ast[Top.node].lvl = ast[cgPc].lvl /\ Holds(Top.node, cgPc)
  BY <1>1, TopHolds
<1>5. /\ Len(frames) \in Nat \ {0} /\ frames # <<>> /\ ast[cgPc].lvl = Len(frames) - 1
      /\ \E t \in LiveClauses(cgPc) :
              /\ ast[t].lvl = ast[cgPc].lvl /\ FrameAt(frames, t) = Top
              /\ FrameOf(blocks, Top, t)
              /\ IsLastClause(t) <=> ast[cgPc].k = "end"
              /\ ast[cgPc].k # "end" => ast[t].k \in {"if", "elif"}
              /\ Pending(cgPc, frames) = PendingIn(Outer(cgPc), frames) \cup PendingOf(Top, t)
              /\ \A b \in PendingIn(Outer(cgPc), frames) : b \notin PendingOf(Top, t)
  BY <1>1, <1>2, TopClause, ZenonT(60) DEF Top
<1>6. PICK t \in LiveClauses(cgPc) :
              /\ ast[t].lvl = ast[cgPc].lvl /\ FrameAt(frames, t) = Top
              /\ FrameOf(blocks, Top, t)
              /\ IsLastClause(t) <=> ast[cgPc].k = "end"
              /\ ast[cgPc].k # "end" => ast[t].k \in {"if", "elif"}
              /\ Pending(cgPc, frames) = PendingIn(Outer(cgPc), frames) \cup PendingOf(Top, t)
              /\ \A b \in PendingIn(Outer(cgPc), frames) : b \notin PendingOf(Top, t)
  BY <1>5
<1>7. /\ t \in 1 .. Len(ast) /\ t \in 1 .. cgPc - 1 /\ ast[t].k \in Openers \cup Clauses
      /\ Inside(ast, t, cgPc - 1)
  BY <1>1, ClauseBelow DEF LiveClauses, Live
<1>8. BodyEnd(t) = cgPc
  <2>1. /\ BodyEnd(t) \in t + 1 .. Len(ast) /\ ast[BodyEnd(t)].lvl = ast[t].lvl
        /\ \A j \in t + 1 .. Len(ast) :
              ast[j].k \in Markers /\ ast[j].lvl = ast[t].lvl => BodyEnd(t) <= j
    BY <1>1, <1>7, BodyCloses
  <2>2. BodyEnd(t) <= cgPc
    BY <1>1, <1>6, <1>7, <2>1
  <2>3. ~(BodyEnd(t) \in t + 1 .. cgPc - 1)
    <3> SUFFICES ASSUME BodyEnd(t) \in t + 1 .. cgPc - 1 PROVE FALSE
      OBVIOUS
    <3>1. ast[BodyEnd(t)].lvl > ast[t].lvl
      BY <1>7 DEF Inside
    <3> QED
      BY <1>1, <1>6, <2>1, <3>1
  <2> QED
    BY <1>1, <1>7, <2>1, <2>2, <2>3
<1>9. S!TreeEnd(t) = S!TreeEnd(cgPc)
  BY <1>1, <1>7, <1>8, TreeEndOn
<1>10. Promised(blocks, Top, t)
  BY <1>2, <1>6 DEF AllPromised
<1>11. ASSUME ast[t].k \in Loops \/ ast[Top.node].k \in Loops
       PROVE  Top.node = t
  <2>1. CASE ast[t].k \in Loops
    <3>1. t \in LiveLoops(cgPc)
      BY <2>1 DEF LiveClauses, LiveLoops, Live
    <3>2. frames[ast[t].lvl + 1].node = t
      BY <1>1, <3>1 DEF FramesMatch
    <3> QED
      BY <1>6, <3>2 DEF FrameAt
  <2>2. CASE ast[Top.node].k \in Loops
    <3>1. Len(frames) \in 1 .. Len(frames)
      BY <1>5
    <3>2. Top.node \in LiveLoops(cgPc)
      BY <1>1, <2>2, <3>1 DEF FramesMatch, Top
    <3>3. Top.node \in LiveClauses(cgPc)
      BY <3>2 DEF LiveClauses, LiveLoops, Live, Openers
    <3> QED
      BY <1>1, <1>4, <1>6, <3>3, OneClauseEach
  <2> QED
    BY <1>11, <2>1, <2>2
<1>12. EndsHere(t)
  BY <1>6, <1>7, <1>8, <1>9, <1>10, <1>11 DEF EndsHere
<1> QED
  BY <1>3, <1>4, <1>5, <1>12

-------------------------------------------------------------------------------
(* The statements without blocks.                                          *)

\* The function's entry.
LEMMA EntryFlow ==
  ASSUME FlowInv, BreaksInLoops, CgEntry
  PROVE  FlowAt(cgPc', blocks', cur', frames')
<1> DEFINE x == NewBlock("entry", TRUE)
           cs == <<x>>
<1>1. /\ phase = "codegen" /\ blocks = <<>> /\ cgPc = 1 /\ blocks' = cs /\ cur' = 1
      /\ cgPc' = cgPc /\ frames' = frames
  BY DEF CgEntry, FlowInv
<1>2. Nested /\ IsSeq(frames) /\ Len(frames) = Depth(1)
  BY <1>1 DEF FlowInv, AddressInv, CgInv, BreakInv, WalkInv, Walk, FramesMatch
<1>3. LiveClauses(1) = {} /\ Len(frames) = 0
  BY <1>2 DEF LiveClauses, Live, Depth
<1>4. Pending(1, frames) = {} /\ Framed(1, cs, frames) /\ AllPromised(1, cs, frames)
  BY <1>3 DEF Pending, PendingIn, Framed, AllPromised
<1>5. /\ Len(cs) = 1 /\ cs[1] = x /\ IsSeq(cs)
      /\ x.name = "entry" /\ x.ins = <<>> /\ {"node", "name", "ins"} \subseteq DOMAIN x
  <2>1. x.name = "entry" /\ x.ins = <<>> /\ {"node", "name", "ins"} \subseteq DOMAIN x
    BY DEF NewBlock
  <2> HIDE DEF x
  <2>2. Len(cs) = 1 /\ cs[1] = x /\ cs \in Seq({x})
    OBVIOUS
  <2>3. IsSeq(cs)
    BY <2>2 DEF IsSeq
  <2> QED
    BY <2>1, <2>2, <2>3
<1>6. Len(ast) \in Nat
  BY <1>2, NodesTyped
<1> HIDE DEF x, cs
<1>7. Begins(x) = 1 /\ Leads(x) = First[1]
  BY <1>5, BeginsIs, LeadsIs
<1>8. IsPlain(x) /\ Len(x.ins) = 0
  BY <1>5 DEF IsPlain, IsSeq
<1>9. Flows(cs, x)
  BY <1>5, <1>8 DEF Flows, Onwards
<1>10. Flowing(cs, {})
  BY <1>5, <1>6, <1>7, <1>8, <1>9 DEF Flowing
<1>11. Stands(x) = First[1]
  BY <1>5, <1>7, NewStands
<1>12. ~AfterReturn(1)
  BY DEF AfterReturn, After
<1>13. Arrives(1, x)
  BY <1>11, <1>12, ArrivesThere
<1>14. FlowAt(1, cs, 1, frames)
  BY <1>4, <1>5, <1>7, <1>10, <1>13 DEF FlowAt
<1> QED
  BY <1>1, <1>14

\* A node that emits nothing.
LEMMA SilentFlow ==
  ASSUME FlowInv, BreaksInLoops, NEW kinds, CgAt(kinds),
         kinds \cap (Openers \cup Markers \cup {"return"}) = {},
         ~HasTerminator(blocks[cur]) /\ AllStraight(blocks) => First[cgPc] = First[cgPc + 1]
  PROVE  FlowAt(cgPc + 1, blocks, cur, frames)
<1>1. /\ Nested /\ nest = <<>> /\ cgPc \in 1 .. Len(ast) /\ Len(ast) \in Nat
      /\ ast[cgPc].k \notin Openers \cup Markers \cup {"return"}
      /\ FlowAt(cgPc, blocks, cur, frames)
  BY AtFlow
<1>2. /\ Framed(cgPc, blocks, frames) /\ AllPromised(cgPc, blocks, frames)
      /\ Flowing(blocks, Pending(cgPc, frames))
      /\ cur \in 1 .. Len(blocks) /\ cur \notin Pending(cgPc, frames)
      /\ blocks[1].name = "entry" /\ Begins(blocks[cur]) <= cgPc
      /\ Begins(blocks[cur]) \in 1 .. Len(ast) + 2
      /\ AllStraight(blocks) => Arrives(cgPc, blocks[cur])
      /\ Extends(blocks, blocks) /\ Keeps(blocks, blocks, Pending(cgPc, frames))
  BY <1>1, AtFlowBlocks
<1>3. Framed(cgPc + 1, blocks, frames) /\ Pending(cgPc + 1, frames) = Pending(cgPc, frames)
  BY <1>1, <1>2, FramedOn
<1>4. AllPromised(cgPc + 1, blocks, frames)
  BY <1>1, <1>2, PromisedOn
<1>5. AllStraight(blocks) => Arrives(cgPc + 1, blocks[cur])
  BY <1>1, <1>2, ArrivesOn
<1>6. Begins(blocks[cur]) <= cgPc + 1
  BY <1>1, <1>2
<1> QED
  BY <1>2, <1>3, <1>4, <1>5, <1>6 DEF FlowAt

\* A node that emits an instruction.
LEMMA OneFlow ==
  ASSUME FlowInv, BreaksInLoops, NEW kinds, CgAt(kinds),
         kinds \cap (Openers \cup Markers) = {},
         NEW i, Right(blocks, i, First[cgPc]),
         i.op = "br" => cgPc < Begins(blocks[i.to[1]]),
         i.op \notin Terminators => Then(i) = First[cgPc + 1],
         ast[cgPc].k = "return" => i.op \in Terminators
  PROVE  FlowAt(cgPc + 1, Emit(blocks, cur, i), cur, frames)
<1> DEFINE P == Pending(cgPc, frames)
           cs == Emit(blocks, cur, i)
<1>1. /\ Nested /\ nest = <<>> /\ cgPc \in 1 .. Len(ast) /\ Len(ast) \in Nat
      /\ ast[cgPc].k \notin Openers \cup Markers
      /\ FlowAt(cgPc, blocks, cur, frames)
  BY AtFlow
<1>2. /\ Framed(cgPc, blocks, frames) /\ AllPromised(cgPc, blocks, frames)
      /\ Flowing(blocks, P)
      /\ cur \in 1 .. Len(blocks) /\ cur \notin P /\ Len(blocks) \in Nat
      /\ blocks[1].name = "entry" /\ Begins(blocks[cur]) <= cgPc
      /\ Begins(blocks[cur]) \in 1 .. Len(ast) + 2
      /\ AllStraight(blocks) => Arrives(cgPc, blocks[cur])
  BY <1>1, AtFlowBlocks
<1> HIDE DEF P
<1>3. Continues(blocks, cur, i)
  <2> SUFFICES ASSUME AllStraight(blocks), ~HasTerminator(blocks[cur])
               PROVE  /\ Right(blocks, i, Stands(blocks[cur]))
                      /\ i.op = "br" => Begins(blocks[cur]) < Begins(blocks[i.to[1]])
    BY DEF Continues
  <2>1. Stands(blocks[cur]) = First[cgPc]
    BY <1>2, OpenIsReached
  <2>2. ASSUME i.op = "br" PROVE Begins(blocks[cur]) < Begins(blocks[i.to[1]])
    <3>1. i.to[1] \in 1 .. Len(blocks)
      BY <2>2 DEF Right, GoesWithin
    <3>2. Begins(blocks[i.to[1]]) \in 1 .. Len(ast) + 2
      BY <1>2, <3>1 DEF Flowing
    <3> QED
      BY <1>1, <1>2, <2>2, <3>2
  <2> QED
    BY <2>1, <2>2
<1>4. /\ Flowing(cs, P) /\ Grown(blocks, cs, P) /\ Len(cs) = Len(blocks)
      /\ HasTerminator(cs[cur]) <=> i.op \in Terminators
      /\ Stands(cs[cur]) = Then(i)
      /\ AllStraight(cs) => ~HasTerminator(blocks[cur])
  BY <1>2, <1>3, FlowEmit
<1> HIDE DEF cs
<1>5. Extends(blocks, cs) /\ Keeps(blocks, cs, P) /\ (AllStraight(cs) => AllStraight(blocks))
  BY <1>4 DEF Grown
<1>6. Framed(cgPc + 1, cs, frames) /\ Pending(cgPc + 1, frames) = P
  BY <1>1, <1>2, <1>5, FramedOn DEF P
<1>7. AllPromised(cgPc + 1, cs, frames)
  BY <1>1, <1>2, <1>5, PromisedOn
<1>8. Begins(cs[cur]) = Begins(blocks[cur]) /\ cs[1].name = "entry"
  <2>1. 1 \in 1 .. Len(blocks)
    BY <1>2
  <2> QED
    BY <1>2, <1>5, <2>1, SameName DEF Extends
<1>9. ASSUME AllStraight(cs) PROVE Arrives(cgPc + 1, cs[cur])
  <2>1. ~AfterReturn(cgPc)
    BY <1>2, <1>4, <1>5, <1>9, OpenIsReached
  <2>2. CASE ast[cgPc].k # "return"
    <3>1. ~AfterReturn(cgPc + 1)
      BY <1>1, <2>1, <2>2, StillReached
    <3>2. ~HasTerminator(cs[cur]) => Stands(cs[cur]) = First[cgPc + 1]
      BY <1>4
    <3> QED
      BY <3>1, <3>2, ArrivesThere
  <2>3. CASE ast[cgPc].k = "return"
    <3>1. HasTerminator(cs[cur])
      BY <1>4, <2>3
    <3>2. Depth(cgPc + 1) = ast[cgPc].lvl
      BY <1>1, <2>3, DepthAt DEF Behind, Openers, Loops, Clauses
    <3>3. ASSUME NEW r \in 1 .. (cgPc + 1) - 1, ast[r].k = "return", cgPc + 1 < BlockEnd(r)
          PROVE  r = cgPc
      <4>1. r \in 1 .. Len(ast) /\ (r = cgPc \/ r \in 1 .. cgPc - 1)
        BY <1>1
      <4>2. BlockEnd(r) \in Nat
        BY <1>1, <3>3, <4>1, ReturnCloses
      <4>3. cgPc < BlockEnd(r)
        BY <1>1, <3>3, <4>2
      <4> QED
        BY <2>1, <3>3, <4>1, <4>3 DEF AfterReturn, After
    <3> QED
      BY <3>1, <3>2, <3>3 DEF Arrives
  <2> QED
    BY <2>2, <2>3
<1>10. Begins(cs[cur]) <= cgPc + 1
  BY <1>1, <1>2, <1>8
<1>11. FlowAt(cgPc + 1, cs, cur, frames)
  BY <1>2, <1>4, <1>6, <1>7, <1>8, <1>9, <1>10 DEF FlowAt
<1> QED
  BY <1>11 DEF cs

\* The names at a node that declares none are those of what follows it.
LEMMA NamesOn ==
  ASSUME Nested, NEW n \in 1 .. Len(ast), ast[n].k \notin Markers \cup Declarers
  PROVE  Scoped(n + 1) = Scoped(n)
BY ScopedOn

\* An assignment that stores nothing leaves a finished block as it is.
LEMMA UnstoredIsFinished ==
  ASSUME FlowInv, BreaksInLoops, NEW kinds, CgAt(kinds), ast[cgPc].k \in {"asst", "forasst"},
         Address(named_values, ast[cgPc].id) = None, AllStraight(blocks)
  PROVE  HasTerminator(blocks[cur])
<1>1. /\ AddressInv /\ phase = "codegen" /\ Nested /\ cgPc \in 1 .. Len(ast)
      /\ Binds(named_values, Scoped(cgPc)) /\ FlowAt(cgPc, blocks, cur, frames)
  BY AtFlow
<1>2. ast[cgPc].k \notin Markers \cup Declarers
  BY DEF Markers, Clauses, Declarers
<1>3. Binds(named_values, Scoped(cgPc + 1))
  BY <1>1, <1>2, NamesOn
<1>4. AssignsNamed
  BY DEF FlowInv
<1>5. AfterReturn(cgPc)
  BY <1>1, <1>3, <1>4, UnstoredIsCut
<1>6. Arrives(cgPc, blocks[cur])
  BY <1>1, AtFlowBlocks
<1> QED
  BY <1>5, <1>6, OpenIsReached

\* The loads and stores of a statement.
LEMMA EffectFlow ==
  ASSUME FlowInv, BreaksInLoops, NEW kinds, CgAt(kinds),
         kinds \subseteq {"param", "init", "asst", "expr", "print", "delete"}, NEW id, NEW rd
  PROVE  FlowAt(cgPc + 1, Emit(blocks, cur, Effect(cgPc, "do", id, rd)), cur, frames)
<1> DEFINE i == Effect(cgPc, "do", id, rd)
<1>1. /\ Nested /\ nest = <<>> /\ FinalsEnd(ast) /\ cgPc \in 1 .. Len(ast) /\ ast[cgPc].k \in kinds
  BY AtFlow
<1>2. First[cgPc] = <<cgPc, "do">>
  BY <1>1, FirstAt
<1>3. kinds \cap (Openers \cup Markers) = {} /\ ast[cgPc].k \notin Loops /\ ast[cgPc].k # "return"
  BY <1>1 DEF Openers, Markers, Loops, Clauses
<1>4. /\ Right(blocks, i, <<cgPc, "do">>) /\ i.op = "eff" /\ i.op \notin Terminators
      /\ Then(i) = First[cgPc + 1]
  BY <1>1, <1>3, EffectRight
<1> HIDE DEF i
<1>5. FlowAt(cgPc + 1, Emit(blocks, cur, i), cur, frames)
  BY <1>2, <1>3, <1>4, OneFlow
<1> QED
  BY <1>5 DEF i

LEMMA PlainFlow ==
  ASSUME FlowInv, BreaksInLoops, CgParam \/ CgDeclaration \/ CgVarInit \/ CgAssignment \/ CgExpression
  PROVE  phase' = "failed" \/ FlowAt(cgPc', blocks', cur', frames')
<1> SUFFICES ASSUME phase' # "failed" PROVE FlowAt(cgPc', blocks', cur', frames')
  OBVIOUS
<1>1. CASE CgDeclaration
  <2>1. /\ CgAt({"decl"}) /\ cgPc' = cgPc + 1 /\ blocks' = blocks /\ cur' = cur /\ frames' = frames
    BY <1>1 DEF CgDeclaration, Proceed
  <2>2. /\ Nested /\ nest = <<>> /\ FinalsEnd(ast) /\ cgPc \in 1 .. Len(ast) /\ ast[cgPc].k = "decl"
    BY <2>1, AtFlow
  <2>3. First[cgPc] = First[cgPc + 1]
    BY <2>2, FirstAt
  <2>4. {"decl"} \cap (Openers \cup Markers \cup {"return"}) = {}
    BY DEF Openers, Loops, Markers, Clauses
  <2> QED
    BY <2>1, <2>3, <2>4, SilentFlow
<1>2. CASE CgParam
  <2>1. /\ CgAt({"param"}) /\ cgPc' = cgPc + 1 /\ cur' = cur /\ frames' = frames
        /\ blocks' = Emit(blocks, cur, Effect(cgPc, "do", cgPc, None))
    BY <1>2 DEF CgParam, Proceed
  <2> QED
    BY <2>1, EffectFlow
<1>3. CASE CgVarInit
  <2>1. /\ CgAt({"init"}) /\ cgPc' = cgPc + 1 /\ cur' = cur /\ frames' = frames
        /\ \E rd : blocks' = Emit(blocks, cur, Effect(cgPc, "do", cgPc, rd))
    BY <1>3 DEF CgVarInit, Proceed, Fail, Initialised
  <2> QED
    BY <2>1, EffectFlow
<1>4. CASE CgExpression
  <2>1. /\ CgAt({"expr", "print", "delete"}) /\ cgPc' = cgPc + 1 /\ cur' = cur /\ frames' = frames
        /\ \E rd : blocks' = Emit(blocks, cur, Effect(cgPc, "do", None, rd))
    BY <1>4 DEF CgExpression, Proceed, Fail
  <2> QED
    BY <2>1, EffectFlow
<1>5. CASE CgAssignment
  <2>1. /\ CgAt({"asst"}) /\ cgPc' = cgPc + 1 /\ cur' = cur /\ frames' = frames
        /\ blocks' = Assigned(named_values, Here)
    BY <1>5 DEF CgAssignment, Proceed, Fail
  <2>2. ast[cgPc].k = "asst" /\ Here = ast[cgPc]
    BY <2>1, AtFlow
  <2>3. CASE AssignmentStores(named_values, Here)
    <3>1. \E id, rd : blocks' = Emit(blocks, cur, Effect(cgPc, "do", id, rd))
      BY <2>1, <2>3 DEF Assigned
    <3> QED
      BY <2>1, <3>1, EffectFlow
  <2>4. CASE ~AssignmentStores(named_values, Here)
    <3>1. blocks' = blocks
      BY <2>1, <2>4 DEF Assigned
    <3>2. Address(named_values, ast[cgPc].id) = None
      BY <2>2, <2>4 DEF AssignmentStores
    <3>3. AllStraight(blocks) => HasTerminator(blocks[cur])
      BY <2>1, <2>2, <3>2, UnstoredIsFinished
    <3>4. {"asst"} \cap (Openers \cup Markers \cup {"return"}) = {}
      BY DEF Openers, Loops, Markers, Clauses
    <3> QED
      BY <2>1, <3>1, <3>3, <3>4, SilentFlow
  <2> QED
    BY <2>3, <2>4
<1> QED
  BY <1>1, <1>2, <1>3, <1>4, <1>5

LEMMA ReturnFlow ==
  ASSUME FlowInv, BreaksInLoops, CgReturn
  PROVE  phase' = "failed" \/ FlowAt(cgPc', blocks', cur', frames')
<1> SUFFICES ASSUME phase' # "failed" PROVE FlowAt(cgPc', blocks', cur', frames')
  OBVIOUS
<1>1. /\ CgAt({"return"}) /\ cgPc' = cgPc + 1 /\ cur' = cur /\ frames' = frames
      /\ \E a : blocks' = Emit(blocks, cur, Ret(cgPc, a))
  BY DEF CgReturn, Proceed, Fail
<1>2. PICK a : blocks' = Emit(blocks, cur, Ret(cgPc, a))
  BY <1>1
<1>3. /\ Nested /\ nest = <<>> /\ FinalsEnd(ast) /\ cgPc \in 1 .. Len(ast) /\ ast[cgPc].k = "return"
      /\ Len(ast) \in Nat
  BY <1>1, AtFlow
<1>4. First[cgPc] = <<cgPc, "return">>
  BY <1>3, FirstAt
<1>5. cgPc \in 1 .. Len(ast) + 1
  BY <1>3
<1>6. Right(blocks, Ret(cgPc, a), <<cgPc, "return">>) /\ Ret(cgPc, a).op = "ret"
  BY <1>5, RetRight
<1>7. "ret" \in Terminators /\ {"return"} \cap (Openers \cup Markers) = {}
  BY DEF Terminators, Openers, Loops, Markers, Clauses
<1>8. FlowAt(cgPc + 1, Emit(blocks, cur, Ret(cgPc, a)), cur, frames)
  BY <1>1, <1>4, <1>6, <1>7, OneFlow
<1> QED
  BY <1>1, <1>2, <1>8

\* A break comes to what follows its loop.
LEMMA BreakFlow ==
  ASSUME FlowInv, BreaksInLoops, CgBreak
  PROVE  phase' = "failed" \/ FlowAt(cgPc', blocks', cur', frames')
<1> DEFINE e == BreakBlock(loop_end_blocks)
           i == Br(cgPc, e)
           l == EnclosingLoop(cgPc)
<1> SUFFICES ASSUME phase' # "failed" PROVE FlowAt(cgPc', blocks', cur', frames')
  OBVIOUS
<1>1. /\ CgAt({"break"}) /\ cgPc' = cgPc + 1 /\ cur' = cur /\ frames' = frames
      /\ loop_end_blocks # <<>> /\ blocks' = Emit(blocks, cur, i)
  BY DEF CgBreak, Proceed, Fail
<1>2. /\ Nested /\ nest = <<>> /\ FinalsEnd(ast) /\ cgPc \in 1 .. Len(ast) /\ ast[cgPc].k = "break"
      /\ Len(ast) \in Nat /\ CgInv
  BY <1>1, AtFlow
<1>3. i.op = "br" /\ i.n = cgPc /\ i.to = <<e>>
  BY InstructionFields DEF Br
<1>4. AfterLoop(blocks, e, l)
  <2>1. BreakGoes(blocks, i)
    BY <1>1, <1>2, BreakGoesThere
  <2> HIDE DEF e, i
  <2>2. i.n <= Len(ast) /\ ast[i.n].k = "break" /\ i.to[1] = e
    BY <1>2, <1>3
  <2> QED
    BY <1>3, <2>1, <2>2 DEF BreakGoes
<1> HIDE DEF e
<1>5. /\ l \in 1 .. Len(ast) /\ ast[l].k \in Loops
      /\ BodyEnd(l) + 1 \in cgPc + 1 .. Len(ast) + 1
  BY <1>2, BreakLeaves DEF BreaksInLoops
<1>6. First[cgPc] = First[BodyEnd(l) + 1]
  BY <1>2, FirstAt
<1> HIDE DEF l
<1>7. e \in 1 .. Len(blocks) /\ blocks[e].node = l /\ blocks[e].name \in {"while_after", "for_after"}
  BY <1>4 DEF AfterLoop
<1>8. Leads(blocks[e]) = S!Otherwise(l) /\ Begins(blocks[e]) = BodyEnd(l) + 1
  BY <1>7, LeadsIs, BeginsIs
<1>9. S!Otherwise(l) = First[BodyEnd(l) + 1]
  <2>1. ast[l].k \in Openers \cup Clauses
    BY <1>5 DEF Openers
  <2> QED
    BY <1>2, <1>5, <2>1, OtherwiseIs
<1>10. Right(blocks, i, First[cgPc]) /\ i.to[1] = e
  <2>1. cgPc \in 1 .. Len(ast) + 1 /\ Leads(blocks[e]) = First[cgPc]
    BY <1>2, <1>6, <1>8, <1>9
  <2> QED
    BY <1>7, <2>1, BrRight
<1>11. cgPc < Begins(blocks[i.to[1]])
  BY <1>2, <1>5, <1>8, <1>10
<1>12. "br" \in Terminators /\ {"break"} \cap (Openers \cup Markers) = {}
  BY DEF Terminators, Openers, Loops, Markers, Clauses
<1> HIDE DEF i
<1>13. FlowAt(cgPc + 1, Emit(blocks, cur, i), cur, frames)
  BY <1>1, <1>2, <1>3, <1>10, <1>11, <1>12, OneFlow
<1> QED
  BY <1>1, <1>13

-------------------------------------------------------------------------------
(* The if trees.                                                           *)

LEMMA NewStill ==
  ASSUME NEW bs, NEW cs, NEW P, Grown(bs, cs, P), NEW b \in P, NEW name, NEW placed,
         IsNew(bs, b, name, placed)
  PROVE  IsNew(cs, b, name, placed)
<1>1. cs[b] = bs[b] /\ Keeps(bs, cs, P)
  BY DEF Grown, Keeps
<1>2. Fresh(cs, b, placed)
  BY <1>1, FreshStill DEF IsNew
<1> QED
  BY <1>1, <1>2 DEF IsNew

\* The blocks that a clause with a condition makes.
LEMMA ClauseMade ==
  ASSUME NEW bs, NEW P, Flowing(bs, P), cgPc \in 1 .. Len(ast), Len(ast) \in Nat
  PROVE  LET k  == Len(bs)
             ds == bs \o <<NewBlock("then", TRUE)>>
                   \o (IF IsLastClause(cgPc) THEN <<>> ELSE <<NewBlock("elif_fallthrough", FALSE)>>)
         IN  /\ Flowing(ds, (P \cup {k + 1}) \cup (IF IsLastClause(cgPc) THEN {} ELSE {k + 2}))
             /\ Grown(bs, ds, 1 .. k) /\ k \in Nat
             /\ IsNew(ds, k + 1, "then", TRUE)
             /\ ~IsLastClause(cgPc) => IsNew(ds, k + 2, "elif_fallthrough", FALSE)
<1> DEFINE k == Len(bs)
           then == NewBlock("then", TRUE)
           next == NewBlock("elif_fallthrough", FALSE)
           ps == Append(bs, then)
           qs == Append(ps, next)
           ds == bs \o <<then>> \o (IF IsLastClause(cgPc) THEN <<>> ELSE <<next>>)
<1>1. Begins(then) \in 1 .. Len(ast) + 2 /\ Begins(next) \in 1 .. Len(ast) + 2
  <2>1. then.name = "then" /\ then.node = cgPc /\ next.name = "elif_fallthrough" /\ next.node = cgPc
    BY DEF NewBlock
  <2> HIDE DEF then, next
  <2>2. Begins(then) = cgPc + 1 /\ Begins(next) = cgPc + 1
    BY <2>1, BeginsIs
  <2> QED
    BY <2>2
<1>2. /\ Flowing(ps, P \cup {k + 1}) /\ Grown(bs, ps, 1 .. k)
      /\ k \in Nat /\ Len(ps) = k + 1 /\ IsNew(ps, k + 1, "then", TRUE)
  BY <1>1, FlowNew
<1>3. /\ Flowing(qs, (P \cup {k + 1}) \cup {Len(ps) + 1}) /\ Grown(ps, qs, 1 .. Len(ps))
      /\ Len(qs) = Len(ps) + 1 /\ IsNew(qs, Len(ps) + 1, "elif_fallthrough", FALSE)
  <2> HIDE DEF ps
  <2> QED
    BY <1>1, <1>2, FlowNew
<1>4. ds = IF IsLastClause(cgPc) THEN ps ELSE qs
  <2> HIDE DEF then, next
  <2>1. bs \o <<then>> = ps
    BY ConcatIs DEF Flowing
  <2> HIDE DEF ps
  <2>2. IsSeq(ps)
    BY <1>2 DEF Flowing
  <2>3. ps \o <<next>> = qs /\ ps \o <<>> = ps
    BY <2>2, ConcatIs, ConcatEmptySeq DEF IsSeq
  <2> QED
    BY <2>1, <2>3
<1> HIDE DEF ps, qs, ds, then, next
<1>5. Len(ps) + 1 = k + 2
  BY <1>2
<1>6. Grown(bs, qs, 1 .. k)
  <2>1. 1 .. k \subseteq 1 .. Len(ps)
    BY <1>2
  <2> QED
    BY <1>2, <1>3, <2>1, GrownAll
<1>7. IsNew(qs, k + 1, "then", TRUE)
  <2>1. k + 1 \in 1 .. Len(ps)
    BY <1>2
  <2> QED
    BY <1>2, <1>3, <2>1, NewStill
<1>8. (P \cup {k + 1}) \cup {} = P \cup {k + 1}
  OBVIOUS
<1> HIDE DEF k
<1>9. /\ Flowing(ds, (P \cup {k + 1}) \cup (IF IsLastClause(cgPc) THEN {} ELSE {k + 2}))
      /\ Grown(bs, ds, 1 .. k) /\ k \in Nat
      /\ IsNew(ds, k + 1, "then", TRUE)
      /\ ~IsLastClause(cgPc) => IsNew(ds, k + 2, "elif_fallthrough", FALSE)
  <2>1. CASE IsLastClause(cgPc)
    BY <1>2, <1>4, <1>8, <2>1
  <2>2. CASE ~IsLastClause(cgPc)
    BY <1>2, <1>3, <1>4, <1>5, <1>6, <1>7, <2>2
  <2> QED
    BY <2>1, <2>2
<1> QED
  BY <1>9 DEF k, ds, then, next

\* A clause with a condition has been evaluated in block c of bs.
ForksAt(bs, P, c, merge, nv) ==
  LET cs   == ClauseBlocks(bs, c, merge, nv)
      next == NextBlock(bs, merge)
      b    == ThenBlock(bs)
      more == IF IsLastClause(cgPc) THEN {} ELSE {next}
  IN  /\ Flowing(cs, P \cup more) /\ Grown(bs, cs, P)
      /\ b \notin P \cup more /\ IsNew(cs, b, "then", TRUE)
      /\ IsLastClause(cgPc) => next = merge
      /\ ~IsLastClause(cgPc) => IsNew(cs, next, "elif_fallthrough", FALSE) /\ next # merge
      /\ AllStraight(cs) => ~HasTerminator(bs[c])

\* A clause with a condition, evaluated in block c: it holds for the then
\* block, and does not for the next one, or for what follows the tree.
LEMMA ClauseFlow ==
  ASSUME Nested, nest = <<>>, FinalsEnd(ast), cgPc \in 1 .. Len(ast), Len(ast) \in Nat,
         ast[cgPc].k \in {"if", "elif"},
         NEW bs, NEW P, Flowing(bs, P), NEW c \in 1 .. Len(bs), c \notin P,
         NEW merge \in 1 .. Len(bs), bs[merge].name = "if_merge",
         S!TreeEnd(bs[merge].node) = S!TreeEnd(cgPc),
         AllStraight(bs) /\ ~HasTerminator(bs[c]) => Stands(bs[c]) = <<cgPc, "cd">>, NEW nv
  PROVE  ForksAt(bs, P, c, merge, nv)
<1> DEFINE k == Len(bs)
           ds == bs \o <<NewBlock("then", TRUE)>>
                 \o (IF IsLastClause(cgPc) THEN <<>> ELSE <<NewBlock("elif_fallthrough", FALSE)>>)
           next == NextBlock(bs, merge)
           i == CondBr(cgPc, Address(nv, Here.cd), ThenBlock(bs), next)
           cs == Emit(ds, c, i)
           more == IF IsLastClause(cgPc) THEN {} ELSE {k + 2}
           Q == (P \cup {k + 1}) \cup more
<1>1. /\ Flowing(ds, Q) /\ Grown(bs, ds, 1 .. k) /\ k \in Nat
      /\ IsNew(ds, k + 1, "then", TRUE)
      /\ ~IsLastClause(cgPc) => IsNew(ds, k + 2, "elif_fallthrough", FALSE)
  BY ClauseMade
<1>2. /\ ClauseBlocks(bs, c, merge, nv) = cs
      /\ ThenBlock(bs) = k + 1
      /\ next = IF IsLastClause(cgPc) THEN merge ELSE k + 2
  BY DEF ClauseBlocks, ThenBlock, NextBlock
<1> HIDE DEF ds, next
<1>3. /\ k + 1 \notin P /\ k + 2 \notin P \cup {k + 1} /\ merge # k + 2 /\ c # k + 1 /\ c # k + 2
      /\ P \subseteq 1 .. k /\ c \in 1 .. k /\ c \notin Q
  BY <1>1, SMTT(40) DEF Flowing
<1>4. /\ Extends(bs, ds) /\ k <= Len(ds) /\ Len(ds) \in Nat /\ ds[c] = bs[c]
      /\ ds[merge].name = "if_merge" /\ ds[merge].node = bs[merge].node
      /\ AllStraight(ds) => AllStraight(bs)
  BY <1>1 DEF Grown, Extends, Keeps
<1>5. k + 1 \in 1 .. Len(ds) /\ next \in 1 .. Len(ds)
  <2>1. k + 1 \in 1 .. Len(ds) /\ (~IsLastClause(cgPc) => k + 2 \in 1 .. Len(ds))
    BY <1>1 DEF IsNew, Fresh
  <2>2. merge \in 1 .. Len(ds)
    BY <1>1, <1>4
  <2> QED
    BY <1>2, <2>1, <2>2
<1>6. Leads(ds[k + 1]) = First[cgPc + 1]
  <2>1. ds[k + 1].name = "then" /\ ds[k + 1].node = cgPc
    BY <1>1 DEF IsNew, Fresh
  <2> QED
    BY <2>1, LeadsIs
<1>7. Leads(ds[next]) = S!Otherwise(cgPc)
  <2>1. CASE IsLastClause(cgPc)
    <3>1. ast[cgPc].k \in Openers \cup Clauses
      BY DEF Openers, Clauses
    <3>2. S!TreeEnd(cgPc) = BodyEnd(cgPc)
      BY <2>1, <3>1, TreeEndOn
    <3>3. S!Otherwise(cgPc) = First[BodyEnd(cgPc) + 1]
      BY <2>1, <3>1, OtherwiseIs DEF IsLastClause
    <3>4. Leads(ds[next]) = First[S!TreeEnd(ds[next].node) + 1]
      BY <1>2, <1>4, <2>1, LeadsIs
    <3>5. S!TreeEnd(ds[next].node) = S!TreeEnd(cgPc)
      BY <1>2, <1>4, <2>1
    <3> QED
      BY <3>2, <3>3, <3>4, <3>5
  <2>2. CASE ~IsLastClause(cgPc)
    <3>1. ds[next].name = "elif_fallthrough" /\ ds[next].node = cgPc
      BY <1>1, <1>2, <2>2 DEF IsNew, Fresh
    <3> QED
      BY <3>1, LeadsIs
  <2> QED
    BY <2>1, <2>2
<1>8. Right(ds, i, <<cgPc, "cd">>) /\ i.op = "condbr"
  <2>1. cgPc \in 1 .. Len(ast) + 1 /\ ThenBlock(bs) \in 1 .. Len(ds)
        /\ Leads(ds[ThenBlock(bs)]) = First[cgPc + 1]
    BY <1>2, <1>5, <1>6
  <2> QED
    BY <1>5, <1>7, <2>1, CondBrRight
<1>9. Continues(ds, c, i)
  BY <1>4, <1>8 DEF Continues
<1> HIDE DEF i, k, more, Q
<1>10. /\ Flowing(cs, Q) /\ Grown(ds, cs, Q) /\ Len(cs) = Len(ds)
       /\ \A b \in 1 .. Len(ds) : b # c => cs[b] = ds[b]
       /\ AllStraight(cs) => ~HasTerminator(ds[c])
  <2>1. c \in 1 .. Len(ds)
    BY <1>1, <1>3, <1>4
  <2> QED
    BY <1>1, <1>3, <1>9, <2>1, FlowEmit
<1> HIDE DEF cs
<1>11. k + 1 \in Q /\ P \subseteq Q /\ (~IsLastClause(cgPc) => k + 2 \in Q) /\ P \cup more \subseteq Q
       /\ k + 1 \notin P \cup more
  BY <1>1, <1>3 DEF Q, more
<1>12. IsNew(cs, k + 1, "then", TRUE)
  BY <1>1, <1>10, <1>11, NewStill, ZenonT(60)
<1>13. ~IsLastClause(cgPc) => IsNew(cs, k + 2, "elif_fallthrough", FALSE)
  BY <1>1, <1>10, <1>11, NewStill, ZenonT(60)
<1>14. Flowing(cs, P \cup more)
  BY <1>10, <1>11, FlowMove
<1>15. Grown(bs, cs, P)
  BY <1>1, <1>3, <1>10, <1>11, GrownAll
<1>16. more = IF IsLastClause(cgPc) THEN {} ELSE {next}
  BY <1>2 DEF more
<1>17. AllStraight(cs) => ~HasTerminator(bs[c])
  BY <1>4, <1>10
<1> QED
  BY <1>2, <1>3, <1>11, <1>12, <1>13, <1>14, <1>15, <1>16, <1>17 DEF next, ForksAt

\* A block that is entered where no return cut off.
LEMMA EntersNew ==
  ASSUME Nested, nest = <<>>, NEW n \in 1 .. Len(ast), ast[n].k # "return", ~AfterReturn(n),
         NEW x, x.ins = <<>>, Leads(x) = First[n + 1]
  PROVE  Arrives(n + 1, x)
BY StillReached, NewStands, ArrivesThere

LEMMA IfFlow ==
  ASSUME FlowInv, BreaksInLoops, CgIf
  PROVE  phase' = "failed" \/ FlowAt(cgPc', blocks', cur', frames')
<1> DEFINE P == Pending(cgPc, frames)
           merge == Len(blocks) + 1
           bs == Append(blocks, NewBlock("if_merge", FALSE))
           next == NextBlock(bs, merge)
           b == ThenBlock(bs)
           cs == ClauseBlocks(bs, cur, merge, named_values)
           f == Frame(named_values, NoNames, 0, next, merge)
           gs == Append(frames, f)
           more == IF IsLastClause(cgPc) THEN {} ELSE {next}
<1> SUFFICES ASSUME phase' # "failed" PROVE FlowAt(cgPc', blocks', cur', frames')
  OBVIOUS
<1>1. /\ CgAt({"if"}) /\ cgPc' = cgPc + 1 /\ blocks' = cs /\ cur' = b /\ frames' = gs
  BY DEF CgIf, Proceed, Fail
<1>2. /\ Nested /\ nest = <<>> /\ FinalsEnd(ast) /\ Len(ast) \in Nat
      /\ cgPc \in 1 .. Len(ast) /\ ast[cgPc].k = "if"
      /\ IsSeq(frames) /\ Len(frames) = Depth(cgPc)
      /\ FlowAt(cgPc, blocks, cur, frames)
  BY <1>1, AtFlow
<1>3. /\ Framed(cgPc, blocks, frames) /\ AllPromised(cgPc, blocks, frames)
      /\ Flowing(blocks, P)
      /\ cur \in 1 .. Len(blocks) /\ cur \notin P /\ Len(blocks) \in Nat
      /\ blocks[1].name = "entry"
      /\ AllStraight(blocks) => Arrives(cgPc, blocks[cur])
  BY <1>2, AtFlowBlocks
<1>4. ast[cgPc].k \in Openers /\ ast[cgPc].k \in Openers \cup Markers /\ ast[cgPc].k \notin Loops
  BY <1>2 DEF Openers, Loops
<1>5. S!TreeEnd(cgPc) \in cgPc .. Len(ast)
  BY <1>2, <1>4, TreeCloses
<1> HIDE DEF P
<1>6. /\ Flowing(bs, P \cup {merge}) /\ Grown(blocks, bs, 1 .. Len(blocks))
      /\ IsNew(bs, merge, "if_merge", FALSE)
  <2> DEFINE x == NewBlock("if_merge", FALSE)
  <2>1. x.name = "if_merge" /\ x.node = cgPc
    BY DEF NewBlock
  <2> HIDE DEF x
  <2>2. Begins(x) \in 1 .. Len(ast) + 2
    <3>1. Begins(x) = S!TreeEnd(cgPc) + 1
      BY <2>1, BeginsIs
    <3> QED
      BY <1>2, <1>5, <3>1
  <2> QED
    BY <1>3, <2>2, FlowNew DEF x
<1> HIDE DEF bs
<1>7. /\ merge \in 1 .. Len(bs) /\ bs[merge].name = "if_merge" /\ bs[merge].node = cgPc
      /\ cur \in 1 .. Len(bs) /\ cur # merge /\ bs[cur] = blocks[cur] /\ Extends(blocks, bs)
      /\ AllStraight(bs) => AllStraight(blocks)
  BY <1>3, <1>6 DEF IsNew, Fresh, Grown, Keeps
<1> HIDE DEF merge
<1>8. First[cgPc] = <<cgPc, "cd">>
  BY <1>2, FirstAt
<1>9. AllStraight(bs) /\ ~HasTerminator(bs[cur]) => Stands(bs[cur]) = <<cgPc, "cd">>
  BY <1>3, <1>7, <1>8, OpenIsReached
<1>10. /\ Flowing(cs, (P \cup {merge}) \cup more) /\ Grown(bs, cs, P \cup {merge})
       /\ b \notin (P \cup {merge}) \cup more /\ IsNew(cs, b, "then", TRUE)
       /\ IsLastClause(cgPc) => next = merge
       /\ ~IsLastClause(cgPc) => IsNew(cs, next, "elif_fallthrough", FALSE) /\ next # merge
       /\ AllStraight(cs) => ~HasTerminator(bs[cur])
  <2>1. cur \notin P \cup {merge} /\ ast[cgPc].k \in {"if", "elif"}
        /\ S!TreeEnd(bs[merge].node) = S!TreeEnd(cgPc)
    BY <1>2, <1>3, <1>7
  <2>2. ForksAt(bs, P \cup {merge}, cur, merge, named_values)
    BY <1>2, <1>6, <1>7, <1>9, <2>1, ClauseFlow
  <2> QED
    BY <2>2 DEF ForksAt
<1> HIDE DEF cs, next, b
<1>11. IsNew(cs, merge, "if_merge", FALSE)
  <2>1. merge \in P \cup {merge}
    OBVIOUS
  <2> QED
    BY <1>6, <1>10, <2>1, NewStill
<1>12. f.end = merge /\ f.next = next
  BY FrameFields
<1> HIDE DEF f
<1>13. PendingOf(f, cgPc) = {merge} \cup {next} /\ (P \cup {merge}) \cup more = P \cup PendingOf(f, cgPc)
  BY <1>2, <1>10, <1>12 DEF PendingOf
<1>14. Fresh(cs, merge, FALSE) /\ (~IsLastClause(cgPc) => Fresh(cs, next, FALSE))
  BY <1>10, <1>11 DEF IsNew
<1>15. FrameOf(cs, f, cgPc)
  BY <1>2, <1>4, <1>10, <1>12, <1>13, <1>14 DEF FrameOf, Fresh
<1>16. Promised(cs, f, cgPc)
  BY <1>2, <1>4, <1>10, <1>11, <1>12 DEF Promised, IsNew, Fresh
<1>17. Grown(blocks, cs, P)
  <2>1. P \subseteq 1 .. Len(blocks) /\ P \subseteq P \cup {merge}
    BY <1>3 DEF Flowing
  <2> QED
    BY <1>6, <1>10, <2>1, GrownAll, ZenonT(60)
<1>18. Keeps(blocks, cs, P) /\ Extends(blocks, cs) /\ (AllStraight(cs) => AllStraight(blocks))
  BY <1>17 DEF Grown
<1>19. Framed(cgPc + 1, cs, gs) /\ Pending(cgPc + 1, gs) = P \cup PendingOf(f, cgPc)
  BY <1>2, <1>3, <1>4, <1>15, <1>18, FramedPush DEF P
<1>20. AllPromised(cgPc + 1, cs, gs)
  BY <1>2, <1>3, <1>4, <1>16, <1>18, PromisedPush
<1> HIDE DEF gs
<1>21. Flowing(cs, Pending(cgPc + 1, gs)) /\ b \notin Pending(cgPc + 1, gs)
  BY <1>10, <1>13, <1>19
<1>22. /\ b \in 1 .. Len(cs) /\ cs[b].ins = <<>> /\ cs[b].name = "then" /\ cs[b].node = cgPc
  BY <1>10 DEF IsNew, Fresh
<1>23. Leads(cs[b]) = First[cgPc + 1] /\ Begins(cs[b]) = cgPc + 1
  BY <1>22, LeadsIs, BeginsIs
<1>24. ASSUME AllStraight(cs) PROVE Arrives(cgPc + 1, cs[b])
  <2>1. ~AfterReturn(cgPc)
    BY <1>3, <1>7, <1>10, <1>18, <1>24, OpenIsReached
  <2> QED
    BY <1>2, <1>22, <1>23, <2>1, EntersNew
<1>25. cs[1].name = "entry"
  BY <1>3, <1>18 DEF Extends
<1>26. Begins(cs[b]) <= cgPc + 1
  BY <1>2, <1>23
<1>27. FlowAt(cgPc + 1, cs, b, gs)
  BY <1>19, <1>20, <1>21, <1>22, <1>24, <1>25, <1>26 DEF FlowAt
<1> QED
  BY <1>1, <1>27

\* The clause before is finished: what the walk comes to next is what it fell
\* through to.
LEMMA ClauseEndedFlow ==
  ASSUME FlowInv, BreaksInLoops, NEW kinds, CgAt(kinds), kinds \subseteq Clauses
  PROVE  LET O  == PendingIn(Outer(cgPc), frames)
             bs == ClauseEnded
         IN  /\ Flowing(bs, O \cup {Top.end}) /\ Grown(blocks, bs, O \cup {Top.end})
             /\ Top.next \in 1 .. Len(bs) /\ Top.next \notin O \cup {Top.end}
             /\ bs[Top.next].ins = <<>> /\ Begins(bs[Top.next]) <= cgPc
             /\ Leads(bs[Top.next]) = IF ast[cgPc].k = "elif" THEN <<cgPc, "cd">> ELSE First[cgPc + 1]
             /\ Top.end \in 1 .. Len(bs) /\ bs[Top.end].name = "if_merge"
             /\ S!TreeEnd(bs[Top.end].node) = S!TreeEnd(cgPc)
             /\ ast[bs[Top.end].node].lvl = ast[cgPc].lvl /\ ~bs[Top.end].placed
             /\ AllStraight(bs) => ~AfterReturn(cgPc)
<1> DEFINE O == PendingIn(Outer(cgPc), frames)
           P == Pending(cgPc, frames)
           end == Top.end
           next == Top.next
           ds == BrIfOpen(blocks, cur, Top.node, end)
           bs == Place(ds, next)
<1>1. kinds \subseteq Markers
  BY DEF Markers
<1>2. /\ Nested /\ nest = <<>> /\ FinalsEnd(ast) /\ Len(ast) \in Nat
      /\ cgPc \in 1 .. Len(ast) /\ ast[cgPc].k \in Clauses /\ ast[cgPc].k \in kinds
      /\ FlowAt(cgPc, blocks, cur, frames)
  BY AtFlow
<1>3. /\ Flowing(blocks, P)
      /\ cur \in 1 .. Len(blocks) /\ cur \notin P /\ Len(blocks) \in Nat
      /\ Begins(blocks[cur]) <= cgPc /\ Begins(blocks[cur]) \in 1 .. Len(ast) + 2
      /\ AllStraight(blocks) => Arrives(cgPc, blocks[cur])
  BY <1>2, AtFlowBlocks
<1>4. /\ Top.node \in 1 .. cgPc - 1 /\ (AllStraight(blocks) => ~AfterReturn(cgPc))
      /\ \E t \in LiveClauses(cgPc) : EndsHere(t)
  BY <1>1, AtFlowMarker
<1>5. PICK t \in LiveClauses(cgPc) : EndsHere(t)
  BY <1>4
<1>6. /\ ast[cgPc].k # "end" /\ ast[cgPc].k \in {"elif", "else"}
      /\ ast[cgPc].k \in Openers \cup Markers
  BY <1>2 DEF Clauses, Markers
<1>7. /\ t \in 1 .. Len(ast) /\ t \in 1 .. cgPc - 1 /\ ast[t].k \in {"if", "elif"}
      /\ ast[t].lvl = ast[cgPc].lvl /\ FrameOf(blocks, Top, t) /\ Promised(blocks, Top, t)
      /\ BodyEnd(t) = cgPc /\ S!TreeEnd(t) = S!TreeEnd(cgPc) /\ ~IsLastClause(t)
      /\ P = O \cup PendingOf(Top, t) /\ \A x \in O : x \notin PendingOf(Top, t)
  BY <1>5, <1>6 DEF EndsHere
<1>8. ast[t].k \notin Loops /\ ast[t].k # "else" /\ ast[t].k # "while" /\ ast[t].k \in Openers \cup Clauses
  BY <1>7 DEF Loops, Openers, Clauses
<1>9. PendingOf(Top, t) = {end, next} /\ end # next
  BY <1>7, <1>8 DEF PendingOf, FrameOf
<1>10. /\ end \in 1 .. Len(blocks) /\ next \in 1 .. Len(blocks)
       /\ ast[blocks[end].node].lvl = ast[cgPc].lvl /\ ~blocks[end].placed
  BY <1>7, <1>8, <1>9 DEF FrameOf
<1>11. /\ blocks[end].name = "if_merge" /\ S!TreeEnd(blocks[end].node) = S!TreeEnd(cgPc)
       /\ blocks[next].name = "elif_fallthrough" /\ blocks[next].node = t
  BY <1>7, <1>8 DEF Promised
<1> HIDE DEF O, P, end, next
<1>12. S!TreeEnd(cgPc) \in cgPc .. Len(ast)
  BY <1>2, <1>6, TreeCloses
<1>13. Leads(blocks[end]) = First[cgPc] /\ Begins(blocks[cur]) < Begins(blocks[end])
  <2>1. /\ Leads(blocks[end]) = First[S!TreeEnd(blocks[end].node) + 1]
        /\ Begins(blocks[end]) = S!TreeEnd(blocks[end].node) + 1
    BY <1>11, LeadsIs, BeginsIs
  <2>2. First[cgPc] = First[S!TreeEnd(cgPc) + 1]
    BY <1>2, FirstAt
  <2> QED
    BY <1>2, <1>3, <1>11, <1>12, <2>1, <2>2
<1>14. AllStraight(blocks) /\ ~HasTerminator(blocks[cur]) => Leads(blocks[end]) = Stands(blocks[cur])
  BY <1>3, <1>13, OpenIsReached
<1>15. Flowing(ds, P) /\ Grown(blocks, ds, P) /\ Len(ds) = Len(blocks)
  <2>1. Top.node \in 1 .. Len(ast) + 1
    BY <1>2, <1>4
  <2> QED
    BY <1>3, <1>10, <1>13, <1>14, <2>1, FlowBrIfOpen
<1> HIDE DEF ds
<1>16. /\ Flowing(bs, P) /\ Grown(ds, bs, P \ {next}) /\ Len(bs) = Len(ds)
  BY <1>10, <1>15, FlowPlace
<1> HIDE DEF bs
<1>17. /\ P = O \cup {end, next} /\ next \notin O \cup {end} /\ O \cup {end} \subseteq P
       /\ O \cup {end} \subseteq P \ {next} /\ next \in P
  BY <1>7, <1>9
<1>18. Flowing(bs, O \cup {end}) /\ bs[next].ins = <<>>
  <2>1. Flowing(bs, O \cup {end})
    BY <1>16, <1>17, FlowMove
  <2> QED
    BY <1>16, <1>17, <2>1 DEF Flowing
<1>19. Grown(blocks, bs, O \cup {end})
  BY <1>15, <1>16, <1>17, GrownAll
<1>20. /\ Extends(blocks, bs) /\ bs[end] = blocks[end] /\ (AllStraight(bs) => AllStraight(blocks))
  BY <1>19 DEF Grown, Keeps
<1>21. bs[next].name = "elif_fallthrough" /\ bs[next].node = t
  BY <1>10, <1>11, <1>20 DEF Extends
<1>22. Leads(bs[next]) = S!Otherwise(t) /\ Begins(bs[next]) = t + 1
  BY <1>21, LeadsIs, BeginsIs
<1>23. Begins(bs[next]) <= cgPc
  BY <1>2, <1>7, <1>22
<1>24. S!Otherwise(t) = IF ast[cgPc].k = "elif" THEN <<cgPc, "cd">> ELSE First[cgPc + 1]
  BY <1>2, <1>6, <1>7, <1>8, OtherwiseIs
<1>25. bs = ClauseEnded
  BY DEF ClauseEnded, bs, ds, end, next
<1>26. /\ next \in 1 .. Len(bs) /\ end \in 1 .. Len(bs)
       /\ bs[end].name = "if_merge" /\ S!TreeEnd(bs[end].node) = S!TreeEnd(cgPc)
       /\ ast[bs[end].node].lvl = ast[cgPc].lvl /\ ~bs[end].placed
       /\ AllStraight(bs) => ~AfterReturn(cgPc)
  BY <1>4, <1>10, <1>11, <1>15, <1>16, <1>20
<1>27. Leads(bs[next]) = IF ast[cgPc].k = "elif" THEN <<cgPc, "cd">> ELSE First[cgPc + 1]
  BY <1>22, <1>24
<1> QED
  BY <1>17, <1>18, <1>19, <1>23, <1>25, <1>26, <1>27 DEF O, end, next

LEMMA ElseFlow ==
  ASSUME FlowInv, BreaksInLoops, CgElse
  PROVE  FlowAt(cgPc', blocks', cur', frames')
<1> DEFINE O == PendingIn(Outer(cgPc), frames)
           bs == ClauseEnded
           k == Len(frames)
<1>1. CgAt({"else"}) /\ cgPc' = cgPc + 1 /\ blocks' = bs /\ cur' = Top.next /\ frames' = frames
  BY DEF CgElse, Proceed
<1>2. {"else"} \subseteq Clauses /\ {"else"} \subseteq Markers
  BY DEF Clauses, Markers
<1>3. /\ Nested /\ nest = <<>> /\ Len(ast) \in Nat /\ cgPc \in 1 .. Len(ast) /\ ast[cgPc].k = "else"
      /\ IsSeq(frames) /\ k = Depth(cgPc)
      /\ FlowAt(cgPc, blocks, cur, frames)
  BY <1>1, AtFlow
<1>4. Framed(cgPc, blocks, frames) /\ AllPromised(cgPc, blocks, frames) /\ blocks[1].name = "entry"
      /\ Len(blocks) \in Nat /\ cur \in 1 .. Len(blocks)
  BY <1>3, AtFlowBlocks
<1>5. /\ Flowing(bs, O \cup {Top.end}) /\ Grown(blocks, bs, O \cup {Top.end})
      /\ Top.next \in 1 .. Len(bs) /\ Top.next \notin O \cup {Top.end}
      /\ bs[Top.next].ins = <<>> /\ Begins(bs[Top.next]) <= cgPc
      /\ Leads(bs[Top.next]) = First[cgPc + 1]
      /\ Top.end \in 1 .. Len(bs) /\ bs[Top.end].name = "if_merge"
      /\ S!TreeEnd(bs[Top.end].node) = S!TreeEnd(cgPc)
      /\ ast[bs[Top.end].node].lvl = ast[cgPc].lvl /\ ~bs[Top.end].placed
      /\ AllStraight(bs) => ~AfterReturn(cgPc)
  BY <1>1, <1>2, <1>3, ClauseEndedFlow
<1> HIDE DEF bs
<1>6. /\ Extends(blocks, bs) /\ Keeps(blocks, bs, O)
  BY <1>5 DEF Grown, Keeps
<1> HIDE DEF O
<1>7. ast[cgPc].k \in Clauses /\ ast[cgPc].k \notin Loops /\ ast[cgPc].k \notin {"if", "elif"}
  BY <1>3 DEF Clauses, Loops
<1>8. PendingOf(Top, cgPc) = {Top.end}
  BY <1>3 DEF PendingOf
<1>9. FrameOf(bs, Top, cgPc) /\ Promised(bs, Top, cgPc)
  BY <1>3, <1>5, <1>7, <1>8 DEF FrameOf, Promised
<1>10. Top = frames[k] /\ SameBelow(frames, frames)
  BY DEF Top, SameBelow
<1>11. FrameOf(bs, frames[Len(frames)], cgPc) /\ Promised(bs, frames[Len(frames)], cgPc)
  BY <1>9, <1>10
<1>12. Framed(cgPc + 1, bs, frames) /\ Pending(cgPc + 1, frames) = O \cup PendingOf(frames[Len(frames)], cgPc)
  BY <1>3, <1>4, <1>6, <1>7, <1>10, <1>11, FramedClause, ZenonT(60) DEF O
<1>13. AllPromised(cgPc + 1, bs, frames)
  BY <1>3, <1>4, <1>6, <1>7, <1>10, <1>11, PromisedClause, ZenonT(60)
<1>14. Pending(cgPc + 1, frames) = O \cup {Top.end}
  BY <1>8, <1>10, <1>12
<1>15. AllStraight(bs) => Arrives(cgPc + 1, bs[Top.next])
  BY <1>3, <1>5, EntersNew
<1>16. bs[1].name = "entry"
  BY <1>4, <1>6 DEF Extends
<1>17. Begins(bs[Top.next]) <= cgPc + 1
  <2>1. Begins(bs[Top.next]) \in 1 .. Len(ast) + 2
    BY <1>5 DEF Flowing
  <2> QED
    BY <1>3, <1>5, <2>1
<1>18. FlowAt(cgPc + 1, bs, Top.next, frames)
  BY <1>5, <1>12, <1>13, <1>14, <1>15, <1>16, <1>17 DEF FlowAt
<1> QED
  BY <1>1, <1>18

LEMMA ElifFlow ==
  ASSUME FlowInv, BreaksInLoops, CgElif
  PROVE  phase' = "failed" \/ FlowAt(cgPc', blocks', cur', frames')
<1> DEFINE O == PendingIn(Outer(cgPc), frames)
           k == Len(frames)
           bs == ClauseEnded
           end == Top.end
           next == NextBlock(bs, end)
           b == ThenBlock(bs)
           cs == ClauseBlocks(bs, Top.next, end, Restored)
           f == [Top EXCEPT !.next = next]
           gs == [frames EXCEPT ![k].next = next]
           more == IF IsLastClause(cgPc) THEN {} ELSE {next}
<1> SUFFICES ASSUME phase' # "failed" PROVE FlowAt(cgPc', blocks', cur', frames')
  OBVIOUS
<1>1. /\ CgAt({"elif"}) /\ cgPc' = cgPc + 1 /\ blocks' = cs /\ cur' = b /\ frames' = gs
  BY DEF CgElif, Proceed, Fail
<1>2. {"elif"} \subseteq Clauses /\ {"elif"} \subseteq Markers
  BY DEF Clauses, Markers
<1>3. /\ Nested /\ nest = <<>> /\ FinalsEnd(ast) /\ Len(ast) \in Nat
      /\ cgPc \in 1 .. Len(ast) /\ ast[cgPc].k = "elif"
      /\ IsSeq(frames) /\ k = Depth(cgPc) /\ FramesMatch(cgPc, blocks, frames)
      /\ FlowAt(cgPc, blocks, cur, frames)
  BY <1>1, AtFlow
<1>4. Framed(cgPc, blocks, frames) /\ AllPromised(cgPc, blocks, frames) /\ blocks[1].name = "entry"
      /\ Len(blocks) \in Nat /\ cur \in 1 .. Len(blocks)
  BY <1>3, AtFlowBlocks
<1>5. /\ Flowing(bs, O \cup {end}) /\ Grown(blocks, bs, O \cup {end})
      /\ Top.next \in 1 .. Len(bs) /\ Top.next \notin O \cup {end}
      /\ bs[Top.next].ins = <<>>
      /\ Leads(bs[Top.next]) = <<cgPc, "cd">>
      /\ end \in 1 .. Len(bs) /\ bs[end].name = "if_merge"
      /\ S!TreeEnd(bs[end].node) = S!TreeEnd(cgPc)
      /\ ast[bs[end].node].lvl = ast[cgPc].lvl /\ ~bs[end].placed
      /\ AllStraight(bs) => ~AfterReturn(cgPc)
  BY <1>1, <1>2, <1>3, ClauseEndedFlow
<1>6. k \in 1 .. k /\ k \in Nat /\ Top = frames[k] /\ {"next", "end"} \subseteq DOMAIN Top
  <2>1. k \in Nat \ {0}
    BY <1>1, <1>2, AtFlowMarker
  <2> QED
    BY <1>3, <2>1 DEF FramesMatch, Top
<1> HIDE DEF bs, O
<1>7. Top.end = end
  OBVIOUS
<1> HIDE DEF end
<1>8. Stands(bs[Top.next]) = <<cgPc, "cd">>
  BY <1>5, NewStands
<1>9. /\ Flowing(cs, (O \cup {end}) \cup more) /\ Grown(bs, cs, O \cup {end})
      /\ b \notin (O \cup {end}) \cup more /\ IsNew(cs, b, "then", TRUE)
      /\ IsLastClause(cgPc) => next = end
      /\ ~IsLastClause(cgPc) => IsNew(cs, next, "elif_fallthrough", FALSE) /\ next # end
  <2>1. /\ ast[cgPc].k \in {"if", "elif"} /\ Nested /\ nest = <<>> /\ FinalsEnd(ast)
        /\ Len(ast) \in Nat /\ cgPc \in 1 .. Len(ast)
    BY <1>3
  <2>2. AllStraight(bs) /\ ~HasTerminator(bs[Top.next]) => Stands(bs[Top.next]) = <<cgPc, "cd">>
    BY <1>8
  <2>3. /\ Flowing(bs, O \cup {end}) /\ Top.next \in 1 .. Len(bs) /\ Top.next \notin O \cup {end}
        /\ end \in 1 .. Len(bs) /\ bs[end].name = "if_merge"
        /\ S!TreeEnd(bs[end].node) = S!TreeEnd(cgPc)
    BY <1>5
  <2>4. ForksAt(bs, O \cup {end}, Top.next, end, Restored)
    BY <2>1, <2>2, <2>3, ClauseFlow, SMTT(40)
  <2> QED
    BY <2>4 DEF ForksAt
<1> HIDE DEF cs, next, b
<1>10. Len(gs) = k /\ gs[k] = f /\ \A i \in 1 .. k - 1 : gs[i] = frames[i]
  <2>1. gs = [frames EXCEPT ![k] = f]
    BY <1>6
  <2>2. \A i \in 1 .. k - 1 : i \in 1 .. k /\ i # k
    BY <1>6
  <2> HIDE DEF f
  <2>3. LET s == [frames EXCEPT ![k] = f]
        IN  /\ Len(s) = Len(frames) /\ s[k] = f
            /\ \A i \in 1 .. Len(frames) : i # k => s[i] = frames[i]
    BY <1>3, <1>6, SetSeq
  <2> HIDE DEF gs
  <2> QED
    BY <2>1, <2>2, <2>3
<1>11. f.end = end /\ f.next = next
  BY <1>6, <1>7
<1> HIDE DEF f, gs, k
<1>12. PendingOf(f, cgPc) = {end} \cup {next} /\ (O \cup {end}) \cup more = O \cup PendingOf(f, cgPc)
  BY <1>3, <1>9, <1>11 DEF PendingOf
<1>13. cs[end] = bs[end] /\ end \in 1 .. Len(cs)
  BY <1>5, <1>9 DEF Grown, Keeps
<1>14. ~IsLastClause(cgPc) => Fresh(cs, next, FALSE)
  BY <1>9 DEF IsNew
<1>15. ast[cgPc].k \in Clauses /\ ast[cgPc].k \notin Loops /\ ast[cgPc].k # "else"
  BY <1>3 DEF Clauses, Loops
<1>16. FrameOf(cs, f, cgPc)
  BY <1>3, <1>5, <1>9, <1>11, <1>12, <1>13, <1>14, <1>15 DEF FrameOf, Fresh
<1>17. Promised(cs, f, cgPc)
  BY <1>5, <1>9, <1>11, <1>13, <1>15 DEF Promised, IsNew, Fresh
<1>18. Grown(blocks, cs, O)
  <2>1. O \subseteq O \cup {end}
    OBVIOUS
  <2> QED
    BY <1>5, <1>9, <2>1, GrownAll
<1>19. Keeps(blocks, cs, O) /\ Extends(blocks, cs) /\ (AllStraight(cs) => AllStraight(bs))
  BY <1>9, <1>18 DEF Grown
<1>20. SameBelow(frames, gs) /\ Len(gs) = Len(frames) /\ gs[Len(frames)] = f
  BY <1>10 DEF SameBelow, k
<1>21. FrameOf(cs, gs[Len(frames)], cgPc) /\ Promised(cs, gs[Len(frames)], cgPc) /\ Len(frames) = Depth(cgPc)
  BY <1>3, <1>16, <1>17, <1>20 DEF k
<1>22. Framed(cgPc + 1, cs, gs) /\ Pending(cgPc + 1, gs) = O \cup PendingOf(gs[Len(frames)], cgPc)
  BY <1>3, <1>4, <1>15, <1>19, <1>20, <1>21, FramedClause, ZenonT(60) DEF O
<1>23. AllPromised(cgPc + 1, cs, gs)
  BY <1>3, <1>4, <1>15, <1>19, <1>20, <1>21, PromisedClause, ZenonT(60)
<1>24. Flowing(cs, Pending(cgPc + 1, gs)) /\ b \notin Pending(cgPc + 1, gs)
  BY <1>9, <1>12, <1>20, <1>22
<1>25. /\ b \in 1 .. Len(cs) /\ cs[b].ins = <<>> /\ cs[b].name = "then" /\ cs[b].node = cgPc
  BY <1>9 DEF IsNew, Fresh
<1>26. Leads(cs[b]) = First[cgPc + 1] /\ Begins(cs[b]) = cgPc + 1
  BY <1>25, LeadsIs, BeginsIs
<1>27. AllStraight(cs) => Arrives(cgPc + 1, cs[b])
  BY <1>3, <1>5, <1>19, <1>25, <1>26, EntersNew
<1>28. cs[1].name = "entry"
  BY <1>4, <1>19 DEF Extends
<1>29. Begins(cs[b]) <= cgPc + 1
  BY <1>3, <1>26
<1>30. FlowAt(cgPc + 1, cs, b, gs)
  BY <1>22, <1>23, <1>24, <1>25, <1>27, <1>28, <1>29 DEF FlowAt
<1> QED
  BY <1>1, <1>30

\* The statement ends and its frame goes: the block after it comes next.
LEMMA CloseFlow ==
  ASSUME FlowInv, BreaksInLoops, CgAt({"end"}), PopFrame, NEW cs,
         Flowing(cs, PendingIn(Outer(cgPc), frames)),
         Grown(blocks, cs, PendingIn(Outer(cgPc), frames)),
         Top.end \in 1 .. Len(cs), Top.end \notin PendingIn(Outer(cgPc), frames),
         cs[Top.end].ins = <<>>, Leads(cs[Top.end]) = First[cgPc + 1],
         Begins(cs[Top.end]) = cgPc + 1
  PROVE  FlowAt(cgPc + 1, cs, Top.end, frames')
<1> DEFINE O == PendingIn(Outer(cgPc), frames)
           gs == SubSeq(frames, 1, Len(frames) - 1)
<1>1. /\ Nested /\ nest = <<>> /\ Len(ast) \in Nat /\ cgPc \in 1 .. Len(ast) /\ ast[cgPc].k = "end"
      /\ IsSeq(frames) /\ Len(frames) = Depth(cgPc)
      /\ FlowAt(cgPc, blocks, cur, frames)
  BY AtFlow
<1>2. Framed(cgPc, blocks, frames) /\ AllPromised(cgPc, blocks, frames) /\ blocks[1].name = "entry"
      /\ Len(blocks) \in Nat /\ cur \in 1 .. Len(blocks)
  BY <1>1, AtFlowBlocks
<1>3. {"end"} \subseteq Markers
  BY DEF Markers
<1>4. frames # <<>> /\ (AllStraight(blocks) => ~AfterReturn(cgPc))
  BY <1>3, AtFlowMarker
<1>5. Len(gs) = Len(frames) - 1 /\ (\A i \in 1 .. Len(gs) : gs[i] = frames[i]) /\ frames' = gs
  BY <1>1, <1>4, FrontSeq DEF PopFrame
<1>6. SameBelow(frames, gs)
  BY <1>5 DEF SameBelow
<1>7. /\ Extends(blocks, cs) /\ Keeps(blocks, cs, O) /\ (AllStraight(cs) => AllStraight(blocks))
  BY DEF Grown
<1> HIDE DEF gs
<1>8. Framed(cgPc + 1, cs, gs) /\ Pending(cgPc + 1, gs) = O
  <2>1. Nested /\ cgPc \in 1 .. Len(ast) /\ ast[cgPc].k = "end" /\ Len(frames) = Depth(cgPc)
    BY <1>1
  <2>2. Framed(cgPc, blocks, frames) /\ Len(gs) = Len(frames) - 1 /\ SameBelow(frames, gs)
    BY <1>2, <1>5, <1>6
  <2>3. Keeps(blocks, cs, PendingIn(Outer(cgPc), frames))
    BY <1>7
  <2> HIDE DEF O
  <2>4. Framed(cgPc + 1, cs, gs) /\ Pending(cgPc + 1, gs) = PendingIn(Outer(cgPc), frames)
    BY <2>1, <2>2, <2>3, FramedPop, SMTT(40)
  <2> QED
    BY <2>4 DEF O
<1>9. AllPromised(cgPc + 1, cs, gs)
  BY <1>1, <1>2, <1>6, <1>7, PromisedPop, ZenonT(60)
<1>10. AllStraight(cs) => Arrives(cgPc + 1, cs[Top.end])
  BY <1>1, <1>4, <1>7, EntersNew
<1>11. cs[1].name = "entry"
  BY <1>2, <1>7 DEF Extends
<1>12. Begins(cs[Top.end]) <= cgPc + 1
  BY <1>1
<1>13. FlowAt(cgPc + 1, cs, Top.end, gs)
  BY <1>8, <1>9, <1>10, <1>11, <1>12 DEF FlowAt
<1> QED
  BY <1>5, <1>13

LEMMA EndIfFlow ==
  ASSUME FlowInv, BreaksInLoops, CgEndIf
  PROVE  FlowAt(cgPc', blocks', cur', frames')
<1> DEFINE O == PendingIn(Outer(cgPc), frames)
           P == Pending(cgPc, frames)
           o == Top.node
           end == Top.end
           ds == BrIfOpen(blocks, cur, o, end)
           cs == Place(ds, end)
<1>1. /\ CgAt({"end"}) /\ ast[o].k = "if" /\ cgPc' = cgPc + 1
      /\ blocks' = cs /\ cur' = end /\ PopFrame
  BY DEF CgEndIf, Proceed, IfEnded
<1>2. {"end"} \subseteq Markers
  BY DEF Markers
<1>3. /\ Nested /\ nest = <<>> /\ FinalsEnd(ast) /\ Len(ast) \in Nat
      /\ cgPc \in 1 .. Len(ast) /\ ast[cgPc].k = "end"
      /\ FlowAt(cgPc, blocks, cur, frames)
  BY <1>1, AtFlow
<1>4. /\ Flowing(blocks, P)
      /\ cur \in 1 .. Len(blocks) /\ cur \notin P /\ Len(blocks) \in Nat
      /\ Begins(blocks[cur]) <= cgPc /\ Begins(blocks[cur]) \in 1 .. Len(ast) + 2
      /\ AllStraight(blocks) => Arrives(cgPc, blocks[cur])
  BY <1>3, AtFlowBlocks
<1>5. /\ o \in 1 .. cgPc - 1 /\ ast[o].k \in Openers /\ ast[o].lvl = ast[cgPc].lvl /\ Holds(o, cgPc)
      /\ \E t \in LiveClauses(cgPc) : EndsHere(t)
  BY <1>1, <1>2, AtFlowMarker
<1>6. PICK t \in LiveClauses(cgPc) : EndsHere(t)
  BY <1>5
<1>7. /\ t \in 1 .. Len(ast) /\ ast[t].k \in Openers \cup Clauses
      /\ ast[t].lvl = ast[cgPc].lvl /\ FrameOf(blocks, Top, t) /\ Promised(blocks, Top, t)
      /\ S!TreeEnd(t) = S!TreeEnd(cgPc) /\ IsLastClause(t)
      /\ P = O \cup PendingOf(Top, t) /\ (\A x \in O : x \notin PendingOf(Top, t))
      /\ ast[t].k \in Loops => o = t
  BY <1>3, <1>6 DEF EndsHere
<1>8. ast[t].k \notin Loops /\ ast[t].k # "while" /\ ast[t].k \in {"if", "elif", "else"}
  BY <1>1, <1>7 DEF Loops, Openers, Clauses
<1>9. PendingOf(Top, t) = {end}
  <2>1. CASE ast[t].k = "else"
    BY <2>1 DEF PendingOf
  <2>2. CASE ast[t].k # "else"
    <3>1. Top.next = Top.end
      BY <1>7, <1>8, <2>2 DEF FrameOf
    <3> QED
      BY <3>1 DEF PendingOf
  <2> QED
    BY <2>1, <2>2
<1>10. end \in 1 .. Len(blocks) /\ end \notin O /\ P = O \cup {end} /\ end \in P
  BY <1>7, <1>9 DEF FrameOf
<1>11. blocks[end].name = "if_merge" /\ S!TreeEnd(blocks[end].node) = cgPc
  <2>1. blocks[end].name = "if_merge" /\ S!TreeEnd(blocks[end].node) = S!TreeEnd(t)
    BY <1>7, <1>8 DEF Promised
  <2>2. S!TreeEnd(cgPc) = cgPc
    BY <1>3, TreeEndOn
  <2> QED
    BY <1>7, <2>1, <2>2
<1> HIDE DEF O, P, end, o
<1>12. First[cgPc] = First[cgPc + 1]
  BY <1>1, <1>3, <1>5, FirstEnd
<1>13. Leads(blocks[end]) = First[cgPc + 1] /\ Begins(blocks[end]) = cgPc + 1
  BY <1>11, LeadsIs, BeginsIs
<1>14. AllStraight(blocks) /\ ~HasTerminator(blocks[cur]) => Leads(blocks[end]) = Stands(blocks[cur])
  BY <1>4, <1>12, <1>13, OpenIsReached
<1>15. Begins(blocks[cur]) < Begins(blocks[end])
  BY <1>3, <1>4, <1>13
<1>16. Flowing(ds, P) /\ Grown(blocks, ds, P) /\ Len(ds) = Len(blocks)
  <2>1. o \in 1 .. Len(ast) + 1
    BY <1>3, <1>5
  <2> QED
    BY <1>4, <1>10, <1>14, <1>15, <2>1, FlowBrIfOpen
<1> HIDE DEF ds
<1>17. /\ Flowing(cs, P) /\ Grown(ds, cs, P \ {end}) /\ Len(cs) = Len(ds)
  BY <1>10, <1>16, FlowPlace
<1> HIDE DEF cs
<1>18. O \subseteq P /\ O \subseteq P \ {end}
  BY <1>10
<1>19. Flowing(cs, O) /\ Grown(blocks, cs, O)
  BY <1>16, <1>17, <1>18, GrownAll, FlowMove
<1>20. cs[end].ins = <<>>
  BY <1>10, <1>17 DEF Flowing
<1>21. Leads(cs[end]) = First[cgPc + 1] /\ Begins(cs[end]) = cgPc + 1
  <2>1. cs[end].name = blocks[end].name /\ cs[end].node = blocks[end].node
    BY <1>10, <1>19 DEF Grown, Extends
  <2> QED
    BY <1>13, <2>1, SameName
<1>22. end \in 1 .. Len(cs)
  BY <1>10, <1>16, <1>17
<1>23. FlowAt(cgPc + 1, cs, end, frames')
  BY <1>1, <1>10, <1>19, <1>20, <1>21, <1>22, CloseFlow DEF O, end
<1> QED
  BY <1>1, <1>23

-------------------------------------------------------------------------------
(* The loops.                                                              *)

\* cs is bs with m blocks made at this node, of the names N, and placed.
LoopHas(bs, P, cs, m, N) ==
  /\ Flowing(cs, P \cup (Len(bs) + 1 .. Len(bs) + m)) /\ Grown(bs, cs, 1 .. Len(bs))
  /\ Len(bs) \in Nat /\ Len(cs) = Len(bs) + m
  /\ \A j \in 1 .. m : IsNew(cs, Len(bs) + j, N[j], TRUE)

LEMMA LoopHasNone ==
  ASSUME NEW bs, NEW P, Flowing(bs, P), NEW N
  PROVE  LoopHas(bs, P, bs, 0, N)
<1>1. Len(bs) \in Nat
  BY DEF Flowing, IsSeq
<1>2. Grown(bs, bs, 1 .. Len(bs))
  BY GrownSame
<1>3. P \cup (Len(bs) + 1 .. Len(bs) + 0) = P
  BY <1>1
<1>4. Flowing(bs, P \cup (Len(bs) + 1 .. Len(bs) + 0))
  BY <1>3
<1>5. Len(bs) = Len(bs) + 0 /\ \A j \in 1 .. 0 : FALSE
  BY <1>1
<1> QED
  BY <1>1, <1>2, <1>4, <1>5, Zenon DEF LoopHas

LEMMA LoopHasMore ==
  ASSUME NEW bs, NEW P, NEW cs, NEW m \in Nat, NEW N, LoopHas(bs, P, cs, m, N),
         NEW name, N[m + 1] = name, Begins(NewBlock(name, TRUE)) \in 1 .. Len(ast) + 2
  PROVE  LoopHas(bs, P, Append(cs, NewBlock(name, TRUE)), m + 1, N)
<1> DEFINE ds == Append(cs, NewBlock(name, TRUE))
           Q == P \cup (Len(bs) + 1 .. Len(bs) + m)
<1>1. /\ Flowing(cs, Q) /\ Grown(bs, cs, 1 .. Len(bs))
      /\ Len(bs) \in Nat /\ Len(cs) = Len(bs) + m
      /\ \A j \in 1 .. m : IsNew(cs, Len(bs) + j, N[j], TRUE)
  BY DEF LoopHas
<1> HIDE DEF Q
<1>2. /\ Flowing(ds, Q \cup {Len(cs) + 1}) /\ Grown(cs, ds, 1 .. Len(cs))
      /\ Len(ds) = Len(cs) + 1 /\ IsNew(ds, Len(cs) + 1, name, TRUE)
  BY <1>1, FlowNew
<1> HIDE DEF ds
<1>3. Q \cup {Len(cs) + 1} = P \cup (Len(bs) + 1 .. Len(bs) + (m + 1))
  BY <1>1 DEF Q
<1>4. Grown(bs, ds, 1 .. Len(bs))
  <2>1. 1 .. Len(bs) \subseteq 1 .. Len(cs)
    BY <1>1
  <2> QED
    BY <1>1, <1>2, <2>1, GrownAll
<1>5. ASSUME NEW j \in 1 .. m + 1 PROVE IsNew(ds, Len(bs) + j, N[j], TRUE)
  <2>1. CASE j = m + 1
    <3>1. Len(bs) + j = Len(cs) + 1
      BY <1>1, <2>1
    <3> QED
      BY <1>2, <2>1, <3>1
  <2>2. CASE j # m + 1
    <3>1. j \in 1 .. m /\ Len(bs) + j \in 1 .. Len(cs)
      BY <1>1, <2>2
    <3> QED
      BY <1>1, <1>2, <3>1, NewStill
  <2> QED
    BY <2>1, <2>2
<1>6. Len(ds) = Len(bs) + (m + 1)
  BY <1>1, <1>2
<1>7. LoopHas(bs, P, ds, m + 1, N)
  BY <1>1, <1>2, <1>3, <1>4, <1>5, <1>6 DEF LoopHas
<1> QED
  BY <1>7 DEF ds

\* A block made at a node of the tree begins in it.
LEMMA LoopBlockBegins ==
  ASSUME Nested, nest = <<>>, FinalsEnd(ast), Len(ast) \in Nat,
         cgPc \in 1 .. Len(ast), ast[cgPc].k \in Loops,
         NEW name \in {"while_cond", "for_cond", "while_body", "for_body", "for_inc",
                       "while_after", "for_after"}, NEW placed
  PROVE  Begins(NewBlock(name, placed)) \in 1 .. Len(ast) + 2
<1> DEFINE x == NewBlock(name, placed)
<1>1. x.name = name /\ x.node = cgPc
  BY DEF NewBlock
<1> HIDE DEF x
<1>2. BodyEnd(cgPc) \in cgPc + 1 .. Len(ast)
  <2>1. ast[cgPc].k \in Openers \cup Clauses
    BY DEF Openers
  <2> QED
    BY <2>1, BodyCloses
<1>3. Begins(x) \in {cgPc + 1, BodyEnd(cgPc) + 1, Len(ast) + 2}
  BY <1>1, BeginsIs
<1>4. Begins(x) \in 1 .. Len(ast) + 2
  BY <1>2, <1>3
<1> QED
  BY <1>4 DEF x

\* The names of a while loop's blocks, and of a for loop's.
WhileNames == <<"while_cond", "while_body", "while_after">>
ForNames   == <<"for_cond", "for_body", "for_inc", "for_after">>

\* The blocks of a loop, made together.
LEMMA WhileMade ==
  ASSUME Nested, nest = <<>>, FinalsEnd(ast), Len(ast) \in Nat,
         cgPc \in 1 .. Len(ast), ast[cgPc].k \in Loops,
         NEW bs, NEW P, Flowing(bs, P)
  PROVE  LoopHas(bs, P, bs \o <<NewBlock("while_cond", TRUE), NewBlock("while_body", TRUE),
                                NewBlock("while_after", TRUE)>>, 3, WhileNames)
<1> DEFINE N == WhileNames
           x == NewBlock("while_cond", TRUE)
           y == NewBlock("while_body", TRUE)
           z == NewBlock("while_after", TRUE)
           cs == Append(bs, x)
           ds == Append(cs, y)
           es == Append(ds, z)
<1>1. N[1] = "while_cond" /\ N[2] = "while_body" /\ N[3] = "while_after"
  BY DEF WhileNames
<1> HIDE DEF N
<1>2. /\ Begins(x) \in 1 .. Len(ast) + 2 /\ Begins(y) \in 1 .. Len(ast) + 2
      /\ Begins(z) \in 1 .. Len(ast) + 2
  BY LoopBlockBegins
<1>3. LoopHas(bs, P, cs, 1, N)
  <2>1. LoopHas(bs, P, bs, 0, N)
    BY LoopHasNone
  <2>2. 0 \in Nat /\ N[0 + 1] = "while_cond" /\ 0 + 1 = 1
    BY <1>1
  <2>3. LoopHas(bs, P, cs, 0 + 1, N)
    BY <1>2, <2>1, <2>2, LoopHasMore
  <2> HIDE DEF cs
  <2> QED
    BY <2>2, <2>3
<1> HIDE DEF cs
<1>4. LoopHas(bs, P, ds, 2, N)
  <2>1. 1 \in Nat /\ N[1 + 1] = "while_body" /\ 1 + 1 = 2
    BY <1>1
  <2>2. LoopHas(bs, P, ds, 1 + 1, N)
    BY <1>2, <1>3, <2>1, LoopHasMore
  <2> HIDE DEF ds
  <2> QED
    BY <2>1, <2>2
<1> HIDE DEF ds
<1>5. LoopHas(bs, P, es, 3, N)
  <2>1. 2 \in Nat /\ N[2 + 1] = "while_after" /\ 2 + 1 = 3
    BY <1>1
  <2>2. LoopHas(bs, P, es, 2 + 1, N)
    BY <1>2, <1>4, <2>1, LoopHasMore
  <2> HIDE DEF es
  <2> QED
    BY <2>1, <2>2
<1> HIDE DEF x, y, z
<1>6. bs \o <<x, y, z>> = es
  BY ConcatIs DEF Flowing, cs, ds, es
<1> QED
  BY <1>5, <1>6 DEF x, y, z, N

LEMMA ForMade ==
  ASSUME Nested, nest = <<>>, FinalsEnd(ast), Len(ast) \in Nat,
         cgPc \in 1 .. Len(ast), ast[cgPc].k \in Loops,
         NEW bs, NEW P, Flowing(bs, P)
  PROVE  LoopHas(bs, P, bs \o <<NewBlock("for_cond", TRUE), NewBlock("for_body", TRUE),
                                NewBlock("for_inc", TRUE), NewBlock("for_after", TRUE)>>, 4, ForNames)
<1> DEFINE N == ForNames
           x == NewBlock("for_cond", TRUE)
           y == NewBlock("for_body", TRUE)
           w == NewBlock("for_inc", TRUE)
           z == NewBlock("for_after", TRUE)
           cs == Append(bs, x)
           ds == Append(cs, y)
           es == Append(ds, w)
           fs == Append(es, z)
<1>1. N[1] = "for_cond" /\ N[2] = "for_body" /\ N[3] = "for_inc" /\ N[4] = "for_after"
  BY DEF ForNames
<1> HIDE DEF N
<1>2. /\ Begins(x) \in 1 .. Len(ast) + 2 /\ Begins(y) \in 1 .. Len(ast) + 2
      /\ Begins(w) \in 1 .. Len(ast) + 2 /\ Begins(z) \in 1 .. Len(ast) + 2
  BY LoopBlockBegins
<1>3. LoopHas(bs, P, cs, 1, N)
  <2>1. LoopHas(bs, P, bs, 0, N)
    BY LoopHasNone
  <2>2. 0 \in Nat /\ N[0 + 1] = "for_cond" /\ 0 + 1 = 1
    BY <1>1
  <2>3. LoopHas(bs, P, cs, 0 + 1, N)
    BY <1>2, <2>1, <2>2, LoopHasMore
  <2> HIDE DEF cs
  <2> QED
    BY <2>2, <2>3
<1> HIDE DEF cs
<1>4. LoopHas(bs, P, ds, 2, N)
  <2>1. 1 \in Nat /\ N[1 + 1] = "for_body" /\ 1 + 1 = 2
    BY <1>1
  <2>2. LoopHas(bs, P, ds, 1 + 1, N)
    BY <1>2, <1>3, <2>1, LoopHasMore
  <2> HIDE DEF ds
  <2> QED
    BY <2>1, <2>2
<1> HIDE DEF ds
<1>5. LoopHas(bs, P, es, 3, N)
  <2>1. 2 \in Nat /\ N[2 + 1] = "for_inc" /\ 2 + 1 = 3
    BY <1>1
  <2>2. LoopHas(bs, P, es, 2 + 1, N)
    BY <1>2, <1>4, <2>1, LoopHasMore
  <2> HIDE DEF es
  <2> QED
    BY <2>1, <2>2
<1> HIDE DEF es
<1>6. LoopHas(bs, P, fs, 4, N)
  <2>1. 3 \in Nat /\ N[3 + 1] = "for_after" /\ 3 + 1 = 4
    BY <1>1
  <2>2. LoopHas(bs, P, fs, 3 + 1, N)
    BY <1>2, <1>5, <2>1, LoopHasMore
  <2> HIDE DEF fs
  <2> QED
    BY <2>1, <2>2
<1> HIDE DEF x, y, w, z
<1>7. bs \o <<x, y, w, z>> = fs
  BY ConcatIs DEF Flowing, cs, ds, es, fs
<1> QED
  BY <1>6, <1>7 DEF x, y, w, z, N


\* The loop of the m blocks N is entered from block c of bs: its condition is
\* evaluated in the first of them.
LoopEntered(bs, P, c, cs, m, N) ==
  /\ Flowing(cs, P \cup (Len(bs) + 3 .. Len(bs) + m)) /\ Grown(bs, cs, P)
  /\ \A j \in 2 .. m : IsNew(cs, Len(bs) + j, N[j], TRUE)
  /\ Len(bs) + 1 \in 1 .. Len(cs) /\ cs[Len(bs) + 1].name = N[1] /\ cs[Len(bs) + 1].node = cgPc
  /\ AllStraight(cs) => ~HasTerminator(bs[c])

LEMMA LoopFlow ==
  ASSUME Nested, nest = <<>>, FinalsEnd(ast), Len(ast) \in Nat, cgPc \in 1 .. Len(ast),
         NEW bs, NEW P, Flowing(bs, P), NEW c \in 1 .. Len(bs), c \notin P,
         Begins(bs[c]) <= cgPc,
         AllStraight(bs) /\ ~HasTerminator(bs[c]) => Stands(bs[c]) = <<cgPc, "cd">>,
         NEW m \in {3, 4}, NEW N, NEW ds, LoopHas(bs, P, ds, m, N),
         N[1] \in {"while_cond", "for_cond"}, N[2] \in {"while_body", "for_body"},
         N[m] \in {"while_after", "for_after"}, NEW a
  PROVE  LoopEntered(bs, P, c,
                     Emit(Emit(ds, c, Br(cgPc, Len(bs) + 1)), Len(bs) + 1,
                          CondBr(cgPc, a, Len(bs) + 2, Len(bs) + m)), m, N)
<1> DEFINE k == Len(bs)
           es == Emit(ds, c, Br(cgPc, k + 1))
           i == CondBr(cgPc, a, k + 2, k + m)
           cs == Emit(es, k + 1, i)
           Q == P \cup (k + 1 .. k + m)
           R == P \cup (k + 2 .. k + m)
           T == P \cup (k + 3 .. k + m)
<1>1. /\ Flowing(ds, Q) /\ Grown(bs, ds, 1 .. k) /\ k \in Nat /\ Len(ds) = k + m
      /\ \A j \in 1 .. m : IsNew(ds, k + j, N[j], TRUE)
  BY DEF LoopHas
<1>2. m \in Nat /\ m >= 3 /\ 1 \in 1 .. m /\ 2 \in 1 .. m /\ m \in 1 .. m
  OBVIOUS
<1>3. /\ IsNew(ds, k + 1, N[1], TRUE) /\ IsNew(ds, k + 2, N[2], TRUE) /\ IsNew(ds, k + m, N[m], TRUE)
  BY <1>1, <1>2
<1>4. P \subseteq 1 .. k
  BY DEF Flowing
<1>5. /\ c \in 1 .. k /\ c \notin Q /\ c \in 1 .. Len(ds) /\ c # k + 1
      /\ k + 1 \in 1 .. Len(ds) /\ k + 2 \in 1 .. Len(ds) /\ k + m \in 1 .. Len(ds)
  BY <1>1, <1>2, <1>4
<1>6. /\ R \subseteq Q /\ T \subseteq R /\ P \subseteq R /\ P \subseteq Q /\ P \subseteq T /\ k + 1 \notin R
      /\ k + 1 \in Q /\ \A j \in 2 .. m : k + j \in R /\ k + j \in Q /\ j \in 1 .. m
  BY <1>1, <1>2, <1>4
<1> HIDE DEF Q, R, T
<1>7. ds[c] = bs[c] /\ (AllStraight(ds) => AllStraight(bs))
  BY <1>1, <1>5 DEF Grown, Keeps
<1>8. /\ ds[k + 1].name = N[1] /\ ds[k + 1].node = cgPc /\ ds[k + 1].ins = <<>>
      /\ ds[k + 2].name = N[2] /\ ds[k + 2].node = cgPc
      /\ ds[k + m].name = N[m] /\ ds[k + m].node = cgPc
  BY <1>3 DEF IsNew, Fresh
<1>9. /\ Leads(ds[k + 1]) = <<cgPc, "cd">> /\ Begins(ds[k + 1]) = Len(ast) + 2
      /\ Leads(ds[k + 2]) = First[cgPc + 1] /\ Leads(ds[k + m]) = S!Otherwise(cgPc)
  BY <1>8, LeadsIs, BeginsIs, SMTT(40)
<1>10. Begins(bs[c]) < Len(ast) + 2
  <2>1. Begins(bs[c]) \in 1 .. Len(ast) + 2
    BY DEF Flowing
  <2> QED
    BY <2>1
<1>11. /\ Flowing(es, Q) /\ Grown(ds, es, Q) /\ Len(es) = Len(ds)
       /\ \A b \in 1 .. Len(ds) : b # c => es[b] = ds[b]
       /\ AllStraight(es) => ~HasTerminator(ds[c])
  <2>1. cgPc \in 1 .. Len(ast) + 1
    OBVIOUS
  <2>2. AllStraight(ds) /\ ~HasTerminator(ds[c]) =>
          Leads(ds[k + 1]) = Stands(ds[c]) /\ (ds[c].ins = <<>> => Begins(ds[c]) < Begins(ds[k + 1]))
    BY <1>7, <1>9, <1>10
  <2>3. Flowing(ds, Q) /\ c \in 1 .. Len(ds) /\ c \notin Q /\ k + 1 \in 1 .. Len(ds)
    BY <1>1, <1>5
  <2> HIDE DEF k
  <2> QED
    BY <2>1, <2>2, <2>3, FlowBr, SMTT(40)
<1> HIDE DEF es
<1>12. Flowing(es, R)
  BY <1>6, <1>11, FlowMove
<1>13. es[k + 1] = ds[k + 1] /\ Extends(ds, es) /\ k + 1 \in 1 .. Len(es)
       /\ k + 2 \in 1 .. Len(es) /\ k + m \in 1 .. Len(es)
  BY <1>5, <1>11 DEF Grown
<1>14. Leads(es[k + 2]) = First[cgPc + 1] /\ Leads(es[k + m]) = S!Otherwise(cgPc)
  <2>1. \A b \in 1 .. Len(ds) : Leads(es[b]) = Leads(ds[b])
    BY <1>13, SameName DEF Extends
  <2> QED
    BY <1>5, <1>9, <2>1
<1>15. Right(es, i, <<cgPc, "cd">>) /\ i.op = "condbr"
  <2>1. cgPc \in 1 .. Len(ast) + 1
    OBVIOUS
  <2> QED
    BY <1>13, <1>14, <2>1, CondBrRight
<1> HIDE DEF i
<1>16. Continues(es, k + 1, i)
  <2>1. Stands(es[k + 1]) = <<cgPc, "cd">>
    BY <1>8, <1>9, <1>13, NewStands
  <2> QED
    BY <1>15, <2>1 DEF Continues
<1> HIDE DEF k
<1>17. /\ Flowing(cs, R) /\ Grown(es, cs, R) /\ Len(cs) = Len(es)
       /\ \A b \in 1 .. Len(es) : b # k + 1 => cs[b] = es[b]
  BY <1>6, <1>12, <1>13, <1>16, FlowEmit
<1> HIDE DEF cs
<1>18. Flowing(cs, T)
  BY <1>6, <1>17, FlowMove
<1>19. Grown(ds, cs, R)
  BY <1>6, <1>11, <1>17, GrownAll
<1>20. Grown(bs, cs, P)
  BY <1>1, <1>4, <1>6, <1>19, GrownAll
<1>21. \A j \in 2 .. m : IsNew(cs, k + j, N[j], TRUE)
  BY <1>1, <1>6, <1>19, NewStill
<1>22. k + 1 \in 1 .. Len(cs) /\ cs[k + 1].name = N[1] /\ cs[k + 1].node = cgPc
  BY <1>5, <1>8, <1>11, <1>17, <1>19 DEF Grown, Extends
<1>23. AllStraight(cs) => ~HasTerminator(bs[c])
  BY <1>7, <1>11, <1>17 DEF Grown
<1>24. LoopEntered(bs, P, c, cs, m, N)
  BY <1>18, <1>20, <1>21, <1>22, <1>23 DEF LoopEntered, T, k
<1> QED
  BY <1>24 DEF cs, es, i, k

\* The frame of a loop, and the walk in its body.
LEMMA EnterLoopFlow ==
  ASSUME FlowInv, BreaksInLoops, NEW kinds, CgAt(kinds), kinds \subseteq Loops,
         NEW bs, Grown(blocks, bs, Pending(cgPc, frames)), NEW cs, NEW m \in {3, 4}, NEW N,
         LoopEntered(bs, Pending(cgPc, frames), cur, cs, m, N),
         N[1] \in {"while_cond", "for_cond"}, N[2] \in {"while_body", "for_body"},
         N[m] \in {"while_after", "for_after"}, m = 4 => N[3] = "for_inc",
         NEW f, f.cond = Len(bs) + 1, f.end = Len(bs) + m, m = 4 => f.next = Len(bs) + 3,
         ast[cgPc].k = "while" <=> m = 3,
         AllStraight(cs) => ~AfterReturn(cgPc)
  PROVE  FlowAt(cgPc + 1, cs, Len(bs) + 2, Append(frames, f))
<1> DEFINE P == Pending(cgPc, frames)
           k == Len(bs)
           b == k + 2
           gs == Append(frames, f)
<1>1. /\ Nested /\ nest = <<>> /\ Len(ast) \in Nat
      /\ cgPc \in 1 .. Len(ast) /\ ast[cgPc].k \in kinds
      /\ IsSeq(frames) /\ Len(frames) = Depth(cgPc)
      /\ FlowAt(cgPc, blocks, cur, frames)
  BY AtFlow
<1>2. /\ Framed(cgPc, blocks, frames) /\ AllPromised(cgPc, blocks, frames)
      /\ Flowing(blocks, P) /\ blocks[1].name = "entry" /\ cur \in 1 .. Len(blocks)
      /\ Len(blocks) \in Nat
  BY <1>1, AtFlowBlocks
<1>3. ast[cgPc].k \in Loops /\ ast[cgPc].k \in Openers /\ ast[cgPc].k \notin {"else", "return", "if", "elif"}
  BY <1>1 DEF Openers, Loops
<1>4. P \subseteq 1 .. k /\ k \in Nat
  BY <1>2 DEF Grown, Extends, Flowing
<1>5. /\ Flowing(cs, P \cup (k + 3 .. k + m)) /\ Grown(bs, cs, P)
      /\ \A j \in 2 .. m : IsNew(cs, k + j, N[j], TRUE)
      /\ k + 1 \in 1 .. Len(cs) /\ cs[k + 1].name = N[1] /\ cs[k + 1].node = cgPc
  BY DEF LoopEntered
<1>6. /\ IsNew(cs, k + 2, N[2], TRUE) /\ IsNew(cs, k + m, N[m], TRUE)
      /\ m = 4 => IsNew(cs, k + 3, N[3], TRUE)
  <2>1. 2 \in 2 .. m /\ m \in 2 .. m /\ (m = 4 => 3 \in 2 .. m)
    OBVIOUS
  <2>2. \A j \in 2 .. m : IsNew(cs, k + j, N[j], TRUE)
    BY <1>5
  <2> HIDE DEF k
  <2> QED
    BY <2>1, <2>2
<1> HIDE DEF P
<1>7. f.cond = k + 1 /\ f.end = k + m /\ (m = 4 => f.next = k + 3)
  OBVIOUS
<1> HIDE DEF k
<1>8. PendingOf(f, cgPc) = k + 3 .. k + m
  <2>1. CASE m = 3
    <3>1. PendingOf(f, cgPc) = {k + 3}
      BY <1>7, <2>1 DEF PendingOf
    <3> QED
      BY <1>4, <2>1, <3>1
  <2>2. CASE m = 4
    <3>1. PendingOf(f, cgPc) = {k + 4, k + 3}
      BY <1>3, <1>7, <2>2 DEF PendingOf
    <3> QED
      BY <1>4, <2>2, <3>1
  <2> QED
    BY <2>1, <2>2
<1>9. \A x \in PendingOf(f, cgPc) : x \in 1 .. Len(cs) /\ cs[x].node = cgPc /\ cs[x].placed
  <2> TAKE x \in PendingOf(f, cgPc)
  <2>1. x = k + m \/ (m = 4 /\ x = k + 3)
    BY <1>4, <1>8
  <2> QED
    BY <1>6, <2>1 DEF IsNew, Fresh
<1>10. FrameOf(cs, f, cgPc)
  <2>1. ast[cgPc].k # "while" => f.next # f.end
    BY <1>4, <1>7
  <2> QED
    BY <1>3, <1>5, <1>7, <1>9, <2>1 DEF FrameOf
<1>11. Promised(cs, f, cgPc)
  BY <1>3, <1>5, <1>6, <1>7 DEF Promised, AfterLoop, IsNew, Fresh
<1>12. Grown(blocks, cs, P)
  BY <1>5, GrownAll DEF P
<1>13. Keeps(blocks, cs, P) /\ Extends(blocks, cs)
  BY <1>12 DEF Grown
<1>14. Framed(cgPc + 1, cs, gs) /\ Pending(cgPc + 1, gs) = P \cup PendingOf(f, cgPc)
  BY <1>1, <1>2, <1>3, <1>10, <1>13, FramedPush DEF P
<1>15. AllPromised(cgPc + 1, cs, gs)
  BY <1>1, <1>2, <1>3, <1>11, <1>13, PromisedPush
<1> HIDE DEF gs
<1>16. Flowing(cs, Pending(cgPc + 1, gs)) /\ b \notin Pending(cgPc + 1, gs)
  <2>1. Pending(cgPc + 1, gs) = P \cup (k + 3 .. k + m)
    BY <1>8, <1>14
  <2>2. b \notin P \cup (k + 3 .. k + m)
    BY <1>4
  <2>3. Flowing(cs, P \cup (k + 3 .. k + m))
    BY <1>5
  <2> QED
    BY <2>1, <2>2, <2>3
<1>17. /\ b \in 1 .. Len(cs) /\ cs[b].ins = <<>> /\ cs[b].name = N[2] /\ cs[b].node = cgPc
  BY <1>6 DEF IsNew, Fresh
<1> HIDE DEF b
<1>18. Leads(cs[b]) = First[cgPc + 1] /\ Begins(cs[b]) = cgPc + 1
  BY <1>17, LeadsIs, BeginsIs
<1>19. AllStraight(cs) => Arrives(cgPc + 1, cs[b])
  BY <1>1, <1>3, <1>17, <1>18, EntersNew
<1>20. cs[1].name = "entry"
  BY <1>2, <1>13 DEF Extends
<1>21. Begins(cs[b]) <= cgPc + 1
  BY <1>1, <1>18
<1>22. FlowAt(cgPc + 1, cs, b, gs)
  BY <1>14, <1>15, <1>16, <1>17, <1>19, <1>20, <1>21 DEF FlowAt
<1> QED
  BY <1>22 DEF b, k, gs

LEMMA WhileFlow ==
  ASSUME FlowInv, BreaksInLoops, CgWhile
  PROVE  phase' = "failed" \/ FlowAt(cgPc', blocks', cur', frames')
<1> DEFINE P == Pending(cgPc, frames)
           k == Len(blocks)
           a == Address(named_values, Here.cd)
           ds == blocks \o <<NewBlock("while_cond", TRUE), NewBlock("while_body", TRUE),
                             NewBlock("while_after", TRUE)>>
           cs == Emit(Emit(ds, cur, Br(cgPc, k + 1)), k + 1, CondBr(cgPc, a, k + 2, k + 3))
           f == Frame(named_values, NoNames, k + 1, k + 1, k + 3)
           N == WhileNames
<1> SUFFICES ASSUME phase' # "failed" PROVE FlowAt(cgPc', blocks', cur', frames')
  OBVIOUS
<1>1. /\ CgAt({"while"}) /\ cgPc' = cgPc + 1 /\ blocks' = cs /\ cur' = k + 2
      /\ frames' = Append(frames, f)
  BY DEF CgWhile, Proceed, Fail
<1>2. /\ Nested /\ nest = <<>> /\ FinalsEnd(ast) /\ Len(ast) \in Nat
      /\ cgPc \in 1 .. Len(ast) /\ ast[cgPc].k = "while"
      /\ FlowAt(cgPc, blocks, cur, frames)
  BY <1>1, AtFlow
<1>3. /\ Flowing(blocks, P) /\ cur \in 1 .. Len(blocks) /\ cur \notin P /\ Begins(blocks[cur]) <= cgPc
      /\ AllStraight(blocks) => Arrives(cgPc, blocks[cur])
      /\ Grown(blocks, blocks, P)
  BY <1>2, AtFlowBlocks
<1>4. {"while"} \subseteq Loops /\ ast[cgPc].k \in Loops
  BY <1>2 DEF Loops
<1>5. /\ N[1] = "while_cond" /\ N[2] = "while_body" /\ N[3] = "while_after"
  BY DEF WhileNames
<1> HIDE DEF N, P
<1>6. LoopHas(blocks, P, ds, 3, N)
  BY <1>2, <1>3, <1>4, WhileMade DEF N
<1> HIDE DEF ds
<1>7. First[cgPc] = <<cgPc, "cd">>
  BY <1>2, FirstAt
<1>8. AllStraight(blocks) /\ ~HasTerminator(blocks[cur]) => Stands(blocks[cur]) = <<cgPc, "cd">>
  BY <1>3, <1>7, OpenIsReached
<1>9. LoopEntered(blocks, P, cur, cs, 3, N)
  <2>1. Flowing(blocks, P) /\ cur \in 1 .. Len(blocks) /\ cur \notin P /\ Begins(blocks[cur]) <= cgPc
    BY <1>3
  <2>2. Nested /\ nest = <<>> /\ FinalsEnd(ast) /\ Len(ast) \in Nat /\ cgPc \in 1 .. Len(ast)
    BY <1>2
  <2>3. 3 \in {3, 4}
    OBVIOUS
  <2> HIDE DEF a
  <2> QED
    BY <1>5, <1>6, <1>8, <2>1, <2>2, <2>3, LoopFlow, SMTT(40)
<1> HIDE DEF cs
<1>10. f.cond = k + 1 /\ f.end = k + 3
  BY FrameFields
<1> HIDE DEF f
<1>11. AllStraight(cs) => ~AfterReturn(cgPc)
  BY <1>3, <1>9, OpenIsReached DEF LoopEntered, Grown
<1>12. FlowAt(cgPc + 1, cs, k + 2, Append(frames, f))
  <2>1. 3 \in {3, 4} /\ 3 # 4 /\ ast[cgPc].k = "while"
    BY <1>2
  <2>2. CgAt({"while"}) /\ {"while"} \subseteq Loops
    BY <1>1, <1>4
  <2>3. Grown(blocks, blocks, P)
    BY <1>3
  <2> HIDE DEF k
  <2>4. f.cond = Len(blocks) + 1 /\ f.end = Len(blocks) + 3
    BY <1>10 DEF k
  <2>5. FlowAt(cgPc + 1, cs, Len(blocks) + 2, Append(frames, f))
    <3>1. LoopEntered(blocks, Pending(cgPc, frames), cur, cs, 3, N) /\ Grown(blocks, blocks, Pending(cgPc, frames))
      BY <1>9, <2>3 DEF P
    <3>2. /\ N[1] \in {"while_cond", "for_cond"} /\ N[2] \in {"while_body", "for_body"}
          /\ N[3] \in {"while_after", "for_after"}
      BY <1>5
    <3>3. (3 = 4 => N[3] = "for_inc") /\ (3 = 4 => f.next = Len(blocks) + 3)
      BY <2>1
    <3>4. ast[cgPc].k = "while" <=> 3 = 3
      BY <2>1
    <3> QED
      BY <1>11, <2>1, <2>2, <2>4, <3>1, <3>2, <3>3, <3>4, EnterLoopFlow, ZenonT(60)
  <2> QED
    BY <2>5 DEF k
<1> QED
  BY <1>1, <1>12

\* bs is what a for loop's prologue leaves: its loads and stores, or nothing in
\* a block that is finished.
PrologueIn(bs) ==
  \/ \E id, rd : bs = Emit(blocks, cur, Effect(cgPc, "do", id, rd))
  \/ bs = blocks /\ (AllStraight(blocks) => HasTerminator(blocks[cur]))

\* The loop of this node can be entered from where bs goes on.
EntersFrom(bs, P) ==
  /\ Flowing(bs, P) /\ Grown(blocks, bs, P) /\ Len(bs) = Len(blocks) /\ Begins(bs[cur]) <= cgPc
  /\ AllStraight(bs) /\ ~HasTerminator(bs[cur]) =>
       Stands(bs[cur]) = <<cgPc, "cd">> /\ ~AfterReturn(cgPc)

LEMMA PrologueFlow ==
  ASSUME FlowInv, BreaksInLoops, NEW kinds, CgAt(kinds), kinds \subseteq {"fordcl", "forasst"},
         NEW bs, PrologueIn(bs)
  PROVE  EntersFrom(bs, Pending(cgPc, frames))
<1> DEFINE P == Pending(cgPc, frames)
<1>1. /\ Nested /\ nest = <<>> /\ FinalsEnd(ast)
      /\ cgPc \in 1 .. Len(ast) /\ ast[cgPc].k \in kinds
      /\ FlowAt(cgPc, blocks, cur, frames)
  BY AtFlow
<1>2. /\ Flowing(blocks, P) /\ cur \in 1 .. Len(blocks) /\ cur \notin P /\ Begins(blocks[cur]) <= cgPc
      /\ AllStraight(blocks) => Arrives(cgPc, blocks[cur])
      /\ Grown(blocks, blocks, P)
  BY <1>1, AtFlowBlocks
<1> HIDE DEF P
<1>3. CASE bs = blocks /\ (AllStraight(blocks) => HasTerminator(blocks[cur]))
  <2>1. EntersFrom(bs, P)
    BY <1>2, <1>3 DEF EntersFrom
  <2> QED
    BY <2>1 DEF P
<1>4. CASE \E id, rd : bs = Emit(blocks, cur, Effect(cgPc, "do", id, rd))
  <2>1. PICK id, rd : bs = Emit(blocks, cur, Effect(cgPc, "do", id, rd))
    BY <1>4
  <2> DEFINE i == Effect(cgPc, "do", id, rd)
  <2>2. First[cgPc] = <<cgPc, "do">> /\ ast[cgPc].k \in Loops
    BY <1>1, FirstAt DEF Loops
  <2>3. /\ Right(blocks, i, <<cgPc, "do">>) /\ i.op = "eff" /\ Then(i) = <<cgPc, "cd">>
    BY <1>1, <2>2, EffectRight
  <2> HIDE DEF i
  <2>4. AllStraight(blocks) /\ ~HasTerminator(blocks[cur]) =>
          Stands(blocks[cur]) = <<cgPc, "do">> /\ ~AfterReturn(cgPc)
    BY <1>2, <2>2, OpenIsReached
  <2>5. Continues(blocks, cur, i)
    BY <2>3, <2>4 DEF Continues
  <2> DEFINE cs == Emit(blocks, cur, i)
  <2>6. /\ Flowing(cs, P) /\ Grown(blocks, cs, P) /\ Len(cs) = Len(blocks)
        /\ Stands(cs[cur]) = Then(i)
        /\ AllStraight(cs) => ~HasTerminator(blocks[cur])
    <3>1. Flowing(blocks, P) /\ cur \in 1 .. Len(blocks) /\ cur \notin P
      BY <1>2
    <3> QED
      BY <2>5, <3>1, FlowEmit
  <2>7. cs = bs
    BY <2>1 DEF i
  <2> HIDE DEF cs
  <2>8. Begins(bs[cur]) = Begins(blocks[cur])
    BY <1>2, <2>6, <2>7, SameName DEF Grown, Extends
  <2>9. AllStraight(bs) => Stands(bs[cur]) = <<cgPc, "cd">> /\ ~AfterReturn(cgPc)
    BY <2>3, <2>4, <2>6, <2>7 DEF Grown
  <2>10. EntersFrom(bs, P)
    BY <1>2, <2>6, <2>7, <2>8, <2>9 DEF EntersFrom
  <2> QED
    BY <2>10 DEF P
<1> QED
  BY <1>3, <1>4 DEF PrologueIn

LEMMA EnterForFlow ==
  ASSUME FlowInv, BreaksInLoops, NEW kinds, CgAt(kinds), kinds \subseteq {"fordcl", "forasst"},
         NEW bs, PrologueIn(bs), NEW ok, NEW nv, EnterFor(ok, bs, nv)
  PROVE  FlowAt(cgPc', blocks', cur', frames')
<1> DEFINE P == Pending(cgPc, frames)
           k == Len(bs)
           a == Address(nv, Here.cd)
           ds == bs \o <<NewBlock("for_cond", TRUE), NewBlock("for_body", TRUE),
                         NewBlock("for_inc", TRUE), NewBlock("for_after", TRUE)>>
           cs == Emit(Emit(ds, cur, Br(cgPc, k + 1)), k + 1, CondBr(cgPc, a, k + 2, k + 4))
           f == Frame(nv, named_values, k + 1, k + 3, k + 4)
           N == ForNames
<1>1. /\ Nested /\ nest = <<>> /\ FinalsEnd(ast) /\ Len(ast) \in Nat
      /\ cgPc \in 1 .. Len(ast) /\ ast[cgPc].k \in kinds
      /\ FlowAt(cgPc, blocks, cur, frames)
  BY AtFlow
<1>2. cur \in 1 .. Len(blocks) /\ cur \notin P
  BY <1>1, AtFlowBlocks
<1>3. EntersFrom(bs, P)
  BY PrologueFlow
<1> HIDE DEF P
<1>4. /\ Flowing(bs, P) /\ Grown(blocks, bs, P) /\ cur \in 1 .. Len(bs) /\ Begins(bs[cur]) <= cgPc
      /\ AllStraight(bs) /\ ~HasTerminator(bs[cur]) =>
           Stands(bs[cur]) = <<cgPc, "cd">> /\ ~AfterReturn(cgPc)
  BY <1>2, <1>3 DEF EntersFrom
<1>5. k \in Nat
  BY <1>4 DEF Grown, Extends
<1>6. /\ cgPc' = cgPc + 1 /\ blocks' = cs /\ cur' = k + 2 /\ frames' = Append(frames, f)
  <2>1. (k + 1) + 1 = k + 2 /\ (k + 1) + 2 = k + 3 /\ (k + 1) + 3 = k + 4
    BY <1>5
  <2>2. /\ cgPc' = cgPc + 1 /\ blocks' = ForBlocks(bs, nv) /\ cur' = (k + 1) + 1
        /\ frames' = Append(frames, Frame(nv, named_values, k + 1, (k + 1) + 2, (k + 1) + 3))
    BY DEF EnterFor, Proceed
  <2>3. ForBlocks(bs, nv) = Emit(Emit(ds, cur, Br(cgPc, k + 1)), k + 1,
                                 CondBr(cgPc, a, (k + 1) + 1, (k + 1) + 3))
    BY DEF ForBlocks
  <2> HIDE DEF ds, a, k
  <2> QED
    BY <2>1, <2>2, <2>3
<1>7. kinds \subseteq Loops /\ ast[cgPc].k \in Loops /\ ast[cgPc].k # "while"
  BY <1>1 DEF Loops
<1>8. /\ N[1] = "for_cond" /\ N[2] = "for_body" /\ N[3] = "for_inc" /\ N[4] = "for_after"
  BY DEF ForNames
<1> HIDE DEF N
<1>9. LoopHas(bs, P, ds, 4, N)
  BY <1>1, <1>4, <1>7, ForMade DEF N
<1> HIDE DEF ds
<1>10. LoopEntered(bs, P, cur, cs, 4, N)
  <2>1. Flowing(bs, P) /\ cur \in 1 .. Len(bs) /\ cur \notin P /\ Begins(bs[cur]) <= cgPc
    BY <1>2, <1>4
  <2>2. Nested /\ nest = <<>> /\ FinalsEnd(ast) /\ Len(ast) \in Nat /\ cgPc \in 1 .. Len(ast)
    BY <1>1
  <2>3. 4 \in {3, 4}
    OBVIOUS
  <2>4. AllStraight(bs) /\ ~HasTerminator(bs[cur]) => Stands(bs[cur]) = <<cgPc, "cd">>
    BY <1>4
  <2> HIDE DEF a
  <2> QED
    BY <1>8, <1>9, <2>1, <2>2, <2>3, <2>4, LoopFlow, SMTT(40)
<1> HIDE DEF cs
<1>11. f.cond = k + 1 /\ f.next = k + 3 /\ f.end = k + 4
  BY FrameFields
<1> HIDE DEF f
<1>12. AllStraight(cs) => ~AfterReturn(cgPc)
  BY <1>4, <1>10 DEF LoopEntered, Grown
<1>13. FlowAt(cgPc + 1, cs, k + 2, Append(frames, f))
  <2>1. 4 \in {3, 4} /\ 4 # 3 /\ ~(ast[cgPc].k = "while") /\ kinds \subseteq Loops
    BY <1>7
  <2>2. Grown(blocks, bs, P)
    BY <1>4
  <2> HIDE DEF k
  <2>3. f.cond = Len(bs) + 1 /\ f.next = Len(bs) + 3 /\ f.end = Len(bs) + 4
    BY <1>11 DEF k
  <2>4. FlowAt(cgPc + 1, cs, Len(bs) + 2, Append(frames, f))
    <3>1. LoopEntered(bs, Pending(cgPc, frames), cur, cs, 4, N) /\ Grown(blocks, bs, Pending(cgPc, frames))
      BY <1>10, <2>2 DEF P
    <3>2. /\ N[1] \in {"while_cond", "for_cond"} /\ N[2] \in {"while_body", "for_body"}
          /\ N[4] \in {"while_after", "for_after"}
      BY <1>8
    <3>3. (4 = 4 => N[3] = "for_inc") /\ (4 = 4 => f.next = Len(bs) + 3)
      BY <1>8, <2>3
    <3>4. ast[cgPc].k = "while" <=> 4 = 3
      BY <2>1
    <3> QED
      BY <1>12, <2>1, <2>3, <3>1, <3>2, <3>3, <3>4, EnterLoopFlow, ZenonT(60)
  <2> QED
    BY <2>4 DEF k
<1> QED
  BY <1>6, <1>13

LEMMA ForFlow ==
  ASSUME FlowInv, BreaksInLoops, CgForDeclaration \/ CgForAssignment
  PROVE  phase' = "failed" \/ FlowAt(cgPc', blocks', cur', frames')
<1> SUFFICES ASSUME phase' # "failed" PROVE FlowAt(cgPc', blocks', cur', frames')
  OBVIOUS
<1>1. CASE CgForDeclaration
  <2> DEFINE nv == Insert(named_values, Here.id, cgPc)
             bs == Initialised(blocks, nv, Here)
  <2>1. CgAt({"fordcl"}) /\ \E ok : EnterFor(ok, bs, nv)
    BY <1>1 DEF CgForDeclaration, Fail
  <2>2. PICK ok : EnterFor(ok, bs, nv)
    BY <2>1
  <2>3. PrologueIn(bs)
    BY DEF PrologueIn, Initialised
  <2>4. {"fordcl"} \subseteq {"fordcl", "forasst"}
    OBVIOUS
  <2> HIDE DEF bs, nv
  <2> QED
    BY <2>1, <2>2, <2>3, <2>4, EnterForFlow
<1>2. CASE CgForAssignment
  <2> DEFINE nv == named_values
             bs == Assigned(nv, Here)
  <2>1. CgAt({"forasst"}) /\ \E ok : EnterFor(ok, bs, nv)
    BY <1>2 DEF CgForAssignment, Fail
  <2>2. PICK ok : EnterFor(ok, bs, nv)
    BY <2>1
  <2>3. ast[cgPc].k = "forasst" /\ Here = ast[cgPc]
    BY <2>1, AtFlow
  <2>4. PrologueIn(bs)
    <3>1. CASE AssignmentStores(nv, Here)
      BY <3>1 DEF PrologueIn, Assigned
    <3>2. CASE ~AssignmentStores(nv, Here)
      <4>1. Address(nv, ast[cgPc].id) = None
        BY <2>3, <3>2 DEF AssignmentStores
      <4>2. AllStraight(blocks) => HasTerminator(blocks[cur])
        BY <2>1, <2>3, <4>1, UnstoredIsFinished
      <4> QED
        BY <3>2, <4>2 DEF PrologueIn, Assigned
    <3> QED
      BY <3>1, <3>2
  <2>5. {"forasst"} \subseteq {"fordcl", "forasst"}
    OBVIOUS
  <2> HIDE DEF bs
  <2> QED
    BY <2>1, <2>2, <2>4, <2>5, EnterForFlow
<1> QED
  BY <1>1, <1>2

\* The loop t ends here: O are the blocks that the statements around it have
\* ready.
LoopEndsAt(t, O) ==
  /\ t = Top.node /\ t \in 1 .. cgPc - 1 /\ t \in 1 .. Len(ast) /\ t \in 1 .. Len(ast) + 1
  /\ Top.end \in 1 .. Len(blocks) /\ Top.end \in Pending(cgPc, frames) /\ Top.end \notin O
  /\ Leads(blocks[Top.end]) = First[cgPc + 1] /\ Begins(blocks[Top.end]) = cgPc + 1
  /\ Top.cond \in 1 .. Len(blocks)
  /\ Leads(blocks[Top.cond]) = <<t, "cd">> /\ Begins(blocks[Top.cond]) = Len(ast) + 2
  /\ O \subseteq Pending(cgPc, frames)
  /\ ast[t].k = "while" => First[cgPc] = <<t, "cd">>
  /\ ast[t].k # "while" =>
       /\ First[cgPc] = <<t, "ep">>
       /\ Top.next \in 1 .. Len(blocks) /\ Top.next \in Pending(cgPc, frames)
       /\ Top.next \notin O \cup {Top.end}
       /\ Leads(blocks[Top.next]) = <<t, "ep">> /\ Begins(blocks[Top.next]) = Len(ast) + 2

LEMMA LoopEnds ==
  ASSUME FlowInv, BreaksInLoops, CgAt({"end"}), ast[Top.node].k \in Loops
  PROVE  LoopEndsAt(Top.node, PendingIn(Outer(cgPc), frames))
<1> DEFINE O == PendingIn(Outer(cgPc), frames)
           P == Pending(cgPc, frames)
           o == Top.node
           end == Top.end
           next == Top.next
           cond == Top.cond
<1>1. {"end"} \subseteq Markers
  BY DEF Markers
<1>2. /\ Nested /\ nest = <<>> /\ FinalsEnd(ast) /\ Len(ast) \in Nat
      /\ cgPc \in 1 .. Len(ast) /\ ast[cgPc].k = "end"
      /\ FlowAt(cgPc, blocks, cur, frames)
  BY AtFlow
<1>3. /\ o \in 1 .. cgPc - 1 /\ ast[o].k \in Openers /\ ast[o].lvl = ast[cgPc].lvl /\ Holds(o, cgPc)
      /\ \E t \in LiveClauses(cgPc) : EndsHere(t)
  BY <1>1, AtFlowMarker
<1>4. PICK t \in LiveClauses(cgPc) : EndsHere(t)
  BY <1>3
<1>5. /\ t = o /\ FrameOf(blocks, Top, o) /\ Promised(blocks, Top, o)
      /\ BodyEnd(o) = cgPc
      /\ P = O \cup PendingOf(Top, o) /\ (\A x \in O : x \notin PendingOf(Top, o))
  BY <1>4 DEF EndsHere
<1>6. PendingOf(Top, o) = {end} \cup (IF ast[o].k = "while" THEN {} ELSE {next})
  BY DEF PendingOf, Loops
<1>7. /\ end \in 1 .. Len(blocks) /\ cond \in 1 .. Len(blocks)
      /\ ast[o].k # "while" => next \in 1 .. Len(blocks) /\ next # end
  BY <1>5, <1>6 DEF FrameOf, Loops
<1>8. /\ AfterLoop(blocks, end, o)
      /\ blocks[cond].name \in {"while_cond", "for_cond"} /\ blocks[cond].node = o
      /\ ast[o].k # "while" => blocks[next].name = "for_inc" /\ blocks[next].node = o
  BY <1>5 DEF Promised
<1>9. blocks[end].name \in {"while_after", "for_after"} /\ blocks[end].node = o
  BY <1>8 DEF AfterLoop
<1>10. ast[o].k \in {"while", "fordcl", "forasst"}
  BY DEF Loops
<1> HIDE DEF o, end, next, cond, O, P
<1>11. S!Otherwise(o) = First[cgPc + 1]
  <2>1. o \in 1 .. Len(ast) /\ ast[o].k \in Openers \cup Clauses /\ ast[o].k \in Loops
    BY <1>2, <1>3, <1>10 DEF Loops
  <2> QED
    BY <1>2, <1>5, <2>1, OtherwiseIs
<1>12. Leads(blocks[end]) = First[cgPc + 1] /\ Begins(blocks[end]) = cgPc + 1
  BY <1>5, <1>9, <1>11, LeadsIs, BeginsIs
<1>13. /\ Leads(blocks[cond]) = <<o, "cd">> /\ Begins(blocks[cond]) = Len(ast) + 2
       /\ ast[o].k # "while" =>
            Leads(blocks[next]) = <<o, "ep">> /\ Begins(blocks[next]) = Len(ast) + 2
  BY <1>8, LeadsIs, BeginsIs
<1>14. /\ ast[o].k = "while" => First[cgPc] = <<o, "cd">>
       /\ ast[o].k # "while" => First[cgPc] = <<o, "ep">>
  BY <1>2, <1>3, <1>10, FirstEnd
<1>15. o \in 1 .. Len(ast) /\ o \in 1 .. Len(ast) + 1
  BY <1>2, <1>3
<1>16. /\ end \in P /\ end \notin O /\ O \subseteq P
       /\ ast[o].k # "while" => next \in P /\ next \notin O \cup {end}
  BY <1>5, <1>6, <1>7
<1> QED
  BY <1>3, <1>7, <1>12, <1>13, <1>14, <1>15, <1>16 DEF LoopEndsAt, o, end, next, cond, O, P

LEMMA EndWhileFlow ==
  ASSUME FlowInv, BreaksInLoops, CgEndWhile
  PROVE  FlowAt(cgPc', blocks', cur', frames')
<1> DEFINE O == PendingIn(Outer(cgPc), frames)
           P == Pending(cgPc, frames)
           t == Top.node
           end == Top.end
           cond == Top.cond
           cs == BrIfOpen(blocks, cur, t, cond)
<1>1. /\ CgAt({"end"}) /\ ast[t].k = "while" /\ cgPc' = cgPc + 1
      /\ blocks' = cs /\ cur' = end /\ PopFrame
  BY DEF CgEndWhile, Proceed
<1>2. /\ Len(ast) \in Nat /\ cgPc \in 1 .. Len(ast) /\ FlowAt(cgPc, blocks, cur, frames)
  BY <1>1, AtFlow
<1>3. /\ Flowing(blocks, P) /\ cur \in 1 .. Len(blocks) /\ cur \notin P
      /\ Begins(blocks[cur]) <= cgPc /\ Begins(blocks[cur]) \in 1 .. Len(ast) + 2
      /\ AllStraight(blocks) => Arrives(cgPc, blocks[cur])
  BY <1>2, AtFlowBlocks
<1>4. /\ t \in 1 .. Len(ast) + 1
      /\ end \in 1 .. Len(blocks) /\ end \in P /\ end \notin O
      /\ Leads(blocks[end]) = First[cgPc + 1] /\ Begins(blocks[end]) = cgPc + 1
      /\ cond \in 1 .. Len(blocks)
      /\ Leads(blocks[cond]) = <<t, "cd">> /\ Begins(blocks[cond]) = Len(ast) + 2
      /\ O \subseteq P /\ First[cgPc] = <<t, "cd">>
  BY <1>1, LoopEnds DEF LoopEndsAt, Loops
<1> HIDE DEF O, P, t, end, cond
<1>5. AllStraight(blocks) /\ ~HasTerminator(blocks[cur]) => Leads(blocks[cond]) = Stands(blocks[cur])
  BY <1>3, <1>4, OpenIsReached
<1>6. Begins(blocks[cur]) < Begins(blocks[cond])
  BY <1>2, <1>3, <1>4
<1>7. Flowing(cs, P) /\ Grown(blocks, cs, P) /\ Len(cs) = Len(blocks)
  BY <1>3, <1>4, <1>5, <1>6, FlowBrIfOpen, SMTT(40)
<1> HIDE DEF cs
<1>8. Flowing(cs, O) /\ Grown(blocks, cs, O)
  BY <1>4, <1>7, FlowMove, GrownLess
<1>9. cs[end].ins = <<>> /\ end \in 1 .. Len(cs)
  BY <1>4, <1>7 DEF Flowing
<1>10. Leads(cs[end]) = First[cgPc + 1] /\ Begins(cs[end]) = cgPc + 1
  <2>1. cs[end].name = blocks[end].name /\ cs[end].node = blocks[end].node
    BY <1>4, <1>7 DEF Grown, Extends
  <2> QED
    BY <1>4, <2>1, SameName
<1>11. FlowAt(cgPc + 1, cs, end, frames')
  BY <1>1, <1>4, <1>8, <1>9, <1>10, CloseFlow DEF O, end
<1> QED
  BY <1>1, <1>11

LEMMA EndForFlow ==
  ASSUME FlowInv, BreaksInLoops, CgEndFor
  PROVE  phase' = "failed" \/ FlowAt(cgPc', blocks', cur', frames')
<1> DEFINE O == PendingIn(Outer(cgPc), frames)
           P == Pending(cgPc, frames)
           t == Top.node
           end == Top.end
           cond == Top.cond
           next == Top.next
           i == Effect(t, "ep", None, Address(Restored, ast[t].ep))
           ds == BrIfOpen(blocks, cur, t, next)
           es == Emit(ds, next, i)
           cs == Emit(es, next, Br(t, cond))
           Q == P \ {next}
<1> SUFFICES ASSUME phase' # "failed" PROVE FlowAt(cgPc', blocks', cur', frames')
  OBVIOUS
<1>1. /\ CgAt({"end"}) /\ ast[t].k \in {"fordcl", "forasst"} /\ cgPc' = cgPc + 1
      /\ blocks' = cs /\ cur' = end /\ PopFrame
  BY DEF CgEndFor, Proceed, Fail, ForEnded
<1>2. /\ Len(ast) \in Nat /\ cgPc \in 1 .. Len(ast) /\ FlowAt(cgPc, blocks, cur, frames)
  BY <1>1, AtFlow
<1>3. /\ Flowing(blocks, P) /\ cur \in 1 .. Len(blocks) /\ cur \notin P
      /\ Begins(blocks[cur]) <= cgPc /\ Begins(blocks[cur]) \in 1 .. Len(ast) + 2
      /\ AllStraight(blocks) => Arrives(cgPc, blocks[cur])
  BY <1>2, AtFlowBlocks
<1>4. LoopEndsAt(t, O)
  BY <1>1, LoopEnds DEF Loops
<1>5. /\ t \in 1 .. Len(ast) /\ t \in 1 .. Len(ast) + 1
      /\ end \in 1 .. Len(blocks) /\ end \in P /\ end \notin O
      /\ Leads(blocks[end]) = First[cgPc + 1] /\ Begins(blocks[end]) = cgPc + 1
      /\ cond \in 1 .. Len(blocks) /\ Leads(blocks[cond]) = <<t, "cd">>
      /\ O \subseteq P /\ First[cgPc] = <<t, "ep">>
      /\ next \in 1 .. Len(blocks) /\ next \in P /\ next \notin O \cup {end}
      /\ Leads(blocks[next]) = <<t, "ep">> /\ Begins(blocks[next]) = Len(ast) + 2
  BY <1>1, <1>4 DEF LoopEndsAt
<1> HIDE DEF O, P, t, end, cond, next
<1>6. AllStraight(blocks) /\ ~HasTerminator(blocks[cur]) => Leads(blocks[next]) = Stands(blocks[cur])
  BY <1>3, <1>5, OpenIsReached
<1>7. Begins(blocks[cur]) < Begins(blocks[next])
  BY <1>2, <1>3, <1>5
<1>8. Flowing(ds, P) /\ Grown(blocks, ds, P) /\ Len(ds) = Len(blocks)
  <2>1. Flowing(blocks, P) /\ cur \in 1 .. Len(blocks) /\ cur \notin P
    BY <1>3
  <2>2. t \in 1 .. Len(ast) + 1 /\ next \in 1 .. Len(blocks)
    BY <1>5
  <2> QED
    BY <1>6, <1>7, <2>1, <2>2, FlowBrIfOpen
<1> HIDE DEF ds
<1>9. /\ Q \subseteq P /\ O \subseteq Q /\ end \in Q /\ next \notin Q
  BY <1>5
<1> HIDE DEF Q
<1>10. Flowing(ds, Q) /\ next \in 1 .. Len(ds) /\ ds[next].ins = <<>>
  <2>1. Flowing(ds, Q)
    BY <1>8, <1>9, FlowMove
  <2>2. ds[next].ins = <<>>
    BY <1>5, <1>8 DEF Flowing
  <2> QED
    BY <1>5, <1>8, <2>1, <2>2
<1>11. /\ \A b \in 1 .. Len(blocks) : Leads(ds[b]) = Leads(blocks[b])
       /\ Stands(ds[next]) = <<t, "ep">>
  <2>1. \A b \in 1 .. Len(blocks) : Leads(ds[b]) = Leads(blocks[b])
    BY <1>8, SameName DEF Grown, Extends
  <2> QED
    BY <1>5, <1>10, <2>1, NewStands
<1>12. /\ Right(ds, i, <<t, "ep">>) /\ i.op = "eff" /\ Then(i) = <<t, "cd">>
  <2>1. "ep" \in {"do", "ep"}
    OBVIOUS
  <2> QED
    BY <1>5, <2>1, EffectRight
<1> HIDE DEF i
<1>13. Continues(ds, next, i)
  BY <1>11, <1>12 DEF Continues
<1>14. Flowing(es, Q) /\ Grown(ds, es, Q) /\ Len(es) = Len(ds) /\ Stands(es[next]) = <<t, "cd">>
  <2>1. Flowing(ds, Q) /\ next \in 1 .. Len(ds) /\ next \notin Q
    BY <1>9, <1>10
  <2> QED
    BY <1>12, <1>13, <2>1, FlowEmit
<1> HIDE DEF es
<1>15. \A b \in 1 .. Len(blocks) : Leads(es[b]) = Leads(blocks[b])
  <2>1. \A b \in 1 .. Len(ds) : Leads(es[b]) = Leads(ds[b])
    BY <1>14, SameName DEF Grown, Extends
  <2> QED
    BY <1>8, <1>11, <2>1
<1>16. es[next].ins # <<>>
  BY <1>5, <1>14, <1>15, NewStands
<1>17. /\ next \in 1 .. Len(es) /\ cond \in 1 .. Len(es) /\ end \in 1 .. Len(es)
  BY <1>5, <1>8, <1>14
<1>18. Flowing(cs, Q) /\ Grown(es, cs, Q) /\ Len(cs) = Len(es)
  <2>1. Leads(es[cond]) = Stands(es[next])
    BY <1>5, <1>14, <1>15
  <2>2. Flowing(es, Q) /\ next \notin Q /\ t \in 1 .. Len(ast) + 1
    BY <1>5, <1>9, <1>14
  <2> QED
    BY <1>16, <1>17, <2>1, <2>2, FlowBr
<1> HIDE DEF cs
<1>19. Flowing(cs, O)
  BY <1>9, <1>18, FlowMove
<1>20. Grown(blocks, cs, O)
  <2>1. Grown(ds, cs, Q)
    BY <1>14, <1>18, GrownAll
  <2> QED
    BY <1>5, <1>8, <1>9, <2>1, GrownAll
<1>21. cs[end].ins = <<>> /\ end \in 1 .. Len(cs)
  <2>1. cs[end].ins = <<>>
    BY <1>9, <1>18 DEF Flowing
  <2> QED
    BY <1>17, <1>18, <2>1
<1>22. Leads(cs[end]) = First[cgPc + 1] /\ Begins(cs[end]) = cgPc + 1
  <2>1. cs[end].name = blocks[end].name /\ cs[end].node = blocks[end].node
    BY <1>5, <1>20 DEF Grown, Extends
  <2> QED
    BY <1>5, <2>1, SameName
<1>23. FlowAt(cgPc + 1, cs, end, frames')
  BY <1>1, <1>5, <1>19, <1>20, <1>21, <1>22, CloseFlow DEF O, end
<1> QED
  BY <1>1, <1>23

-------------------------------------------------------------------------------
(* The end of the walk.                                                    *)

\* What is said of the blocks does not change while the tree does not.
LEMMA SameFlow ==
  ASSUME ast' = ast
  PROVE  /\ BreaksInLoops' <=> BreaksInLoops
         /\ \A n : LoopsAround(n)' = LoopsAround(n)
         /\ \A x : Leads(x)' = Leads(x)
         /\ \A bs, P : Flowing(bs, P)' <=> Flowing(bs, P)
         /\ \A n, bs, c, fs : FlowAt(n, bs, c, fs)' <=> FlowAt(n, bs, c, fs)
<1>1. \A n : LoopsAround(n)' = LoopsAround(n)
  BY DEF LoopsAround, Around
<1>2. \A x : Leads(x)' = Leads(x)
  BY SamePoints DEF Leads
<1>3. \A x : Begins(x)' = Begins(x)
  BY SamePoints DEF Begins
<1>4. \A i : Then(i)' = Then(i)
  BY SamePoints DEF Then
<1>5. \A x, k : StandsAt(x, k)' = StandsAt(x, k)
  BY <1>2, <1>4 DEF StandsAt
<1>6. \A bs, i, p : Right(bs, i, p)' <=> Right(bs, i, p)
  BY <1>2, SamePoints DEF Right
<1>7. \A bs, x : Onwards(bs, x)' <=> Onwards(bs, x)
  BY <1>3 DEF Onwards
<1>8. \A bs, x : Flows(bs, x)' <=> Flows(bs, x)
  BY <1>5, <1>6, <1>7 DEF Flows
<1>9. \A bs, P : Flowing(bs, P)' <=> Flowing(bs, P)
  BY <1>3, <1>8 DEF Flowing
<1>10. \A bs, f, m : Promised(bs, f, m)' <=> Promised(bs, f, m)
  BY SamePoints, SameBlocks DEF Promised
<1>11. \A n, bs, fs : AllPromised(n, bs, fs)' <=> AllPromised(n, bs, fs)
  BY <1>10, SameBlocks DEF AllPromised
<1>12. \A x : Stands(x)' = Stands(x)
  BY <1>5 DEF Stands
<1>13. \A n : Depth(n)' = Depth(n)
  BY DEF Depth
<1>14. \A n, x : Arrives(n, x)' <=> Arrives(n, x)
  BY <1>12, <1>13, SamePoints, SameBlocks DEF Arrives
<1>15. \A n, bs, c, fs : FlowAt(n, bs, c, fs)' <=> FlowAt(n, bs, c, fs)
  BY <1>3, <1>9, <1>11, <1>14, SameBlocks DEF FlowAt
<1>16. BreaksInLoops' <=> BreaksInLoops
  BY <1>1 DEF BreaksInLoops
<1> QED
  BY <1>1, <1>2, <1>9, <1>15, <1>16

LEMMA FinishFlow ==
  ASSUME FlowInv, CgFinish
  PROVE  \/ phase' \in {"failed", "malformed"}
         \/ phase' = "run" /\ Len(ast) \in Nat /\ Len(ast) <= MaxNodes /\ Runs'
<1> DEFINE bs == IF HasTerminator(blocks[cur]) THEN blocks ELSE Emit(blocks, cur, Ret(cgPc, None))
<1> SUFFICES ASSUME phase' \notin {"failed", "malformed"}
             PROVE  phase' = "run" /\ Len(ast) \in Nat /\ Len(ast) <= MaxNodes /\ Runs'
  OBVIOUS
<1>1. /\ phase = "codegen" /\ blocks # <<>> /\ cgPc > Len(ast)
      /\ blocks' = bs /\ phase' = "run" /\ WellFormed(bs) /\ ast' = ast
  BY DEF CgFinish, Fail
<1>2. AddressInv /\ CgInv
  BY <1>1 DEF FlowInv, AddressInv
<1>3. /\ Nested /\ nest = <<>> /\ FinalsEnd(ast) /\ cgPc \in 1 .. Len(ast) + 1 /\ Len(ast) \in Nat
  <2>1. Nested /\ nest = <<>> /\ FinalsEnd(ast) /\ cgPc \in 1 .. Len(ast) + 1
    BY <1>1, <1>2 DEF AddressInv, NameInv, CgInv, BreakInv, WalkInv
  <2> QED
    BY <2>1, NodesTyped
<1>4. Len(ast) <= MaxNodes
  <2>1. Fits
    BY <1>2 DEF CgInv, BreakInv
  <2>2. Len(nest) = 0
    BY <1>3
  <2> QED
    BY <1>3, <2>1, <2>2 DEF Fits
<1>5. cgPc = Len(ast) + 1
  BY <1>1, <1>3
<1>6. BreaksInLoops
  <2>1. \A n \in 1 .. cgPc - 1 : ast[n].k = "break" => LoopsAround(n) # {}
    BY <1>1 DEF FlowInv
  <2> QED
    BY <1>3, <1>5, <2>1 DEF BreaksInLoops
<1>7. FlowAt(cgPc, blocks, cur, frames)
  BY <1>1, <1>6 DEF FlowInv
<1>8. Pending(cgPc, frames) = {}
  <2>1. Depth(Len(ast) + 1) = 0
    <3>1. CASE ast = <<>>
      BY <1>3, <3>1 DEF Depth
    <3>2. CASE ast # <<>>
      <4>1. Len(ast) + 1 # 1 /\ (Len(ast) + 1) - 1 = Len(ast)
        BY <1>3, <3>2 DEF Nested
      <4> QED
        BY <1>3, <3>2, <4>1 DEF Nested, Depth
    <3> QED
      BY <3>1, <3>2
  <2>2. LiveClauses(cgPc) = {}
    BY <1>3, <1>5, <2>1, NoClauses
  <2> QED
    BY <2>2 DEF Pending, PendingIn
<1>9. /\ Flowing(blocks, {}) /\ cur \in 1 .. Len(blocks) /\ blocks[1].name = "entry"
      /\ Len(blocks) \in Nat
      /\ AllStraight(blocks) => Arrives(cgPc, blocks[cur])
  BY <1>7, <1>8, AtFlowBlocks
<1>10. First[cgPc] = <<cgPc, "return">>
  BY <1>3, <1>5, <1>6, FirstLast
<1>11. Flowing(bs, {}) /\ bs[1].name = "entry" /\ Len(bs) = Len(blocks)
  <2>1. CASE HasTerminator(blocks[cur])
    BY <1>9, <2>1
  <2>2. CASE ~HasTerminator(blocks[cur])
    <3> DEFINE i == Ret(cgPc, None)
               cs == Emit(blocks, cur, i)
    <3>1. AllStraight(blocks) /\ ~HasTerminator(blocks[cur]) => Stands(blocks[cur]) = <<cgPc, "return">>
      BY <1>9, <1>10, OpenIsReached
    <3>2. Right(blocks, i, <<cgPc, "return">>) /\ i.op = "ret"
      BY <1>3, RetRight
    <3> HIDE DEF i
    <3>3. Continues(blocks, cur, i)
      BY <3>1, <3>2 DEF Continues
    <3>4. Flowing(blocks, {}) /\ cur \in 1 .. Len(blocks) /\ cur \notin {}
      BY <1>9
    <3>5. Flowing(cs, {}) /\ Grown(blocks, cs, {}) /\ Len(cs) = Len(blocks)
      BY <3>3, <3>4, FlowEmit
    <3>6. bs = cs
      BY <2>2 DEF i
    <3> HIDE DEF cs, bs
    <3>7. 1 \in 1 .. Len(blocks)
      BY <1>9
    <3> QED
      BY <1>9, <3>5, <3>6, <3>7 DEF Grown, Extends
  <2> QED
    BY <2>1, <2>2
<1> HIDE DEF bs
<1>12. Flowing(blocks, {})'
  BY <1>1, <1>11, SameFlow
<1>13. \A b \in 1 .. Len(bs) : BlockOK(bs[b])
  <2>1. IsSeq(bs)
    BY <1>11 DEF Flowing
  <2> QED
    BY <1>1, <2>1 DEF WellFormed, IsSeq
<1>14. \A b \in 1 .. Len(blocks') : BlockOK(blocks[b])'
  BY <1>1, <1>13 DEF BlockOK, HasTerminator
<1>15. blocks' # <<>> /\ blocks'[1].name = "entry"
  BY <1>1, <1>9, <1>11
<1>16. Runs'
  BY <1>12, <1>14, <1>15 DEF Runs
<1> QED
  BY <1>1, <1>3, <1>4, <1>16

-------------------------------------------------------------------------------
(* What a step does to the rest of the invariant.                          *)

\* The parser gives every assignment a name.
LEMMA AssignsParsed ==
  ASSUME WalkInv, AssignsNamed, Parse
  PROVE  AssignsNamed'
<1>1. ast \in Seq(Node) /\ Len(ast) \in Nat /\ nest \in Seq(AllKinds)
  BY DEF WalkInv, Nested
<1>2. ASSUME NEW k \in AllKinds, k \in Markers => nest # <<>>, Add(k)
      PROVE  AssignsNamed'
  <2>1. PICK v \in NodesOf(k) : ast' = Append(ast, v)
    BY <1>2 DEF Add
  <2>2. v \in Node /\ v.k = k
    BY <1>1, <1>2, NodeMade
  <2>3. k \in {"asst", "forasst"} => v.id \in Ids
    BY <2>1 DEF NodesOf, Made
  <2>4. /\ Len(ast') = Len(ast) + 1 /\ ast'[Len(ast) + 1] = v
        /\ \A n \in 1 .. Len(ast) : ast'[n] = ast[n]
        /\ \A n \in 1 .. Len(ast) + 1 : n \in 1 .. Len(ast) \/ n = Len(ast) + 1
    BY <1>1, <2>1, <2>2
  <2> QED
    BY <2>2, <2>3, <2>4 DEF AssignsNamed
<1> USE DEF AllKinds, Leaves, Openers, Loops, Markers, Clauses
<1>3. CASE ParseParam
  BY <1>2, <1>3 DEF ParseParam
<1>4. CASE ParseStatement
  <2>1. PICK k \in Leaves : Add(k)
    BY <1>4 DEF ParseStatement
  <2>2. k \in AllKinds /\ k \notin Markers
    OBVIOUS
  <2> QED
    BY <1>2, <2>1, <2>2
<1>5. CASE ParseOpener
  <2>1. PICK k \in Openers : Add(k)
    BY <1>5 DEF ParseOpener
  <2>2. k \in AllKinds /\ k \notin Markers
    OBVIOUS
  <2> QED
    BY <1>2, <2>1, <2>2
<1>6. CASE ParseClause
  <2>1. PICK k \in Clauses : Add(k)
    BY <1>6 DEF ParseClause
  <2>2. k \in AllKinds /\ nest # <<>>
    BY <1>6 DEF ParseClause
  <2> QED
    BY <1>2, <2>1, <2>2
<1>7. CASE ParseEnd
  BY <1>2, <1>7 DEF ParseEnd
<1>8. CASE ParseDone
  BY <1>8 DEF ParseDone, AssignsNamed
<1> QED
  BY <1>3, <1>4, <1>5, <1>6, <1>7, <1>8 DEF Parse

\* The passes before the generator.
LEMMA FrontEndGoesOn ==
  ASSUME TcNext
  PROVE  /\ phase \in {"parse", "typecheck"}
         /\ phase' \in {"parse", "typecheck", "rejected", "codegen"}
         /\ Parse \/ ast' = ast
<1>1. CASE Parse
  BY <1>1 DEF Parse, ParseParam, ParseStatement, ParseOpener, ParseClause, ParseEnd, ParseDone
<1>2. CASE TcVisit
  BY <1>2 DEF TcVisit, TcParam, TcDeclaration, TcVarInit, TcAssignment, TcExpression, TcReturn,
              TcBranch, TcClause, TcForDeclaration, TcForAssignment, TcEnd, TcBreak, TcDone,
              At, GoOn, Reject
<1> QED
  BY <1>1, <1>2 DEF TcNext

\* A break that is generated is in a loop: loop_end_blocks has an entry for
\* each loop the walk is in.
LEMMA BreakIsInLoop ==
  ASSUME CgInv, CgAt({"break"}), loop_end_blocks # <<>>
  PROVE  LoopsAround(cgPc) # {}
<1>1. /\ Nested /\ cgPc \in 1 .. Len(ast) /\ ast[cgPc].k = "break"
      /\ EndsMatch(cgPc, blocks, loop_end_blocks)
  BY AtCg
<1>2. LoopsAround(cgPc) = LiveLoops(cgPc)
  BY <1>1, LoopsAroundBreak
<1>3. 1 \in 1 .. Len(loop_end_blocks)
  <2>1. IsSeq(loop_end_blocks)
    BY <1>1 DEF EndsMatch
  <2> QED
    BY <2>1, FrontSeq
<1> QED
  BY <1>1, <1>2, <1>3 DEF EndsMatch

LEMMA VisitSteps ==
  ASSUME CgVisit, ~CgFinish, ~CgEntry
  PROVE  /\ phase' = "failed" \/ cgPc' = cgPc + 1
         /\ CgBreak \/ CgAt(AllKinds \ {"break"})
<1>1. CASE CgParam \/ CgDeclaration \/ CgVarInit \/ CgAssignment \/ CgExpression \/ CgReturn
  BY <1>1 DEF CgParam, CgDeclaration, CgVarInit, CgAssignment, CgExpression, CgReturn,
              CgAt, Proceed, Fail, AllKinds, Leaves, Openers, Loops, Markers, Clauses
<1>2. CASE CgBreak
  BY <1>2 DEF CgBreak, Proceed, Fail
<1>3. CASE CgIf \/ CgElif \/ CgElse \/ CgEndIf
  BY <1>3 DEF CgIf, CgElif, CgElse, CgEndIf,
              CgAt, Proceed, Fail, AllKinds, Leaves, Openers, Loops, Markers, Clauses
<1>4. CASE CgWhile \/ CgForDeclaration \/ CgForAssignment
  BY <1>4 DEF CgWhile, CgForDeclaration, CgForAssignment, EnterFor,
              CgAt, Proceed, Fail, AllKinds, Leaves, Openers, Loops, Markers, Clauses
<1>5. CASE CgEndWhile \/ CgEndFor
  BY <1>5 DEF CgEndWhile, CgEndFor,
              CgAt, Proceed, Fail, AllKinds, Leaves, Openers, Loops, Markers, Clauses
<1> QED
  BY <1>1, <1>2, <1>3, <1>4, <1>5 DEF CgVisit

LEMMA VisitBreaks ==
  ASSUME FlowInv, CgVisit, ~CgFinish, phase' = "codegen"
  PROVE  \A n \in 1 .. cgPc' - 1 : ast[n].k = "break" => LoopsAround(n) # {}
<1>1. phase = "codegen"
  BY VisitGoesOn
<1>2. /\ CgInv /\ cgPc \in 1 .. Len(ast) + 1 /\ Len(ast) \in Nat
      /\ \A n \in 1 .. cgPc - 1 : ast[n].k = "break" => LoopsAround(n) # {}
  <2>1. CgInv /\ \A n \in 1 .. cgPc - 1 : ast[n].k = "break" => LoopsAround(n) # {}
    BY <1>1 DEF FlowInv, AddressInv
  <2>2. cgPc \in 1 .. Len(ast) + 1 /\ Nested
    BY <1>1, <2>1 DEF CgInv, BreakInv, WalkInv
  <2> QED
    BY <2>1, <2>2, NodesTyped
<1>3. CASE CgEntry
  BY <1>2, <1>3 DEF CgEntry
<1>4. CASE ~CgEntry
  <2>1. cgPc' = cgPc + 1 /\ (CgBreak \/ CgAt(AllKinds \ {"break"}))
    BY <1>4, VisitSteps
  <2>2. ast[cgPc].k = "break" => LoopsAround(cgPc) # {}
    <3>1. CASE CgBreak
      <4>1. CgAt({"break"}) /\ loop_end_blocks # <<>>
        BY <3>1 DEF CgBreak, Proceed, Fail
      <4> QED
        BY <1>2, <4>1, BreakIsInLoop
    <3>2. CASE CgAt(AllKinds \ {"break"})
      BY <3>2 DEF CgAt, Here
    <3> QED
      BY <2>1, <3>1, <3>2
  <2>3. \A n \in 1 .. cgPc' - 1 : n \in 1 .. cgPc - 1 \/ n = cgPc
    BY <1>2, <2>1
  <2> QED
    BY <1>2, <2>2, <2>3
<1> QED
  BY <1>3, <1>4

\* What does not change with the tree, the blocks and the walk.
LEMMA SameRuns ==
  ASSUME ast' = ast, blocks' = blocks
  PROVE  (Runs' <=> Runs) /\ (AssignsNamed' <=> AssignsNamed)
<1>1. Flowing(blocks, {})' <=> Flowing(blocks, {})
  BY SameFlow
<1>2. (\A b \in 1 .. Len(blocks) : BlockOK(blocks[b]))' <=> \A b \in 1 .. Len(blocks) : BlockOK(blocks[b])
  BY DEF BlockOK, HasTerminator
<1> QED
  BY <1>1, <1>2 DEF Runs, AssignsNamed

LEMMA FrontEndFlow ==
  ASSUME FlowInv, AddressInv', TcNext, UNCHANGED <<cgVars, pos>>
  PROVE  FlowInv'
<1>1. /\ phase \in {"parse", "typecheck"}
      /\ phase' \in {"parse", "typecheck", "rejected", "codegen"}
      /\ Parse \/ ast' = ast
  BY FrontEndGoesOn
<1>2. AddressInv /\ AssignsNamed /\ pos = NotCalled
  BY <1>1 DEF FlowInv
<1>3. blocks = <<>> /\ cgPc = 1 /\ WalkInv
  BY <1>1, <1>2 DEF AddressInv, CgInv, BreakInv
<1>4. AssignsNamed'
  BY <1>1, <1>2, <1>3, AssignsParsed DEF AssignsNamed
<1>5. blocks' = <<>> /\ cgPc' = 1 /\ pos' = NotCalled /\ NotCalled' = NotCalled
  BY <1>2, <1>3 DEF cgVars, NotCalled
<1>6. \A n \in 1 .. cgPc' - 1 : FALSE
  BY <1>5
<1> QED
  BY <1>1, <1>4, <1>5, <1>6 DEF FlowInv

LEMMA VisitFlow ==
  ASSUME FlowInv, AddressInv', CgVisit, ~CgFinish, UNCHANGED pos
  PROVE  FlowInv'
<1>1. phase = "codegen" /\ ((phase' = "failed" /\ ast' = ast) \/ UNCHANGED tcVars)
  BY VisitGoesOn
<1>2. AssignsNamed /\ pos' = NotCalled /\ NotCalled' = NotCalled
  BY <1>1 DEF FlowInv, NotCalled
<1>3. CASE phase' = "failed" /\ ast' = ast
  <2>1. AssignsNamed'
    BY <1>2, <1>3 DEF AssignsNamed
  <2> QED
    BY <1>2, <1>3, <2>1 DEF FlowInv
<1>4. CASE UNCHANGED tcVars
  <2>1. phase' = "codegen" /\ ast' = ast
    BY <1>1, <1>4 DEF tcVars
  <2>2. AssignsNamed'
    BY <1>2, <2>1 DEF AssignsNamed
  <2>3. (\A n \in 1 .. cgPc - 1 : ast[n].k = "break" => LoopsAround(n) # {})'
    BY <2>1, VisitBreaks, SameFlow
  <2>4. ASSUME BreaksInLoops'
        PROVE  FlowAt(cgPc, blocks, cur, frames)' /\ blocks' # <<>>
    <3>1. BreaksInLoops
      BY <2>1, <2>4, SameFlow
    <3>2. FlowAt(cgPc', blocks', cur', frames')
      BY <2>1, <3>1, EntryFlow, PlainFlow, ReturnFlow, BreakFlow, IfFlow, ElifFlow, ElseFlow, EndIfFlow,
         WhileFlow, ForFlow, EndWhileFlow, EndForFlow DEF CgVisit
    <3>3. cur' \in 1 .. Len(blocks')
      BY <3>2 DEF FlowAt
    <3> QED
      BY <2>1, <3>2, <3>3, SameFlow
  <2> QED
    BY <1>2, <2>1, <2>2, <2>3, <2>4 DEF FlowInv
<1> QED
  BY <1>1, <1>3, <1>4

LEMMA FinishedFlow ==
  ASSUME FlowInv, AddressInv', CgFinish, UNCHANGED pos
  PROVE  FlowInv'
<1>1. phase = "codegen" /\ ast' = ast
  BY DEF CgFinish, Fail
<1>2. AssignsNamed /\ pos' = NotCalled /\ NotCalled' = NotCalled
  BY <1>1 DEF FlowInv, NotCalled
<1>3. AssignsNamed'
  BY <1>1, <1>2 DEF AssignsNamed
<1>4. \/ phase' \in {"failed", "malformed"}
      \/ phase' = "run" /\ Len(ast) \in Nat /\ Len(ast) <= MaxNodes /\ Runs'
  BY FinishFlow
<1> QED
  BY <1>1, <1>2, <1>3, <1>4 DEF FlowInv

\* A block that has an instruction left has one after each effect.
LEMMA EffectGoesOn ==
  ASSUME NEW x, BlockOK(x), NEW k \in 1 .. Len(x.ins), x.ins[k].op = "eff"
  PROVE  k + 1 \in 1 .. Len(x.ins)
<1>1. HasTerminator(x)
  BY DEF BlockOK
<1>2. k # Len(x.ins)
  BY <1>1 DEF HasTerminator, Terminators
<1> QED
  BY <1>2

-------------------------------------------------------------------------------
(* Where branches land.                                                    *)

\* What the block b comes to when f is where the others do.
Lands(f, b) ==
  LET i == blocks[b].ins[1]
  IN  IF i.op = "br" THEN f[i.to[1]] ELSE PointOf(i)

LEMMA LandingIs == Landing = CHOOSE f : f = [b \in 1 .. Len(blocks) |-> Lands(f, b)]
BY DEF Landing, Lands

\* The finished function: every instruction of it is right, and it leaves no
\* block but through its last instruction.
LEMMA FinishedIsRight ==
  ASSUME Runs, NEW b \in 1 .. Len(blocks)
  PROVE  /\ \A k \in 1 .. Len(blocks[b].ins) : Right(blocks, blocks[b].ins[k], StandsAt(blocks[b], k))
         /\ 1 \in 1 .. Len(blocks[b].ins) /\ blocks[b].ins # <<>>
         /\ Onwards(blocks, blocks[b]) /\ BlockOK(blocks[b])
         /\ Begins(blocks[b]) \in 1 .. Len(ast) + 2
<1>1. /\ \A c \in 1 .. Len(blocks) : BlockOK(blocks[c])
      /\ IsSeq(blocks[b].ins) /\ Begins(blocks[b]) \in 1 .. Len(ast) + 2
      /\ AllStraight(blocks) => Flows(blocks, blocks[b])
  BY DEF Runs, Flowing, IsPlain
<1>2. AllStraight(blocks)
  BY <1>1 DEF AllStraight, Straight, BlockOK
<1>3. blocks[b].ins # <<>>
  BY <1>1 DEF BlockOK, HasTerminator
<1>4. 1 \in 1 .. Len(blocks[b].ins)
  BY <1>1, <1>3, FrontSeq
<1> QED
  BY <1>1, <1>2, <1>3, <1>4 DEF Flows

\* Branches lead on until they come to an instruction that is none, so that
\* their rule has one solution at most.
LEMMA LandsOnce ==
  ASSUME Runs, Len(ast) \in Nat,
         NEW f, \A b \in 1 .. Len(blocks) : f[b] = Lands(f, b),
         NEW g, \A b \in 1 .. Len(blocks) : g[b] = Lands(g, b)
  PROVE  \A b \in 1 .. Len(blocks) : f[b] = g[b]
<1> DEFINE D == {n \in 1 .. Len(ast) + 2 :
                   \E b \in 1 .. Len(blocks) : Begins(blocks[b]) = n /\ f[b] # g[b]}
<1>1. ASSUME NEW b \in 1 .. Len(blocks), f[b] # g[b]
      PROVE  Begins(blocks[b]) \in D /\ \E n \in D : Begins(blocks[b]) < n
  <2> DEFINE i == blocks[b].ins[1]
             t == i.to[1]
  <2>1. /\ Right(blocks, i, StandsAt(blocks[b], 1)) /\ blocks[b].ins # <<>>
        /\ Onwards(blocks, blocks[b]) /\ Begins(blocks[b]) \in 1 .. Len(ast) + 2
    BY FinishedIsRight
  <2>2. f[b] = (IF i.op = "br" THEN f[t] ELSE PointOf(i)) /\ g[b] = (IF i.op = "br" THEN g[t] ELSE PointOf(i))
    BY DEF Lands
  <2>3. i.op = "br" /\ f[t] # g[t]
    BY <1>1, <2>2
  <2>4. t \in 1 .. Len(blocks)
    BY <2>1, <2>3 DEF Right, GoesWithin
  <2>5. Begins(blocks[b]) < Begins(blocks[t])
    BY <2>1, <2>3 DEF Onwards
  <2>6. Begins(blocks[t]) \in 1 .. Len(ast) + 2
    BY <2>4, FinishedIsRight
  <2> HIDE DEF t
  <2> QED
    BY <1>1, <2>1, <2>3, <2>4, <2>5, <2>6
<1>2. ASSUME NEW b \in 1 .. Len(blocks), f[b] # g[b]
      PROVE  FALSE
  <2> DEFINE m == Max(D)
  <2>1. D # {} /\ D \subseteq 1 .. Len(ast) + 2 /\ Len(ast) + 2 \in Nat
    <3>1. Begins(blocks[b]) \in D
      BY <1>1, <1>2
    <3>2. D \subseteq 1 .. Len(ast) + 2
      OBVIOUS
    <3> HIDE DEF D
    <3> QED
      BY <3>1, <3>2
  <2>2. m \in D /\ \A y \in D : y <= m
    BY <2>1, MaxIsGreatest
  <2> HIDE DEF m
  <2>3. PICK c \in 1 .. Len(blocks) : Begins(blocks[c]) = m /\ f[c] # g[c]
    BY <2>2
  <2>4. PICK n \in D : m < n
    BY <1>1, <2>3
  <2>5. m \in Nat /\ n \in Nat /\ n <= m
    BY <2>1, <2>2
  <2> QED
    BY <2>4, <2>5
<1> QED
  BY <1>2

\* Control comes to the point that the block is there for.
LEMMA LandingLeads ==
  ASSUME Runs, Len(ast) \in Nat, NEW b \in 1 .. Len(blocks)
  PROVE  Landing[b] = Leads(blocks[b])
<1> DEFINE g == [c \in 1 .. Len(blocks) |-> Leads(blocks[c])]
           Rule(f) == f = [c \in 1 .. Len(blocks) |-> Lands(f, c)]
<1>1. \A c \in 1 .. Len(blocks) : g[c] = Leads(blocks[c])
  OBVIOUS
<1>2. ASSUME NEW c \in 1 .. Len(blocks)
      PROVE  g[c] = Lands(g, c)
  <2> DEFINE i == blocks[c].ins[1]
  <2>1. Right(blocks, i, Leads(blocks[c]))
    BY FinishedIsRight DEF StandsAt
  <2>2. CASE i.op = "br"
    <3>1. i.to[1] \in 1 .. Len(blocks) /\ Leads(blocks[i.to[1]]) = Leads(blocks[c])
      BY <2>1, <2>2 DEF Right, GoesWithin
    <3> QED
      BY <1>1, <2>2, <3>1 DEF Lands
  <2>3. CASE i.op # "br"
    BY <1>1, <2>1, <2>3 DEF Lands, Right
  <2> QED
    BY <2>2, <2>3
<1> DEFINE h == [c \in 1 .. Len(blocks) |-> Lands(g, c)]
<1>3. g = h
  <2>1. \A c \in 1 .. Len(blocks) : g[c] = h[c]
    BY <1>2
  <2> QED
    BY <2>1
<1>4. Rule(g)
  BY <1>3
<1> HIDE DEF g, h
<1>5. Landing = CHOOSE f : Rule(f)
  BY LandingIs
<1>6. Rule(Landing)
  <2> HIDE DEF Rule
  <2> QED
    BY <1>4, <1>5
<1> HIDE DEF Landing
<1>7. \A c \in 1 .. Len(blocks) : Landing[c] = Lands(Landing, c)
  BY <1>6
<1>8. \A c \in 1 .. Len(blocks) : Landing[c] = g[c]
  BY <1>2, <1>7, LandsOnce
<1> QED
  BY <1>1, <1>8

\* The point that the execution stands before at the instruction p.
MeaningAt(p) ==
  IF Fetch(p).op = "br" THEN Landing[Fetch(p).to[1]] ELSE PointOf(Fetch(p))

LEMMA MeaningStands ==
  ASSUME Runs, Len(ast) \in Nat, NEW p, p[1] \in 1 .. Len(blocks), p[2] \in 1 .. Len(blocks[p[1]].ins)
  PROVE  MeaningAt(p) = StandsAt(blocks[p[1]], p[2])
<1> DEFINE i == Fetch(p)
           q == StandsAt(blocks[p[1]], p[2])
<1>1. Right(blocks, i, q)
  BY FinishedIsRight DEF Fetch
<1>2. CASE i.op = "br"
  <2>1. i.to[1] \in 1 .. Len(blocks) /\ Leads(blocks[i.to[1]]) = q
    BY <1>1, <1>2 DEF Right, GoesWithin
  <2> QED
    BY <1>2, <2>1, LandingLeads DEF MeaningAt
<1>3. CASE i.op # "br"
  BY <1>1, <1>3 DEF Right, MeaningAt
<1> QED
  BY <1>2, <1>3

LEMMA SameMeaning ==
  ASSUME blocks' = blocks
  PROVE  \A p : Fetch(p)' = Fetch(p) /\ MeaningAt(p)' = MeaningAt(p)
<1>1. Landing' = Landing
  BY DEF Landing, PointOf
<1> QED
  BY <1>1 DEF MeaningAt, Fetch, PointOf

-------------------------------------------------------------------------------
(* The run.                                                                *)

\* In the finished function the next instruction is one of it, and right.
LEMMA AtRun ==
  ASSUME FlowInv, phase = "run", pos # NotCalled
  PROVE  LET x == blocks[pos[1]]
             i == Fetch(pos)
         IN  /\ Runs /\ Len(ast) \in Nat /\ Len(ast) <= MaxNodes
             /\ pos[1] \in 1 .. Len(blocks) /\ pos[2] \in 1 .. Len(x.ins) /\ i = x.ins[pos[2]]
             /\ Right(blocks, i, StandsAt(x, pos[2])) /\ BlockOK(x)
<1>1. Runs /\ Len(ast) \in Nat /\ Len(ast) <= MaxNodes /\ Arrived
  BY DEF FlowInv
<1>2. pos[1] \in 1 .. Len(blocks) /\ pos[2] \in 1 .. Len(blocks[pos[1]].ins)
  BY <1>1 DEF Arrived
<1> QED
  BY <1>1, <1>2, FinishedIsRight DEF Fetch

\* A step of the function comes to an instruction of it.
LEMMA StepArrives ==
  ASSUME FlowInv, ExCall \/ ExEffect \/ ExBr \/ (\E i \in {1, 2} : ExCondBr(i))
  PROVE  /\ phase = "run" /\ UNCHANGED vars /\ Arrived' /\ pos' # NotCalled
         /\ Runs /\ Len(ast) \in Nat /\ Len(ast) <= MaxNodes
<1>1. phase = "run" /\ UNCHANGED vars
  BY DEF ExCall, ExEffect, ExBr, ExCondBr, Running
<1>2. Runs /\ Len(ast) \in Nat /\ Len(ast) <= MaxNodes
  BY <1>1 DEF FlowInv
<1>3. /\ \A b \in 1 .. Len(blocks) : 1 \in 1 .. Len(blocks[b].ins)
      /\ 1 \in 1 .. Len(blocks)
  <2>1. IsSeq(blocks) /\ blocks # <<>>
    BY <1>2 DEF Runs, Flowing
  <2>2. 1 \in 1 .. Len(blocks)
    BY <2>1, FrontSeq
  <2> QED
    BY <1>2, <2>2, FinishedIsRight
<1>4. \E b \in 1 .. Len(blocks) : \E k \in 1 .. Len(blocks[b].ins) : pos' = <<b, k>>
  <2>1. CASE ExCall
    BY <1>3, <2>1 DEF ExCall
  <2>2. CASE ExEffect
    <3>1. phase = "run" /\ pos # NotCalled /\ Fetch(pos).op = "eff" /\ pos' = <<pos[1], pos[2] + 1>>
      BY <2>2 DEF ExEffect, Running
    <3>2. pos[2] + 1 \in 1 .. Len(blocks[pos[1]].ins)
      BY <3>1, AtRun, EffectGoesOn
    <3> QED
      BY <3>1, <3>2, AtRun
  <2>3. CASE ExBr
    <3>1. phase = "run" /\ pos # NotCalled /\ Fetch(pos).op = "br" /\ pos' = <<Fetch(pos).to[1], 1>>
      BY <2>3 DEF ExBr, Running
    <3>2. Fetch(pos).to[1] \in 1 .. Len(blocks)
      BY <3>1, AtRun DEF Right, GoesWithin
    <3> QED
      BY <1>3, <3>1, <3>2
  <2>4. ASSUME NEW i \in {1, 2}, ExCondBr(i)
        PROVE  \E b \in 1 .. Len(blocks) : \E k \in 1 .. Len(blocks[b].ins) : pos' = <<b, k>>
    <3>1. phase = "run" /\ pos # NotCalled /\ Fetch(pos).op = "condbr" /\ pos' = <<Fetch(pos).to[i], 1>>
      BY <2>4 DEF ExCondBr, Running
    <3>2. Fetch(pos).to[i] \in 1 .. Len(blocks)
      BY <3>1, AtRun DEF Right, GoesWithin
    <3> QED
      BY <1>3, <3>1, <3>2
  <2> QED
    BY <2>1, <2>2, <2>3, <2>4
<1>5. PICK b \in 1 .. Len(blocks) : \E k \in 1 .. Len(blocks[b].ins) : pos' = <<b, k>>
  BY <1>4
<1>6. blocks' = blocks
  BY <1>1 DEF vars, cgVars
<1>7. pos' # NotCalled /\ Arrived'
  BY <1>5, <1>6 DEF NotCalled, Arrived
<1> QED
  BY <1>1, <1>2, <1>7

\* Nothing that the invariant is about changes but pos.
LEMMA StillFlow ==
  ASSUME FlowInv, UNCHANGED vars, pos' # NotCalled => phase \in {"run", "done"} /\ Arrived',
         phase = "done" => pos' # NotCalled
  PROVE  FlowInv'
<1>1. phase' = phase /\ ast' = ast /\ blocks' = blocks /\ cgPc' = cgPc /\ cur' = cur /\ frames' = frames
  BY DEF vars, tcVars, cgVars
<1>2. (phase # "done" => AddressInv)'
  BY <1>1, AddressInvNext DEF FlowInv
<1>3. AssignsNamed'
  BY <1>1, SameRuns DEF FlowInv
<1>4. (phase = "codegen" => \A n \in 1 .. cgPc - 1 : ast[n].k = "break" => LoopsAround(n) # {})'
  BY <1>1, SameFlow DEF FlowInv
<1>5. (phase = "codegen" /\ BreaksInLoops =>
         IF blocks = <<>> THEN cgPc = 1 ELSE FlowAt(cgPc, blocks, cur, frames))'
  <2>1. FlowAt(cgPc, blocks, cur, frames)' <=> FlowAt(cgPc, blocks, cur, frames)
    BY <1>1, SameFlow
  <2> QED
    BY <1>1, <2>1, SameFlow DEF FlowInv
<1>6. (phase \in {"run", "done"} => Len(ast) \in Nat /\ Len(ast) <= MaxNodes /\ Runs)'
  BY <1>1, SameRuns DEF FlowInv
<1>7. (pos # NotCalled => phase \in {"run", "done"} /\ Arrived)'
  BY <1>1 DEF NotCalled
<1>8. (phase = "done" => pos # NotCalled)'
  BY <1>1 DEF NotCalled
<1> QED
  BY <1>2, <1>3, <1>4, <1>5, <1>6, <1>7, <1>8 DEF FlowInv

LEMMA ReturnedFlow ==
  ASSUME FlowInv, ExRet
  PROVE  FlowInv'
<1>1. /\ phase = "run" /\ phase' = "done" /\ ast' = ast /\ blocks' = blocks /\ pos' = pos
      /\ pos # NotCalled
  BY DEF ExRet, Running, cgVars
<1>2. AssignsNamed' /\ Runs' /\ Len(ast) \in Nat /\ Len(ast) <= MaxNodes
  BY <1>1, SameRuns DEF FlowInv
<1>3. Arrived'
  BY <1>1 DEF FlowInv, Arrived
<1>4. pos' # NotCalled'
  BY <1>1 DEF NotCalled
<1> QED
  BY <1>1, <1>2, <1>3, <1>4 DEF FlowInv

LEMMA FlowInvInit == ExInit => FlowInv
<1> SUFFICES ASSUME ExInit PROVE FlowInv
  OBVIOUS
<1>1. AddressInv
  BY AddressInvInit DEF ExInit
<1>2. phase = "parse" /\ ast = <<>> /\ pos = NotCalled
  BY DEF ExInit, TcInit, ParseInit
<1>3. AssignsNamed
  BY <1>2 DEF AssignsNamed
<1> QED
  BY <1>1, <1>2, <1>3 DEF FlowInv

LEMMA FlowInvNext == FlowInv /\ [ExNext]_execVars => FlowInv'
<1> SUFFICES ASSUME FlowInv, [ExNext]_execVars PROVE FlowInv'
  OBVIOUS
<1>1. CASE Compile
  <2>1. CgNext /\ UNCHANGED pos
    BY <1>1 DEF Compile
  <2>2. phase \in {"parse", "typecheck", "codegen"}
    BY <2>1, FrontEndGoesOn, VisitGoesOn DEF CgNext, CgFinish
  <2>3. AddressInv'
    BY <2>1, <2>2, AddressInvNext DEF FlowInv
  <2> QED
    BY <2>1, <2>3, FrontEndFlow, VisitFlow, FinishedFlow DEF CgNext
<1>2. CASE ExCall \/ ExEffect \/ ExBr \/ (\E i \in {1, 2} : ExCondBr(i))
  BY <1>2, StepArrives, StillFlow
<1>3. CASE ExRet
  BY <1>3, ReturnedFlow
<1>4. CASE UNCHANGED execVars
  <2>1. UNCHANGED vars /\ pos' = pos /\ blocks' = blocks
    BY <1>4 DEF execVars, vars, cgVars
  <2>2. /\ pos' # NotCalled => phase \in {"run", "done"} /\ Arrived'
        /\ phase = "done" => pos' # NotCalled
    BY <2>1 DEF FlowInv, Arrived
  <2> QED
    BY <2>1, <2>2, StillFlow
<1> QED
  BY <1>1, <1>2, <1>3, <1>4 DEF ExNext, Run

-------------------------------------------------------------------------------
(* The steps of the source.                                                *)

LEMMA PointIs ==
  ASSUME NEW i
  PROVE  /\ i.op = "condbr" => PointOf(i) = <<i.n, "cd">>
         /\ i.op = "ret" => PointOf(i) = <<i.n, "return">>
         /\ i.op = "eff" => PointOf(i) = <<i.n, i.role>>
BY DEF PointOf

LEMMA MeaningIs ==
  ASSUME phase = "done" => pos # NotCalled
  PROVE  /\ phase # "done" /\ pos = NotCalled => Meaning = <<0, "idle">>
         /\ phase = "done" => Meaning = <<0, "done">>
         /\ phase = "run" /\ pos # NotCalled => Meaning = MeaningAt(pos)
<1>1. CASE phase = "done"
  BY <1>1 DEF Meaning, Running
<1>2. CASE phase # "done" /\ pos = NotCalled
  BY <1>2 DEF Meaning, Running
<1>3. CASE phase = "run" /\ pos # NotCalled
  BY <1>3 DEF Meaning, MeaningAt, Running
<1> QED
  BY <1>1, <1>2, <1>3

\* What a step of the function leads to.
LEMMA MeaningNext ==
  ASSUME FlowInv, ExCall \/ ExEffect \/ ExBr \/ (\E i \in {1, 2} : ExCondBr(i))
  PROVE  Meaning' = StandsAt(blocks[pos'[1]], pos'[2])
<1>1. /\ phase = "run" /\ UNCHANGED vars /\ Arrived' /\ pos' # NotCalled
      /\ Runs /\ Len(ast) \in Nat
  BY StepArrives
<1>2. blocks' = blocks /\ phase' = phase
  BY <1>1 DEF vars, tcVars, cgVars
<1>3. pos'[1] \in 1 .. Len(blocks) /\ pos'[2] \in 1 .. Len(blocks[pos'[1]].ins)
  BY <1>1, <1>2 DEF Arrived
<1>4. MeaningAt(pos') = StandsAt(blocks[pos'[1]], pos'[2])
  BY <1>1, <1>3, MeaningStands
<1>5. Meaning' = MeaningAt(pos)'
  <2>1. phase' = "run" /\ pos' # NotCalled'
    BY <1>1, <1>2 DEF NotCalled
  <2> QED
    BY <2>1 DEF Meaning, MeaningAt, Running
<1>6. MeaningAt(pos)' = MeaningAt(pos')
  <2>1. Landing' = Landing
    BY <1>2 DEF Landing, PointOf
  <2> QED
    BY <1>2, <2>1 DEF MeaningAt, Fetch, PointOf
<1> QED
  BY <1>4, <1>5, <1>6

\* A step of the function is the step of the source at the point it is at, or
\* a branch on the way to the next.
LEMMA EffectDoes ==
  ASSUME FlowInv, ExEffect
  PROVE  (S!Do \/ S!Epilogue) /\ ast' = ast
<1> DEFINE x == blocks[pos[1]]
           i == Fetch(pos)
<1>1. phase = "run" /\ pos # NotCalled /\ i.op = "eff" /\ pos' = <<pos[1], pos[2] + 1>> /\ UNCHANGED vars
  BY DEF ExEffect, Running
<1>2. /\ Len(ast) \in Nat /\ Len(ast) <= MaxNodes
      /\ pos[2] \in 1 .. Len(x.ins) /\ i = x.ins[pos[2]]
      /\ Right(blocks, i, StandsAt(x, pos[2]))
  BY <1>1, AtRun
<1>3. i.role \in {"do", "ep"} /\ i.n \in 1 .. Len(ast)
  BY <1>1, <1>2, SMTT(40) DEF Right
<1>4. Meaning = <<i.n, i.role>>
  <2>1. Meaning = MeaningAt(pos)
    BY <1>1, MeaningIs
  <2> QED
    BY <1>1, <2>1, PointIs DEF MeaningAt
<1>5. Meaning' = Then(i)
  <2>1. Meaning' = StandsAt(x, pos[2] + 1)
    BY <1>1, MeaningNext
  <2>2. pos[2] + 1 # 1 /\ (pos[2] + 1) - 1 = pos[2]
    BY <1>2
  <2> QED
    BY <1>2, <2>1, <2>2 DEF StandsAt
<1>6. ast' = ast
  BY <1>1 DEF vars, tcVars
<1> HIDE DEF x, i
<1>7. Meaning \in S!Points /\ Meaning[1] = i.n /\ Meaning[2] = i.role
  BY <1>2, <1>3, <1>4, AstAssumption DEF S!Points
<1>8. CASE i.role = "do"
  <2>1. Meaning' = IF ast[i.n].k \in Loops THEN <<i.n, "cd">> ELSE First[i.n + 1]
    BY <1>5, <1>8 DEF Then
  <2> QED
    BY <1>6, <1>7, <1>8, <2>1 DEF S!Do, S!Here, First, Loops, S!Loops
<1>9. CASE i.role = "ep"
  <2>1. Meaning' = <<i.n, "cd">>
    BY <1>5, <1>9 DEF Then
  <2> QED
    BY <1>6, <1>7, <1>9, <2>1 DEF S!Epilogue, S!Here
<1> QED
  BY <1>3, <1>8, <1>9

LEMMA BranchStutters ==
  ASSUME FlowInv, ExBr
  PROVE  Meaning' = Meaning /\ ast' = ast
<1> DEFINE i == Fetch(pos)
<1>1. phase = "run" /\ pos # NotCalled /\ i.op = "br" /\ pos' = <<i.to[1], 1>> /\ UNCHANGED vars
  BY DEF ExBr, Running
<1>2. /\ Runs /\ Len(ast) \in Nat
      /\ Right(blocks, i, StandsAt(blocks[pos[1]], pos[2]))
  BY <1>1, AtRun
<1>3. i.to[1] \in 1 .. Len(blocks)
  BY <1>1, <1>2 DEF Right, GoesWithin
<1>4. Meaning = Landing[i.to[1]]
  BY <1>1, MeaningIs DEF MeaningAt
<1>5. Meaning' = Leads(blocks[i.to[1]])
  <2>1. Meaning' = StandsAt(blocks[i.to[1]], 1)
    BY <1>1, MeaningNext
  <2> QED
    BY <2>1 DEF StandsAt
<1>6. Landing[i.to[1]] = Leads(blocks[i.to[1]])
  BY <1>2, <1>3, LandingLeads
<1>7. ast' = ast
  BY <1>1 DEF vars, tcVars
<1> QED
  BY <1>4, <1>5, <1>6, <1>7

LEMMA ConditionHolds ==
  ASSUME FlowInv, NEW j \in {1, 2}, ExCondBr(j)
  PROVE  (S!Hold \/ S!NotHold) /\ ast' = ast
<1> DEFINE i == Fetch(pos)
<1>1. phase = "run" /\ pos # NotCalled /\ i.op = "condbr" /\ pos' = <<i.to[j], 1>> /\ UNCHANGED vars
  BY DEF ExCondBr, Running
<1>2. /\ Len(ast) \in Nat /\ Len(ast) <= MaxNodes
      /\ Right(blocks, i, StandsAt(blocks[pos[1]], pos[2]))
  BY <1>1, AtRun
<1>3. /\ i.n \in 1 .. Len(ast) + 1
      /\ Leads(blocks[i.to[1]]) = First[i.n + 1] /\ Leads(blocks[i.to[2]]) = S!Otherwise(i.n)
  BY <1>1, <1>2 DEF Right
<1>4. Meaning = <<i.n, "cd">>
  <2>1. Meaning = MeaningAt(pos)
    BY <1>1, MeaningIs
  <2> QED
    BY <1>1, <2>1, PointIs DEF MeaningAt
<1>5. Meaning' = Leads(blocks[i.to[j]])
  <2>1. Meaning' = StandsAt(blocks[i.to[j]], 1)
    BY <1>1, MeaningNext
  <2> QED
    BY <2>1 DEF StandsAt
<1>6. ast' = ast
  BY <1>1 DEF vars, tcVars
<1>7. Meaning' = First[i.n + 1] \/ Meaning' = S!Otherwise(i.n)
  BY <1>3, <1>5
<1> HIDE DEF i
<1>8. Meaning \in S!Points /\ Meaning[1] = i.n /\ Meaning[2] = "cd"
  BY <1>2, <1>3, <1>4, AstAssumption DEF S!Points
<1> QED
  BY <1>6, <1>7, <1>8 DEF S!Hold, S!NotHold, S!Here, First

LEMMA CallBegins ==
  ASSUME FlowInv, ExCall
  PROVE  S!Call /\ ast' = ast
<1>1. phase = "run" /\ pos = NotCalled /\ pos' = <<1, 1>> /\ UNCHANGED vars
  BY DEF ExCall
<1>2. Runs
  BY <1>1 DEF FlowInv
<1>3. Meaning = <<0, "idle">>
  BY <1>1, MeaningIs
<1>4. Meaning' = First[1]
  <2>1. Meaning' = StandsAt(blocks[1], 1)
    BY <1>1, MeaningNext
  <2>2. Leads(blocks[1]) = First[1]
    BY <1>2, LeadsIs DEF Runs
  <2> QED
    BY <2>1, <2>2 DEF StandsAt
<1>5. ast' = ast
  BY <1>1 DEF vars, tcVars
<1> QED
  BY <1>3, <1>4, <1>5 DEF S!Call, S!Idle, First

LEMMA ReturnEnds ==
  ASSUME FlowInv, ExRet
  PROVE  S!Return /\ ast' = ast
<1> DEFINE i == Fetch(pos)
<1>1. /\ phase = "run" /\ pos # NotCalled /\ i.op = "ret" /\ phase' = "done" /\ pos' = pos /\ ast' = ast
  BY DEF ExRet, Running
<1>2. /\ Len(ast) \in Nat /\ Len(ast) <= MaxNodes
      /\ Right(blocks, i, StandsAt(blocks[pos[1]], pos[2]))
  BY <1>1, AtRun
<1>3. i.n \in 1 .. Len(ast) + 1
  BY <1>2 DEF Right
<1>4. Meaning = <<i.n, "return">>
  <2>1. Meaning = MeaningAt(pos)
    BY <1>1, MeaningIs
  <2> QED
    BY <1>1, <2>1, PointIs DEF MeaningAt
<1>5. Meaning' = <<0, "done">>
  <2>1. phase' = "done" /\ pos' # NotCalled'
    BY <1>1 DEF NotCalled
  <2> QED
    BY <2>1 DEF Meaning, Running
<1> HIDE DEF i
<1>6. Meaning \in S!Points /\ Meaning[2] = "return"
  BY <1>2, <1>3, <1>4, AstAssumption DEF S!Points
<1> QED
  BY <1>1, <1>5, <1>6 DEF S!Return, S!Here, S!Done

LEMMA MeaningSteps ==
  ASSUME FlowInv, [ExNext]_execVars
  PROVE  [S!Write \/ S!Execute]_<<ast, Meaning>>
<1>1. CASE Compile
  <2>1. CgNext /\ pos' = pos
    BY <1>1 DEF Compile
  <2>2. phase \in {"parse", "typecheck", "codegen"}
    BY <2>1, FrontEndGoesOn, VisitGoesOn DEF CgNext, CgFinish
  <2>3. pos = NotCalled /\ Meaning = <<0, "idle">>
    BY <2>2, MeaningIs DEF FlowInv
  <2>4. Meaning' = <<0, "idle">>
    <3>1. FlowInv'
      BY FlowInvNext
    <3>2. pos' = NotCalled' /\ phase' # "done"
      BY <2>1, <2>3, <3>1 DEF FlowInv, NotCalled
    <3> QED
      BY <3>2 DEF Meaning, Running
  <2> QED
    BY <2>3, <2>4 DEF S!Write, S!Idle
<1>2. CASE Run
  BY <1>2, CallBegins, EffectDoes, BranchStutters, ConditionHolds, ReturnEnds DEF Run, S!Execute
<1>3. CASE UNCHANGED execVars
  <2>1. /\ ast' = ast /\ blocks' = blocks /\ pos' = pos /\ phase' = phase
    BY <1>3 DEF execVars, vars, tcVars, cgVars
  <2>2. Landing' = Landing
    BY <2>1 DEF Landing, PointOf
  <2>3. Meaning' = Meaning
    BY <2>1, <2>2 DEF Meaning, Running, Fetch, PointOf, NotCalled
  <2> QED
    BY <2>1, <2>3
<1> QED
  BY <1>1, <1>2, <1>3 DEF ExNext

-------------------------------------------------------------------------------
(* The theorem.                                                            *)

(***************************************************************************)
(* For every procedure that compiles to a function LLVM accepts: every run *)
(* of the function goes through the statements of the source as their      *)
(* structure says. It comes to the then block when the condition holds and *)
(* to the next clause, or past the tree, when it does not; it leaves and   *)
(* repeats the loop it is in; a break goes to the end of the innermost     *)
(* loop and a return to the end of the procedure (CodeGen::visit of        *)
(* IfNode, WhileNode, ForNode, BreakNode, ReturnNode and ProcedureNode).   *)
(***************************************************************************)
THEOREM GeneratedRunsAsWritten == ExSpec => RunsAsWritten
<1>1. ExInit => Meaning = S!Idle
  <2> SUFFICES ASSUME ExInit PROVE Meaning = S!Idle
    OBVIOUS
  <2>1. phase = "parse" /\ pos = NotCalled
    BY DEF ExInit, TcInit, ParseInit
  <2> QED
    BY <2>1, MeaningIs DEF S!Idle
<1>2. FlowInv /\ [ExNext]_execVars => [S!Write \/ S!Execute]_<<ast, Meaning>>
  BY MeaningSteps
<1>3. ExSpec => []FlowInv
  BY FlowInvInit, FlowInvNext, PTL DEF ExSpec
<1> QED
  BY <1>1, <1>2, <1>3, PTL DEF ExSpec, RunsAsWritten, S!StructuredSpec
===============================================================================
