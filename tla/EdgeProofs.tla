------------------------------- MODULE EdgeProofs ------------------------------
(***************************************************************************)
(* Proofs about ControlFlow: what the graph promises to the passes that    *)
(* copy PHIs.  A JOIN has two predecessors, the first of which jumps to it *)
(* and the second of which falls into it (JoinOK), and a branch has the    *)
(* successors it chooses between as soon as its statement is complete      *)
(* (BranchOK).  Both fail if a handler writes to the branch instruction of *)
(* a block that already leads into a JOIN: nothing is parsed below such a  *)
(* block (Apart).                                                          *)
(***************************************************************************)
EXTENDS ControlFlowProofs

IsJoin(I, b) == I.blocks[b].type = "JOIN"

\* p leads into a JOIN.
InJoin(I, p) == \E b \in Indices(I) : IsJoin(I, b) /\ p \in Preds(I, b)

\* The blocks a conditional branch at the end of b chooses between.
WayType == {"IF_FALLTHROUGH", "IF_BRANCH", "WHILE_FALLTHROUGH", "WHILE_BRANCH"}

Ways(I, b) == {s \in Succs(I, b) : I.blocks[s].type \in WayType}

Forked(I, b) == \E s, t \in Ways(I, b) : s # t

\* The edges: none is entered twice, only a JOIN has two predecessors, only the
\* first block of a function comes after the const block, a loop header is older
\* than the end of its loop, and a block that jumps back has the last word about
\* its loop.
TwoPreds(I, b) ==
  \E p1, p2 \in Indices(I) : p1 # p2 /\ I.blocks[b].predecessors = <<p1, p2>>

OnePred(I, b) ==
  /\ Len(I.blocks[b].predecessors) = 1
  /\ 0 \in Preds(I, b) => I.blocks[b].type = "NONE"

HeaderOf(I, h, w) == w \in Indices(I) /\ h < w

LoopOf(I, w, h) == h \in Indices(I) /\ h < w /\ I.blocks[h].branch_block = w

EdgesOK(I) ==
  /\ \A b \in 0..(I.size - 1) : IsInjective(I.blocks[b].successors)
  /\ \A b \in Indices(I) :
       IF IsJoin(I, b) THEN TwoPreds(I, b) ELSE OnePred(I, b)
  /\ \A b \in Indices(I) : is_loop_header(I, b) =>
       I.blocks[b].type = "INVALID" /\ HeaderOf(I, b, I.blocks[b].branch_block)
  /\ \A b \in Indices(I) : is_branch_back(I, b) => LoopOf(I, b, I.blocks[b].loop_header)

\* The then part, p1, jumps to the JOIN, and the else part falls into it.
JumpsIn(I, b, p1) == I.blocks[p1].op = "BRA" /\ I.blocks[p1].larg = b

FallsIn(I, p2) ==
  \/ I.blocks[p2].op = "EMPTY" \/ is_branch_back(I, p2)
  \/ Len(I.blocks[p2].successors) > 2

JoinOK(I, b) ==
  JumpsIn(I, b, I.blocks[b].predecessors[1]) /\ FallsIn(I, I.blocks[b].predecessors[2])

\* Every JOIN but x.
JoinsOK(I, x) == \A b \in Indices(I) : b # x /\ IsJoin(I, b) => JoinOK(I, b)

\* The branch instruction of b has the blocks it needs; those of S may have to
\* wait for one.
JumpsBack(I, b) ==
  I.blocks[b].op = "BRA" /\ I.blocks[b].larg = I.blocks[b].loop_header

BranchOK(I, S, b) ==
  /\ I.blocks[b].op = "RET" => will_return(I, b)
  /\ I.blocks[b].op = "BRA" =>
       \/ will_return(I, b)
       \/ (is_branch_back(I, b) /\ JumpsBack(I, b))
       \/ \E s \in Succs(I, b) : IsJoin(I, s)
  /\ I.blocks[b].op = "Bcc" => Forked(I, b) \/ (b \in S /\ Ways(I, b) # {})
  /\ is_branch_back(I, b) /\ I.blocks[b].successors = <<>> =>
       will_return(I, b) \/ JumpsBack(I, b)

\* Every block but x.
BranchesOK(I, S, x) == \A b \in Indices(I) : b # x => BranchOK(I, S, b)

Settled(I, S) == EdgesOK(I) /\ JoinsOK(I, None) /\ BranchesOK(I, S, None)

\* The activations that still owe their branch a way.
Waiting(f) == Branching(f) /\ ~(f.kind = "if" /\ f.in_else)
OwedWay(q) == {q[i].cond : i \in {k \in 1..Len(q) : Waiting(q[k])}}

\* Nothing is parsed below a block that leads into a JOIN.
Clear(I, b) == \A p \in Indices(I) : InJoin(I, p) => ~Above(I, p, b)

Kept(f) == Live(f) /\ f.kind = "if" /\ f.in_else /\ f.result # "TRUE"

KeptClear(I, q) == \A i \in 1..Len(q) : Kept(q[i]) => Clear(I, q[i].then_block)

Apart(I, q, c) == Clear(I, c) /\ KeptClear(I, q)

\* The activations whose code is in blocks of its own started before it.
Entered(f) == Live(f) /\ (Branching(f) \/ (f.kind = "while" /\ f.result = "FALSE"))

Before(q, c) == \A i \in 1..Len(q) : Entered(q[i]) => q[i].cond < c

Ascending(q) ==
  \A i, j \in 1..Len(q) : i < j /\ Entered(q[i]) /\ Live(q[j]) => q[i].cond < q[j].cond

\* Every loop that is being parsed has a header of its own, which is not yet
\* the header of a closed loop.
LiveLoop(f) == Live(f) /\ f.kind = "while"

OpenLoop(I, h) == ~is_loop_header(I, h) /\ I.blocks[h].type = "INVALID"

LoopsOpen(I, q) == \A i \in 1..Len(q) : LiveLoop(q[i]) => OpenLoop(I, q[i].cond)

OwnHeaders(q) ==
  \A i, j \in 1..Len(q) : LiveLoop(q[i]) /\ LiveLoop(q[j]) /\ i # j => q[i].cond # q[j].cond

Opens(I, q, c) == LoopsOpen(I, q) /\ OwnHeaders(q) /\ Before(q, c) /\ Ascending(q)

\* Nothing is compiled in the else part of an if whose relation holds.
ElseIgnored(f) == Live(f) /\ f.kind = "if" /\ f.result = "FALSE" /\ f.in_else

IgnoredInside(q, flag) ==
  \A i \in 1..Len(q) : ElseIgnored(q[i]) =>
    flag /\ \A j \in (i + 1)..Len(q) : ~Live(q[j])

EInv ==
  /\ DInv
  /\ Settled(ir, OwedWay(frames))
  /\ Parsing => Apart(ir, frames, curr_block) /\ Opens(ir, frames, curr_block)
  /\ IgnoredInside(frames, ignore)

-----------------------------------------------------------------------------
(* The methods of the IR.                                                  *)

\* What the activations know of the blocks stays true but for the loop of h
\* and the new predecessors P of a JOIN.
Extends(I, J, h, P) ==
  /\ \A b \in Indices(I) :
       /\ J.blocks[b].type = I.blocks[b].type
       /\ b # h => J.blocks[b].branch_block = I.blocks[b].branch_block
  /\ \A p : InJoin(J, p) => InJoin(I, p) \/ p \in P

\* J is I with another block b at the same place of the graph.
Rewritten(I, J, b, r) ==
  /\ J.size = I.size
  /\ \A c \in 0..(I.size - 1) : J.blocks[c] = IF c = b THEN r ELSE I.blocks[c]
  /\ r.type = I.blocks[b].type
  /\ r.predecessors = I.blocks[b].predecessors
  /\ r.successors = I.blocks[b].successors

LEMMA RewrittenPlaces ==
  ASSUME NEW I, IROK(I), NEW J, NEW b, NEW r, Rewritten(I, J, b, r)
  PROVE  /\ Indices(J) = Indices(I)
         /\ \A c \in Indices(I) :
              /\ c \in 0..(I.size - 1)
              /\ J.blocks[c].type = I.blocks[c].type
              /\ J.blocks[c].predecessors = I.blocks[c].predecessors
              /\ J.blocks[c].successors = I.blocks[c].successors
              /\ IsJoin(J, c) = IsJoin(I, c)
              /\ Preds(J, c) = Preds(I, c)
              /\ Succs(J, c) = Succs(I, c)
              /\ Ways(J, c) = Ways(I, c)
              /\ Forked(J, c) = Forked(I, c)
              /\ \A s \in Succs(I, c) : s \in Indices(I)
         /\ \A p : InJoin(J, p) = InJoin(I, p)
  <1>1. Indices(J) = Indices(I) /\ \A c \in Indices(I) : c \in 0..(I.size - 1)
    BY DEF Rewritten, Indices, IROK, IRType
  <1>2. \A c \in Indices(I) :
          /\ J.blocks[c].type = I.blocks[c].type
          /\ J.blocks[c].predecessors = I.blocks[c].predecessors
          /\ J.blocks[c].successors = I.blocks[c].successors
    BY <1>1 DEF Rewritten
  <1>3. \A c \in Indices(I) :
          /\ IsJoin(J, c) = IsJoin(I, c)
          /\ Preds(J, c) = Preds(I, c) /\ Succs(J, c) = Succs(I, c)
          /\ \A s \in Succs(I, c) : s \in Indices(I)
    BY <1>2 DEF IsJoin, Preds, Succs, IROK, GraphOK
  <1>4. \A c \in Indices(I) : Ways(J, c) = Ways(I, c)
    BY <1>2, <1>3 DEF Ways
  <1>5. \A c \in Indices(I) : Forked(J, c) = Forked(I, c)
    BY <1>4 DEF Forked
  <1>6. \A p : InJoin(J, p) = InJoin(I, p)
    BY <1>1, <1>3 DEF InJoin
  <1> QED BY <1>1, <1>2, <1>3, <1>4, <1>5, <1>6

LEMMA EveryBranch ==
  ASSUME NEW I, NEW S, BranchesOK(I, S, None), NEW b \in Indices(I)
  PROVE  BranchOK(I, S, b)
  <1>1. b # None
    BY DEF Indices, None
  <1> QED BY <1>1 DEF BranchesOK

LEMMA EveryJoin ==
  ASSUME NEW I, JoinsOK(I, None), NEW b \in Indices(I), IsJoin(I, b)
  PROVE  JoinOK(I, b)
  <1>1. b # None
    BY DEF Indices, None
  <1> QED BY <1>1 DEF JoinsOK

\* A block may become the header of its only loop and jump back to a loop
\* whose header knows of it.
LEMMA RewriteEdges ==
  ASSUME NEW I, IROK(I), EdgesOK(I), NEW J, NEW b \in Indices(I), NEW r,
         Rewritten(I, J, b, r),
         r.branch_block = I.blocks[b].branch_block \/
           (OpenLoop(I, b) /\ HeaderOf(I, b, r.branch_block)),
         r.loop_header = I.blocks[b].loop_header \/
           (r.loop_header # b /\ LoopOf(I, b, r.loop_header))
  PROVE  EdgesOK(J)
  <1>1. /\ Indices(J) = Indices(I)
        /\ \A c \in Indices(I) :
             /\ c \in 0..(I.size - 1)
             /\ J.blocks[c].type = I.blocks[c].type
             /\ J.blocks[c].predecessors = I.blocks[c].predecessors
             /\ IsJoin(J, c) = IsJoin(I, c) /\ Preds(J, c) = Preds(I, c)
    BY RewrittenPlaces
  <1>2. \A c \in 0..(J.size - 1) : IsInjective(J.blocks[c].successors)
    BY DEF Rewritten, EdgesOK
  <1>3. ASSUME NEW c \in Indices(J)
        PROVE  IF IsJoin(J, c) THEN TwoPreds(J, c) ELSE OnePred(J, c)
    BY <1>1, <1>3 DEF EdgesOK, TwoPreds, OnePred
  <1>4. ASSUME NEW c \in Indices(J), is_loop_header(J, c)
        PROVE  J.blocks[c].type = "INVALID" /\ HeaderOf(J, c, J.blocks[c].branch_block)
    <2>1. \/ is_loop_header(I, c) /\ J.blocks[c].branch_block = I.blocks[c].branch_block
          \/ OpenLoop(I, c) /\ HeaderOf(I, c, J.blocks[c].branch_block)
      BY <1>1, <1>4 DEF Rewritten, is_loop_header
    <2> QED BY <1>1, <1>4, <2>1 DEF EdgesOK, OpenLoop, HeaderOf
  <1>5. ASSUME NEW c \in Indices(J), is_branch_back(J, c)
        PROVE  LoopOf(J, c, J.blocks[c].loop_header)
    <2> DEFINE h == J.blocks[c].loop_header
    <2>1. (h # c /\ LoopOf(I, c, h)) \/ h = I.blocks[c].loop_header
      BY <1>1, <1>5 DEF Rewritten
    <2>2. LoopOf(I, c, h)
      BY <1>1, <1>5, <2>1 DEF EdgesOK, is_branch_back
    <2> HIDE DEF h
    <2>3. h \in Indices(I) /\ h < c /\ I.blocks[h].branch_block = c
      BY <2>2 DEF LoopOf
    <2>4. J.blocks[h].branch_block = I.blocks[h].branch_block
      <3>1. c # None
        BY <1>1 DEF Indices, None, IROK, IRType
      <3>2. ~OpenLoop(I, h)
        BY <2>3, <3>1 DEF OpenLoop, is_loop_header
      <3> QED BY <1>1, <2>3, <3>2 DEF Rewritten
    <2> QED BY <1>1, <2>3, <2>4 DEF LoopOf, h
  <1> QED BY <1>2, <1>3, <1>4, <1>5 DEF EdgesOK

\* No JOIN but x counts on the branch instruction of b.
NotBeforeJoin(I, x, b) ==
  \A c \in Indices(I) : c # x /\ IsJoin(I, c) => b \notin Preds(I, c)

\* Only the JOINs behind b can notice another branch instruction of b.
LEMMA RewriteJoins ==
  ASSUME NEW I, IROK(I), EdgesOK(I), NEW x, JoinsOK(I, x),
         NEW J, NEW b \in Indices(I), NEW r, Rewritten(I, J, b, r),
         I.blocks[b].loop_header # None => r.loop_header # None,
         \/ (r.op = I.blocks[b].op /\ r.larg = I.blocks[b].larg)
         \/ NotBeforeJoin(I, x, b)
  PROVE  JoinsOK(J, x)
  <1> SUFFICES ASSUME NEW c \in Indices(I), c # x, IsJoin(I, c)
               PROVE  JoinOK(J, c)
    BY RewrittenPlaces DEF JoinsOK
  <1>1. PICK p1, p2 \in Indices(I) : I.blocks[c].predecessors = <<p1, p2>>
    BY DEF EdgesOK, TwoPreds
  <1>2. Preds(I, c) = {p1, p2}
    <2>1. Range(<<p1, p2>>) = {p1, p2}
      BY DEF Range
    <2> QED BY <1>1, <2>1 DEF Preds
  <1>3. JumpsIn(I, c, p1) /\ FallsIn(I, p2)
    BY <1>1 DEF JoinsOK, JoinOK
  <1>4. J.blocks[c].predecessors = <<p1, p2>> /\ {p1, p2} \subseteq 0..(I.size - 1)
    <2>1. p1 \in 0..(I.size - 1) /\ p2 \in 0..(I.size - 1)
      BY Neighbours
    <2>2. J.blocks[c].predecessors = I.blocks[c].predecessors
      BY RewrittenPlaces
    <2> QED BY <1>1, <2>1, <2>2
  <1>5. \A p \in {p1, p2} : J.blocks[p].op = I.blocks[p].op /\ J.blocks[p].larg = I.blocks[p].larg
    BY <1>2, <1>4 DEF Rewritten, NotBeforeJoin
  <1>6. \A p \in {p1, p2} : /\ J.blocks[p].successors = I.blocks[p].successors
                            /\ is_branch_back(I, p) => is_branch_back(J, p)
    BY <1>4 DEF Rewritten, is_branch_back
  <1>7. JumpsIn(J, c, p1) /\ FallsIn(J, p2)
    BY <1>3, <1>5, <1>6 DEF JumpsIn, FallsIn
  <1> QED BY <1>4, <1>7 DEF JoinOK

LEMMA RewriteBranches ==
  ASSUME NEW I, IROK(I), NEW b, NEW S, BranchesOK(I, S, None) \/ BranchesOK(I, S, b),
         NEW J, NEW r, Rewritten(I, J, b, r)
  PROVE  BranchesOK(J, S, b)
  <1> SUFFICES ASSUME NEW c \in Indices(I), c # b
               PROVE  BranchOK(J, S, c)
    BY RewrittenPlaces DEF BranchesOK
  <1>1. BranchOK(I, S, c)
    BY EveryBranch DEF BranchesOK
  <1>2. /\ Succs(J, c) = Succs(I, c) /\ Ways(J, c) = Ways(I, c) /\ Forked(J, c) = Forked(I, c)
        /\ \A s \in Succs(I, c) : IsJoin(J, s) = IsJoin(I, s)
        /\ c \in 0..(I.size - 1)
    BY RewrittenPlaces
  <1>3. J.blocks[c] = I.blocks[c]
    BY <1>2 DEF Rewritten
  <1> QED BY <1>1, <1>2, <1>3 DEF BranchOK, will_return, is_branch_back, JumpsBack

LEMMA RewriteExtends ==
  ASSUME NEW I, IROK(I), NEW J, NEW b \in Indices(I), NEW r, Rewritten(I, J, b, r),
         NEW h, r.branch_block = I.blocks[b].branch_block \/ b = h
  PROVE  Extends(I, J, h, {})
  <1>1. /\ \A c \in Indices(I) : c \in 0..(I.size - 1) /\ J.blocks[c].type = I.blocks[c].type
        /\ Indices(J) = Indices(I)
        /\ \A p : InJoin(J, p) = InJoin(I, p)
    BY RewrittenPlaces
  <1>2. \A c \in Indices(I) : c # h => J.blocks[c].branch_block = I.blocks[c].branch_block
    BY <1>1 DEF Rewritten
  <1> QED BY <1>1, <1>2 DEF Extends

LEMMA WriteBlockRewrites ==
  ASSUME NEW I, IROK(I), NEW b \in Indices(I), NEW r \in BasicBlocks,
         r.type = I.blocks[b].type,
         r.predecessors = I.blocks[b].predecessors,
         r.successors = I.blocks[b].successors
  PROVE  Rewritten(I, [I EXCEPT !.blocks[b] = r], b, r)
  <1>1. IRType(I) /\ b \in 0..(I.size - 1)
    BY DEF IROK, IRType, Indices
  <1> DEFINE J == [I EXCEPT !.blocks[b] = r]
  <1>2. J.size = I.size /\ \A c \in 0..(I.size - 1) : J.blocks[c] = IF c = b THEN r ELSE I.blocks[c]
    BY <1>1, WriteBlock
  <1> HIDE DEF J
  <1> QED BY <1>2 DEF Rewritten, J

LEMMA Exempt ==
  ASSUME NEW I, NEW S, NEW b, BranchesOK(I, S, b), BranchOK(I, S, b)
  PROVE  BranchesOK(I, S, None)
  BY DEF BranchesOK

\* Code, a return and the location of a conditional branch change nothing here.
LEMMA SameBranch ==
  ASSUME NEW I, IROK(I), NEW S, Settled(I, S), NEW b \in Indices(I), NEW r \in BasicBlocks,
         r.type = I.blocks[b].type,
         r.predecessors = I.blocks[b].predecessors,
         r.successors = I.blocks[b].successors,
         r.branch_block = I.blocks[b].branch_block,
         r.loop_header = I.blocks[b].loop_header,
         r.op = I.blocks[b].op, r.larg = I.blocks[b].larg,
         I.blocks[b].will_return => r.will_return
  PROVE  LET J == [I EXCEPT !.blocks[b] = r]
         IN  Settled(J, S) /\ Extends(I, J, None, {})
  <1> DEFINE J == [I EXCEPT !.blocks[b] = r]
  <1>1. Rewritten(I, J, b, r)
    BY WriteBlockRewrites
  <1> HIDE DEF J
  <1>2. EdgesOK(J) /\ JoinsOK(J, None) /\ Extends(I, J, None, {})
    BY <1>1, RewriteEdges, RewriteJoins, RewriteExtends DEF Settled
  <1>3. BranchesOK(J, S, b)
    BY <1>1, RewriteBranches DEF Settled
  <1>4. BranchOK(J, S, b)
    <2>1. BranchOK(I, S, b)
      BY EveryBranch DEF Settled
    <2>2. /\ Succs(J, b) = Succs(I, b) /\ Ways(J, b) = Ways(I, b) /\ Forked(J, b) = Forked(I, b)
          /\ \A s \in Succs(I, b) : IsJoin(J, s) = IsJoin(I, s)
          /\ b \in 0..(I.size - 1)
      BY <1>1, RewrittenPlaces
    <2>3. J.blocks[b] = r
      BY <1>1, <2>2 DEF Rewritten
    <2> QED BY <2>1, <2>2, <2>3 DEF BranchOK, will_return, is_branch_back, JumpsBack
  <1> QED BY <1>2, <1>3, <1>4, Exempt DEF Settled, J

LEMMA AddInstructionSettled ==
  ASSUME NEW I, IROK(I), NEW S, Settled(I, S), NEW b \in Indices(I), NEW k \in Nat
  PROVE  LET J == add_instruction(I, b, k) IN Settled(J, S) /\ Extends(I, J, None, {})
  <1> DEFINE code == Append(I.blocks[b].code, k)
             r == [I.blocks[b] EXCEPT !.code = code]
  <1>1. I.blocks[b] \in BasicBlocks /\ code \in Seq(Nat)
    <2>1. I.blocks[b] \in BasicBlocks
      BY Neighbours, BlockType
    <2>2. I.blocks[b].code \in Seq(Nat)
      BY <2>1 DEF BasicBlocks
    <2> QED BY <2>1, <2>2
  <1> HIDE DEF code
  <1>2. /\ r \in BasicBlocks
        /\ r.type = I.blocks[b].type
        /\ r.predecessors = I.blocks[b].predecessors
        /\ r.successors = I.blocks[b].successors
        /\ r.branch_block = I.blocks[b].branch_block
        /\ r.loop_header = I.blocks[b].loop_header
        /\ r.op = I.blocks[b].op /\ r.larg = I.blocks[b].larg
        /\ r.will_return = I.blocks[b].will_return
    BY <1>1 DEF BasicBlocks
  <1> HIDE DEF r
  <1>3. Settled([I EXCEPT !.blocks[b] = r], S) /\ Extends(I, [I EXCEPT !.blocks[b] = r], None, {})
    BY <1>2, SameBranch
  <1> QED BY <1>3 DEF add_instruction, r, code

LEMMA SetReturnSettled ==
  ASSUME NEW I, IROK(I), NEW S, Settled(I, S), NEW b \in Indices(I)
  PROVE  LET J == set_return(I, b) IN Settled(J, S) /\ Extends(I, J, None, {})
  <1> DEFINE r == [I.blocks[b] EXCEPT !.will_return = TRUE]
  <1>1. I.blocks[b] \in BasicBlocks
    BY Neighbours, BlockType
  <1>2. /\ r \in BasicBlocks
        /\ r.type = I.blocks[b].type
        /\ r.predecessors = I.blocks[b].predecessors
        /\ r.successors = I.blocks[b].successors
        /\ r.branch_block = I.blocks[b].branch_block
        /\ r.loop_header = I.blocks[b].loop_header
        /\ r.op = I.blocks[b].op /\ r.larg = I.blocks[b].larg
        /\ r.will_return
    BY <1>1 DEF BasicBlocks
  <1>3. set_return(I, b) = [I EXCEPT !.blocks[b] = r]
    BY DEF set_return
  <1> HIDE DEF r
  <1>4. Settled([I EXCEPT !.blocks[b] = r], S) /\ Extends(I, [I EXCEPT !.blocks[b] = r], None, {})
    BY <1>2, SameBranch
  <1> QED BY <1>3, <1>4

LEMMA SetBranchLocationSettled ==
  ASSUME NEW I, IROK(I), NEW S, Settled(I, S), NEW b \in Indices(I), NEW t \in Int
  PROVE  LET J == set_branch_location(I, b, t) IN Settled(J, S) /\ Extends(I, J, None, {})
  <1> DEFINE r == [I.blocks[b] EXCEPT !.rarg = t]
  <1>1. I.blocks[b] \in BasicBlocks
    BY Neighbours, BlockType
  <1>2. /\ r \in BasicBlocks
        /\ r.type = I.blocks[b].type
        /\ r.predecessors = I.blocks[b].predecessors
        /\ r.successors = I.blocks[b].successors
        /\ r.branch_block = I.blocks[b].branch_block
        /\ r.loop_header = I.blocks[b].loop_header
        /\ r.op = I.blocks[b].op /\ r.larg = I.blocks[b].larg
        /\ r.will_return = I.blocks[b].will_return
    BY <1>1 DEF BasicBlocks
  <1>3. set_branch_location(I, b, t) = [I EXCEPT !.blocks[b] = r]
    BY DEF set_branch_location
  <1> HIDE DEF r
  <1>4. Settled([I EXCEPT !.blocks[b] = r], S) /\ Extends(I, [I EXCEPT !.blocks[b] = r], None, {})
    BY <1>2, SameBranch
  <1> QED BY <1>3, <1>4

LEMMA SetBranchCondRewrites ==
  ASSUME NEW I, IROK(I), NEW b \in Indices(I), NEW op \in BranchOp, NEW t \in Int,
         ~will_return(I, b)
  PROVE  \E r : /\ Rewritten(I, set_branch_cond(I, b, op, t), b, r)
                /\ r.op = op /\ r.larg = t /\ r.will_return = (op = "RET")
                /\ r.branch_block = I.blocks[b].branch_block
                /\ r.loop_header = I.blocks[b].loop_header
  <1> DEFINE r == [I.blocks[b] EXCEPT !.op = op, !.larg = t, !.will_return = (op = "RET")]
             J == [I EXCEPT !.blocks[b] = r]
  <1>1. I.blocks[b] \in BasicBlocks
    BY Neighbours, BlockType
  <1>2. /\ r \in BasicBlocks
        /\ r.type = I.blocks[b].type
        /\ r.predecessors = I.blocks[b].predecessors
        /\ r.successors = I.blocks[b].successors
        /\ r.branch_block = I.blocks[b].branch_block
        /\ r.loop_header = I.blocks[b].loop_header
    BY <1>1 DEF BasicBlocks
  <1>3. r.op = op /\ r.larg = t /\ r.will_return = (op = "RET")
    BY <1>1 DEF BasicBlocks
  <1>4. set_branch_cond(I, b, op, t) = J
    BY DEF set_branch_cond
  <1> HIDE DEF r
  <1>5. Rewritten(I, J, b, r)
    BY <1>2, WriteBlockRewrites
  <1> HIDE DEF J
  <1> QED BY <1>2, <1>3, <1>4, <1>5

\* The blocks behind b must not be JOINs that count on its branch instruction.
LEMMA SetBranchCondSettled ==
  ASSUME NEW I, IROK(I), NEW b \in Indices(I), NEW op \in BranchOp, NEW t \in Int,
         ~will_return(I, b), EdgesOK(I), NEW x, JoinsOK(I, x), NotBeforeJoin(I, x, b),
         NEW S, BranchesOK(I, S, b),
         NEW J, J = set_branch_cond(I, b, op, t)
  PROVE  /\ EdgesOK(J) /\ JoinsOK(J, x) /\ BranchesOK(J, S, b)
         /\ Extends(I, J, None, {})
         /\ J.blocks[b].op = op /\ J.blocks[b].larg = t
         /\ op = "RET" => will_return(J, b)
         /\ J.blocks[b].loop_header = I.blocks[b].loop_header
  <1>1. PICK r : /\ Rewritten(I, J, b, r)
                 /\ r.op = op /\ r.larg = t /\ r.will_return = (op = "RET")
                 /\ r.branch_block = I.blocks[b].branch_block
                 /\ r.loop_header = I.blocks[b].loop_header
    BY SetBranchCondRewrites
  <1>2. EdgesOK(J)
    BY <1>1, RewriteEdges
  <1>3. JoinsOK(J, x)
    BY <1>1, RewriteJoins
  <1>4. BranchesOK(J, S, b)
    BY <1>1, RewriteBranches
  <1>5. Extends(I, J, None, {})
    BY <1>1, RewriteExtends
  <1>6. J.blocks[b] = r
    BY <1>1, Neighbours DEF Rewritten
  <1> QED BY <1>1, <1>2, <1>3, <1>4, <1>5, <1>6 DEF will_return

\* The same where b leads into no JOIN.
LEMMA SetFreeBranchSettled ==
  ASSUME NEW I, IROK(I), NEW b \in Indices(I), NEW op \in BranchOp, NEW t \in Int,
         ~will_return(I, b), ~InJoin(I, b), EdgesOK(I), JoinsOK(I, None),
         NEW S, BranchesOK(I, S, b),
         NEW J, J = set_branch_cond(I, b, op, t)
  PROVE  /\ EdgesOK(J) /\ JoinsOK(J, None) /\ BranchesOK(J, S, b)
         /\ Extends(I, J, None, {})
         /\ J.blocks[b].op = op /\ J.blocks[b].larg = t
         /\ op = "RET" => will_return(J, b)
         /\ J.blocks[b].loop_header = I.blocks[b].loop_header
  <1>1. NotBeforeJoin(I, None, b)
    BY DEF InJoin, NotBeforeJoin
  <1> QED BY <1>1, SetBranchCondSettled

LEMMA FewerChecked ==
  ASSUME NEW I, NEW S, Settled(I, S), NEW b
  PROVE  EdgesOK(I) /\ JoinsOK(I, None) /\ BranchesOK(I, S, None) /\ BranchesOK(I, S, b)
  BY EveryBranch DEF Settled, BranchesOK

LEMMA UpdatePhiSettled ==
  ASSUME NEW I, IROK(I), NEW S, Settled(I, S), NEW h \in Indices(I), NEW w \in Indices(I),
         h < w, OpenLoop(I, h)
  PROVE  LET J == update_phi(I, h, w)
         IN  /\ EdgesOK(J) /\ JoinsOK(J, None) /\ BranchesOK(J, S, w)
             /\ will_return(J, w) => BranchesOK(J, S, None)
             /\ will_return(J, w) = will_return(I, w)
             /\ Extends(I, J, h, {})
             /\ is_branch_back(J, w) /\ J.blocks[w].loop_header = h
             /\ InJoin(J, w) = InJoin(I, w)
  <1> DEFINE r == [I.blocks[h] EXCEPT !.branch_block = w]
             J == [I EXCEPT !.blocks[h] = r]
             s == [J.blocks[w] EXCEPT !.loop_header = h]
             K == [J EXCEPT !.blocks[w] = s]
  <1>1. I.blocks[h] \in BasicBlocks /\ I.blocks[w] \in BasicBlocks
    BY Neighbours, BlockType
  <1>2. h \in Nat \ {0} /\ w \in Nat \ {0} /\ h # w /\ h # None /\ w # None /\ h \in Int /\ w \in Int
    BY Neighbours DEF Indices, None
  <1>3. /\ r \in BasicBlocks
        /\ r.type = I.blocks[h].type
        /\ r.predecessors = I.blocks[h].predecessors
        /\ r.successors = I.blocks[h].successors
        /\ r.branch_block = w
        /\ r.loop_header = I.blocks[h].loop_header
        /\ r.op = I.blocks[h].op
        /\ r.larg = I.blocks[h].larg /\ r.rarg = I.blocks[h].rarg
        /\ r.will_return = I.blocks[h].will_return
    BY <1>1, <1>2 DEF BasicBlocks
  <1>4. update_phi(I, h, w) = K
    BY DEF update_phi
  <1>5. IROK(J)
    <2> HIDE DEF r
    <2>1. Grows(I, J)
      BY <1>2, <1>3, Neighbours, RewriteBlock DEF is_loop_header, OpenLoop
    <2> QED BY <2>1 DEF Grows
  <1> HIDE DEF r
  <1>6. Rewritten(I, J, h, r)
    BY <1>3, WriteBlockRewrites
  <1> HIDE DEF J
  <1>7. /\ Indices(J) = Indices(I) /\ InJoin(J, w) = InJoin(I, w)
        /\ J.blocks[h] = r /\ J.blocks[w] = I.blocks[w]
    BY <1>2, <1>6, RewrittenPlaces DEF Rewritten
  <1>8. EdgesOK(J) /\ JoinsOK(J, None) /\ Extends(I, J, h, {})
    <2>1. EdgesOK(I) /\ JoinsOK(I, None) /\ HeaderOf(I, h, r.branch_block)
      BY <1>3 DEF Settled, HeaderOf
    <2>2. EdgesOK(J)
      BY <1>3, <1>6, <2>1, RewriteEdges
    <2> QED BY <1>3, <1>6, <2>1, <2>2, RewriteJoins, RewriteExtends
  <1>9. BranchesOK(J, S, None)
    <2>1. BranchesOK(J, S, h)
      BY <1>6, RewriteBranches DEF Settled
    <2>2. BranchOK(I, S, h)
      BY EveryBranch DEF Settled
    <2>3. /\ Succs(J, h) = Succs(I, h) /\ Ways(J, h) = Ways(I, h) /\ Forked(J, h) = Forked(I, h)
          /\ \A t \in Succs(I, h) : IsJoin(J, t) = IsJoin(I, t)
      BY <1>6, RewrittenPlaces
    <2>4. BranchOK(J, S, h)
      BY <1>3, <1>7, <2>2, <2>3 DEF BranchOK, will_return, is_branch_back, JumpsBack
    <2> QED BY <2>1, <2>4 DEF BranchesOK
  <1>10. /\ s \in BasicBlocks
         /\ s.type = J.blocks[w].type
         /\ s.predecessors = J.blocks[w].predecessors
         /\ s.successors = J.blocks[w].successors
         /\ s.branch_block = J.blocks[w].branch_block
         /\ s.loop_header = h
         /\ s.op = J.blocks[w].op /\ s.larg = J.blocks[w].larg
         /\ s.will_return = J.blocks[w].will_return
    BY <1>1, <1>2, <1>7 DEF BasicBlocks
  <1> HIDE DEF s
  <1>11. Rewritten(J, K, w, s)
    BY <1>5, <1>7, <1>10, WriteBlockRewrites
  <1> HIDE DEF K
  <1>12. LoopOf(J, w, h)
    BY <1>3, <1>7 DEF LoopOf
  <1>13. EdgesOK(K) /\ JoinsOK(K, None) /\ Extends(J, K, h, {})
    BY <1>2, <1>5, <1>7, <1>8, <1>10, <1>11, <1>12, RewriteEdges, RewriteJoins, RewriteExtends
  <1>14. BranchesOK(K, S, w)
    BY <1>5, <1>9, <1>11, RewriteBranches
  <1>15. K.blocks[w] = s /\ Indices(K) = Indices(I) /\ InJoin(K, w) = InJoin(I, w)
    <2>1. w \in 0..(J.size - 1)
      BY <1>5, <1>7, Neighbours
    <2>2. Indices(K) = Indices(J) /\ \A p : InJoin(K, p) = InJoin(J, p)
      BY <1>5, <1>11, RewrittenPlaces
    <2>3. K.blocks[w] = s
      BY <1>11, <2>1 DEF Rewritten
    <2> QED BY <1>7, <2>2, <2>3
  <1>16. ASSUME will_return(K, w)
         PROVE  BranchOK(K, S, w)
    <2>1. BranchOK(J, S, w)
      BY <1>7, <1>9, EveryBranch
    <2>2. Ways(K, w) = Ways(J, w) /\ Forked(K, w) = Forked(J, w)
      BY <1>5, <1>7, <1>11, RewrittenPlaces
    <2>3. K.blocks[w].op = J.blocks[w].op
      BY <1>10, <1>15
    <2> QED BY <1>16, <2>1, <2>2, <2>3 DEF BranchOK
  <1>17. Extends(I, K, h, {})
    BY <1>7, <1>8, <1>13, <1>15 DEF Extends
  <1>18. /\ is_branch_back(K, w) /\ K.blocks[w].loop_header = h
         /\ will_return(K, w) = will_return(I, w)
    BY <1>2, <1>7, <1>10, <1>15 DEF is_branch_back, will_return
  <1> QED BY <1>4, <1>13, <1>14, <1>15, <1>16, <1>17, <1>18, Exempt

-----------------------------------------------------------------------------
(* New blocks.                                                             *)

\* J is I with a new block of type t behind those of ps.
Added(I, J, t, ps) ==
  /\ J.size = I.size + 1
  /\ J.blocks[I.size] = BasicBlock(t, ps)
  /\ \A b \in 0..(I.size - 1) :
       /\ J.blocks[b].type = I.blocks[b].type
       /\ J.blocks[b].predecessors = I.blocks[b].predecessors
       /\ J.blocks[b].successors =
            IF b \in Range(ps) THEN Append(I.blocks[b].successors, I.size)
            ELSE I.blocks[b].successors
       /\ J.blocks[b].op = I.blocks[b].op
       /\ J.blocks[b].larg = I.blocks[b].larg
       /\ J.blocks[b].will_return = I.blocks[b].will_return
       /\ J.blocks[b].branch_block = I.blocks[b].branch_block
       /\ J.blocks[b].loop_header = I.blocks[b].loop_header

LEMMA NewBlockAdds ==
  ASSUME NEW I, IROK(I), NEW t, NEW ps, NEW idom
  PROVE  Added(I, new_block_helper(I, t, ps, idom), t, ps)
  <1> DEFINE J == new_block_helper(I, t, ps, idom)
             fresh == BasicBlock(t, ps)
             old(b) == IF b \in Range(ps)
                         THEN [I.blocks[b] EXCEPT !.successors = Append(I.blocks[b].successors, I.size)]
                         ELSE I.blocks[b]
  <1>1. /\ I.size \in Nat \ {0}
        /\ \A b \in 0..(I.size - 1) : I.blocks[b] \in BasicBlocks
    BY DEF IROK, IRType
  <1>2. /\ J.size = I.size + 1
        /\ J.blocks = [b \in 0..I.size |-> IF b = I.size THEN fresh ELSE old(b)]
    BY DEF new_block_helper
  <1>3. ASSUME NEW b \in 0..(I.size - 1)
        PROVE  /\ old(b).type = I.blocks[b].type
               /\ old(b).predecessors = I.blocks[b].predecessors
               /\ old(b).successors =
                    IF b \in Range(ps) THEN Append(I.blocks[b].successors, I.size)
                    ELSE I.blocks[b].successors
               /\ old(b).op = I.blocks[b].op
               /\ old(b).larg = I.blocks[b].larg
               /\ old(b).will_return = I.blocks[b].will_return
               /\ old(b).branch_block = I.blocks[b].branch_block
               /\ old(b).loop_header = I.blocks[b].loop_header
    <2> DEFINE q == Append(I.blocks[b].successors, I.size)
    <2>1. I.blocks[b] \in BasicBlocks
      BY <1>1
    <2> HIDE DEF q
    <2>2. CASE b \in Range(ps)
      <3>1. old(b) = [I.blocks[b] EXCEPT !.successors = q]
        BY <2>2 DEF q
      <3> HIDE DEF old
      <3>2. /\ old(b).type = I.blocks[b].type
            /\ old(b).predecessors = I.blocks[b].predecessors
            /\ old(b).successors = q
            /\ old(b).op = I.blocks[b].op
            /\ old(b).larg = I.blocks[b].larg
            /\ old(b).will_return = I.blocks[b].will_return
            /\ old(b).branch_block = I.blocks[b].branch_block
            /\ old(b).loop_header = I.blocks[b].loop_header
        BY <2>1, <3>1 DEF BasicBlocks
      <3> QED BY <2>2, <3>2 DEF q
    <2>3. CASE b \notin Range(ps)
      BY <2>3
    <2> QED BY <2>2, <2>3
  <1> HIDE DEF fresh, old
  <1>4. J.blocks[I.size] = fresh /\ \A b \in 0..(I.size - 1) : J.blocks[b] = old(b)
    BY <1>1, <1>2
  <1> HIDE DEF J
  <1>5. \A b \in 0..(I.size - 1) :
          /\ J.blocks[b].type = I.blocks[b].type
          /\ J.blocks[b].predecessors = I.blocks[b].predecessors
          /\ J.blocks[b].successors =
               IF b \in Range(ps) THEN Append(I.blocks[b].successors, I.size)
               ELSE I.blocks[b].successors
          /\ J.blocks[b].op = I.blocks[b].op
          /\ J.blocks[b].larg = I.blocks[b].larg
          /\ J.blocks[b].will_return = I.blocks[b].will_return
          /\ J.blocks[b].branch_block = I.blocks[b].branch_block
          /\ J.blocks[b].loop_header = I.blocks[b].loop_header
    BY <1>3, <1>4, Zenon
  <1>6. J.size = I.size + 1 /\ J.blocks[I.size] = BasicBlock(t, ps)
    BY <1>2, <1>4 DEF fresh
  <1> QED BY <1>5, <1>6 DEF Added, J

LEMMA AddedAt ==
  ASSUME NEW I, IROK(I), NEW J, NEW t, NEW ps, Added(I, J, t, ps), NEW c \in 0..(I.size - 1)
  PROVE  /\ I.size \in Nat \ {0}
         /\ I.blocks[c].successors \in Seq(Nat) /\ Len(I.blocks[c].successors) \in Nat
         /\ \/ J.blocks[c].successors = I.blocks[c].successors
            \/ J.blocks[c].successors = Append(I.blocks[c].successors, I.size)
         /\ Succs(I, c) \subseteq Indices(I)
         /\ Succs(J, c) = Succs(I, c) \union (IF c \in Range(ps) THEN {I.size} ELSE {})
         /\ Len(J.blocks[c].successors) \in Nat
         /\ Len(I.blocks[c].successors) <= Len(J.blocks[c].successors)
         /\ c \in Range(ps) => Len(J.blocks[c].successors) = Len(I.blocks[c].successors) + 1
         /\ J.blocks[c].successors = <<>> => I.blocks[c].successors = <<>>
  <1> DEFINE q == I.blocks[c].successors
             r == J.blocks[c].successors
  <1>1. I.size \in Nat \ {0} /\ q \in Seq(Nat) /\ Succs(I, c) \subseteq Indices(I)
    <2>1. I.size \in Nat \ {0} /\ I.blocks[c] \in BasicBlocks
      BY DEF IROK, IRType
    <2>2. c = 0 \/ c \in Indices(I)
      BY <2>1 DEF Indices
    <2> QED BY <2>1, <2>2 DEF BasicBlocks, IROK, GraphOK
  <1>2. r = IF c \in Range(ps) THEN Append(q, I.size) ELSE q
    BY DEF Added
  <1> HIDE DEF q, r
  <1>3. /\ Range(Append(q, I.size)) = Range(q) \union {I.size}
        /\ Len(Append(q, I.size)) = Len(q) + 1 /\ Len(q) \in Nat
        /\ Append(q, I.size) # <<>>
    BY <1>1, RangeOfAppendNat
  <1>4. /\ Range(r) = Range(q) \union (IF c \in Range(ps) THEN {I.size} ELSE {})
        /\ r = q \/ r = Append(q, I.size)
        /\ r = <<>> => q = <<>>
        /\ Len(r) \in Nat /\ Len(q) <= Len(r)
        /\ c \in Range(ps) => Len(r) = Len(q) + 1
    <2>1. CASE c \in Range(ps)
      BY <1>2, <1>3, <2>1
    <2>2. CASE c \notin Range(ps)
      BY <1>2, <1>3, <2>2
    <2> QED BY <2>1, <2>2
  <1> QED BY <1>1, <1>3, <1>4 DEF Succs, q, r

LEMMA AddedPlaces ==
  ASSUME NEW I, IROK(I), NEW J, NEW t, NEW ps, Added(I, J, t, ps)
  PROVE  /\ Indices(J) = Indices(I) \union {I.size} /\ I.size \notin Indices(I)
         /\ I.size \in Nat \ {0}
         /\ \A c \in Indices(I) : /\ c \in 0..(I.size - 1)
                                  /\ IsJoin(J, c) = IsJoin(I, c)
                                  /\ Preds(J, c) = Preds(I, c)
                                  /\ Ways(I, c) \subseteq Ways(J, c)
                                  /\ Forked(I, c) => Forked(J, c)
         /\ IsJoin(J, I.size) = (t = "JOIN")
         /\ Preds(J, I.size) = Range(ps)
  <1>1. I.size \in Nat \ {0}
    BY DEF IROK, IRType
  <1>2. /\ Indices(J) = Indices(I) \union {I.size} /\ I.size \notin Indices(I)
        /\ \A c \in Indices(I) : c \in 0..(I.size - 1)
    BY <1>1 DEF Indices, Added
  <1>3. ASSUME NEW c \in Indices(I)
        PROVE  /\ IsJoin(J, c) = IsJoin(I, c)
               /\ Preds(J, c) = Preds(I, c)
               /\ Ways(I, c) \subseteq Ways(J, c)
               /\ Forked(I, c) => Forked(J, c)
    <2>1. IsJoin(J, c) = IsJoin(I, c) /\ Preds(J, c) = Preds(I, c)
      BY <1>2 DEF Added, IsJoin, Preds
    <2>2. Succs(I, c) \subseteq Indices(I) /\ Succs(I, c) \subseteq Succs(J, c)
      BY <1>2, AddedAt
    <2>3. \A s \in Succs(I, c) : J.blocks[s].type = I.blocks[s].type
      BY <1>2, <2>2 DEF Added
    <2>4. Ways(I, c) \subseteq Ways(J, c)
      BY <2>2, <2>3 DEF Ways
    <2> QED BY <2>1, <2>4 DEF Forked
  <1>4. J.blocks[I.size].type = t /\ J.blocks[I.size].predecessors = ps
    BY DEF Added, BasicBlock
  <1> QED BY <1>1, <1>2, <1>3, <1>4 DEF IsJoin, Preds

PredsOfType(I, t, ps) ==
  IF t = "JOIN" THEN \E p1, p2 \in Indices(I) : p1 # p2 /\ ps = <<p1, p2>>
  ELSE Len(ps) = 1 /\ (0 \in Range(ps) => t = "NONE")

LEMMA AddedEdges ==
  ASSUME NEW I, IROK(I), EdgesOK(I), NEW J, NEW t, NEW ps, Added(I, J, t, ps),
         PredsOfType(I, t, ps)
  PROVE  EdgesOK(J)
  <1>1. /\ Indices(J) = Indices(I) \union {I.size} /\ I.size \in Nat \ {0}
        /\ J.blocks[I.size] = BasicBlock(t, ps) /\ J.size = I.size + 1
        /\ \A c \in Indices(I) : c \in 0..(I.size - 1)
    <2>1. /\ Indices(J) = Indices(I) \union {I.size} /\ I.size \in Nat \ {0}
          /\ \A c \in Indices(I) : c \in 0..(I.size - 1)
      BY AddedPlaces
    <2> QED BY <2>1 DEF Added
  <1>2. ASSUME NEW c \in 0..(J.size - 1)
        PROVE  IsInjective(J.blocks[c].successors)
    <2>1. CASE c = I.size
      <3>1. J.blocks[c].successors = <<>>
        BY <1>1, <2>1 DEF BasicBlock
      <3> QED BY <3>1 DEF IsInjective
    <2>2. CASE c # I.size
      <3> DEFINE q == I.blocks[c].successors
      <3>1. c \in 0..(I.size - 1)
        BY <1>1, <2>2
      <3>2. /\ q \in Seq(Nat) /\ IsInjective(q)
            /\ J.blocks[c].successors = q \/ J.blocks[c].successors = Append(q, I.size)
        <4>1. q \in Seq(Nat) /\ (J.blocks[c].successors = q \/ J.blocks[c].successors = Append(q, I.size))
          BY <3>1, AddedAt
        <4> QED BY <3>1, <4>1 DEF EdgesOK
      <3>3. \A i \in DOMAIN q : q[i] # I.size
        <4>1. Range(q) \subseteq Indices(I) /\ I.size \notin Indices(I)
          BY <3>1, AddedPlaces, AddedAt DEF Succs
        <4> QED BY <4>1 DEF Range
      <3> HIDE DEF q
      <3>4. IsInjective(Append(q, I.size))
        <4>1. /\ DOMAIN q = 1..Len(q) /\ Len(q) \in Nat
              /\ DOMAIN Append(q, I.size) = 1..(Len(q) + 1)
              /\ \A i \in 1..(Len(q) + 1) :
                   Append(q, I.size)[i] = IF i = Len(q) + 1 THEN I.size ELSE q[i]
          BY <1>1, <3>2
        <4> QED BY <3>2, <3>3, <4>1 DEF IsInjective
      <3> QED BY <3>2, <3>4
    <2> QED BY <2>1, <2>2
  <1>3. ASSUME NEW c \in Indices(J)
        PROVE  IF IsJoin(J, c) THEN TwoPreds(J, c) ELSE OnePred(J, c)
    <2>1. CASE c = I.size
      BY <1>1, <2>1 DEF IsJoin, TwoPreds, OnePred, Preds, BasicBlock, PredsOfType
    <2>2. CASE c \in Indices(I)
      <3>1. /\ IsJoin(J, c) = IsJoin(I, c)
            /\ J.blocks[c].predecessors = I.blocks[c].predecessors
            /\ J.blocks[c].type = I.blocks[c].type
        <4>1. IsJoin(J, c) = IsJoin(I, c)
          BY <2>2, AddedPlaces
        <4> QED BY <1>1, <2>2, <4>1 DEF Added
      <3> QED BY <1>1, <2>2, <3>1 DEF EdgesOK, TwoPreds, OnePred, Preds
    <2> QED BY <1>1, <2>1, <2>2
  <1>4. ASSUME NEW c \in Indices(J), is_loop_header(J, c)
        PROVE  J.blocks[c].type = "INVALID" /\ HeaderOf(J, c, J.blocks[c].branch_block)
    <2>1. c # I.size
      BY <1>1, <1>4 DEF is_loop_header, BasicBlock
    <2>2. /\ c \in Indices(I) /\ J.blocks[c].branch_block = I.blocks[c].branch_block
          /\ J.blocks[c].type = I.blocks[c].type
      BY <1>1, <1>4, <2>1 DEF Added
    <2> QED BY <1>1, <1>4, <2>2 DEF EdgesOK, is_loop_header, HeaderOf
  <1>5. ASSUME NEW c \in Indices(J), is_branch_back(J, c)
        PROVE  LoopOf(J, c, J.blocks[c].loop_header)
    <2>1. c # I.size
      BY <1>1, <1>5 DEF is_branch_back, BasicBlock
    <2>2. /\ c \in Indices(I) /\ is_branch_back(I, c)
          /\ J.blocks[c].loop_header = I.blocks[c].loop_header
      BY <1>1, <1>5, <2>1 DEF is_branch_back, Added
    <2> DEFINE h == I.blocks[c].loop_header
    <2>3. LoopOf(I, c, h)
      BY <2>2 DEF EdgesOK
    <2> HIDE DEF h
    <2>4. LoopOf(J, c, h)
      BY <1>1, <2>3 DEF LoopOf, Added
    <2> QED BY <2>2, <2>4 DEF h
  <1> QED BY <1>2, <1>3, <1>4, <1>5 DEF EdgesOK

LEMMA AddedJoins ==
  ASSUME NEW I, IROK(I), EdgesOK(I), JoinsOK(I, None),
         NEW J, NEW t, NEW ps, Added(I, J, t, ps)
  PROVE  /\ JoinsOK(J, I.size)
         /\ t # "JOIN" => JoinsOK(J, None)
  <1>1. ASSUME NEW c \in Indices(I), IsJoin(I, c)
        PROVE  JoinOK(J, c)
    <2>1. PICK p1, p2 \in Indices(I) : I.blocks[c].predecessors = <<p1, p2>>
      BY <1>1 DEF EdgesOK, TwoPreds
    <2>2. JumpsIn(I, c, p1) /\ FallsIn(I, p2)
      BY <1>1, <2>1, EveryJoin DEF JoinOK
    <2>3. c \in 0..(I.size - 1) /\ p1 \in 0..(I.size - 1) /\ p2 \in 0..(I.size - 1)
      BY AddedPlaces
    <2>4. J.blocks[c].predecessors = <<p1, p2>> /\ JumpsIn(J, c, p1)
      BY <2>1, <2>2, <2>3 DEF Added, JumpsIn
    <2>5. Len(I.blocks[p2].successors) <= Len(J.blocks[p2].successors)
          /\ Len(I.blocks[p2].successors) \in Nat /\ Len(J.blocks[p2].successors) \in Nat
      BY <2>3, AddedAt
    <2>6. J.blocks[p2].op = I.blocks[p2].op /\ is_branch_back(J, p2) = is_branch_back(I, p2)
      BY <2>3 DEF Added, is_branch_back
    <2>7. FallsIn(J, p2)
      BY <2>2, <2>5, <2>6 DEF FallsIn
    <2> QED BY <2>4, <2>7 DEF JoinOK
  <1>2. /\ Indices(J) = Indices(I) \union {I.size}
        /\ \A c \in Indices(I) : IsJoin(J, c) = IsJoin(I, c)
        /\ IsJoin(J, I.size) = (t = "JOIN")
    BY AddedPlaces
  <1> QED BY <1>1, <1>2 DEF JoinsOK

LEMMA AddedBranches ==
  ASSUME NEW I, IROK(I), NEW S, NEW x, BranchesOK(I, S, x),
         NEW J, NEW t, NEW ps, Added(I, J, t, ps)
  PROVE  BranchesOK(J, S, x)
  <1>1. Indices(J) = Indices(I) \union {I.size}
    BY AddedPlaces
  <1>2. BranchOK(J, S, I.size)
    <2>1. /\ J.blocks[I.size].op = "EMPTY" /\ J.blocks[I.size].loop_header = None
      BY DEF Added, BasicBlock
    <2> QED BY <2>1 DEF BranchOK, is_branch_back
  <1>3. ASSUME NEW c \in Indices(I), c # x
        PROVE  BranchOK(J, S, c)
    <2>1. BranchOK(I, S, c)
      BY <1>3 DEF BranchesOK
    <2>2. c \in 0..(I.size - 1)
      BY AddedPlaces
    <2>3. /\ J.blocks[c].op = I.blocks[c].op /\ J.blocks[c].larg = I.blocks[c].larg
          /\ J.blocks[c].will_return = I.blocks[c].will_return
          /\ J.blocks[c].loop_header = I.blocks[c].loop_header
      BY <2>2 DEF Added
    <2>4. Ways(I, c) \subseteq Ways(J, c) /\ (Forked(I, c) => Forked(J, c))
      BY AddedPlaces
    <2>5. \A s \in Succs(I, c) : s \in Succs(J, c) /\ IsJoin(J, s) = IsJoin(I, s)
      <3>1. Succs(I, c) \subseteq Indices(I) /\ Succs(I, c) \subseteq Succs(J, c)
        BY <2>2, AddedAt
      <3> QED BY <3>1, AddedPlaces
    <2>6. J.blocks[c].successors = <<>> => I.blocks[c].successors = <<>>
      BY <2>2, AddedAt
    <2>7. will_return(J, c) = will_return(I, c) /\ is_branch_back(J, c) = is_branch_back(I, c)
          /\ JumpsBack(J, c) = JumpsBack(I, c)
      BY <2>3 DEF will_return, is_branch_back, JumpsBack
    <2> QED BY <2>1, <2>3, <2>4, <2>5, <2>6, <2>7 DEF BranchOK
  <1> QED BY <1>1, <1>2, <1>3 DEF BranchesOK

LEMMA AddedExtends ==
  ASSUME NEW I, IROK(I), NEW J, NEW t, NEW ps, Added(I, J, t, ps)
  PROVE  Extends(I, J, None, IF t = "JOIN" THEN Range(ps) ELSE {})
  <1>1. /\ Indices(J) = Indices(I) \union {I.size}
        /\ \A c \in Indices(I) : /\ c \in 0..(I.size - 1)
                                 /\ IsJoin(J, c) = IsJoin(I, c) /\ Preds(J, c) = Preds(I, c)
        /\ IsJoin(J, I.size) = (t = "JOIN")
        /\ Preds(J, I.size) = Range(ps)
    BY AddedPlaces
  <1>2. \A p : InJoin(J, p) => InJoin(I, p) \/ (t = "JOIN" /\ p \in Range(ps))
    BY <1>1 DEF InJoin
  <1> QED BY <1>1, <1>2 DEF Extends, Added

LEMMA ExtendsThen ==
  ASSUME NEW I, NEW J, NEW K, NEW h, NEW P, Indices(I) \subseteq Indices(J),
         \/ Extends(I, J, h, P) /\ Extends(J, K, None, {})
         \/ Extends(I, J, None, {}) /\ Extends(J, K, h, P)
  PROVE  Extends(I, K, h, P)
  <1>1. \A b \in Indices(I) : b # None
    BY DEF Indices, None
  <1>2. \A b \in Indices(I) :
          /\ K.blocks[b].type = I.blocks[b].type
          /\ b # h => K.blocks[b].branch_block = I.blocks[b].branch_block
    BY <1>1 DEF Extends
  <1>3. \A p : InJoin(K, p) => InJoin(I, p) \/ p \in P
    BY DEF Extends
  <1> QED BY <1>2, <1>3 DEF Extends

LEMMA ExtendsReflexive ==
  ASSUME NEW I, NEW h, NEW P
  PROVE  Extends(I, I, h, P)
  BY DEF Extends

LEMMA MoreOwed ==
  ASSUME NEW I, NEW S, NEW T, Settled(I, S), S \intersect Indices(I) \subseteq T
  PROVE  Settled(I, T)
  BY DEF Settled, BranchesOK, BranchOK

LEMMA NewBlockSettled ==
  ASSUME NEW I, IROK(I), NEW S, Settled(I, S),
         NEW p \in Indices(I), NEW t \in (Blocktype \union {"LOOP_HEADER"}) \ {"JOIN"}
  PROVE  LET J == new_block(I, p, t)
             u == IF t = "LOOP_HEADER" THEN "INVALID" ELSE t
         IN  /\ Settled(J, S) /\ Extends(I, J, None, {})
             /\ Added(I, J, u, <<p>>)
             /\ J.blocks[I.size] = BasicBlock(u, <<p>>)
             /\ ~InJoin(J, I.size)
  <1> DEFINE J == new_block(I, p, t)
             u == IF t = "LOOP_HEADER" THEN "INVALID" ELSE t
  <1>1. Added(I, J, u, <<p>>) /\ u # "JOIN"
    BY NewBlockAdds DEF new_block
  <1> HIDE DEF J, u
  <1>2. PredsOfType(I, u, <<p>>)
    BY <1>1 DEF PredsOfType, Indices, Range
  <1>3. EdgesOK(J) /\ JoinsOK(J, None) /\ BranchesOK(J, S, None)
    BY <1>1, <1>2, AddedEdges, AddedJoins, AddedBranches DEF Settled
  <1>4. Extends(I, J, None, {})
    BY <1>1, AddedExtends, Zenon
  <1>5. ~InJoin(I, I.size)
    <2>1. \A b \in Indices(I) : \A q \in Preds(I, b) : q < b
      BY DEF IROK, GraphOK
    <2>2. \A b \in Indices(I) : ~(I.size < b)
      BY DEF Indices, IROK, IRType
    <2> QED BY <2>1, <2>2 DEF InJoin
  <1>6. ~InJoin(J, I.size)
    BY <1>4, <1>5 DEF Extends
  <1>7. J.blocks[I.size] = BasicBlock(u, <<p>>)
    BY <1>1 DEF Added
  <1> QED BY <1>1, <1>3, <1>4, <1>6, <1>7 DEF Settled, J, u

LEMMA AddedSettled ==
  ASSUME NEW I, IROK(I), NEW S, Settled(I, S),
         NEW J, NEW t, NEW ps, Added(I, J, t, ps), t # "JOIN", PredsOfType(I, t, ps)
  PROVE  Settled(J, S)
  <1>1. EdgesOK(I) /\ JoinsOK(I, None) /\ BranchesOK(I, S, None)
    BY DEF Settled
  <1>2. EdgesOK(J)
    BY <1>1, AddedEdges
  <1>3. JoinsOK(J, None)
    BY <1>1, AddedJoins, SMTT(30)
  <1>4. BranchesOK(J, S, None)
    BY <1>1, AddedBranches
  <1> QED BY <1>2, <1>3, <1>4 DEF Settled

LEMMA NewFunctionSettled ==
  ASSUME NEW I, IROK(I), NEW S, Settled(I, S)
  PROVE  LET J == new_function(I) IN Settled(J, S) /\ Extends(I, J, None, {})
  <1> DEFINE J == new_function(I)
             t == "NONE"
             ps == <<0>>
  <1>1. Added(I, J, t, ps) /\ t # "JOIN" /\ PredsOfType(I, t, ps)
    BY NewBlockAdds DEF new_function, PredsOfType
  <1> HIDE DEF J, t, ps
  <1>2. Settled(J, S)
    BY <1>1, AddedSettled
  <1>3. Extends(I, J, None, {})
    BY <1>1, AddedExtends, Zenon
  <1> QED BY <1>2, <1>3 DEF J

\* A new way for the branch at the end of b.
LEMMA NewWay ==
  ASSUME NEW I, IROK(I), NEW b \in Indices(I), NEW t \in WayType, NEW J, NEW ps,
         Added(I, J, t, ps), b \in Range(ps)
  PROVE  I.size \in Ways(J, b) /\ (Ways(I, b) # {} => Forked(J, b))
  <1>1. b \in 0..(I.size - 1) /\ Ways(I, b) \subseteq Ways(J, b) /\ I.size \notin Indices(I)
    BY AddedPlaces
  <1>2. I.size \in Succs(J, b) /\ Succs(I, b) \subseteq Indices(I)
    BY <1>1, AddedAt
  <1>3. J.blocks[I.size].type = t
    BY DEF Added, BasicBlock
  <1> QED BY <1>1, <1>2, <1>3 DEF Ways, Forked

LEMMA SecondWay ==
  ASSUME NEW I, IROK(I), NEW S, Settled(I, S), NEW b \in Indices(I), NEW t \in WayType,
         NEW T, S \subseteq T \union {b}
  PROVE  Settled(new_block(I, b, t), T)
  <1> DEFINE J == new_block(I, b, t)
  <1>1. t \in (Blocktype \union {"LOOP_HEADER"}) \ {"JOIN"} /\ t # "LOOP_HEADER"
    BY DEF WayType, Blocktype
  <1>2. Settled(J, S) /\ Added(I, J, t, <<b>>)
    BY <1>1, NewBlockSettled
  <1> HIDE DEF J
  <1>3. b \in Range(<<b>>)
    BY DEF Range
  <1>4. I.size \in Ways(J, b) /\ (Ways(I, b) # {} => Forked(J, b)) /\ Indices(I) \subseteq Indices(J)
    BY <1>2, <1>3, NewWay, AddedPlaces
  <1>5. ASSUME NEW c \in Indices(J)
        PROVE  BranchOK(J, T, c)
    <2>1. BranchOK(J, S, c)
      BY <1>2, <1>5, EveryBranch DEF Settled
    <2>2. CASE c # b
      BY <2>1, <2>2 DEF BranchOK
    <2>3. CASE c = b
      <3>1. J.blocks[b].op = I.blocks[b].op
        BY <1>2, Neighbours DEF Added
      <3>2. I.blocks[b].op = "Bcc" => Ways(I, b) # {}
        BY EveryBranch DEF Settled, BranchOK, Forked
      <3> QED BY <1>4, <2>1, <2>3, <3>1, <3>2 DEF BranchOK
    <2> QED BY <2>2, <2>3
  <1> QED BY <1>2, <1>5 DEF Settled, BranchesOK, J

\* The branch and the first of its ways.
LEMMA FirstWay ==
  ASSUME NEW I, IROK(I), NEW S, Settled(I, S), NEW b, InFunction(I, b), ~InJoin(I, b),
         NEW t \in WayType, NEW T, S \subseteq T, b \in T
  PROVE  LET K == new_block(set_branch_cond(I, b, "Bcc", None), b, t)
         IN  Settled(K, T) /\ Extends(I, K, None, {})
  <1> DEFINE J == set_branch_cond(I, b, "Bcc", None)
             K == new_block(J, b, t)
  <1>1. /\ b \in Indices(I) /\ b \in 0..(I.size - 1) /\ "Bcc" \in BranchOp /\ None \in Int
        /\ LocationOK(I, b, None)
        /\ t \in (Blocktype \union {"LOOP_HEADER"}) \ {"JOIN"} /\ t # "LOOP_HEADER"
    BY InFunctionIsIndex DEF WayType, Blocktype, BranchOp, None, LocationOK
  <1>2. Grows(I, J) /\ J.size = I.size
    BY <1>1, SetBranchCond
  <1>3. IROK(J) /\ b \in Indices(J) /\ Indices(J) = Indices(I)
    BY <1>1, <1>2 DEF Grows, Indices
  <1>4. CASE will_return(I, b)
    <2>1. J = I
      BY <1>4 DEF set_branch_cond
    <2>2. Settled(K, S) /\ Extends(J, K, None, {})
      BY <1>1, <1>3, <2>1, NewBlockSettled
    <2> HIDE DEF J, K
    <2>3. Settled(K, T)
      BY <2>2, MoreOwed
    <2> QED BY <2>1, <2>2, <2>3 DEF J, K
  <1>5. CASE ~will_return(I, b)
    <2>1. b \in Indices(I) /\ ~will_return(I, b)
      BY <1>1, <1>5
    <2> DEFINE op == "Bcc"
               location == None
    <2>2. op \in BranchOp /\ location \in Int /\ J = set_branch_cond(I, b, op, location)
      BY <1>1
    <2> HIDE DEF J, op, location
    <2>3. /\ EdgesOK(J) /\ JoinsOK(J, None) /\ BranchesOK(J, S, b) /\ Extends(I, J, None, {})
          /\ J.blocks[b].op = op
      <3>1. EdgesOK(I) /\ JoinsOK(I, None) /\ BranchesOK(I, S, b)
        BY FewerChecked
      <3> QED BY <2>1, <2>2, <3>1, SetFreeBranchSettled
    <2>4. J.blocks[b].op = "Bcc"
      BY <2>3 DEF op
    <2>5. Added(J, K, t, <<b>>) /\ b \in Range(<<b>>)
      <3>1. Added(J, K, t, <<b>>)
        BY <1>1, <1>3, NewBlockAdds DEF new_block
      <3> QED BY <3>1 DEF Range
    <2> HIDE DEF K
    <2>6. /\ EdgesOK(K) /\ JoinsOK(K, None) /\ BranchesOK(K, S, b)
          /\ Extends(J, K, None, IF t = "JOIN" THEN Range(<<b>>) ELSE {})
      <3>1. PredsOfType(J, t, <<b>>)
        BY <1>1 DEF PredsOfType, Indices, Range
      <3> QED BY <1>1, <1>3, <2>3, <2>5, <3>1, AddedEdges, AddedJoins, AddedBranches, AddedExtends
    <2>7. J.size \in Ways(K, b) /\ J.size \in Succs(K, b) /\ K.blocks[b].op = "Bcc"
      <3>1. J.size \in Ways(K, b)
        BY <1>3, <2>5, NewWay
      <3> QED BY <1>3, <2>4, <2>5, <3>1, Neighbours DEF Ways, Added
    <2>8. K.blocks[b].successors # <<>>
      BY <2>7 DEF Succs, Range
    <2>9. BranchOK(K, T, b)
      BY <2>7, <2>8 DEF BranchOK
    <2>10. BranchesOK(K, T, None)
      BY <2>6, <2>9 DEF BranchesOK, BranchOK
    <2>11. Extends(I, K, None, {})
      BY <1>1, <1>3, <2>3, <2>6 DEF Extends
    <2> QED BY <2>6, <2>10, <2>11 DEF Settled, J, K
  <1> QED BY <1>4, <1>5

\* The code of a statement, then a return.
LEMMA EmitAndReturn ==
  ASSUME NEW I, IROK(I), NEW S, Settled(I, S), NEW b, InFunction(I, b), ~InJoin(I, b),
         NEW k \in Nat
  PROVE  LET K == set_branch_cond(add_instruction(I, b, k), b, "RET", None)
         IN  Settled(K, S) /\ Extends(I, K, None, {})
  <1> DEFINE J == add_instruction(I, b, k)
             K == set_branch_cond(J, b, "RET", None)
  <1>1. /\ b \in Indices(I) /\ b \in 0..(I.size - 1) /\ "RET" \in BranchOp /\ None \in Int
    BY InFunctionIsIndex DEF BranchOp, None
  <1>2. Grows(I, J) /\ J.size = I.size /\ Settled(J, S) /\ Extends(I, J, None, {})
    BY <1>1, AddInstruction, AddInstructionSettled
  <1>3. IROK(J) /\ b \in Indices(J) /\ Indices(J) = Indices(I) /\ ~InJoin(J, b)
    BY <1>1, <1>2 DEF Grows, Indices, Extends
  <1> HIDE DEF J
  <1>4. CASE will_return(J, b)
    BY <1>2, <1>4 DEF set_branch_cond, J
  <1>5. CASE ~will_return(J, b)
    <2>1. b \in Indices(J) /\ ~will_return(J, b)
      BY <1>3, <1>5
    <2> DEFINE op == "RET"
               location == None
    <2>2. op \in BranchOp /\ location \in Int /\ K = set_branch_cond(J, b, op, location)
      BY <1>1
    <2> HIDE DEF K, op, location
    <2>3. /\ EdgesOK(K) /\ JoinsOK(K, None) /\ BranchesOK(K, S, b) /\ Extends(J, K, None, {})
          /\ K.blocks[b].op = op
          /\ op = "RET" => will_return(K, b)
      <3>1. EdgesOK(J) /\ JoinsOK(J, None) /\ BranchesOK(J, S, b)
        BY <1>2, FewerChecked
      <3> QED BY <1>3, <2>1, <2>2, <3>1, SetFreeBranchSettled
    <2>4. BranchOK(K, S, b)
      BY <2>3 DEF BranchOK, will_return, op
    <2>5. Extends(I, K, None, {})
      BY <1>2, <1>3, <2>3 DEF Extends
    <2> QED BY <2>3, <2>4, <2>5, Exempt DEF Settled, J, K
  <1> QED BY <1>4, <1>5

-----------------------------------------------------------------------------
(* The ends of the constructs.                                             *)

LEMMA CloseLoopSettled ==
  ASSUME NEW I, IROK(I), NEW S, Settled(I, S), NEW h, InFunction(I, h), NEW w, InFunction(I, w),
         h < w, OpenLoop(I, h), ~InJoin(I, w)
  PROVE  LET K == close_loop(I, h, w) IN Settled(K, S) /\ Extends(I, K, h, {})
  <1> DEFINE J == update_phi(I, h, w)
             op == "BRA"
             K == set_branch_cond(J, w, op, h)
  <1>1. /\ h \in Indices(I) /\ w \in Indices(I) /\ h \in Int /\ h # None /\ op \in BranchOp
    BY InFunctionIsIndex DEF BranchOp
  <1>2. Grows(I, J) /\ J.size = I.size
    BY <1>1, UpdatePhi
  <1>3. IROK(J) /\ Indices(J) = Indices(I) /\ w \in Indices(J)
    BY <1>1, <1>2 DEF Grows, Indices
  <1>4. /\ EdgesOK(J) /\ JoinsOK(J, None) /\ BranchesOK(J, S, w)
        /\ will_return(J, w) => BranchesOK(J, S, None)
        /\ Extends(I, J, h, {})
        /\ is_branch_back(J, w) /\ J.blocks[w].loop_header = h
        /\ ~InJoin(J, w)
    BY <1>1, UpdatePhiSettled
  <1>5. close_loop(I, h, w) = K
    BY DEF close_loop
  <1> HIDE DEF J
  <1>6. CASE will_return(J, w)
    <2>1. K = J
      BY <1>6 DEF set_branch_cond
    <2>2. Settled(J, S)
      BY <1>4, <1>6 DEF Settled
    <2> HIDE DEF K
    <2> QED BY <1>4, <1>5, <2>1, <2>2
  <1>7. CASE ~will_return(J, w)
    <2> HIDE DEF K, op
    <2>1. K = set_branch_cond(J, w, op, h)
      BY DEF K
    <2>2. /\ EdgesOK(K) /\ JoinsOK(K, None) /\ BranchesOK(K, S, w)
          /\ Extends(J, K, None, {})
          /\ K.blocks[w].op = op /\ K.blocks[w].larg = h
          /\ K.blocks[w].loop_header = J.blocks[w].loop_header
      BY <1>1, <1>3, <1>4, <1>7, <2>1, SetFreeBranchSettled
    <2>3. BranchOK(K, S, w)
      BY <1>1, <1>4, <2>2 DEF BranchOK, JumpsBack, is_branch_back, op
    <2>4. Settled(K, S)
      BY <2>2, <2>3, Exempt DEF Settled
    <2>5. Extends(I, K, h, {})
      BY <1>3, <1>4, <2>2, ExtendsThen
    <2> QED BY <1>5, <2>4, <2>5
  <1> QED BY <1>6, <1>7

LEMMA BranchSettled ==
  ASSUME NEW I, IROK(I), NEW S, Settled(I, S), NEW h, InFunction(I, h), NEW w, InFunction(I, w),
         h < w, OpenLoop(I, h), ~InJoin(I, w), NEW T, S \subseteq T \union {h}
  PROVE  LET M == branch(I, h, w)
         IN  Settled(M, T) /\ Extends(I, M, h, {}) /\ ~InJoin(M, I.size)
  <1> DEFINE J == close_loop(I, h, w)
             t == "WHILE_BRANCH"
             K == new_block(J, h, t)
             M == set_branch_location(K, h, J.size)
  <1>1. h \in Indices(I) /\ h \in Int /\ I.size \in Nat
    BY InFunctionIsIndex DEF IROK, IRType
  <1>2. Grows(I, J) /\ J.size = I.size
    BY CloseLoop
  <1>3. Settled(J, S) /\ Extends(I, J, h, {})
    BY CloseLoopSettled
  <1>4. /\ t \in WayType /\ t \in Blocktype \union {"LOOP_HEADER"}
        /\ t \in (Blocktype \union {"LOOP_HEADER"}) \ {"JOIN"}
    BY DEF WayType, Blocktype
  <1>5. branch(I, h, w) = M
    BY DEF branch
  <1> HIDE DEF J, t
  <1>6. IROK(J) /\ h \in Indices(J) /\ Indices(J) = Indices(I) /\ InFunction(J, h)
    <2>1. IROK(J) /\ Indices(J) = Indices(I)
      BY <1>2 DEF Grows, Indices
    <2>2. InFunction(J, h)
      BY <1>2, GrowsKeepsFunction DEF IROK
    <2> QED BY <1>1, <2>1, <2>2
  <1>7. Settled(K, T)
    BY <1>3, <1>4, <1>6, SecondWay
  <1>8. Extends(J, K, None, {}) /\ ~InJoin(K, J.size)
    BY <1>3, <1>4, <1>6, NewBlockSettled
  <1>9. Grows(J, K) /\ K.size = J.size + 1
    BY <1>4, <1>6, NewBlock
  <1> HIDE DEF K
  <1>10. IROK(K) /\ h \in Indices(K) /\ Indices(J) \subseteq Indices(K) /\ J.size \in Int
    BY <1>1, <1>2, <1>6, <1>9 DEF Grows, Indices
  <1>11. Settled(M, T) /\ Extends(K, M, None, {})
    BY <1>7, <1>10, SetBranchLocationSettled
  <1> HIDE DEF M
  <1>12. Extends(I, M, h, {})
    <2>1. Extends(J, M, None, {})
      BY <1>8, <1>10, <1>11, ExtendsThen
    <2> QED BY <1>3, <1>6, <2>1, ExtendsThen
  <1>13. ~InJoin(M, I.size)
    BY <1>2, <1>8, <1>11 DEF Extends
  <1> QED BY <1>5, <1>11, <1>12, <1>13

\* The end of an else part falls into a new block behind it, unless it has
\* successors already.
LEMMA FallsIntoNew ==
  ASSUME NEW I, IROK(I), NEW S, Settled(I, S), NEW p \in Indices(I),
         ~will_return(I, p), ~InJoin(I, p), p \notin S,
         NEW J, NEW t, NEW ps, Added(I, J, t, ps), p \in Range(ps)
  PROVE  FallsIn(J, p)
  <1>1. BranchOK(I, S, p) /\ p \in 0..(I.size - 1)
    BY EveryBranch, Neighbours DEF Settled
  <1>2. J.blocks[p].op = I.blocks[p].op /\ is_branch_back(J, p) = is_branch_back(I, p)
    BY <1>1 DEF Added, is_branch_back
  <1>3. I.blocks[p].op # "RET"
    BY <1>1 DEF BranchOK
  <1>4. I.blocks[p].op = "BRA" => is_branch_back(I, p)
    <2>1. \A s \in Succs(I, p) : s \in Indices(I) /\ p \in Preds(I, s)
      BY DEF IROK, GraphOK
    <2>2. ~\E s \in Succs(I, p) : IsJoin(I, s)
      BY <2>1 DEF InJoin
    <2> QED BY <1>1, <2>2 DEF BranchOK
  <1>5. ASSUME I.blocks[p].op = "Bcc"
        PROVE  Len(J.blocks[p].successors) > 2
    <2> DEFINE q == I.blocks[p].successors
    <2>1. Forked(I, p)
      BY <1>1, <1>5 DEF BranchOK
    <2>2. \E s, t2 \in Range(q) : s # t2
      BY <2>1 DEF Forked, Ways, Succs
    <2>3. /\ q \in Seq(Nat) /\ Len(q) \in Nat
          /\ Len(J.blocks[p].successors) = Len(q) + 1
      BY <1>1, AddedAt
    <2> HIDE DEF q
    <2>4. Len(q) > 1
      BY <2>2, <2>3 DEF Range
    <2> QED BY <2>3, <2>4
  <1>6. I.blocks[p].op \in BranchOp
    <2>1. I.blocks[p] \in BasicBlocks
      BY <1>1, BlockType
    <2> QED BY <2>1 DEF BasicBlocks
  <1> QED BY <1>2, <1>3, <1>4, <1>5, <1>6 DEF FallsIn, BranchOp

LEMMA NewJoinAdds ==
  ASSUME NEW I, IROK(I), NEW S, Settled(I, S),
         NEW p1 \in Indices(I), NEW p2 \in Indices(I), p1 # p2, NEW idom,
         ~InJoin(I, p1), NEW J, J = new_join(I, p1, p2, idom)
  PROVE  /\ Added(I, J, "JOIN", <<p1, p2>>)
         /\ EdgesOK(J) /\ JoinsOK(J, I.size) /\ BranchesOK(J, S, None)
         /\ NotBeforeJoin(J, I.size, p1)
         /\ I.size \in Succs(J, p1) /\ IsJoin(J, I.size)
         /\ J.blocks[I.size].predecessors = <<p1, p2>>
         /\ Extends(I, J, None, {p1, p2})
  <1> DEFINE t == "JOIN"
             ps == <<p1, p2>>
  <1>1. Added(I, J, t, ps)
    BY NewBlockAdds DEF new_join
  <1>2. Range(ps) = {p1, p2} /\ PredsOfType(I, t, ps)
    BY DEF Range, PredsOfType
  <1>3. J.blocks[I.size].predecessors = ps
    BY <1>1 DEF Added, BasicBlock
  <1>4. Extends(I, J, None, {p1, p2})
    <2>1. Extends(I, J, None, IF t = "JOIN" THEN Range(ps) ELSE {})
      BY <1>1, AddedExtends, Zenon
    <2> QED BY <1>2, <2>1
  <1>5. t = "JOIN"
    OBVIOUS
  <1> HIDE DEF t, ps
  <1>6. EdgesOK(J)
    BY <1>1, <1>2, AddedEdges DEF Settled
  <1>7. JoinsOK(J, I.size)
    BY <1>1, AddedJoins DEF Settled
  <1>8. BranchesOK(J, S, None)
    BY <1>1, AddedBranches DEF Settled
  <1>9. /\ Indices(J) = Indices(I) \union {I.size}
        /\ \A c \in Indices(I) : IsJoin(J, c) = IsJoin(I, c) /\ Preds(J, c) = Preds(I, c)
        /\ IsJoin(J, I.size)
    BY <1>1, <1>5, AddedPlaces
  <1>10. NotBeforeJoin(J, I.size, p1)
    BY <1>9 DEF NotBeforeJoin, InJoin
  <1>11. I.size \in Succs(J, p1)
    <2>1. p1 \in 0..(I.size - 1) /\ p1 \in Range(ps)
      BY <1>2, Neighbours
    <2> QED BY <1>1, <2>1, AddedAt
  <1> QED BY <1>1, <1>3, <1>4, <1>6, <1>7, <1>8, <1>9, <1>10, <1>11 DEF t, ps

LEMMA JoinSettled ==
  ASSUME NEW I, IROK(I), NEW S, Settled(I, S), NEW idom, InFunction(I, idom),
         NEW p1, InFunction(I, p1), Above(I, idom, p1),
         NEW p2, InFunction(I, p2), Above(I, idom, p2),
         p1 # p2, ~InJoin(I, p1), ~InJoin(I, p2),
         ~will_return(I, p1), ~will_return(I, p2), p2 \notin S
  PROVE  LET K == join(I, idom, p1, p2) IN Settled(K, S) /\ Extends(I, K, None, {p1, p2})
  <1> DEFINE J == new_join(I, p1, p2, idom)
             op == "BRA"
             x == I.size
             ps == <<p1, p2>>
             K == set_branch_cond(J, p1, op, x)
  <1>1. /\ p1 \in Indices(I) /\ p2 \in Indices(I) /\ x \in Int /\ op \in BranchOp
        /\ p1 \in 0..(I.size - 1) /\ p2 \in 0..(I.size - 1)
    BY InFunctionIsIndex DEF BranchOp, IROK, IRType
  <1>2. Grows(I, J) /\ J.size = I.size + 1
    BY NewJoin
  <1>3. /\ Added(I, J, "JOIN", <<p1, p2>>)
        /\ EdgesOK(J) /\ JoinsOK(J, x) /\ BranchesOK(J, S, None)
        /\ NotBeforeJoin(J, x, p1)
        /\ x \in Succs(J, p1) /\ IsJoin(J, x)
        /\ J.blocks[x].predecessors = <<p1, p2>>
        /\ Extends(I, J, None, {p1, p2})
    BY <1>1, NewJoinAdds
  <1>4. FallsIn(J, p2)
    <2>1. p2 \in Range(ps)
      BY DEF Range
    <2> HIDE DEF J, ps
    <2>2. Added(I, J, "JOIN", ps)
      BY <1>3 DEF ps
    <2> QED BY <1>1, <2>1, <2>2, FallsIntoNew
  <1>5. join(I, idom, p1, p2) = K
    BY DEF join
  <1>6. ~will_return(J, p1)
    BY <1>1, <1>3 DEF Added, will_return
  <1>7. /\ IROK(J) /\ p1 \in Indices(J) /\ p2 \in Indices(J) /\ x \in Indices(J)
        /\ Indices(I) \subseteq Indices(J)
    BY <1>1, <1>2 DEF Grows, Indices, IROK, IRType
  <1>8. BranchesOK(J, S, p1)
    BY <1>3 DEF BranchesOK, None, Indices
  <1> HIDE DEF J, op, x
  <1>9. K = set_branch_cond(J, p1, op, x)
    OBVIOUS
  <1> HIDE DEF K
  <1>10. /\ EdgesOK(K) /\ JoinsOK(K, x) /\ BranchesOK(K, S, p1)
         /\ Extends(J, K, None, {})
         /\ K.blocks[p1].op = op /\ K.blocks[p1].larg = x
    BY <1>1, <1>3, <1>6, <1>7, <1>8, <1>9, SetBranchCondSettled
  <1>11. PICK r : Rewritten(J, K, p1, r)
    BY <1>1, <1>6, <1>7, <1>9, SetBranchCondRewrites
  <1>12. /\ Indices(K) = Indices(J) /\ Succs(K, p1) = Succs(J, p1) /\ IsJoin(K, x)
         /\ K.blocks[x].predecessors = <<p1, p2>>
    BY <1>3, <1>7, <1>11, RewrittenPlaces
  <1>13. K.blocks[p2] = J.blocks[p2]
    BY <1>7, <1>11, Neighbours DEF Rewritten
  <1>14. BranchOK(K, S, p1)
    <2>1. \E s \in Succs(K, p1) : IsJoin(K, s)
      BY <1>3, <1>12
    <2>2. K.blocks[p1].successors # <<>>
      <3>1. x \in Succs(K, p1)
        BY <1>3, <1>12
      <3> QED BY <3>1 DEF Succs, Range
    <2> QED BY <1>10, <2>1, <2>2 DEF BranchOK, op
  <1>15. JoinOK(K, x)
    <2>1. FallsIn(K, p2)
      BY <1>4, <1>13 DEF FallsIn, is_branch_back
    <2>2. JumpsIn(K, x, p1)
      BY <1>10 DEF JumpsIn, op
    <2>3. K.blocks[x].predecessors[1] = p1 /\ K.blocks[x].predecessors[2] = p2
      BY <1>12
    <2> QED BY <2>1, <2>2, <2>3 DEF JoinOK
  <1>16. JoinsOK(K, None)
    BY <1>10, <1>15 DEF JoinsOK
  <1>17. Settled(K, S)
    BY <1>10, <1>14, <1>16, Exempt DEF Settled
  <1>18. Extends(I, K, None, {p1, p2})
    BY <1>3, <1>7, <1>10, ExtendsThen
  <1> QED BY <1>5, <1>17, <1>18

\* Where fi goes on: in a block of the two parts, or in a JOIN of both.
IfLeaves(I, f, e, end) ==
  \/ end.curr \in {f.cond, e} /\ Extends(I, end.ir, None, {})
  \/ end.curr = f.then_block /\ f.result # "TRUE" /\ Extends(I, end.ir, None, {})
  \/ /\ end.curr = I.size /\ f.result = "NEITHER" /\ end.ir.doms[I.size] = f.cond
     /\ Extends(I, end.ir, None, {f.then_block, e})

LEMMA JoinDominator ==
  ASSUME NEW I, IROK(I), NEW cond, NEW p1, NEW p2
  PROVE  join(I, cond, p1, p2).doms[I.size] = cond
  <1> DEFINE J == new_join(I, p1, p2, cond)
             K == set_branch_cond(J, p1, "BRA", I.size)
  <1>1. I.size \in Nat
    BY DEF IROK, IRType
  <1>2. J.doms[I.size] = cond
    BY <1>1 DEF new_join, new_block_helper
  <1>3. K.doms = J.doms
    BY DEF set_branch_cond, new_join, new_block_helper
  <1> QED BY <1>2, <1>3 DEF join

\* The two parts of an if that can meet in a JOIN.
Meet(I, f, e, S) ==
  f.then_block # e /\ ~InJoin(I, f.then_block) /\ ~InJoin(I, e) /\ e \notin S

LEMMA IfEndSettled ==
  ASSUME NEW I, IROK(I), NEW f \in Frames, FrameOK(I, f), Live(f), f.in_else,
         Above(I, f.cond, f.then_block),
         NEW e, InFunction(I, e), Above(I, f.cond, e),
         NEW S, Settled(I, S), f.result = "NEITHER" => Meet(I, f, e, S)
  PROVE  LET end == if_end(I, f, e) IN Settled(end.ir, S) /\ IfLeaves(I, f, e, end)
  <1> DEFINE J == IF f.result = "NEITHER"
                    THEN set_branch_location(I, f.cond, f.og_else_block) ELSE I
             K == set_return(J, f.cond)
             L == join(J, f.cond, f.then_block, e)
             end == if_end(I, f, e)
  <1>1. IRType(I) /\ InFunction(I, f.cond) /\ InFunction(I, f.then_block)
    BY DEF Live, FrameOK, IROK
  <1>2. Grows(I, J) /\ J.size = I.size /\ Settled(J, S) /\ Extends(I, J, None, {})
    <2>1. CASE f.result = "NEITHER"
      <3>1. /\ LocationOK(I, f.cond, f.og_else_block) /\ f.og_else_block \in Int
            /\ f.cond \in Indices(I) /\ f.cond \in 0..(I.size - 1)
        BY <1>1, <2>1, JumpInFunction, InFunctionIsIndex DEF Live, FrameOK
      <3> QED BY <1>1, <2>1, <3>1, SetBranchLocation, SetBranchLocationSettled
    <2>2. CASE f.result # "NEITHER"
      BY <2>2, GrowsReflexive, ExtendsReflexive
    <2> QED BY <2>1, <2>2
  <1>3. \/ end.ir = K /\ end.curr = f.cond
        \/ end.ir = J /\ end.curr = e
        \/ end.ir = J /\ end.curr = f.then_block /\ f.result # "TRUE"
        \/ /\ end.ir = L /\ end.curr = J.size /\ f.result = "NEITHER"
           /\ ~will_return(J, f.then_block) /\ ~will_return(J, e)
    <2>1. f.result \in {"TRUE", "FALSE", "NEITHER"}
      BY DEF Frames, Relation
    <2> QED BY <2>1 DEF if_end, J, K, L
  <1> HIDE DEF J
  <1>4. /\ IROK(J) /\ InFunction(J, f.cond) /\ InFunction(J, f.then_block)
        /\ InFunction(J, e) /\ Indices(J) = Indices(I) /\ f.cond \in Indices(J)
        /\ Above(J, f.cond, f.then_block) /\ Above(J, f.cond, e)
    <2>1. IROK(J) /\ Indices(J) = Indices(I)
      BY <1>2 DEF Grows, Indices
    <2>2. InFunction(J, f.cond) /\ InFunction(J, f.then_block) /\ InFunction(J, e)
      BY <1>1, <1>2, GrowsKeepsFunction
    <2>3. Above(J, f.cond, f.then_block) /\ Above(J, f.cond, e)
      BY <1>1, <1>2, GrowsKeepsAbove, InFunctionIsIndex
    <2> QED BY <2>1, <2>2, <2>3 DEF InFunction
  <1>5. Settled(K, S) /\ Extends(J, K, None, {})
    BY <1>2, <1>4, SetReturnSettled
  <1>6. ASSUME f.result = "NEITHER", ~will_return(J, f.then_block), ~will_return(J, e)
        PROVE  /\ Settled(L, S) /\ Extends(J, L, None, {f.then_block, e})
               /\ L.doms[J.size] = f.cond
    <2>1. ~InJoin(J, f.then_block) /\ ~InJoin(J, e) /\ f.then_block # e /\ e \notin S
      BY <1>2, <1>6 DEF Meet, Extends
    <2>2. L.doms[J.size] = f.cond
      BY <1>4, JoinDominator
    <2> QED BY <1>2, <1>4, <1>6, <2>1, <2>2, JoinSettled
  <1> HIDE DEF K, L, end
  <1>7. Settled(end.ir, S)
    BY <1>2, <1>3, <1>5, <1>6
  <1>8. IfLeaves(I, f, e, end)
    <2>1. Extends(I, K, None, {})
      BY <1>2, <1>4, <1>5, ExtendsThen
    <2>2. ASSUME Extends(J, L, None, {f.then_block, e})
          PROVE  Extends(I, L, None, {f.then_block, e})
      BY <1>2, <1>4, <2>2, ExtendsThen
    <2> QED BY <1>2, <1>3, <1>6, <2>1, <2>2 DEF IfLeaves
  <1> QED BY <1>7, <1>8 DEF end

LEMMA BranchDominator ==
  ASSUME NEW I, IROK(I), NEW h, InFunction(I, h), NEW w, InFunction(I, w)
  PROVE  branch(I, h, w).doms[I.size] = h
  <1> DEFINE J == close_loop(I, h, w)
             K == new_block(J, h, "WHILE_BRANCH")
  <1>1. Grows(I, J) /\ J.size = I.size
    BY CloseLoop
  <1>2. I.size \in Nat
    BY DEF IROK, IRType
  <1> HIDE DEF J
  <1>3. K.doms[J.size] = h
    BY <1>1, <1>2 DEF new_block, new_block_helper
  <1>4. branch(I, h, w).doms = K.doms
    BY DEF branch, set_branch_location, J, new_block, new_block_helper
  <1> QED BY <1>1, <1>3, <1>4

\* Where od goes on: in the header, in the last block of a body without an end
\* or in a new block.
WhileLeaves(I, f, w, end) ==
  /\ \/ end.curr \in {f.cond, w}
     \/ end.curr = I.size /\ end.ir.doms[I.size] = f.cond
  /\ Extends(I, end.ir, f.cond, {})

LEMMA WhileEndSettled ==
  ASSUME NEW I, IROK(I), NEW f \in Frames, FrameOK(I, f), Live(f),
         NEW w, InFunction(I, w), ~InJoin(I, w),
         f.result # "TRUE" => f.cond < w, OpenLoop(I, f.cond),
         NEW S, Settled(I, S), NEW T, S \subseteq T \union {f.cond},
         ~Branching(f) => S \subseteq T
  PROVE  LET end == while_end(I, f, w) IN Settled(end.ir, T) /\ WhileLeaves(I, f, w, end)
  <1> DEFINE J == close_loop(I, f.cond, w)
             K == branch(I, f.cond, w)
             end == while_end(I, f, w)
  <1>1. InFunction(I, f.cond) /\ f.result \in {"TRUE", "FALSE", "NEITHER"}
    BY DEF Live, FrameOK, Frames, Relation
  <1>2. CASE f.result = "FALSE"
    <2>1. end.ir = J /\ end.curr = w
      BY <1>2 DEF while_end
    <2>2. Settled(J, S) /\ Extends(I, J, f.cond, {})
      BY <1>1, <1>2, CloseLoopSettled
    <2>3. Settled(J, T)
      BY <1>2, <2>2, MoreOwed DEF Branching
    <2> HIDE DEF end, J
    <2> QED BY <2>1, <2>2, <2>3 DEF end, WhileLeaves
  <1>3. CASE f.result = "TRUE"
    <2>1. end.ir = I /\ end.curr = f.cond
      BY <1>3 DEF while_end
    <2>2. Settled(I, T)
      BY <1>3, MoreOwed DEF Branching
    <2> HIDE DEF end
    <2> QED BY <2>1, <2>2, ExtendsReflexive DEF end, WhileLeaves
  <1>4. CASE f.result = "NEITHER"
    <2>1. end.ir = K /\ end.curr = I.size
      BY <1>4 DEF while_end
    <2>2. Settled(K, T) /\ Extends(I, K, f.cond, {})
      BY <1>1, <1>4, BranchSettled
    <2>3. K.doms[I.size] = f.cond
      BY <1>1, BranchDominator
    <2> HIDE DEF end, K
    <2> QED BY <2>1, <2>2, <2>3 DEF end, WhileLeaves
  <1> QED BY <1>1, <1>2, <1>3, <1>4

-----------------------------------------------------------------------------
(* What lies below the blocks that lead into a JOIN.                       *)

LEMMA InJoinIsBlock ==
  ASSUME NEW I, IROK(I), NEW p, InJoin(I, p)
  PROVE  p \in Nat /\ p < I.size
  <1>1. PICK b \in Indices(I) : p \in Preds(I, b)
    BY DEF InJoin
  <1>2. b \in 0..(I.size - 1) /\ I.size \in Nat
    BY Neighbours
  <1>3. p \in Nat /\ p < b
    BY <1>1, <1>2, NeighboursAreNaturals DEF IROK, GraphOK
  <1> QED BY <1>2, <1>3

LEMMA NewNotInJoin ==
  ASSUME NEW I, IROK(I), NEW K, NEW h, NEW P, Extends(I, K, h, P),
         NEW c \in Int, I.size <= c, c \notin P
  PROVE  ~InJoin(K, c)
  <1>1. ~InJoin(I, c)
    <2>1. I.size \in Nat
      BY DEF IROK, IRType
    <2>2. InJoin(I, c) => c < I.size
      BY InJoinIsBlock
    <2> QED BY <2>1, <2>2
  <1> QED BY <1>1 DEF Extends

LEMMA ClearAbove ==
  ASSUME NEW I, NEW a, NEW b, Clear(I, b), Above(I, a, b)
  PROVE  Clear(I, a)
  BY AboveTransitive DEF Clear

NoneAbove(I, P, b) == \A p \in P : ~Above(I, p, b)

LEMMA ClearLater ==
  ASSUME NEW I, IROK(I), NEW K, SameTree(I, K), NEW h, NEW P, Extends(I, K, h, P),
         NEW b \in 0..(I.size - 1), Clear(I, b), NoneAbove(I, P, b)
  PROVE  Clear(K, b)
  <1> SUFFICES ASSUME NEW p \in Indices(K), InJoin(K, p)
               PROVE  ~Above(K, p, b)
    BY DEF Clear
  <1>1. Above(K, p, b) <=> Above(I, p, b)
    BY AboveInBoth
  <1>2. CASE p \in P
    BY <1>1, <1>2 DEF NoneAbove
  <1>3. CASE InJoin(I, p)
    <2>1. p \in Nat /\ p < I.size /\ I.size \in Nat /\ p # 0
      BY <1>3, InJoinIsBlock DEF Indices, IROK, IRType
    <2>2. p \in Indices(I)
      BY <2>1 DEF Indices
    <2> QED BY <1>1, <1>3, <2>2 DEF Clear
  <1> QED BY <1>2, <1>3 DEF Extends

LEMMA ClearStays ==
  ASSUME NEW I, IROK(I), NEW K, SameTree(I, K), NEW h, Extends(I, K, h, {}),
         NEW b \in 0..(I.size - 1), Clear(I, b)
  PROVE  Clear(K, b)
  BY ClearLater DEF NoneAbove

LEMMA ClearChild ==
  ASSUME NEW K, IROK(K), NEW c \in Indices(K), ~InJoin(K, c), NEW a, K.doms[c] = a, Clear(K, a)
  PROVE  Clear(K, c)
  <1> SUFFICES ASSUME NEW p \in Indices(K), InJoin(K, p), Above(K, p, c)
               PROVE  FALSE
    BY DEF Clear
  <1>1. p # c /\ c \in 0..(K.size - 1)
    BY Neighbours
  <1>2. Above(K, p, a)
    BY <1>1, AboveByParent
  <1> QED BY <1>2 DEF Clear

LEMMA KeptClearStays ==
  ASSUME NEW I, IROK(I), NEW K, SameTree(I, K), NEW h, Extends(I, K, h, {}),
         NEW q, StackOK(q, I), KeptClear(I, q)
  PROVE  KeptClear(K, q)
  <1> SUFFICES ASSUME NEW i \in 1..Len(q), Kept(q[i])
               PROVE  Clear(K, q[i].then_block)
    BY DEF KeptClear
  <1>1. Clear(I, q[i].then_block)
    BY DEF KeptClear
  <1>2. InFunction(I, q[i].then_block)
    BY DEF StackOK, FrameOK, Kept, Live
  <1>3. q[i].then_block \in 0..(I.size - 1)
    BY <1>2, InFunctionIsIndex
  <1> QED BY <1>1, <1>3, ClearStays

LEMMA KeptClearPush ==
  ASSUME NEW I, NEW q \in Seq(Frames), KeptClear(I, q), NEW f \in Frames, ~f.in_else
  PROVE  KeptClear(I, Append(q, f))
  <1>1. /\ Len(Append(q, f)) = Len(q) + 1 /\ Len(q) \in Nat
        /\ \A i \in 1..(Len(q) + 1) : Append(q, f)[i] = IF i = Len(q) + 1 THEN f ELSE q[i]
    OBVIOUS
  <1> QED BY <1>1 DEF KeptClear, Kept

LEMMA KeptClearPop ==
  ASSUME NEW I, NEW q \in Seq(Frames), q # <<>>, KeptClear(I, q),
         NEW p, Len(p) = Len(q) - 1, \A i \in 1..(Len(q) - 1) : p[i] = q[i]
  PROVE  KeptClear(I, p)
  <1>1. \A i \in 1..Len(p) : i \in 1..Len(q) /\ p[i] = q[i]
    OBVIOUS
  <1> QED BY <1>1 DEF KeptClear

LEMMA KeptClearChange ==
  ASSUME NEW I, NEW q \in Seq(Frames), q # <<>>, KeptClear(I, q),
         NEW p, Len(p) = Len(q), \A i \in 1..(Len(q) - 1) : p[i] = q[i],
         Kept(p[Len(q)]) => Clear(I, p[Len(q)].then_block)
  PROVE  KeptClear(I, p)
  <1>1. \A i \in 1..Len(p) : i \in 1..Len(q) /\ (p[i] = q[i] \/ i = Len(q))
    OBVIOUS
  <1> QED BY <1>1 DEF KeptClear

-----------------------------------------------------------------------------
(* The stack.                                                              *)

\* The activations of p are the outer ones of q.
SameStarts(p, q) ==
  /\ Len(p) \in Nat /\ Len(q) \in Nat /\ Len(p) <= Len(q)
  /\ \A i \in 1..Len(p) :
       p[i].kind = q[i].kind /\ p[i].result = q[i].result /\ p[i].cond = q[i].cond

LEMMA SameStartsAt ==
  ASSUME NEW p, NEW q, SameStarts(p, q), NEW i \in 1..Len(p)
  PROVE  /\ i \in 1..Len(q)
         /\ p[i].cond = q[i].cond
         /\ LiveLoop(p[i]) = LiveLoop(q[i]) /\ Entered(p[i]) = Entered(q[i])
         /\ Live(p[i]) = Live(q[i])
  BY DEF SameStarts, LiveLoop, Entered, Branching, Live

LEMMA PopStarts ==
  ASSUME NEW q \in Seq(Frames), q # <<>>,
         NEW p, Len(p) = Len(q) - 1, \A i \in 1..(Len(q) - 1) : p[i] = q[i]
  PROVE  SameStarts(p, q)
  <1>1. Len(q) \in Nat \ {0}
    OBVIOUS
  <1> QED BY <1>1 DEF SameStarts

LEMMA StartsReflexive ==
  ASSUME NEW q \in Seq(Frames)
  PROVE  SameStarts(q, q)
  <1>1. Len(q) \in Nat
    OBVIOUS
  <1> QED BY <1>1 DEF SameStarts

\* No loop of q has the header h.
NotHeaderOf(q, h) == \A i \in 1..Len(q) : LiveLoop(q[i]) => q[i].cond # h

LEMMA LoopsStayOpen ==
  ASSUME NEW I, IROK(I), NEW K, NEW h, NEW P, Extends(I, K, h, P),
         NEW q, StackOK(q, I), LoopsOpen(I, q),
         NEW p, SameStarts(p, q), NotHeaderOf(p, h)
  PROVE  LoopsOpen(K, p)
  <1> SUFFICES ASSUME NEW i \in 1..Len(p), LiveLoop(p[i])
               PROVE  OpenLoop(K, p[i].cond)
    BY DEF LoopsOpen
  <1> DEFINE c == p[i].cond
  <1>1. i \in 1..Len(q) /\ c = q[i].cond /\ LiveLoop(q[i])
    BY SameStartsAt
  <1>2. OpenLoop(I, c)
    BY <1>1 DEF LoopsOpen
  <1>3. c \in Indices(I)
    BY <1>1 DEF StackOK, FrameOK, LiveLoop, Live, InFunction
  <1>4. c # h
    BY DEF NotHeaderOf
  <1> HIDE DEF c
  <1>5. OpenLoop(K, c)
    BY <1>2, <1>3, <1>4 DEF OpenLoop, is_loop_header, Extends
  <1> QED BY <1>5 DEF c

LEMMA StartsKeep ==
  ASSUME NEW q, OwnHeaders(q), Ascending(q), NEW p, SameStarts(p, q)
  PROVE  OwnHeaders(p) /\ Ascending(p)
  <1>1. ASSUME NEW i \in 1..Len(p), NEW j \in 1..Len(p), LiveLoop(p[i]), LiveLoop(p[j]), i # j
        PROVE  p[i].cond # p[j].cond
    BY <1>1, SameStartsAt DEF OwnHeaders
  <1>2. ASSUME NEW i \in 1..Len(p), NEW j \in 1..Len(p), i < j, Entered(p[i]), Live(p[j])
        PROVE  p[i].cond < p[j].cond
    BY <1>2, SameStartsAt DEF Ascending
  <1> QED BY <1>1, <1>2 DEF OwnHeaders, Ascending

LEMMA BeforeLater ==
  ASSUME NEW q \in Seq(Frames), NEW b \in Int, Before(q, b), NEW c \in Int, b <= c
  PROVE  Before(q, c)
  <1> SUFFICES ASSUME NEW i \in 1..Len(q), Entered(q[i])
               PROVE  q[i].cond < c
    BY DEF Before
  <1>1. q[i].cond < b
    BY DEF Before
  <1>2. q[i].cond \in Int
    <2>1. q[i] \in Frames
      OBVIOUS
    <2> QED BY <2>1 DEF Frames
  <1> QED BY <1>1, <1>2

\* The outer activations started before the block the innermost one started in.
LEMMA BeforeOuter ==
  ASSUME NEW q \in Seq(Frames), q # <<>>, NEW b, Before(q, b), Ascending(q),
         NEW p, Len(p) = Len(q) - 1, \A i \in 1..(Len(q) - 1) : p[i] = q[i],
         NEW a, a = IF Live(q[Len(q)]) THEN q[Len(q)].cond ELSE b
  PROVE  Before(p, a)
  <1> SUFFICES ASSUME NEW i \in 1..Len(p), Entered(p[i])
               PROVE  p[i].cond < a
    BY DEF Before
  <1> DEFINE n == Len(q)
  <1>1. n \in Nat \ {0} /\ n \in 1..n
    OBVIOUS
  <1>2. i \in 1..n /\ i < n /\ p[i] = q[i]
    BY <1>1
  <1>3. CASE Live(q[n])
    BY <1>1, <1>2, <1>3 DEF Ascending
  <1>4. CASE ~Live(q[n])
    BY <1>2, <1>4 DEF Before
  <1> QED BY <1>3, <1>4

LEMMA PushShape ==
  ASSUME NEW q \in Seq(Frames), NEW f \in Frames
  PROVE  /\ Len(Append(q, f)) = Len(q) + 1 /\ Len(q) \in Nat
         /\ \A i \in 1..(Len(q) + 1) :
              /\ i = Len(q) + 1 => Append(q, f)[i] = f
              /\ i # Len(q) + 1 => i \in 1..Len(q) /\ Append(q, f)[i] = q[i]
  OBVIOUS

LEMMA PushOpens ==
  ASSUME NEW I, NEW q \in Seq(Frames), LoopsOpen(I, q), OwnHeaders(q), Ascending(q),
         NEW c, Before(q, c), NEW f \in Frames,
         LiveLoop(f) => OpenLoop(I, f.cond) /\ NotHeaderOf(q, f.cond),
         Entered(f) => f.cond < c,
         Live(f) => Before(q, f.cond)
  PROVE  Opens(I, Append(q, f), c)
  <1> DEFINE p == Append(q, f)
             n == Len(q) + 1
  <1>1. /\ Len(p) = n /\ Len(q) \in Nat
        /\ \A i \in 1..n : /\ i = n => p[i] = f
                           /\ i # n => i \in 1..Len(q) /\ p[i] = q[i]
    BY PushShape
  <1> HIDE DEF p
  <1>2. LoopsOpen(I, p)
    BY <1>1 DEF LoopsOpen
  <1>3. OwnHeaders(p)
    <2> SUFFICES ASSUME NEW i \in 1..n, NEW j \in 1..n, LiveLoop(p[i]), LiveLoop(p[j]), i # j
                 PROVE  p[i].cond # p[j].cond
      BY <1>1 DEF OwnHeaders
    <2>1. CASE i # n /\ j # n
      BY <1>1, <2>1 DEF OwnHeaders
    <2>2. CASE i = n
      BY <1>1, <2>2 DEF NotHeaderOf
    <2>3. CASE j = n
      BY <1>1, <2>3 DEF NotHeaderOf
    <2> QED BY <2>1, <2>2, <2>3
  <1>4. Before(p, c)
    BY <1>1 DEF Before
  <1>5. Ascending(p)
    <2> SUFFICES ASSUME NEW i \in 1..n, NEW j \in 1..n, i < j, Entered(p[i]), Live(p[j])
                 PROVE  p[i].cond < p[j].cond
      BY <1>1 DEF Ascending
    <2>1. i # n
      BY <1>1
    <2>2. CASE j # n
      BY <1>1, <2>1, <2>2 DEF Ascending
    <2>3. CASE j = n
      BY <1>1, <2>1, <2>3 DEF Before
    <2> QED BY <2>2, <2>3
  <1> QED BY <1>2, <1>3, <1>4, <1>5 DEF Opens, p

LEMMA OwedPush ==
  ASSUME NEW q \in Seq(Frames), NEW f \in Frames
  PROVE  OwedWay(Append(q, f)) = OwedWay(q) \union (IF Waiting(f) THEN {f.cond} ELSE {})
  <1> DEFINE p == Append(q, f)
             n == Len(q)
  <1>1. n \in Nat /\ Len(p) = n + 1 /\ p[n + 1] = f /\ \A i \in 1..n : p[i] = q[i]
    OBVIOUS
  <1> HIDE DEF p, n
  <1>2. \A i \in 1..(n + 1) : i \in 1..n \/ i = n + 1
    BY <1>1
  <1>3. ASSUME NEW x \in OwedWay(p)
        PROVE  x \in OwedWay(q) \union (IF Waiting(f) THEN {f.cond} ELSE {})
    <2>1. PICK i \in 1..(n + 1) : Waiting(p[i]) /\ x = p[i].cond
      BY <1>1, <1>3 DEF OwedWay
    <2>2. CASE i \in 1..n
      BY <1>1, <2>1, <2>2 DEF OwedWay, n
    <2>3. CASE i = n + 1
      BY <1>1, <2>1, <2>3
    <2> QED BY <1>2, <2>2, <2>3
  <1>4. ASSUME NEW x \in OwedWay(q)
        PROVE  x \in OwedWay(p)
    <2>1. PICK i \in 1..n : Waiting(q[i]) /\ x = q[i].cond
      BY <1>4 DEF OwedWay, n
    <2>2. i \in 1..(n + 1)
      BY <1>1
    <2> QED BY <1>1, <2>1, <2>2 DEF OwedWay
  <1>5. Waiting(f) => f.cond \in OwedWay(p)
    <2>1. n + 1 \in 1..(n + 1)
      BY <1>1
    <2> QED BY <1>1, <2>1 DEF OwedWay
  <1> QED BY <1>3, <1>4, <1>5 DEF p

\* The top of the stack is popped or changed.
LEMMA OwedTop ==
  ASSUME NEW q \in Seq(Frames), q # <<>>, NEW p, Len(p) \in {Len(q) - 1, Len(q)},
         \A i \in 1..(Len(q) - 1) : p[i] = q[i]
  PROVE  /\ OwedWay(q) \subseteq OwedWay(p) \union {q[Len(q)].cond}
         /\ ~Waiting(q[Len(q)]) => OwedWay(q) \subseteq OwedWay(p)
  <1> DEFINE n == Len(q)
  <1>1. n \in Nat \ {0} /\ \A i \in 1..n : i \in 1..(n - 1) \/ i = n
    OBVIOUS
  <1> HIDE DEF n
  <1> SUFFICES ASSUME NEW i \in 1..n, Waiting(q[i])
               PROVE  \/ q[i].cond \in OwedWay(p)
                      \/ i = n
    BY DEF OwedWay, n
  <1>2. CASE i \in 1..(n - 1)
    <2>1. i \in 1..Len(p) /\ p[i] = q[i]
      BY <1>1, <1>2 DEF n
    <2> QED BY <2>1 DEF OwedWay
  <1> QED BY <1>1, <1>2

LEMMA IgnoredPush ==
  ASSUME NEW q \in Seq(Frames), NEW flag, IgnoredInside(q, flag), NEW f \in Frames, ~f.in_else,
         NEW new, flag => ~Live(f) /\ new
  PROVE  IgnoredInside(Append(q, f), new)
  <1> DEFINE p == Append(q, f)
             n == Len(q) + 1
  <1>1. /\ Len(p) = n /\ Len(q) \in Nat
        /\ \A i \in 1..n : /\ i = n => p[i] = f
                           /\ i # n => i \in 1..Len(q) /\ p[i] = q[i]
    BY PushShape
  <1> HIDE DEF p
  <1> SUFFICES ASSUME NEW i \in 1..n, ElseIgnored(p[i])
               PROVE  new /\ \A j \in (i + 1)..n : ~Live(p[j])
    BY <1>1 DEF IgnoredInside, p
  <1>2. i # n
    BY <1>1 DEF ElseIgnored
  <1>3. i \in 1..Len(q) /\ flag /\ \A j \in (i + 1)..Len(q) : ~Live(q[j])
    BY <1>1, <1>2 DEF IgnoredInside
  <1>4. ASSUME NEW j \in (i + 1)..n
        PROVE  ~Live(p[j])
    <2>1. j \in 1..n /\ (j # n => j \in (i + 1)..Len(q))
      BY <1>1, <1>3
    <2> QED BY <1>1, <1>3, <2>1
  <1> QED BY <1>3, <1>4

\* An activation inside an else part that is ignored is not live.
LEMMA IgnoredTop ==
  ASSUME NEW q \in Seq(Frames), q # <<>>, NEW flag, IgnoredInside(q, flag), Live(q[Len(q)]),
         NEW i \in 1..(Len(q) - 1)
  PROVE  ~ElseIgnored(q[i])
  <1>1. Len(q) \in (i + 1)..Len(q) /\ i \in 1..Len(q)
    OBVIOUS
  <1> QED BY <1>1 DEF IgnoredInside

LEMMA IgnoredPop ==
  ASSUME NEW q \in Seq(Frames), q # <<>>, NEW flag, IgnoredInside(q, flag),
         NEW p, Len(p) = Len(q) - 1, \A i \in 1..(Len(q) - 1) : p[i] = q[i],
         NEW new, Live(q[Len(q)]) \/ new
  PROVE  IgnoredInside(p, new)
  <1> SUFFICES ASSUME NEW i \in 1..Len(p), ElseIgnored(p[i])
               PROVE  new /\ \A j \in (i + 1)..Len(p) : ~Live(p[j])
    BY DEF IgnoredInside
  <1>1. i \in 1..(Len(q) - 1) /\ i \in 1..Len(q) /\ ElseIgnored(q[i])
    OBVIOUS
  <1>2. new
    BY <1>1, IgnoredTop
  <1>3. \A j \in (i + 1)..Len(p) : j \in (i + 1)..Len(q) /\ p[j] = q[j]
    OBVIOUS
  <1> QED BY <1>1, <1>2, <1>3 DEF IgnoredInside

LEMMA IgnoredChange ==
  ASSUME NEW q \in Seq(Frames), q # <<>>, NEW flag, IgnoredInside(q, flag),
         NEW p, Len(p) = Len(q), \A i \in 1..(Len(q) - 1) : p[i] = q[i],
         Live(p[Len(q)]) = Live(q[Len(q)]),
         NEW new, ~Live(q[Len(q)]) \/ ElseIgnored(p[Len(q)]) => new
  PROVE  IgnoredInside(p, new)
  <1> SUFFICES ASSUME NEW i \in 1..Len(p), ElseIgnored(p[i])
               PROVE  new /\ \A j \in (i + 1)..Len(p) : ~Live(p[j])
    BY DEF IgnoredInside
  <1>1. CASE i = Len(q)
    BY <1>1
  <1>2. CASE i # Len(q)
    <2>1. i \in 1..(Len(q) - 1) /\ i \in 1..Len(q) /\ ElseIgnored(q[i])
      BY <1>2
    <2>2. ~Live(q[Len(q)])
      BY <2>1, IgnoredTop
    <2>3. \A j \in (i + 1)..Len(p) : j \in (i + 1)..Len(q) /\ (p[j] = q[j] \/ j = Len(q))
      OBVIOUS
    <2> QED BY <2>1, <2>2, <2>3 DEF IgnoredInside
  <1> QED BY <1>1, <1>2

-----------------------------------------------------------------------------
(* The steps.                                                              *)

LEMMA ClearNotInJoin ==
  ASSUME NEW I, NEW b \in Indices(I), Clear(I, b)
  PROVE  ~InJoin(I, b)
  BY AboveReflexive DEF Clear

LEMMA NoLoopAtNone ==
  ASSUME NEW q
  PROVE  NotHeaderOf(q, None)
  BY DEF NotHeaderOf, LiveLoop, Live

LEMMA EStateFacts ==
  ASSUME EInv
  PROVE  /\ DInv /\ Inv /\ IROK(ir) /\ Settled(ir, OwedWay(frames))
         /\ frames \in Seq(Frames) /\ StackOK(frames, ir)
         /\ ir.size \in Nat /\ pos \in Nat /\ IgnoredInside(frames, ignore)
         /\ Parsing =>
              /\ curr_block \in Indices(ir) /\ InFunction(ir, curr_block)
              /\ curr_block \in 0..(ir.size - 1) /\ curr_block \in Int
              /\ Clear(ir, curr_block) /\ KeptClear(ir, frames) /\ ~InJoin(ir, curr_block)
              /\ LoopsOpen(ir, frames) /\ OwnHeaders(frames)
              /\ Before(frames, curr_block) /\ Ascending(frames)
  <1>1. DInv /\ Inv /\ Settled(ir, OwedWay(frames)) /\ IgnoredInside(frames, ignore)
    BY DEF EInv, DInv
  <1>2. /\ IROK(ir) /\ frames \in Seq(Frames) /\ StackOK(frames, ir)
        /\ ir.size \in Nat /\ pos \in Nat
        /\ Parsing => curr_block \in Indices(ir) /\ InFunction(ir, curr_block)
    BY <1>1, DStateFacts, StateFacts
  <1>3. Parsing => /\ Clear(ir, curr_block) /\ KeptClear(ir, frames)
                   /\ LoopsOpen(ir, frames) /\ OwnHeaders(frames)
                   /\ Before(frames, curr_block) /\ Ascending(frames)
    BY DEF EInv, Apart, Opens
  <1>4. Parsing => /\ curr_block \in 0..(ir.size - 1) /\ curr_block \in Int
                   /\ ~InJoin(ir, curr_block)
    BY <1>2, <1>3, Neighbours, ClearNotInJoin
  <1> QED BY <1>1, <1>2, <1>3, <1>4

\* Inside the same constructs, in the same block.
LEMMA SameStackStep ==
  ASSUME EInv, Parsing, DInv', Grows(ir, ir'), Settled(ir', OwedWay(frames)),
         Extends(ir, ir', None, {}), UNCHANGED <<curr_block, frames>>, ignore => ignore'
  PROVE  EInv'
  <1>1. IROK(ir') /\ SameTree(ir, ir')
    BY GrowsInTree DEF Grows
  <1>2. Apart(ir', frames', curr_block')
    BY <1>1, EStateFacts, ClearStays, KeptClearStays DEF Apart
  <1>3. LoopsOpen(ir', frames')
    BY EStateFacts, LoopsStayOpen, StartsReflexive, NoLoopAtNone
  <1>4. Opens(ir', frames', curr_block')
    BY <1>3, EStateFacts DEF Opens
  <1>5. IgnoredInside(frames', ignore')
    BY EStateFacts DEF IgnoredInside
  <1> QED BY <1>2, <1>4, <1>5 DEF EInv

\* A construct begins.
LEMMA PushStep ==
  ASSUME EInv, Parsing, DInv', NEW f \in Frames, frames' = Append(frames, f), ~f.in_else,
         Grows(ir, ir'), Extends(ir, ir', None, {}), Settled(ir', OwedWay(frames')),
         Clear(ir', curr_block'), curr_block' \in Int, curr_block <= curr_block',
         LiveLoop(f) => OpenLoop(ir', f.cond) /\ NotHeaderOf(frames, f.cond),
         Entered(f) => f.cond < curr_block',
         Live(f) => curr_block <= f.cond, ignore => ~Live(f) /\ ignore'
  PROVE  EInv'
  <1>1. IROK(ir') /\ SameTree(ir, ir')
    BY GrowsInTree DEF Grows
  <1>2. KeptClear(ir', frames)
    BY <1>1, EStateFacts, KeptClearStays
  <1>3. KeptClear(ir', frames')
    BY <1>2, EStateFacts, KeptClearPush
  <1>4. LoopsOpen(ir', frames)
    BY EStateFacts, LoopsStayOpen, StartsReflexive, NoLoopAtNone
  <1>5. f.cond \in Int
    BY DEF Frames
  <1>6. Before(frames, curr_block') /\ (Live(f) => Before(frames, f.cond))
    BY <1>5, EStateFacts, BeforeLater
  <1>7. Opens(ir', frames', curr_block')
    BY <1>4, <1>6, EStateFacts, PushOpens
  <1>8. IgnoredInside(frames', ignore')
    BY EStateFacts, IgnoredPush
  <1> QED BY <1>3, <1>7, <1>8 DEF EInv, Apart

\* The innermost construct is complete.
LEMMA PopStep ==
  ASSUME EInv, Parsing, DInv', frames # <<>>, frames' = Pop,
         Grows(ir, ir'), NEW h, NEW P, Extends(ir, ir', h, P), NotHeaderOf(Pop, h),
         Settled(ir', OwedWay(frames')), Clear(ir', curr_block'), KeptClear(ir', Pop),
         curr_block' \in Int, (IF Live(Top) THEN Top.cond ELSE curr_block) <= curr_block',
         Live(Top) \/ ignore'
  PROVE  EInv'
  <1> DEFINE a == IF Live(Top) THEN Top.cond ELSE curr_block
             p == Pop
  <1>1. /\ Len(p) = Len(frames) - 1 /\ \A i \in 1..(Len(frames) - 1) : p[i] = frames[i]
        /\ Top = frames[Len(frames)] /\ Top \in Frames
    BY EStateFacts, ShapeOfPop, TopOfStack DEF Top
  <1>2. p \in Seq(Frames) /\ a \in Int
    <2>1. p \in Seq(Frames)
      BY EStateFacts DEF Pop
    <2>2. Top.cond \in Int
      BY <1>1 DEF Frames
    <2> QED BY <2>1, <2>2, EStateFacts
  <1>3. frames' = p /\ a <= curr_block' /\ NotHeaderOf(p, h) /\ KeptClear(ir', p)
    OBVIOUS
  <1> HIDE DEF p
  <1>4. SameStarts(p, frames)
    BY <1>1, EStateFacts, PopStarts
  <1>5. LoopsOpen(ir', p)
    BY <1>3, <1>4, EStateFacts, LoopsStayOpen
  <1>6. OwnHeaders(p) /\ Ascending(p)
    BY <1>4, EStateFacts, StartsKeep
  <1>7. Before(p, a)
    BY <1>1, EStateFacts, BeforeOuter
  <1> HIDE DEF a
  <1>8. Before(p, curr_block')
    BY <1>2, <1>3, <1>7, BeforeLater
  <1>9. Opens(ir', frames', curr_block')
    BY <1>3, <1>5, <1>6, <1>8 DEF Opens
  <1>10. IgnoredInside(frames', ignore')
    <2>1. Live(frames[Len(frames)]) \/ ignore'
      BY <1>1
    <2> QED BY <1>1, <1>3, <2>1, EStateFacts, IgnoredPop
  <1> QED BY <1>3, <1>9, <1>10 DEF EInv, Apart

LEMMA SimpleStatementSettled ==
  ASSUME EInv, SimpleStatement
  PROVE  EInv'
  <1>1. Parsing /\ UNCHANGED <<curr_block, frames, ignore>>
    BY DEF SimpleStatement, NextPoint
  <1>2. DInv'
    BY SimpleStatementSound DEF EInv
  <1>3. Grows(ir, ir')
    BY <1>1, EStateFacts, StateFacts, CurrentBlock, AddInstruction DEF SimpleStatement
  <1>4. Settled(ir', OwedWay(frames)) /\ Extends(ir, ir', None, {})
    <2>1. CASE ignore
      BY <2>1, EStateFacts, ExtendsReflexive DEF SimpleStatement
    <2>2. CASE ~ignore
      <3>1. ir' = add_instruction(ir, curr_block, pos)
        BY <2>2 DEF SimpleStatement
      <3> QED BY <1>1, <3>1, EStateFacts, AddInstructionSettled
    <2> QED BY <2>1, <2>2
  <1> QED BY <1>1, <1>2, <1>3, <1>4, SameStackStep

LEMMA ReturnStatementSettled ==
  ASSUME EInv, ReturnStatement
  PROVE  EInv'
  <1>1. Parsing /\ UNCHANGED <<curr_block, frames>> /\ ignore'
    BY DEF ReturnStatement, NextPoint
  <1>2. DInv' /\ "RET" \in BranchOp
    BY ReturnStatementSound DEF EInv, BranchOp
  <1>3. Grows(ir, ir')
    BY <1>1, <1>2, EStateFacts, StateFacts, EmitAndBranch DEF ReturnStatement
  <1>4. Settled(ir', OwedWay(frames)) /\ Extends(ir, ir', None, {})
    <2>1. CASE ignore
      BY <2>1, EStateFacts, ExtendsReflexive DEF ReturnStatement
    <2>2. CASE ~ignore
      <3> DEFINE K == set_branch_cond(add_instruction(ir, curr_block, pos), curr_block, "RET", None)
      <3>1. ir' = K
        BY <2>2 DEF ReturnStatement
      <3>2. Settled(K, OwedWay(frames)) /\ Extends(ir, K, None, {})
        BY <1>1, EStateFacts, EmitAndReturn
      <3> QED BY <3>1, <3>2
    <2> QED BY <2>1, <2>2
  <1> QED BY <1>1, <1>2, <1>3, <1>4, SameStackStep

LEMMA NewBlockDominator ==
  ASSUME NEW I, IROK(I), NEW p, NEW t
  PROVE  new_block(I, p, t).doms[I.size] = p
  <1>1. I.size \in 0..I.size
    BY DEF IROK, IRType
  <1> QED BY <1>1 DEF new_block, new_block_helper

\* A new block of the current one's children.
LEMMA NewBlockClear ==
  ASSUME NEW I, IROK(I), NEW p, InFunction(I, p), Clear(I, p),
         NEW t \in (Blocktype \union {"LOOP_HEADER"}) \ {"JOIN"},
         NEW J, J = new_block(I, p, t), Extends(I, J, None, {})
  PROVE  Clear(J, I.size)
  <1>1. p \in Indices(I) /\ p \in 0..(I.size - 1) /\ I.size \in Int /\ I.size <= I.size
    BY InFunctionIsIndex DEF IROK, IRType
  <1>2. J.doms[I.size] = p
    BY NewBlockDominator
  <1>3. IROK(J) /\ I.size \in Indices(J) /\ SameTree(I, J)
    <2>1. Grows(I, J) /\ InFunction(J, I.size)
      BY NewBlock
    <2> QED BY <2>1, GrowsInTree DEF Grows, InFunction
  <1>4. Clear(J, p)
    BY <1>1, <1>3, ClearStays
  <1>5. ~InJoin(J, I.size)
    BY <1>1, NewNotInJoin
  <1> QED BY <1>2, <1>3, <1>4, <1>5, ClearChild

LEMMA IfThenSettled ==
  ASSUME EInv, NEW r \in Relation, IfThen(r)
  PROVE  EInv'
  <1> DEFINE A == add_instruction(ir, curr_block, pos)
             I == set_branch_cond(A, curr_block, "Bcc", None)
             f == Frame("if", r, curr_block)
             J == new_block(I, curr_block, "IF_FALLTHROUGH")
             S == OwedWay(frames)
             T == S \union (IF Waiting(f) THEN {f.cond} ELSE {})
  <1>1. /\ Parsing /\ frames' = Append(frames, f) /\ ~ignore
        /\ IF r = "NEITHER" THEN ir' = J /\ curr_block' = I.size
           ELSE UNCHANGED <<ir, curr_block>>
    BY DEF IfThen, NextPoint
  <1>2. DInv'
    BY IfThenSound DEF EInv
  <1>3. /\ f \in Frames /\ f.cond = curr_block /\ ~f.in_else
        /\ f.kind = "if" /\ f.result = r /\ ~LiveLoop(f)
        /\ Waiting(f) <=> r = "NEITHER"
        /\ Entered(f) => r = "NEITHER"
    <2>1. f \in Frames /\ f.cond = curr_block /\ ~f.in_else
      BY <1>1, EStateFacts, NewFrame DEF Inv
    <2>2. f.kind = "if" /\ f.result = r
      BY DEF Frame
    <2> HIDE DEF f
    <2> QED BY <2>1, <2>2 DEF Branching, Waiting, LiveLoop, Entered
  <1> HIDE DEF f
  <1>4. OwedWay(frames') = T
    <2>1. frames \in Seq(Frames) /\ f \in Frames /\ frames' = Append(frames, f)
      BY <1>1, <1>3, EStateFacts
    <2> QED BY <2>1, OwedPush
  <1>5. CASE r = "NEITHER"
    <2>1. "Bcc" \in BranchOp /\ "IF_FALLTHROUGH" \in WayType
          /\ "IF_FALLTHROUGH" \in (Blocktype \union {"LOOP_HEADER"}) \ {"JOIN"}
      BY DEF BranchOp, Blocktype, WayType
    <2>2. IROK(A) /\ A.size = ir.size /\ Grows(ir, A) /\ InFunction(A, curr_block)
          /\ SameTree(ir, A)
      <3>1. Grows(ir, A) /\ A.size = ir.size
        BY <1>1, EStateFacts, AddInstruction
      <3> HIDE DEF A
      <3> QED BY <1>1, <3>1, EStateFacts, GrowsKeepsFunction, GrowsInTree DEF Grows, IROK
    <2>3. Settled(A, S) /\ Extends(ir, A, None, {})
      BY <1>1, EStateFacts, AddInstructionSettled
    <2>4. Grows(ir, I) /\ I.size = ir.size /\ InFunction(I, curr_block)
      BY <1>1, <2>1, EStateFacts, EmitAndBranch
    <2> HIDE DEF A
    <2>5. ~InJoin(A, curr_block)
      <3>1. InJoin(A, curr_block) => InJoin(ir, curr_block)
        BY <2>3 DEF Extends
      <3> QED BY <1>1, <3>1, EStateFacts
    <2>6. S \subseteq T /\ curr_block \in T
      BY <1>3, <1>5
    <2> HIDE DEF S, T
    <2>7. Settled(J, T) /\ Extends(A, J, None, {})
      BY <2>1, <2>2, <2>3, <2>5, <2>6, FirstWay
    <2>8. Extends(ir, J, None, {})
      <3>1. Indices(ir) \subseteq Indices(A)
        BY <2>2 DEF Indices
      <3> QED BY <2>3, <2>7, <3>1, ExtendsThen
    <2>9. IROK(I) /\ "IF_FALLTHROUGH" \in Blocktype \union {"LOOP_HEADER"}
      BY <2>1, <2>4 DEF Grows
    <2> HIDE DEF I
    <2>10. Grows(I, J) /\ InFunction(J, I.size) /\ J.doms[I.size] = curr_block
      BY <2>4, <2>9, NewBlock, NewBlockDominator
    <2> HIDE DEF J
    <2>11. Grows(ir, J) /\ IROK(J) /\ SameTree(ir, J)
      <3>1. Grows(ir, J)
        BY <2>4, <2>10, EStateFacts, GrowsTransitive DEF IROK
      <3> QED BY <3>1, GrowsInTree DEF Grows
    <2>12. Clear(J, I.size)
      <3>1. Clear(J, curr_block)
        BY <1>1, <2>8, <2>11, EStateFacts, ClearStays
      <3>2. ~InJoin(J, I.size)
        BY <2>4, <2>8, EStateFacts, NewNotInJoin
      <3> QED BY <2>10, <2>11, <3>1, <3>2, ClearChild DEF InFunction
    <2>13. curr_block < I.size /\ I.size \in Int
      BY <1>1, <2>4, EStateFacts
    <2>14. curr_block <= I.size /\ curr_block <= f.cond /\ f.cond < I.size
      BY <1>1, <1>3, <2>13, EStateFacts
    <2>15. ir' = J /\ curr_block' = I.size /\ Settled(ir', OwedWay(frames'))
      BY <1>1, <1>4, <1>5, <2>7
    <2> QED BY <1>1, <1>2, <1>3, <2>8, <2>11, <2>12, <2>13, <2>14, <2>15, PushStep
  <1>6. CASE r # "NEITHER"
    <2>1. ir' = ir /\ curr_block' = curr_block
      BY <1>1, <1>6
    <2>2. Settled(ir', OwedWay(frames'))
      BY <1>3, <1>4, <1>6, <2>1, EStateFacts
    <2>3. Grows(ir, ir') /\ Extends(ir, ir', None, {})
      BY <2>1, EStateFacts, GrowsReflexive, ExtendsReflexive
    <2>4. Clear(ir', curr_block') /\ curr_block' \in Int /\ curr_block <= curr_block'
          /\ curr_block <= f.cond /\ ~Entered(f)
      BY <1>1, <1>3, <1>6, <2>1, EStateFacts
    <2> QED BY <1>1, <1>2, <1>3, <2>2, <2>3, <2>4, PushStep
  <1> QED BY <1>5, <1>6

LEMMA IgnoredConstructSettled ==
  ASSUME EInv, IfThenIgnored \/ WhileDoIgnored
  PROVE  EInv'
  <1>1. PICK kind \in {"if", "while"} : frames' = Append(frames, Frame(kind, "NEITHER", None))
    BY DEF IfThenIgnored, WhileDoIgnored
  <1>2. Parsing /\ UNCHANGED <<ir, curr_block, ignore>> /\ ignore
    BY DEF IfThenIgnored, WhileDoIgnored, NextPoint
  <1>3. DInv'
    BY IgnoredConstructSound DEF EInv
  <1> DEFINE f == Frame(kind, "NEITHER", None)
  <1>4. f \in Frames /\ f.cond = None /\ ~f.in_else
    BY EStateFacts, StateFacts, NewFrame DEF Inv, Relation
  <1>5. frames' = Append(frames, f)
    BY <1>1
  <1> HIDE DEF f
  <1>6. ~Live(f) /\ ~LiveLoop(f) /\ ~Entered(f)
    BY <1>4 DEF Live, LiveLoop, Entered
  <1>7. OwedWay(frames) \subseteq OwedWay(frames')
    BY <1>4, <1>5, EStateFacts, OwedPush
  <1>8. Settled(ir', OwedWay(frames'))
    BY <1>2, <1>7, EStateFacts, MoreOwed
  <1>9. Grows(ir, ir') /\ Extends(ir, ir', None, {})
    BY <1>2, EStateFacts, GrowsReflexive, ExtendsReflexive
  <1>10. Clear(ir', curr_block') /\ curr_block' \in Int /\ curr_block <= curr_block'
    BY <1>2, EStateFacts
  <1> QED BY <1>2, <1>3, <1>4, <1>5, <1>6, <1>8, <1>9, <1>10, PushStep

\* The innermost activation changes, not what it started from.
LEMMA ChangeStep ==
  ASSUME EInv, Parsing, DInv', frames # <<>>, NEW f, Len(frames') = Len(frames),
         frames'[Len(frames)] = f, \A i \in 1..(Len(frames) - 1) : frames'[i] = frames[i],
         f.kind = Top.kind, f.result = Top.result, f.cond = Top.cond,
         Grows(ir, ir'), Extends(ir, ir', None, {}), Settled(ir', OwedWay(frames')),
         Clear(ir', curr_block'), Kept(f) => Clear(ir', f.then_block),
         curr_block' \in Int, (IF Live(Top) THEN Top.cond ELSE curr_block) <= curr_block',
         Entered(f) => f.cond < curr_block',
         ~Live(Top) \/ ElseIgnored(f) => ignore'
  PROVE  EInv'
  <1> DEFINE a == IF Live(Top) THEN Top.cond ELSE curr_block
             n == Len(frames)
  <1>1. /\ Len(Pop) = n - 1 /\ \A i \in 1..(n - 1) : Pop[i] = frames[i]
        /\ Top = frames[n] /\ Top \in Frames /\ n \in Nat \ {0}
    BY EStateFacts, ShapeOfPop, TopOfStack DEF Top
  <1>2. Pop \in Seq(Frames) /\ a \in Int
    <2>1. Pop \in Seq(Frames)
      BY EStateFacts DEF Pop
    <2>2. Top.cond \in Int
      BY <1>1 DEF Frames
    <2> QED BY <2>1, <2>2, EStateFacts
  <1>3. IROK(ir') /\ SameTree(ir, ir') /\ a <= curr_block'
    BY GrowsInTree DEF Grows
  <1>4. SameStarts(frames', frames)
    BY <1>1 DEF SameStarts
  <1>5. LoopsOpen(ir', frames')
    BY <1>4, EStateFacts, LoopsStayOpen, NoLoopAtNone
  <1>6. OwnHeaders(frames') /\ Ascending(frames')
    BY <1>4, EStateFacts, StartsKeep
  <1>7. Before(frames', curr_block')
    <2>1. Before(Pop, a)
      BY <1>1, EStateFacts, BeforeOuter
    <2> HIDE DEF a
    <2>2. Before(Pop, curr_block')
      BY <1>2, <1>3, <2>1, BeforeLater
    <2>3. ASSUME NEW i \in 1..Len(frames'), Entered(frames'[i])
          PROVE  frames'[i].cond < curr_block'
      <3>1. i = n \/ (i \in 1..Len(Pop) /\ frames'[i] = Pop[i])
        BY <1>1
      <3> QED BY <2>2, <2>3, <3>1 DEF Before
    <2> QED BY <2>3 DEF Before
  <1>8. KeptClear(ir', frames')
    <2>1. KeptClear(ir', frames)
      BY <1>3, EStateFacts, KeptClearStays
    <2>2. Kept(frames'[Len(frames)]) => Clear(ir', frames'[Len(frames)].then_block)
      OBVIOUS
    <2> QED BY <2>1, <2>2, EStateFacts, KeptClearChange
  <1>9. IgnoredInside(frames', ignore')
    <2>1. /\ Live(frames'[Len(frames)]) = Live(frames[Len(frames)])
          /\ ~Live(frames[Len(frames)]) \/ ElseIgnored(frames'[Len(frames)]) => ignore'
      BY <1>1 DEF Live
    <2> QED BY <2>1, EStateFacts, IgnoredChange
  <1> QED BY <1>5, <1>6, <1>7, <1>8, <1>9 DEF EInv, Apart, Opens

LEMMA ThenEndSettled ==
  ASSUME EInv, ThenEnd
  PROVE  EInv'
  <1> DEFINE n == Len(frames)
             fresh == Live(Top) /\ Top.result = "NEITHER"
             J == new_block(ir, Top.cond, "IF_BRANCH")
             f == [Top EXCEPT !.in_else = TRUE,
                              !.then_block = IF Live(Top) THEN curr_block ELSE None,
                              !.og_else_block = IF fresh THEN ir.size ELSE None]
  <1>1. /\ Parsing /\ frames # <<>> /\ Top.kind = "if" /\ ~Top.in_else
        /\ ir' = IF fresh THEN J ELSE ir
        /\ curr_block' = IF fresh THEN ir.size ELSE IF Live(Top) THEN Top.cond ELSE curr_block
        /\ frames' = [frames EXCEPT ![n] = f]
        /\ ignore' = (~Live(Top) \/ Top.result = "FALSE")
    BY DEF ThenEnd, Top
  <1>2. DInv'
    BY ThenEndSound DEF EInv
  <1>3. /\ Inv /\ n \in Nat \ {0} /\ n \in 1..n /\ Top = frames[n]
        /\ Top \in Frames /\ FrameOK(ir, Top)
    BY <1>1, EStateFacts, TopOfStack DEF Top
  <1>4. /\ f.cond = Top.cond /\ f.result = Top.result /\ f.kind = Top.kind /\ f.in_else
        /\ f.then_block = IF Live(Top) THEN curr_block ELSE None
    BY <1>3 DEF Frames
  <1> HIDE DEF f
  <1>5. Len(frames') = n /\ \A i \in 1..n : frames'[i] = IF i = n THEN f ELSE frames[i]
    BY <1>1, <1>3, EStateFacts
  <1>6. Live(Top) => /\ InFunction(ir, Top.cond) /\ Top.cond \in Indices(ir)
                     /\ Clear(ir, Top.cond) /\ Top.cond <= curr_block
    <2>1. Live(Top) => InFunction(ir, Top.cond) /\ Top.cond \in Indices(ir)
      BY <1>3 DEF Live, FrameOK, InFunction
    <2>2. Live(Top) => Above(ir, Top.cond, curr_block)
      BY <1>1, <1>3 DEF Inv, Nested
    <2>3. Live(Top) => Top.cond \in 0..curr_block
      BY <1>1, <2>2, EStateFacts, AboveIsBefore
    <2> QED BY <1>1, <2>1, <2>2, <2>3, EStateFacts, ClearAbove
  <1>7. \A i \in 1..(n - 1) : frames'[i] = frames[i]
    <2>1. \A i \in 1..(n - 1) : i \in 1..n /\ i # n
      BY <1>3
    <2> QED BY <1>5, <2>1
  <1>8. /\ OwedWay(frames) \subseteq OwedWay(frames') \union {Top.cond}
        /\ ~Waiting(Top) => OwedWay(frames) \subseteq OwedWay(frames')
    <2>1. /\ frames \in Seq(Frames) /\ frames # <<>>
          /\ Len(frames') \in {Len(frames) - 1, Len(frames)}
          /\ \A i \in 1..(Len(frames) - 1) : frames'[i] = frames[i]
      <3>1. frames \in Seq(Frames)
        BY EStateFacts
      <3> QED BY <1>1, <1>5, <1>7, <3>1, Zenon
    <2>2. /\ OwedWay(frames) \subseteq OwedWay(frames') \union {frames[Len(frames)].cond}
          /\ ~Waiting(frames[Len(frames)]) => OwedWay(frames) \subseteq OwedWay(frames')
      BY <2>1, OwedTop
    <2>3. Top = frames[Len(frames)]
      BY DEF Top
    <2> QED BY <2>2, <2>3, Zenon
  <1>9. ElseIgnored(f) => Top.result = "FALSE"
    BY <1>4 DEF ElseIgnored
  <1>10. CASE fresh
    <2> DEFINE z == ir.size
    <2>1. /\ "IF_BRANCH" \in WayType /\ "IF_BRANCH" \in Blocktype \union {"LOOP_HEADER"}
          /\ "IF_BRANCH" \in (Blocktype \union {"LOOP_HEADER"}) \ {"JOIN"}
      BY DEF WayType, Blocktype
    <2>2. Grows(ir, J)
      BY <1>6, <1>10, <2>1, EStateFacts, NewBlock
    <2>3. Settled(J, OwedWay(frames'))
      BY <1>6, <1>8, <1>10, <2>1, EStateFacts, SecondWay
    <2>4. Extends(ir, J, None, {})
      BY <1>6, <1>10, <2>1, EStateFacts, NewBlockSettled
    <2>5. Clear(J, ir.size)
      BY <1>6, <1>10, <2>1, <2>4, EStateFacts, NewBlockClear
    <2>6. Clear(J, curr_block)
      <3>1. IROK(J) /\ SameTree(ir, J)
        BY <2>2, GrowsInTree DEF Grows
      <3> QED BY <1>1, <2>4, <3>1, EStateFacts, ClearStays
    <2> HIDE DEF J
    <2>7. ir' = J /\ curr_block' = z /\ f.then_block = curr_block
      BY <1>1, <1>4, <1>10
    <2>8. curr_block' \in Int /\ Top.cond < curr_block' /\ Top.cond <= curr_block'
      BY <1>6, <1>10, <2>7, EStateFacts DEF Indices
    <2>9. /\ frames'[Len(frames)] = f /\ Len(frames') = Len(frames)
          /\ (~Live(Top) \/ ElseIgnored(f) => ignore')
          /\ (IF Live(Top) THEN Top.cond ELSE curr_block) <= curr_block'
          /\ f.cond < curr_block'
      BY <1>1, <1>3, <1>4, <1>5, <1>9, <1>10, <2>8
    <2>10. /\ Grows(ir, ir') /\ Extends(ir, ir', None, {}) /\ Settled(ir', OwedWay(frames'))
           /\ Clear(ir', curr_block') /\ Clear(ir', f.then_block)
      BY <2>2, <2>3, <2>4, <2>5, <2>6, <2>7
    <2> QED BY <1>1, <1>2, <1>4, <1>7, <2>8, <2>9, <2>10, ChangeStep, Zenon
  <1>11. CASE ~fresh
    <2>1. ir' = ir /\ curr_block' = IF Live(Top) THEN Top.cond ELSE curr_block
      BY <1>1, <1>11
    <2>2. Clear(ir', curr_block') /\ curr_block' \in Int /\ curr_block' <= curr_block'
      <3>1. CASE Live(Top)
        BY <1>6, <2>1, <3>1, EStateFacts DEF Indices
      <3>2. CASE ~Live(Top)
        BY <1>1, <2>1, <3>2, EStateFacts
      <3> QED BY <3>1, <3>2
    <2>3. ~Entered(f)
      BY <1>1, <1>4, <1>11 DEF Entered, Live, Branching
    <2>4. Kept(f) => Clear(ir', f.then_block)
      BY <1>1, <1>4, <2>1, EStateFacts DEF Kept, Live
    <2>5. Grows(ir, ir') /\ Extends(ir, ir', None, {})
      BY <2>1, EStateFacts, GrowsReflexive, ExtendsReflexive
    <2>6. Settled(ir', OwedWay(frames'))
      <3>1. OwedWay(frames) \intersect Indices(ir) \subseteq OwedWay(frames')
        <4>1. CASE Live(Top)
          BY <1>8, <1>11, <4>1 DEF Waiting, Branching
        <4>2. CASE ~Live(Top)
          BY <1>8, <4>2 DEF Live, Indices, None
        <4> QED BY <4>1, <4>2
      <3> QED BY <2>1, <3>1, EStateFacts, MoreOwed
    <2>7. /\ frames'[Len(frames)] = f /\ Len(frames') = Len(frames)
          /\ (~Live(Top) \/ ElseIgnored(f) => ignore')
          /\ (IF Live(Top) THEN Top.cond ELSE curr_block) <= curr_block'
      BY <1>1, <1>3, <1>5, <1>9, <2>1, <2>2
    <2> QED BY <1>1, <1>2, <1>4, <1>7, <2>2, <2>3, <2>4, <2>5, <2>6, <2>7, ChangeStep, Zenon
  <1> QED BY <1>10, <1>11

\* The parts of an outer if: the then part lies beside the code of the else part.
LEMMA OuterPartsApart ==
  ASSUME EInv, Parsing, frames # <<>>, Live(Top), NEW p, Above(ir, Top.cond, p),
         NEW i \in 1..(Len(frames) - 1), Kept(frames[i])
  PROVE  ~Above(ir, p, frames[i].then_block)
  <1> DEFINE q == frames
             r == q[i].og_else_block
  <1>1. q \in Seq(Frames) /\ i \in 1..Len(q) /\ i < Len(q) /\ Top = q[Len(q)]
        /\ Len(q) \in 1..Len(q) /\ q[i] \in Frames
    BY EStateFacts DEF Top
  <1>2. Live(q[i]) /\ q[i].kind = "if" /\ q[i].in_else /\ TwoWay(q[i])
    <2>1. ~ElseIgnored(q[i])
      <3>1. Live(frames[Len(frames)])
        BY <1>1
      <3> QED BY <3>1, EStateFacts, IgnoredTop
    <2>2. q[i].result \in {"TRUE", "FALSE", "NEITHER"}
      BY <1>1 DEF Frames, Relation
    <2> QED BY <2>1, <2>2 DEF Kept, ElseIgnored, TwoWay, Branching
  <1>3. Side(ir, q, curr_block, i, r) /\ OtherSide(ir, q[i], r)
    BY <1>1, <1>2 DEF EInv, DInv, Sides
  <1>4. r \in Indices(ir) /\ ir.doms[r] = q[i].cond /\ Above(ir, r, Top.cond)
    BY <1>1, <1>3 DEF Side
  <1>5. PICK t \in Indices(ir) \ {r} : ir.doms[t] = q[i].cond /\ Above(ir, t, q[i].then_block)
    BY <1>3 DEF OtherSide
  <1>6. q[i].then_block \in 0..(ir.size - 1)
    <2>1. InFunction(ir, q[i].then_block)
      BY <1>1, <1>2, EStateFacts DEF StackOK, FrameOK, Live
    <2> QED BY <2>1, EStateFacts, InFunctionIsIndex
  <1>7. ~Above(ir, r, q[i].then_block)
    BY <1>4, <1>5, <1>6, EStateFacts, SiblingsApart
  <1> HIDE DEF r
  <1> QED BY <1>4, <1>7, AboveTransitive

\* The parts of the innermost if can meet in a JOIN.
LEMMA PartsMeet ==
  ASSUME EInv, Parsing, frames # <<>>, Live(Top), Top.kind = "if", Top.in_else, Branching(Top)
  PROVE  /\ Meet(ir, Top, curr_block, OwedWay(Pop))
         /\ Top.cond < Top.then_block /\ Top.cond < curr_block
  <1> DEFINE q == frames
             n == Len(frames)
             r == Top.og_else_block
             th == Top.then_block
  <1>1. q \in Seq(Frames) /\ n \in Nat \ {0} /\ Top = q[n] /\ n \in 1..n /\ Top \in Frames
    BY EStateFacts DEF Top
  <1>2. Side(ir, q, curr_block, n, r) /\ OtherSide(ir, Top, r)
    BY <1>1 DEF EInv, DInv, Sides, TwoWay
  <1>3. r \in Indices(ir) /\ ir.doms[r] = Top.cond /\ Above(ir, r, curr_block)
    BY <1>1, <1>2 DEF Side
  <1>4. PICK t \in Indices(ir) \ {r} : ir.doms[t] = Top.cond /\ Above(ir, t, th)
    BY <1>2 DEF OtherSide
  <1>5. th \in Indices(ir) /\ th \in 0..(ir.size - 1)
    <2>1. InFunction(ir, th)
      BY <1>1, EStateFacts DEF StackOK, FrameOK, Live
    <2> QED BY <2>1, EStateFacts, InFunctionIsIndex
  <1>6. th # curr_block
    BY <1>3, <1>4, <1>5, EStateFacts, SiblingsApart
  <1>7. Top.cond < r /\ Top.cond < t /\ Top.cond \in Nat
    <2>1. GraphOK(ir) /\ ir.doms[r] \in 0..(ir.size - 1)
      BY <1>3, EStateFacts, Neighbours DEF IROK
    <2>2. ir.doms[r] < r /\ ir.doms[t] < t
      BY <1>3, <1>4, <2>1 DEF GraphOK
    <2> HIDE DEF r
    <2> QED BY <1>3, <1>4, <2>1, <2>2
  <1>8. r \in 0..curr_block /\ t \in 0..th
    BY <1>3, <1>4, <1>5, EStateFacts, AboveIsBefore
  <1>9. Top.cond < th /\ Top.cond < curr_block
    BY <1>5, <1>7, <1>8, EStateFacts
  <1>10. ~InJoin(ir, th)
    <2>1. Kept(q[n])
      BY <1>1 DEF Kept, Branching
    <2>2. Clear(ir, th)
      BY <1>1, <2>1, EStateFacts DEF KeptClear
    <2> QED BY <1>5, <2>2, ClearNotInJoin
  <1>11. curr_block \notin OwedWay(Pop)
    <2> SUFFICES ASSUME NEW i \in 1..Len(Pop), Waiting(Pop[i]), Pop[i].cond = curr_block
                 PROVE  FALSE
      BY DEF OwedWay
    <2>1. Pop[i] = q[i] /\ i \in 1..n
      BY <1>1, ShapeOfPop
    <2>2. Entered(q[i])
      BY <2>1, EStateFacts DEF Entered, Waiting, Live, Indices, None
    <2> QED BY <2>1, <2>2, EStateFacts DEF Before
  <1> QED BY <1>6, <1>9, <1>10, <1>11, EStateFacts DEF Meet

\* What the activations below the top wait for.
LEMMA PopOwed ==
  ASSUME EInv, frames # <<>>
  PROVE  /\ OwedWay(frames) \subseteq OwedWay(Pop) \union {Top.cond}
         /\ ~Waiting(Top) => OwedWay(frames) \subseteq OwedWay(Pop)
         /\ ~Waiting(Top) \/ ~Live(Top) => Settled(ir, OwedWay(Pop))
  <1> DEFINE p == Pop
  <1>1. frames \in Seq(Frames) /\ Len(frames) \in Nat
    BY EStateFacts
  <1>2. Len(p) = Len(frames) - 1 /\ \A i \in 1..(Len(frames) - 1) : p[i] = frames[i]
    BY <1>1, ShapeOfPop
  <1> HIDE DEF p
  <1>3. /\ OwedWay(frames) \subseteq OwedWay(p) \union {frames[Len(frames)].cond}
        /\ ~Waiting(frames[Len(frames)]) => OwedWay(frames) \subseteq OwedWay(p)
    BY <1>1, <1>2, OwedTop
  <1>4. ~Waiting(Top) \/ ~Live(Top) => OwedWay(frames) \intersect Indices(ir) \subseteq OwedWay(p)
    <2>1. None \notin Indices(ir)
      BY DEF Indices, None
    <2> QED BY <1>3, <2>1 DEF Top, Live
  <1>5. ~Waiting(Top) \/ ~Live(Top) => Settled(ir, OwedWay(p))
    BY <1>4, EStateFacts, MoreOwed
  <1> QED BY <1>3, <1>5 DEF Top, p

\* Nothing is parsed below the blocks an if leaves behind.
LEMMA IfLeavesClear ==
  ASSUME EInv, Parsing, frames # <<>>, Live(Top), Top.kind = "if", Top.in_else,
         NEW end, IfLeaves(ir, Top, curr_block, end), Grows(ir, end.ir),
         InFunction(end.ir, end.curr)
  PROVE  \E P : /\ Extends(ir, end.ir, None, P)
                /\ Clear(end.ir, end.curr) /\ KeptClear(end.ir, Pop)
  <1> DEFINE n == Len(frames)
             P == {Top.then_block, curr_block}
             K == end.ir
  <1>1. /\ frames \in Seq(Frames) /\ n \in Nat \ {0} /\ n \in 1..n /\ Top = frames[n]
        /\ Len(Pop) = n - 1 /\ \A i \in 1..(n - 1) : Pop[i] = frames[i]
    BY EStateFacts, ShapeOfPop DEF Top
  <1>2. IROK(K) /\ SameTree(ir, K)
    BY GrowsInTree DEF Grows
  <1>3. /\ Above(ir, Top.cond, curr_block) /\ Above(ir, Top.cond, Top.then_block)
        /\ Top.cond \in 0..(ir.size - 1) /\ Top.then_block \in 0..(ir.size - 1)
    <2>1. Above(ir, Top.cond, curr_block) /\ Above(ir, Top.cond, Top.then_block)
      BY <1>1 DEF EInv, DInv, Inv, Nested
    <2>2. InFunction(ir, Top.cond) /\ InFunction(ir, Top.then_block)
      BY <1>1, EStateFacts DEF StackOK, FrameOK, Live
    <2> QED BY <2>1, <2>2, EStateFacts, InFunctionIsIndex
  <1>4. Clear(ir, Top.cond) /\ (Top.result # "TRUE" => Clear(ir, Top.then_block))
    <2>1. Clear(ir, Top.cond)
      BY <1>3, EStateFacts, ClearAbove
    <2>2. Top.result # "TRUE" => Kept(frames[n])
      BY <1>1 DEF Kept
    <2> QED BY <1>1, <2>1, <2>2, EStateFacts DEF KeptClear
  <1>5. CASE Extends(ir, K, None, {}) /\ end.curr \in {Top.cond, curr_block, Top.then_block}
             /\ (end.curr = Top.then_block => Top.result # "TRUE" \/ end.curr \in {Top.cond, curr_block})
    <2>1. Clear(ir, end.curr) /\ end.curr \in 0..(ir.size - 1)
      BY <1>3, <1>4, <1>5, EStateFacts
    <2>2. Clear(K, end.curr)
      BY <1>2, <1>5, <2>1, EStateFacts, ClearStays
    <2>3. KeptClear(K, frames)
      BY <1>2, <1>5, EStateFacts, KeptClearStays
    <2>4. KeptClear(K, Pop)
      BY <1>1, <2>3, KeptClearPop
    <2> QED BY <1>5, <2>2, <2>4
  <1>6. CASE /\ end.curr = ir.size /\ Branching(Top) /\ K.doms[ir.size] = Top.cond
             /\ Extends(ir, K, None, P)
    <2> HIDE DEF K
    <2>1. Top.cond < Top.then_block /\ Top.cond < curr_block
      BY <1>6, PartsMeet
    <2>2. NoneAbove(ir, P, Top.cond)
      <3> SUFFICES ASSUME NEW p \in P, Above(ir, p, Top.cond)
                   PROVE  FALSE
        BY DEF NoneAbove
      <3>1. p \in 0..Top.cond
        BY <1>3, EStateFacts, AboveIsBefore
      <3> QED BY <1>3, <2>1, <3>1, EStateFacts
    <2>3. ir.size \notin P /\ ir.size \in Int /\ ir.size <= ir.size
      BY <1>3, EStateFacts
    <2>4. \A p \in P : Above(ir, Top.cond, p)
      BY <1>3
    <2> HIDE DEF P
    <2>5. Clear(K, Top.cond)
      BY <1>2, <1>3, <1>4, <1>6, <2>2, EStateFacts, ClearLater
    <2>6. ~InJoin(K, ir.size)
      BY <1>6, <2>3, EStateFacts, NewNotInJoin
    <2>7. Clear(K, ir.size)
      <3>1. ir.size \in Indices(K)
        BY <1>6 DEF InFunction, K
      <3> QED BY <1>2, <1>6, <2>5, <2>6, <3>1, ClearChild
    <2>8. ASSUME NEW i \in 1..(n - 1), Kept(frames[i])
          PROVE  Clear(K, frames[i].then_block)
      <3>1. NoneAbove(ir, P, frames[i].then_block)
        BY <2>4, <2>8, OuterPartsApart DEF NoneAbove
      <3>2. i \in 1..n
        BY <1>1
      <3>3. Clear(ir, frames[i].then_block)
        BY <2>8, <3>2, EStateFacts DEF KeptClear
      <3>4. frames[i].then_block \in 0..(ir.size - 1)
        <4>1. InFunction(ir, frames[i].then_block)
          BY <1>1, <2>8, <3>2, EStateFacts DEF StackOK, FrameOK, Live, Kept
        <4> QED BY <4>1, EStateFacts, InFunctionIsIndex
      <3> QED BY <1>2, <1>6, <3>1, <3>3, <3>4, EStateFacts, ClearLater
    <2>9. KeptClear(K, Pop)
      BY <1>1, <2>8 DEF KeptClear
    <2> QED BY <1>6, <2>7, <2>9 DEF K
  <1> QED BY <1>5, <1>6 DEF IfLeaves, Branching

\* Parsing goes on below the block the construct started in, hence after it.
LEMMA GoesOnLater ==
  ASSUME NEW I, NEW cond, NEW end, GoesOn(I, cond, end)
  PROVE  end.curr \in Int /\ cond <= end.curr /\ IROK(end.ir) /\ SameTree(I, end.ir)
  <1>1. IROK(end.ir) /\ SameTree(I, end.ir)
    BY GrowsInTree DEF GoesOn, Grows
  <1>2. end.curr \in 0..(end.ir.size - 1) /\ end.curr \in Int
    BY <1>1, InFunctionIsIndex DEF GoesOn
  <1>3. cond \in 0..end.curr
    BY <1>1, <1>2, AboveIsBefore DEF GoesOn
  <1> QED BY <1>1, <1>2, <1>3

LEMMA IgnoredEndSettled ==
  ASSUME EInv, Fi \/ Od, ~Live(Top)
  PROVE  EInv'
  <1>1. Parsing /\ frames # <<>> /\ frames' = Pop /\ UNCHANGED <<ir, curr_block>> /\ ignore'
    BY DEF Fi, Od
  <1>2. DInv'
    BY ConstructEndSound DEF EInv
  <1>3. Grows(ir, ir') /\ Extends(ir, ir', None, {}) /\ NotHeaderOf(Pop, None)
    BY <1>1, EStateFacts, GrowsReflexive, ExtendsReflexive, NoLoopAtNone
  <1>4. Settled(ir', OwedWay(frames'))
    BY <1>1, PopOwed
  <1>5. Clear(ir', curr_block') /\ KeptClear(ir', Pop)
    <2>1. Len(Pop) = Len(frames) - 1 /\ \A i \in 1..(Len(frames) - 1) : Pop[i] = frames[i]
      BY <1>1, EStateFacts, ShapeOfPop
    <2> QED BY <1>1, <2>1, EStateFacts, KeptClearPop
  <1>6. curr_block' \in Int /\ (IF Live(Top) THEN Top.cond ELSE curr_block) <= curr_block'
    BY <1>1, EStateFacts
  <1> QED BY <1>1, <1>2, <1>3, <1>4, <1>5, <1>6, PopStep, Zenon

LEMMA FiSettled ==
  ASSUME EInv, Fi, Live(Top)
  PROVE  EInv'
  <1> DEFINE end == if_end(ir, Top, curr_block)
  <1>1. /\ Parsing /\ frames # <<>> /\ frames' = Pop /\ Top.kind = "if" /\ Top.in_else
        /\ ir' = end.ir /\ curr_block' = end.curr
    BY DEF Fi
  <1>2. DInv'
    BY ConstructEndSound DEF EInv
  <1>3. /\ Inv /\ Top \in Frames /\ FrameOK(ir, Top)
        /\ Above(ir, Top.cond, curr_block) /\ Above(ir, Top.cond, Top.then_block)
    BY <1>1, EStateFacts, TopOfStack DEF Top, Nested, Inv
  <1>4. GoesOn(ir, Top.cond, end)
    BY <1>1, <1>3, EStateFacts, IfEnd
  <1>5. Settled(end.ir, OwedWay(Pop)) /\ IfLeaves(ir, Top, curr_block, end)
    <2>1. Settled(ir, OwedWay(Pop))
      BY <1>1, PopOwed DEF Waiting
    <2>2. Top.result = "NEITHER" => Meet(ir, Top, curr_block, OwedWay(Pop))
      BY <1>1, PartsMeet DEF Branching
    <2> QED BY <1>1, <1>3, <2>1, <2>2, EStateFacts, IfEndSettled
  <1> HIDE DEF end
  <1>6. PICK P : /\ Extends(ir, end.ir, None, P)
                 /\ Clear(end.ir, end.curr) /\ KeptClear(end.ir, Pop)
    BY <1>1, <1>4, <1>5, IfLeavesClear DEF GoesOn
  <1>7. end.curr \in Int /\ Top.cond <= end.curr /\ Grows(ir, end.ir)
    BY <1>4, GoesOnLater DEF GoesOn
  <1>8. NotHeaderOf(Pop, None)
    BY NoLoopAtNone
  <1> QED BY <1>1, <1>2, <1>5, <1>6, <1>7, <1>8, PopStep

LEMMA OdSettled ==
  ASSUME EInv, Od, Live(Top)
  PROVE  EInv'
  <1> DEFINE end == while_end(ir, Top, curr_block)
             n == Len(frames)
  <1>1. /\ Parsing /\ frames # <<>> /\ frames' = Pop /\ Top.kind = "while"
        /\ ir' = end.ir /\ curr_block' = end.curr
    BY DEF Od
  <1>2. DInv'
    BY ConstructEndSound DEF EInv
  <1>3. /\ Inv /\ Top \in Frames /\ FrameOK(ir, Top) /\ n \in 1..n /\ n \in Nat \ {0}
        /\ Top = frames[n] /\ Above(ir, Top.cond, curr_block)
    BY <1>1, EStateFacts, TopOfStack DEF Top, Nested, Inv
  <1>4. GoesOn(ir, Top.cond, end)
    BY <1>1, <1>3, EStateFacts, WhileEnd
  <1>5. OpenLoop(ir, Top.cond) /\ (Top.result # "TRUE" => Top.cond < curr_block)
    <2>1. LiveLoop(frames[n])
      BY <1>1, <1>3 DEF LiveLoop
    <2>2. Top.result # "TRUE" => Entered(frames[n])
      BY <1>1, <1>3 DEF Entered, Branching, Frames, Relation
    <2> QED BY <1>1, <1>3, <2>1, <2>2, EStateFacts DEF LoopsOpen, Before
  <1>6. Settled(end.ir, OwedWay(Pop)) /\ WhileLeaves(ir, Top, curr_block, end)
    <2>1. /\ OwedWay(frames) \subseteq OwedWay(Pop) \union {Top.cond}
          /\ ~Branching(Top) => OwedWay(frames) \subseteq OwedWay(Pop)
      BY <1>1, PopOwed DEF Waiting
    <2> QED BY <1>1, <1>3, <1>5, <2>1, EStateFacts, WhileEndSettled
  <1> HIDE DEF end
  <1>7. IROK(end.ir) /\ SameTree(ir, end.ir) /\ Grows(ir, end.ir)
        /\ end.curr \in Int /\ Top.cond <= end.curr
    BY <1>4, GoesOnLater DEF GoesOn
  <1>8. Extends(ir, end.ir, Top.cond, {})
    BY <1>6 DEF WhileLeaves
  <1>9. Clear(end.ir, Top.cond) /\ Clear(end.ir, curr_block)
    <2>1. Clear(ir, Top.cond) /\ Top.cond \in 0..(ir.size - 1)
      <3>1. InFunction(ir, Top.cond)
        BY <1>3 DEF FrameOK, Live
      <3> QED BY <1>1, <1>3, <3>1, EStateFacts, ClearAbove, InFunctionIsIndex
    <2> QED BY <1>1, <1>7, <1>8, <2>1, EStateFacts, ClearStays
  <1>10. Clear(end.ir, end.curr)
    <2>1. CASE end.curr \in {Top.cond, curr_block}
      BY <1>9, <2>1
    <2>2. CASE end.curr = ir.size /\ end.ir.doms[ir.size] = Top.cond
      <3>1. ir.size \in Indices(end.ir) /\ ir.size \in Int /\ ir.size <= ir.size
        BY <1>4, <2>2, EStateFacts DEF GoesOn, InFunction
      <3>2. ~InJoin(end.ir, ir.size)
        BY <1>8, <3>1, EStateFacts, NewNotInJoin
      <3> QED BY <1>7, <1>9, <2>2, <3>1, <3>2, ClearChild
    <2> QED BY <1>6, <2>1, <2>2 DEF WhileLeaves
  <1>11. Len(Pop) = n - 1 /\ \A i \in 1..(n - 1) : Pop[i] = frames[i]
    BY <1>1, EStateFacts, ShapeOfPop
  <1>12. KeptClear(end.ir, Pop)
    <2>1. KeptClear(end.ir, frames)
      BY <1>1, <1>7, <1>8, EStateFacts, KeptClearStays
    <2> QED BY <1>1, <1>11, <2>1, EStateFacts, KeptClearPop
  <1>13. NotHeaderOf(Pop, Top.cond)
    <2> SUFFICES ASSUME NEW i \in 1..Len(Pop), LiveLoop(Pop[i])
                 PROVE  Pop[i].cond # Top.cond
      BY DEF NotHeaderOf
    <2>1. i \in 1..n /\ i # n /\ Pop[i] = frames[i]
      BY <1>3, <1>11
    <2>2. LiveLoop(frames[n])
      BY <1>1, <1>3 DEF LiveLoop
    <2> QED BY <1>1, <1>3, <2>1, <2>2, EStateFacts DEF OwnHeaders
  <1> QED BY <1>1, <1>2, <1>6, <1>7, <1>8, <1>10, <1>12, <1>13, PopStep

\* The header and the body of a loop are new blocks.
LEMMA WhileDoSettled ==
  ASSUME EInv, NEW r \in Relation, WhileDo(r)
  PROVE  EInv'
  <1> DEFINE header == ir.size
             G == new_block(ir, curr_block, "LOOP_HEADER")
             H == add_instruction(G, header, pos)
             I == IF r = "NEITHER" THEN set_branch_cond(H, header, "Bcc", None) ELSE H
             J == new_block(I, header, "WHILE_FALLTHROUGH")
             f == Frame("while", r, header)
             S == OwedWay(frames)
             T == S \union (IF Waiting(f) THEN {f.cond} ELSE {})
             K == IF r = "TRUE" THEN I ELSE J
  <1>1. /\ Parsing /\ frames' = Append(frames, f) /\ ~ignore
        /\ ir' = K
        /\ curr_block' = IF r = "TRUE" THEN header ELSE I.size
    BY DEF WhileDo, NextPoint
  <1>2. DInv'
    BY WhileDoSound DEF EInv
  <1>3. /\ f \in Frames /\ f.cond = header /\ ~f.in_else
        /\ Waiting(f) <=> r = "NEITHER"
        /\ Entered(f) => r # "TRUE"
    <2>1. f \in Frames /\ f.cond = header /\ ~f.in_else
      BY EStateFacts, NewFrame DEF Inv
    <2>2. f.kind = "while" /\ f.result = r
      BY DEF Frame
    <2> HIDE DEF f
    <2> QED BY <2>1, <2>2 DEF Waiting, Branching, Entered
  <1> HIDE DEF f
  <1>4. OwedWay(frames') = T
    <2>1. frames \in Seq(Frames) /\ f \in Frames /\ frames' = Append(frames, f)
      BY <1>1, <1>3, EStateFacts
    <2> QED BY <2>1, OwedPush
  <1>5. S \subseteq T /\ (r = "NEITHER" => header \in T) /\ (r # "NEITHER" => T = S)
    BY <1>3
  <1> HIDE DEF S, T
  <1>6. /\ Grows(ir, G) /\ InFunction(G, header) /\ Settled(G, S) /\ Extends(ir, G, None, {})
        /\ OpenLoop(G, header) /\ Clear(G, header) /\ ~InJoin(G, header)
    <2>1. "LOOP_HEADER" \in Blocktype \union {"LOOP_HEADER"}
          /\ "LOOP_HEADER" \in (Blocktype \union {"LOOP_HEADER"}) \ {"JOIN"}
      BY DEF Blocktype
    <2>2. Grows(ir, G) /\ InFunction(G, header)
      BY <1>1, <2>1, EStateFacts, NewBlock
    <2>3. /\ Settled(G, S) /\ Extends(ir, G, None, {}) /\ ~InJoin(G, header)
          /\ G.blocks[header] = BasicBlock("INVALID", <<curr_block>>)
      BY <1>1, <2>1, EStateFacts, NewBlockSettled DEF S
    <2>4. Clear(G, header)
      BY <1>1, <2>1, <2>3, EStateFacts, NewBlockClear
    <2>5. OpenLoop(G, header)
      BY <2>3 DEF OpenLoop, is_loop_header, BasicBlock
    <2> QED BY <2>2, <2>3, <2>4, <2>5
  <1>7. IROK(G) /\ IRType(G) /\ header \in Indices(G) /\ header \in 0..(G.size - 1)
    BY <1>6, InFunctionIsIndex DEF Grows, IROK
  <1> HIDE DEF G
  <1>8. /\ Grows(G, H) /\ InFunction(H, header) /\ Settled(H, S) /\ Extends(G, H, None, {})
        /\ H.size = G.size
    <2>1. Grows(G, H) /\ H.size = G.size
      BY <1>7, EStateFacts, AddInstruction
    <2>2. Settled(H, S) /\ Extends(G, H, None, {})
      BY <1>6, <1>7, EStateFacts, AddInstructionSettled
    <2> HIDE DEF H
    <2> QED BY <1>6, <1>7, <2>1, <2>2, GrowsKeepsFunction
  <1>9. IROK(H) /\ IRType(H) /\ header \in Indices(H) /\ header \in 0..(H.size - 1)
    BY <1>8, InFunctionIsIndex DEF Grows, IROK
  <1>10. ~InJoin(H, header)
    BY <1>6, <1>8 DEF Extends
  <1> HIDE DEF H
  <1>11. Grows(H, I) /\ InFunction(I, header) /\ I.size = H.size
    <2>1. CASE r = "NEITHER"
      <3>1. "Bcc" \in BranchOp /\ LocationOK(H, header, None) /\ None \in Int
        BY DEF BranchOp, LocationOK, None
      <3>2. Grows(H, I) /\ I.size = H.size
        BY <1>9, <2>1, <3>1, SetBranchCond
      <3> HIDE DEF I
      <3> QED BY <1>8, <1>9, <3>2, GrowsKeepsFunction
    <2>2. CASE r # "NEITHER"
      BY <1>8, <1>9, <2>2, GrowsReflexive
    <2> QED BY <2>1, <2>2
  <1>12. IROK(I) /\ IRType(I)
    BY <1>11 DEF Grows, IROK
  <1>13. Grows(I, J) /\ InFunction(J, I.size) /\ J.doms[I.size] = header
    <2>1. "WHILE_FALLTHROUGH" \in Blocktype \union {"LOOP_HEADER"}
      BY DEF Blocktype
    <2> HIDE DEF I
    <2> QED BY <1>11, <1>12, <2>1, NewBlock, NewBlockDominator
  <1>14. Settled(K, T) /\ Extends(H, K, None, {})
    <2>1. "WHILE_FALLTHROUGH" \in WayType
          /\ "WHILE_FALLTHROUGH" \in (Blocktype \union {"LOOP_HEADER"}) \ {"JOIN"}
      BY DEF WayType, Blocktype
    <2>2. CASE r = "NEITHER"
      <3> DEFINE M == new_block(set_branch_cond(H, header, "Bcc", None), header, "WHILE_FALLTHROUGH")
      <3>1. Settled(M, T) /\ Extends(H, M, None, {})
        BY <1>5, <1>8, <1>9, <1>10, <2>1, <2>2, FirstWay
      <3> QED BY <2>2, <3>1
    <2>3. CASE r = "FALSE"
      <3> DEFINE M == new_block(H, header, "WHILE_FALLTHROUGH")
      <3>1. Settled(M, S) /\ Extends(H, M, None, {})
        BY <1>8, <1>9, <2>1, NewBlockSettled
      <3>2. K = M
        BY <2>3
      <3> QED BY <1>5, <2>3, <3>1, <3>2
    <2>4. CASE r = "TRUE"
      <3>1. K = H
        BY <2>4
      <3> QED BY <1>5, <1>8, <2>4, <3>1, ExtendsReflexive
    <2> QED BY <2>2, <2>3, <2>4 DEF Relation
  <1>15. Grows(I, K)
    BY <1>12, <1>13, GrowsReflexive
  <1>16. r # "TRUE" => /\ InFunction(K, I.size) /\ K.doms[I.size] = header
                       /\ curr_block' = I.size
    BY <1>1, <1>13
  <1>17. r = "TRUE" => curr_block' = header
    BY <1>1
  <1> HIDE DEF I, J, K
  <1>18. Grows(ir, K) /\ Grows(G, K)
    <2>1. Grows(H, K)
      BY <1>9, <1>11, <1>15, GrowsTransitive
    <2>2. Grows(G, K)
      BY <1>7, <1>8, <2>1, GrowsTransitive
    <2> QED BY <1>6, <2>2, EStateFacts, GrowsTransitive DEF IROK
  <1>19. Extends(G, K, None, {}) /\ Extends(ir, K, None, {})
    <2>1. Indices(G) \subseteq Indices(H) /\ Indices(ir) \subseteq Indices(G)
      BY <1>6, <1>7, <1>8, EStateFacts DEF Indices, Grows, IRType
    <2>2. Extends(G, K, None, {})
      BY <1>8, <1>14, <2>1, ExtendsThen
    <2> QED BY <1>6, <2>1, <2>2, ExtendsThen
  <1>20. IROK(K) /\ SameTree(G, K) /\ header # None
    BY <1>7, <1>18, GrowsInTree DEF Grows, Indices, None
  <1>21. Clear(K, header)
    BY <1>6, <1>7, <1>19, <1>20, ClearStays
  <1>22. OpenLoop(K, header)
    BY <1>6, <1>7, <1>19, <1>20 DEF OpenLoop, is_loop_header, Extends
  <1>23. r # "TRUE" => Clear(K, I.size) /\ I.size \in Int /\ header < I.size
    <2>1. I.size \in Int /\ H.size <= I.size /\ header < I.size
      BY <1>9, <1>11 DEF IRType
    <2>2. ~InJoin(K, I.size)
      BY <1>9, <1>14, <2>1, NewNotInJoin
    <2>3. r # "TRUE" => I.size \in Indices(K) /\ K.doms[I.size] = header
      BY <1>16 DEF InFunction
    <2> QED BY <1>20, <1>21, <2>1, <2>2, <2>3, ClearChild
  <1>24. curr_block < header /\ curr_block <= header /\ header \in Int
    BY <1>1, EStateFacts
  <1>25. NotHeaderOf(frames, header)
    <2> SUFFICES ASSUME NEW i \in 1..Len(frames), LiveLoop(frames[i])
                 PROVE  frames[i].cond # header
      BY DEF NotHeaderOf
    <2>1. InFunction(ir, frames[i].cond)
      BY EStateFacts DEF StackOK, FrameOK, LiveLoop, Live
    <2> QED BY <2>1, EStateFacts DEF InFunction, Indices
  <1> HIDE DEF header
  <1>26. /\ Clear(ir', curr_block') /\ curr_block' \in Int /\ curr_block <= curr_block'
         /\ Entered(f) => f.cond < curr_block'
    <2>1. CASE r = "TRUE"
      BY <1>1, <1>3, <1>17, <1>21, <1>24, <2>1
    <2>2. CASE r # "TRUE"
      <3>1. curr_block \in Int
        BY <1>1, EStateFacts
      <3> QED BY <1>1, <1>3, <1>16, <1>23, <1>24, <2>2, <3>1
    <2> QED BY <2>1, <2>2
  <1>27. /\ Grows(ir, ir') /\ Extends(ir, ir', None, {}) /\ Settled(ir', OwedWay(frames'))
         /\ OpenLoop(ir', f.cond) /\ NotHeaderOf(frames, f.cond) /\ curr_block <= f.cond
    BY <1>1, <1>3, <1>4, <1>14, <1>18, <1>19, <1>22, <1>24, <1>25
  <1> QED BY <1>1, <1>2, <1>3, <1>26, <1>27, PushStep

\* The first block of a function: a predecessor of nothing.
LEMMA BeginSettled ==
  ASSUME EInv, NEW kind \in {"function", "main"}, Begin(kind)
  PROVE  EInv'
  <1> DEFINE I == new_function(ir)
             J == add_instruction(I, ir.size, pos)
  <1>1. DInv' /\ ir' = J /\ curr_block' = ir.size /\ frames' = frames /\ frames = <<>>
    BY BeginSound DEF EInv, DInv, Inv, Begin, Parsing
  <1>2. /\ IROK(I) /\ I.size = ir.size + 1 /\ InFunction(I, ir.size)
        /\ Settled(I, OwedWay(frames)) /\ Extends(ir, I, None, {}) /\ I.doms[ir.size] = 0
    <2>1. ir.size \in 0..ir.size
      BY EStateFacts
    <2>2. I.doms[ir.size] = 0
      BY <2>1 DEF new_function, new_block_helper
    <2> HIDE DEF I
    <2> QED BY <2>2, EStateFacts, NewFunction, NewFunctionSettled DEF I
  <1> HIDE DEF I
  <1>3. ir.size \in Indices(I) /\ ir.size \in 0..(I.size - 1) /\ ir.size \in Int
    BY <1>2, EStateFacts DEF InFunction
  <1>4. Grows(I, J) /\ Settled(J, OwedWay(frames)) /\ Extends(I, J, None, {}) /\ J.size = I.size
    BY <1>2, <1>3, EStateFacts, AddInstruction, AddInstructionSettled
  <1> HIDE DEF J
  <1>5. IROK(J) /\ J.doms[ir.size] = 0 /\ ir.size \in Indices(J)
    BY <1>2, <1>3, <1>4 DEF Grows, Indices
  <1>6. ~InJoin(J, ir.size)
    <2>1. ~InJoin(I, ir.size)
      BY <1>2, <1>3, EStateFacts, NewNotInJoin
    <2> QED BY <1>4, <2>1 DEF Extends
  <1>7. Clear(J, 0)
    <2> SUFFICES ASSUME NEW p \in Indices(J), Above(J, p, 0)
                 PROVE  FALSE
      BY DEF Clear
    <2>1. 0 \in 0..(J.size - 1)
      BY <1>5 DEF IROK, IRType
    <2>2. p \in 0..0
      BY <1>5, <2>1, AboveIsBefore
    <2> QED BY <2>2 DEF Indices
  <1>8. Clear(J, ir.size)
    BY <1>5, <1>6, <1>7, ClearChild
  <1>9. Len(frames) = 0
    BY <1>1
  <1>10. /\ Apart(J, frames, ir.size) /\ Opens(J, frames, ir.size)
         /\ IgnoredInside(frames, ignore')
    BY <1>8, <1>9 DEF Apart, KeptClear, Opens, LoopsOpen, OwnHeaders, Before, Ascending,
                      IgnoredInside
  <1> QED BY <1>1, <1>4, <1>10 DEF EInv

LEMMA EndSettled ==
  ASSUME EInv, FunctionEnd \/ MainEnd
  PROVE  EInv'
  <1>1. DInv' /\ frames' = frames /\ frames = <<>> /\ Parsing /\ ~Parsing'
    BY EndSound DEF EInv, FunctionEnd, MainEnd, Parsing
  <1>2. Settled(ir', OwedWay(frames))
    <2> DEFINE K == set_branch_cond(add_instruction(ir, curr_block, pos), curr_block, "RET", None)
    <2>1. Settled(K, OwedWay(frames))
      BY <1>1, EStateFacts, EmitAndReturn
    <2>2. ir' = ir \/ ir' = K
      BY DEF FunctionEnd, MainEnd
    <2> QED BY <2>1, <2>2, EStateFacts
  <1>3. Len(frames) = 0
    BY <1>1
  <1>4. IgnoredInside(frames, ignore')
    BY <1>3 DEF IgnoredInside
  <1> QED BY <1>1, <1>2, <1>4 DEF EInv

LEMMA InitEInv ==
  ASSUME Init
  PROVE  EInv
  <1>1. DInv
    BY InitDInv
  <1>2. /\ ir.size = 1 /\ ir.blocks[0].successors = <<>> /\ frames = <<>> /\ ~Parsing
    BY DEF Init, EmptyIR, BasicBlock, Parsing
  <1>3. Indices(ir) = {} /\ \A b \in 0..(ir.size - 1) : b = 0
    BY <1>2 DEF Indices
  <1>4. IsInjective(<<>>)
    BY DEF IsInjective
  <1>5. EdgesOK(ir) /\ JoinsOK(ir, None) /\ BranchesOK(ir, OwedWay(frames), None)
    BY <1>2, <1>3, <1>4 DEF EdgesOK, JoinsOK, BranchesOK
  <1>6. Len(frames) = 0
    BY <1>2
  <1>7. IgnoredInside(frames, ignore)
    BY <1>6 DEF IgnoredInside
  <1> QED BY <1>1, <1>2, <1>5, <1>7 DEF EInv, Settled

LEMMA NextEInv ==
  ASSUME EInv, [Next]_vars
  PROVE  EInv'
  <1>1. CASE Next
    <2>1. ASSUME Fi \/ Od
          PROVE  EInv'
      BY <2>1, FiSettled, OdSettled, IgnoredEndSettled
    <2> QED BY <1>1, <2>1, SimpleStatementSettled, ReturnStatementSettled, IfThenSettled,
               IgnoredConstructSettled, ThenEndSettled, WhileDoSettled, BeginSettled,
               EndSettled DEF Next
  <1>2. CASE UNCHANGED vars
    <2>1. DInv'
      BY <1>2, NextDInv DEF EInv
    <2> QED BY <1>2, <2>1 DEF vars, EInv, Parsing
  <1> QED BY <1>1, <1>2

\* A JOIN is entered by a jump and by falling into it, a branch has the blocks
\* it chooses between when its statement is complete, and parsing never goes on
\* below a block that already leads into a JOIN: EInv is inductive.
THEOREM EInvariance == Spec => []EInv
  <1>1. Init => EInv
    BY InitEInv
  <1>2. EInv /\ [Next]_vars => EInv'
    BY NextEInv
  <1> QED BY <1>1, <1>2, PTL DEF Spec

=============================================================================
