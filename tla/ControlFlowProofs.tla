-------------------------- MODULE ControlFlowProofs --------------------------
(***************************************************************************)
(* Proofs about ControlFlow, for source texts of every length and shape:   *)
(* the types, the shape of the graph (WellFormedGraph) and the branch      *)
(* locations (BranchesLabelled).                                           *)
(*                                                                         *)
(* The inductive invariant adds to them where the handlers may append: the *)
(* current block and the blocks remembered on the C++ stack all belong to  *)
(* the function being parsed.  Every method of the IR only lets the graph  *)
(* grow (Grows), so that what an outer activation remembers stays true     *)
(* while the inner ones run.                                               *)
(*                                                                         *)
(* It also says that in the tree "doms" makes, the dominator of a block is *)
(* above its predecessors (DomsOK), for which the start of every open      *)
(* construct must be above all that is parsed inside it (Nested).          *)
(*                                                                         *)
(* The second half shows that "doms" holds the immediate dominators of the *)
(* flow graph (DomsAreDominators), that no branch is left without its      *)
(* location (BranchesComplete) and that while_loop says whether a loop is  *)
(* being parsed (WhileLoopFlag).  What doms puts above a block dominates   *)
(* it; what is missing is that nothing else does (Tight): a block that is  *)
(* above every predecessor of b is above doms[b].  Only a JOIN has two     *)
(* predecessors, and it has nothing but the start of its if above it       *)
(* because the two parts of that if were parsed under two different blocks *)
(* (Sides).  A jump leads to a successor or back up the tree (JumpsOK), so *)
(* that back edges change no dominator.                                    *)
(*                                                                         *)
(* DomsAreDominators speaks of an iteration (ReachedAvoiding).  What that  *)
(* iteration computes is proved by induction, in the form of a least       *)
(* counterexample: a nonempty set of naturals has a least element.         *)
(***************************************************************************)
EXTENDS ControlFlow, SequenceTheorems, WellFoundedInduction, TLAPS

LocationsOK(I) ==
  \A b \in Indices(I) : /\ LocationOK(I, b, I.blocks[b].larg)
                        /\ LocationOK(I, b, I.blocks[b].rarg)

\* A set of blocks that goes up the tree to its root.
Closed(I, S) == \A b \in S : I.doms[b] \in S

\* In the tree, c is p or above p.
Above(I, c, p) ==
  \A S \in SUBSET (0..(I.size - 1)) : Closed(I, S) /\ p \in S => c \in S

DomsOK(I) ==
  /\ I.doms[0] = 0
  /\ \A S \in SUBSET (0..(I.size - 1)) : Closed(I, S) =>
       \A b \in Indices(I) : Preds(I, b) \intersect S # {} => I.doms[b] \in S

IROK(I) == IRType(I) /\ GraphOK(I) /\ LocationsOK(I) /\ DomsOK(I)

\* b is a block of the last function.
InFunction(I, b) == b \in Indices(I) /\ \A e \in Succs(I, 0) : e <= b

Grows(I, J) ==
  /\ IROK(J)
  /\ I.size <= J.size
  /\ Succs(J, 0) = Succs(I, 0)
  /\ \A b \in Indices(I) : Labelled(I, b) => Labelled(J, b)
  /\ \A b \in 0..(I.size - 1) : J.doms[b] = I.doms[b]

FrameOK(I, f) ==
  f.cond = None \/
    /\ InFunction(I, f.cond)
    /\ f.in_else => /\ InFunction(I, f.then_block)
                    /\ f.result = "NEITHER" => /\ InFunction(I, f.og_else_block)
                                               /\ Labelled(I, f.og_else_block)

\* Block c is parsed inside all the activations of q.
Nested(I, q, c) ==
  \A i \in 1..Len(q) : Live(q[i]) =>
    /\ Above(I, q[i].cond, c)
    /\ q[i].in_else => Above(I, q[i].cond, q[i].then_block)
    /\ \A j \in 1..i : Live(q[j]) => Above(I, q[j].cond, q[i].cond)

Inv ==
  /\ TypeOK
  /\ IROK(ir)
  /\ Parsing => InFunction(ir, curr_block) /\ Nested(ir, frames, curr_block)
  /\ ~Parsing => frames = <<>>
  /\ \A i \in 1..Len(frames) : FrameOK(ir, frames[i])
  /\ phase # "decl" => entry \in Succs(ir, 0)

-----------------------------------------------------------------------------
(* Induction, in the form of a least counterexample.                       *)

LEMMA LeastNumber ==
  ASSUME NEW S \in SUBSET Nat, S # {}
  PROVE  \E i \in S : \A j \in S : i <= j
  <1>1. PICK i \in S : \A j \in S : ~(<<j, i>> \in OpToRel(<, Nat))
    BY NatLessThanWellFounded, WFMin, Zenon
  <1>2. ASSUME NEW k \in Nat, NEW m \in Nat, k < m
        PROVE  <<k, m>> \in OpToRel(<, Nat)
    BY <1>2 DEF OpToRel
  <1>3. ASSUME NEW j \in S PROVE i <= j
    <2>1. i \in Nat /\ j \in Nat /\ ~(j < i)
      BY <1>1, <1>2, Zenon
    <2> QED BY <2>1
  <1> QED BY <1>3

-----------------------------------------------------------------------------
(* The methods of the IR.                                                  *)

LEMMA RangeOfSequence ==
  ASSUME NEW S, NEW q \in Seq(S)
  PROVE  Range(q) \subseteq S
  BY DEF Range

LEMMA RangeOfAppend ==
  ASSUME NEW S, NEW q \in Seq(S), NEW x \in S
  PROVE  Range(Append(q, x)) = Range(q) \union {x}
  <1>1. /\ Len(q) \in Nat /\ DOMAIN q = 1..Len(q)
        /\ DOMAIN Append(q, x) = 1..(Len(q) + 1)
        /\ \A i \in 1..Len(q) : Append(q, x)[i] = q[i]
        /\ Append(q, x)[Len(q) + 1] = x
    OBVIOUS
  <1> QED BY <1>1 DEF Range

LEMMA RangeOfAppendNat ==
  ASSUME NEW q \in Seq(Nat), NEW x \in Nat
  PROVE  Range(Append(q, x)) = Range(q) \union {x}
  BY RangeOfAppend

LEMMA NeighboursAreNaturals ==
  ASSUME NEW I, IRType(I), NEW b \in 0..(I.size - 1)
  PROVE  Preds(I, b) \subseteq Nat /\ Succs(I, b) \subseteq Nat
  <1>1. I.blocks[b] \in BasicBlocks
    BY DEF IRType
  <1>2. I.blocks[b].predecessors \in Seq(Nat) /\ I.blocks[b].successors \in Seq(Nat)
    BY <1>1 DEF BasicBlocks
  <1> QED BY <1>2, RangeOfSequence DEF Preds, Succs

LEMMA GrowsTransitive ==
  ASSUME NEW I, NEW J, NEW K, IRType(I), Grows(I, J), Grows(J, K)
  PROVE  Grows(I, K)
  BY DEF Grows, IROK, IRType, Indices

LEMMA GrowsReflexive ==
  ASSUME NEW I, IROK(I)
  PROVE  Grows(I, I)
  BY DEF Grows, IROK, IRType

LEMMA GrowsKeepsFunction ==
  ASSUME NEW I, NEW J, IRType(I), Grows(I, J), NEW b, InFunction(I, b)
  PROVE  InFunction(J, b)
  BY DEF Grows, IROK, IRType, Indices, InFunction

LEMMA GrowsKeepsFrame ==
  ASSUME NEW I, NEW J, IRType(I), Grows(I, J), NEW f, FrameOK(I, f)
  PROVE  FrameOK(J, f)
  BY GrowsKeepsFunction DEF Grows, FrameOK, InFunction

\* The part of a closed set that was there before the graph grew.
LEMMA ClosedBefore ==
  ASSUME NEW I, IROK(I), NEW J, I.size <= J.size,
         \A b \in 0..(I.size - 1) : J.doms[b] = I.doms[b],
         NEW S, Closed(J, S)
  PROVE  Closed(I, S \intersect (0..(I.size - 1)))
  <1> SUFFICES ASSUME NEW b \in S, b \in 0..(I.size - 1)
               PROVE  I.doms[b] \in S /\ I.doms[b] \in 0..(I.size - 1)
    BY DEF Closed
  <1>1. I.doms[b] \in S
    BY DEF Closed
  <1>2. I.size \in Nat \ {0} /\ I.doms[b] \in Nat /\ I.doms[0] = 0
    BY DEF IROK, IRType, DomsOK
  <1>3. b # 0 => I.doms[b] < b
    BY <1>2 DEF IROK, GraphOK, Indices
  <1> QED BY <1>1, <1>2, <1>3

LEMMA GrowsKeepsAbove ==
  ASSUME NEW I, IROK(I), NEW J, Grows(I, J), NEW c, NEW p \in 0..(I.size - 1),
         Above(I, c, p)
  PROVE  Above(J, c, p)
  <1> SUFFICES ASSUME NEW S \in SUBSET (0..(J.size - 1)), Closed(J, S), p \in S
               PROVE  c \in S
    BY DEF Above
  <1>1. Closed(I, S \intersect (0..(I.size - 1)))
    BY ClosedBefore DEF Grows
  <1> QED BY <1>1 DEF Above

LEMMA AboveReflexive ==
  ASSUME NEW I, NEW c
  PROVE  Above(I, c, c)
  BY DEF Above

LEMMA AboveTransitive ==
  ASSUME NEW I, NEW b, NEW c, NEW d, Above(I, b, c), Above(I, c, d)
  PROVE  Above(I, b, d)
  BY DEF Above

LEMMA AboveChild ==
  ASSUME NEW I, NEW b
  PROVE  Above(I, I.doms[b], b)
  BY DEF Above, Closed

\* A method that leaves the shape of the graph alone and sets no bad location.
LEMMA SameShape ==
  ASSUME NEW I, NEW J, IROK(I), IRType(J),
         J.size = I.size, J.doms = I.doms,
         \A b \in 0..(I.size - 1) :
           /\ J.blocks[b].type = I.blocks[b].type
           /\ J.blocks[b].predecessors = I.blocks[b].predecessors
           /\ J.blocks[b].successors = I.blocks[b].successors
           /\ I.blocks[b].branch_block # None => J.blocks[b].branch_block # None
           /\ I.blocks[b].loop_header # None => J.blocks[b].loop_header # None
           /\ J.blocks[b].larg = I.blocks[b].larg
                \/ LocationOK(I, b, J.blocks[b].larg)
           /\ J.blocks[b].rarg = I.blocks[b].rarg
                \/ LocationOK(I, b, J.blocks[b].rarg)
  PROVE  Grows(I, J)
  <1>0. 0 \in 0..(I.size - 1) /\ I.size \in Nat
    BY DEF IROK, IRType
  <1>1. Indices(J) = Indices(I) /\ \A b \in 0..(I.size - 1) :
          Preds(J, b) = Preds(I, b) /\ Succs(J, b) = Succs(I, b)
    BY DEF Indices, Preds, Succs
  <1>2. \A b \in Indices(I) : b \in 0..(I.size - 1)
    BY <1>0 DEF Indices
  <1>3. \A b \in Indices(I) : Labelled(I, b) => Labelled(J, b)
    BY <1>2 DEF Labelled, is_branch_back, is_loop_header
  <1>4. \A b, c : SameFunction(I, b, c) => SameFunction(J, b, c)
    BY <1>0, <1>1 DEF SameFunction
  <1>5. GraphOK(J)
    <2>1. \A s \in Succs(J, 0) : s \in Indices(J)
      BY <1>0, <1>1 DEF IROK, GraphOK
    <2> SUFFICES ASSUME NEW b \in Indices(J)
                 PROVE  /\ J.doms[b] < b
                        /\ Preds(J, b) # {}
                        /\ \A p \in Preds(J, b) :
                             p < b /\ b \in Succs(J, p) /\ (p = 0 \/ SameFunction(J, p, b))
                        /\ \A s \in Succs(J, b) :
                             s \in Indices(J) /\ b < s /\ b \in Preds(J, s)
      BY <2>1 DEF GraphOK
    <2>2. J.doms[b] < b /\ Preds(J, b) # {}
      BY <1>1, <1>2 DEF IROK, GraphOK
    <2>3. ASSUME NEW p \in Preds(J, b)
          PROVE  p < b /\ b \in Succs(J, p) /\ (p = 0 \/ SameFunction(J, p, b))
      <3>1. p < b /\ b \in Succs(I, p) /\ (p = 0 \/ SameFunction(I, p, b))
        BY <1>1, <1>2, <2>3 DEF IROK, GraphOK
      <3>2. p \in 0..(I.size - 1)
        <4>1. p \in Nat
          BY <1>1, <1>2, <2>3, NeighboursAreNaturals DEF IROK
        <4> QED BY <1>0, <1>1, <3>1, <4>1 DEF Indices
      <3> QED BY <1>1, <1>4, <3>1, <3>2
    <2>4. ASSUME NEW s \in Succs(J, b)
          PROVE  s \in Indices(J) /\ b < s /\ b \in Preds(J, s)
      BY <1>1, <1>2, <2>4 DEF IROK, GraphOK
    <2> QED BY <2>2, <2>3, <2>4
  <1>6. LocationsOK(J)
    BY <1>1, <1>2, <1>3, <1>4 DEF LocationsOK, LocationOK, IROK
  <1>7. DomsOK(J)
    BY <1>1, <1>2 DEF DomsOK, Closed, IROK
  <1> QED BY <1>0, <1>1, <1>3, <1>5, <1>6, <1>7 DEF Grows, IROK

\* What replacing one block does.
LEMMA WriteBlock ==
  ASSUME NEW I, IRType(I), NEW b \in 0..(I.size - 1), NEW r \in BasicBlocks
  PROVE  LET J == [I EXCEPT !.blocks[b] = r]
         IN  /\ IRType(J)
             /\ J.size = I.size /\ J.doms = I.doms
             /\ \A c \in 0..(I.size - 1) : J.blocks[c] = IF c = b THEN r ELSE I.blocks[c]
  BY DEF IRType

\* ... and when the new block differs in nothing the graph is made of.
LEMMA RewriteBlock ==
  ASSUME NEW I, IROK(I), NEW b \in 0..(I.size - 1), NEW r \in BasicBlocks,
         r.type = I.blocks[b].type,
         r.predecessors = I.blocks[b].predecessors,
         r.successors = I.blocks[b].successors,
         I.blocks[b].branch_block # None => r.branch_block # None,
         I.blocks[b].loop_header # None => r.loop_header # None,
         r.larg = I.blocks[b].larg \/ LocationOK(I, b, r.larg),
         r.rarg = I.blocks[b].rarg \/ LocationOK(I, b, r.rarg)
  PROVE  LET J == [I EXCEPT !.blocks[b] = r]
         IN  Grows(I, J) /\ J.blocks[b] = r /\ J.size = I.size
  <1> DEFINE J == [I EXCEPT !.blocks[b] = r]
  <1>1. /\ IRType(J)
        /\ J.size = I.size /\ J.doms = I.doms
        /\ \A c \in 0..(I.size - 1) : J.blocks[c] = IF c = b THEN r ELSE I.blocks[c]
    BY WriteBlock DEF IROK
  <1> HIDE DEF J
  <1>2. Grows(I, J) /\ J.blocks[b] = r /\ J.size = I.size
    BY <1>1, SameShape
  <1> QED BY <1>2 DEF J

LEMMA BlockType ==
  ASSUME NEW I, IROK(I), NEW b \in 0..(I.size - 1)
  PROVE  I.blocks[b] \in BasicBlocks
  BY DEF IROK, IRType

LEMMA AddInstruction ==
  ASSUME NEW I, IROK(I), NEW b \in 0..(I.size - 1), NEW k \in Nat
  PROVE  Grows(I, add_instruction(I, b, k)) /\ add_instruction(I, b, k).size = I.size
  <1> DEFINE r == [I.blocks[b] EXCEPT !.code = Append(I.blocks[b].code, k)]
  <1>1. Append(I.blocks[b].code, k) \in Seq(Nat)
    BY BlockType DEF BasicBlocks
  <1>2. /\ r \in BasicBlocks
        /\ r.type = I.blocks[b].type
        /\ r.predecessors = I.blocks[b].predecessors
        /\ r.successors = I.blocks[b].successors
        /\ r.branch_block = I.blocks[b].branch_block
        /\ r.loop_header = I.blocks[b].loop_header
        /\ r.larg = I.blocks[b].larg
        /\ r.rarg = I.blocks[b].rarg
    BY <1>1, BlockType DEF BasicBlocks
  <1>3. add_instruction(I, b, k) = [I EXCEPT !.blocks[b] = r]
    BY DEF add_instruction
  <1> HIDE DEF r
  <1> QED BY <1>2, <1>3, RewriteBlock

LEMMA SetReturn ==
  ASSUME NEW I, IROK(I), NEW b \in 0..(I.size - 1)
  PROVE  Grows(I, set_return(I, b)) /\ set_return(I, b).size = I.size
  <1> DEFINE r == [I.blocks[b] EXCEPT !.will_return = TRUE]
  <1>1. /\ r \in BasicBlocks
        /\ r.type = I.blocks[b].type
        /\ r.predecessors = I.blocks[b].predecessors
        /\ r.successors = I.blocks[b].successors
        /\ r.branch_block = I.blocks[b].branch_block
        /\ r.loop_header = I.blocks[b].loop_header
        /\ r.larg = I.blocks[b].larg
        /\ r.rarg = I.blocks[b].rarg
    BY BlockType DEF BasicBlocks
  <1>2. set_return(I, b) = [I EXCEPT !.blocks[b] = r]
    BY DEF set_return
  <1> HIDE DEF r
  <1> QED BY <1>1, <1>2, RewriteBlock

LEMMA SetBranchCond ==
  ASSUME NEW I, IROK(I), NEW b \in 0..(I.size - 1), NEW op \in BranchOp,
         NEW t \in Int, LocationOK(I, b, t)
  PROVE  /\ Grows(I, set_branch_cond(I, b, op, t))
         /\ set_branch_cond(I, b, op, t).size = I.size
  <1> DEFINE r == [I.blocks[b] EXCEPT !.op = op, !.larg = t, !.will_return = (op = "RET")]
  <1>1. /\ r \in BasicBlocks
        /\ r.type = I.blocks[b].type
        /\ r.predecessors = I.blocks[b].predecessors
        /\ r.successors = I.blocks[b].successors
        /\ r.branch_block = I.blocks[b].branch_block
        /\ r.loop_header = I.blocks[b].loop_header
        /\ r.larg = t
        /\ r.rarg = I.blocks[b].rarg
    BY BlockType DEF BasicBlocks
  <1>2. CASE will_return(I, b)
    BY <1>2, GrowsReflexive DEF set_branch_cond
  <1>3. CASE ~will_return(I, b)
    <2>1. set_branch_cond(I, b, op, t) = [I EXCEPT !.blocks[b] = r]
      BY <1>3 DEF set_branch_cond
    <2> HIDE DEF r
    <2> QED BY <1>1, <2>1, RewriteBlock
  <1> QED BY <1>2, <1>3

LEMMA SetBranchLocation ==
  ASSUME NEW I, IROK(I), NEW b \in 0..(I.size - 1),
         NEW t \in Int, LocationOK(I, b, t)
  PROVE  /\ Grows(I, set_branch_location(I, b, t))
         /\ set_branch_location(I, b, t).size = I.size
  <1> DEFINE r == [I.blocks[b] EXCEPT !.rarg = t]
  <1>1. /\ r \in BasicBlocks
        /\ r.type = I.blocks[b].type
        /\ r.predecessors = I.blocks[b].predecessors
        /\ r.successors = I.blocks[b].successors
        /\ r.branch_block = I.blocks[b].branch_block
        /\ r.loop_header = I.blocks[b].loop_header
        /\ r.larg = I.blocks[b].larg
        /\ r.rarg = t
    BY BlockType DEF BasicBlocks
  <1>2. set_branch_location(I, b, t) = [I EXCEPT !.blocks[b] = r]
    BY DEF set_branch_location
  <1> HIDE DEF r
  <1> QED BY <1>1, <1>2, RewriteBlock

LEMMA UpdatePhi ==
  ASSUME NEW I, IROK(I), NEW h \in Indices(I), NEW w \in Indices(I)
  PROVE  /\ Grows(I, update_phi(I, h, w))
         /\ update_phi(I, h, w).size = I.size
         /\ Labelled(update_phi(I, h, w), h)
  <1> DEFINE r == [I.blocks[h] EXCEPT !.branch_block = w]
             J == [I EXCEPT !.blocks[h] = r]
             q == [J.blocks[w] EXCEPT !.loop_header = h]
             K == [J EXCEPT !.blocks[w] = q]
  <1>1. /\ I.size \in Nat /\ h \in 0..(I.size - 1) /\ w \in 0..(I.size - 1)
        /\ h \in Int /\ h # None /\ w \in Int /\ w # None
    BY DEF IROK, IRType, Indices, None
  <1>2. /\ r \in BasicBlocks
        /\ r.type = I.blocks[h].type
        /\ r.predecessors = I.blocks[h].predecessors
        /\ r.successors = I.blocks[h].successors
        /\ r.branch_block = w
        /\ r.loop_header = I.blocks[h].loop_header
        /\ r.larg = I.blocks[h].larg
        /\ r.rarg = I.blocks[h].rarg
    BY <1>1, BlockType DEF BasicBlocks
  <1>3. update_phi(I, h, w) = K
    BY DEF update_phi
  <1> HIDE DEF r, K
  <1>4. Grows(I, J) /\ J.blocks[h] = r /\ J.size = I.size
    BY <1>1, <1>2, RewriteBlock
  <1> HIDE DEF J
  <1>5. IROK(J) /\ J.blocks[w] \in BasicBlocks
    BY <1>1, <1>4, BlockType DEF Grows
  <1>6. Labelled(J, h)
    BY <1>1, <1>2, <1>4 DEF Labelled, is_loop_header
  <1>7. /\ q \in BasicBlocks
        /\ q.type = J.blocks[w].type
        /\ q.predecessors = J.blocks[w].predecessors
        /\ q.successors = J.blocks[w].successors
        /\ q.branch_block = J.blocks[w].branch_block
        /\ q.loop_header = h
        /\ q.larg = J.blocks[w].larg
        /\ q.rarg = J.blocks[w].rarg
    BY <1>1, <1>5 DEF BasicBlocks
  <1> HIDE DEF q
  <1>8. Grows(J, K) /\ K.size = J.size
    BY <1>1, <1>4, <1>5, <1>7, RewriteBlock DEF K
  <1>9. Grows(I, K)
    BY <1>4, <1>8, GrowsTransitive DEF IROK
  <1>10. Labelled(K, h)
    BY <1>1, <1>4, <1>6, <1>8 DEF Grows, Indices
  <1> QED BY <1>3, <1>4, <1>8, <1>9, <1>10

\* A new block with one or two predecessors in the current function.
LEMMA NewBlockHelper ==
  ASSUME NEW I, IROK(I), NEW t \in Blocktype, NEW ps \in Seq(Nat),
         Range(ps) # {}, \A p \in Range(ps) : InFunction(I, p),
         NEW idom \in 0..(I.size - 1), \A p \in Range(ps) : Above(I, idom, p)
  PROVE  LET J == new_block_helper(I, t, ps, idom)
         IN  /\ Grows(I, J)
             /\ J.size = I.size + 1
             /\ J.blocks[I.size].type = t
             /\ InFunction(J, I.size)
             /\ Above(J, idom, I.size)
  <1> DEFINE J == new_block_helper(I, t, ps, idom)
             fresh == BasicBlock(t, ps)
             old(b) == IF b \in Range(ps)
                         THEN [I.blocks[b] EXCEPT !.successors = Append(I.blocks[b].successors, I.size)]
                         ELSE I.blocks[b]
  <1>1. /\ I.size \in Nat \ {0}
        /\ \A b \in 0..(I.size - 1) : I.blocks[b] \in BasicBlocks /\ I.doms[b] \in Nat
        /\ \A p \in Range(ps) : p \in 0..(I.size - 1) /\ p # 0
    BY DEF IROK, IRType, InFunction, Indices
  <1>2. /\ J.size = I.size + 1
        /\ J.blocks = [b \in 0..I.size |-> IF b = I.size THEN fresh ELSE old(b)]
        /\ J.doms = [b \in 0..I.size |-> IF b = I.size THEN idom ELSE I.doms[b]]
        /\ J = [size |-> J.size, blocks |-> J.blocks, doms |-> J.doms]
    BY DEF new_block_helper
  <1>3. /\ fresh \in BasicBlocks
        /\ fresh.type = t
        /\ fresh.predecessors = ps
        /\ fresh.successors = <<>>
        /\ fresh.larg = None /\ fresh.rarg = None
    BY DEF BasicBlock, BasicBlocks, BranchOp, None
  <1>4. ASSUME NEW b \in 0..(I.size - 1)
        PROVE  /\ old(b) \in BasicBlocks
               /\ old(b).type = I.blocks[b].type
               /\ old(b).predecessors = I.blocks[b].predecessors
               /\ old(b).larg = I.blocks[b].larg
               /\ old(b).rarg = I.blocks[b].rarg
               /\ old(b).branch_block = I.blocks[b].branch_block
               /\ old(b).loop_header = I.blocks[b].loop_header
               /\ Range(old(b).successors) =
                    Succs(I, b) \union (IF b \in Range(ps) THEN {I.size} ELSE {})
    <2>1. I.blocks[b].successors \in Seq(Nat) /\ I.size \in Nat
      BY <1>1 DEF BasicBlocks
    <2>2. Append(I.blocks[b].successors, I.size) \in Seq(Nat)
      BY <2>1
    <2>3. Range(Append(I.blocks[b].successors, I.size)) = Succs(I, b) \union {I.size}
      <3> DEFINE q == I.blocks[b].successors
      <3>0. q \in Seq(Nat)
        BY <2>1
      <3> HIDE DEF q
      <3>1. Range(Append(q, I.size)) = Range(q) \union {I.size}
        <4>1. I.size \in Nat
          BY <2>1
        <4> QED BY <3>0, <4>1, RangeOfAppendNat
      <3> QED BY <3>1 DEF Succs, q
    <2>4. I.blocks[b] \in BasicBlocks
      BY <1>1
    <2>5. CASE b \in Range(ps)
      BY <2>2, <2>3, <2>4, <2>5 DEF BasicBlocks
    <2>6. CASE b \notin Range(ps)
      BY <2>4, <2>6 DEF Succs
    <2> QED BY <2>5, <2>6
  <1> HIDE DEF fresh, old
  <1>5. IRType(J)
    BY <1>1, <1>2, <1>3, <1>4 DEF IRType
  <1>6. /\ \A b \in 0..(I.size - 1) : Preds(J, b) = Preds(I, b)
        /\ Preds(J, I.size) = Range(ps)
        /\ \A b \in 0..(I.size - 1) :
             Succs(J, b) = Succs(I, b) \union (IF b \in Range(ps) THEN {I.size} ELSE {})
        /\ Succs(J, I.size) = {}
    <2>1. /\ J.blocks[I.size] = fresh
          /\ \A b \in 0..(I.size - 1) : J.blocks[b] = old(b)
      BY <1>1, <1>2
    <2>2. Range(fresh.successors) = {}
      BY <1>3 DEF Range
    <2> HIDE DEF J
    <2> QED BY <1>3, <1>4, <2>1, <2>2, ZenonT(60) DEF Preds, Succs
  <1>7. Indices(J) = Indices(I) \union {I.size} /\ I.size \notin Indices(I)
        /\ \A b \in Indices(I) : b \in 0..(I.size - 1)
    BY <1>1, <1>2 DEF Indices
  <1>8. Succs(J, 0) = Succs(I, 0) /\ Succs(I, 0) \subseteq Indices(I)
    <2>1. 0 \in 0..(I.size - 1) /\ 0 \notin Range(ps)
      BY <1>1
    <2>2. Succs(J, 0) = Succs(I, 0)
      BY <1>6, <2>1
    <2> QED BY <2>2 DEF IROK, GraphOK
  <1>9. \A b, c : SameFunction(I, b, c) <=> SameFunction(J, b, c)
    BY <1>8 DEF SameFunction
  <1>10. \A b \in Indices(I) : Labelled(I, b) => Labelled(J, b)
    BY <1>1, <1>2, <1>4, <1>7 DEF Labelled, is_branch_back, is_loop_header
  <1>11. InFunction(J, I.size) /\ \A p \in Range(ps) : SameFunction(J, p, I.size)
    BY <1>1, <1>7, <1>8 DEF InFunction, SameFunction, Indices
  <1>12. GraphOK(J)
    <2>1. \A s \in Succs(J, 0) : s \in Indices(J)
      BY <1>7, <1>8
    <2>2. ASSUME NEW b \in Indices(I)
          PROVE  /\ J.doms[b] < b
                 /\ Preds(J, b) # {}
                 /\ \A p \in Preds(J, b) :
                      p < b /\ b \in Succs(J, p) /\ (p = 0 \/ SameFunction(J, p, b))
                 /\ \A s \in Succs(J, b) :
                      s \in Indices(J) /\ b < s /\ b \in Preds(J, s)
      <3>1. J.doms[b] < b /\ Preds(J, b) # {}
        BY <1>1, <1>2, <1>6, <1>7 DEF IROK, GraphOK
      <3>2. ASSUME NEW p \in Preds(J, b)
            PROVE  p < b /\ b \in Succs(J, p) /\ (p = 0 \/ SameFunction(J, p, b))
        <4>1. p < b /\ b \in Succs(I, p) /\ (p = 0 \/ SameFunction(I, p, b)) /\ p \in Nat
          BY <1>6, <1>7, <3>2, NeighboursAreNaturals DEF IROK, GraphOK
        <4>2. p \in 0..(I.size - 1)
          BY <1>1, <1>7, <4>1 DEF Indices
        <4> QED BY <1>6, <1>9, <4>1, <4>2
      <3>3. ASSUME NEW s \in Succs(J, b)
            PROVE  s \in Indices(J) /\ b < s /\ b \in Preds(J, s)
        <4>1. CASE s \in Succs(I, b)
          BY <1>6, <1>7, <4>1 DEF IROK, GraphOK
        <4>2. CASE s \notin Succs(I, b)
          BY <1>1, <1>6, <1>7, <3>3, <4>2 DEF Indices
        <4> QED BY <4>1, <4>2
      <3> QED BY <3>1, <3>2, <3>3
    <2>3. /\ J.doms[I.size] < I.size
          /\ Preds(J, I.size) # {}
          /\ \A p \in Preds(J, I.size) :
               p < I.size /\ I.size \in Succs(J, p) /\ (p = 0 \/ SameFunction(J, p, I.size))
          /\ Succs(J, I.size) = {}
      BY <1>1, <1>2, <1>6, <1>11
    <2> QED BY <1>7, <2>1, <2>2, <2>3 DEF GraphOK
  <1>13. LocationsOK(J)
    <2>1. ASSUME NEW b \in Indices(I)
          PROVE  J.blocks[b].larg = I.blocks[b].larg /\ J.blocks[b].rarg = I.blocks[b].rarg
      BY <1>1, <1>2, <1>4, <1>7
    <2>2. \A b, x : LocationOK(I, b, x) => LocationOK(J, b, x)
      BY <1>7, <1>9, <1>10 DEF LocationOK
    <2>3. J.blocks[I.size].larg = None /\ J.blocks[I.size].rarg = None
      BY <1>1, <1>2, <1>3
    <2> QED BY <1>7, <2>1, <2>2, <2>3 DEF LocationsOK, LocationOK, IROK
  <1>14. J.blocks[I.size].type = t
    BY <1>1, <1>2, <1>3
  <1>15. /\ \A b \in 0..(I.size - 1) : J.doms[b] = I.doms[b]
         /\ J.doms[I.size] = idom
    BY <1>1, <1>2
  <1> HIDE DEF J
  <1>16. DomsOK(J)
    <2>1. J.doms[0] = 0
      BY <1>1, <1>15 DEF IROK, DomsOK
    <2> SUFFICES ASSUME NEW S \in SUBSET (0..(J.size - 1)), Closed(J, S),
                        NEW b \in Indices(J), Preds(J, b) \intersect S # {}
                 PROVE  J.doms[b] \in S
      BY <2>1 DEF DomsOK
    <2> DEFINE T == S \intersect (0..(I.size - 1))
    <2>0. I.size <= J.size
      BY <1>1, <1>2
    <2>2. Closed(I, T)
      BY <1>15, <2>0, ClosedBefore
    <2>3. CASE b \in Indices(I)
      <3>1. Preds(I, b) \intersect S # {} /\ J.doms[b] = I.doms[b]
        BY <1>6, <1>7, <1>15, <2>3
      <3>2. Preds(I, b) \subseteq 0..(I.size - 1)
        <4>1. \A p \in Preds(I, b) : p \in Nat /\ p < b
          BY <1>7, <2>3, NeighboursAreNaturals DEF IROK, GraphOK
        <4> QED BY <1>1, <1>7, <2>3, <4>1
      <3> QED BY <2>2, <2>3, <3>1, <3>2 DEF IROK, DomsOK
    <2>4. CASE b = I.size
      <3>1. PICK p \in Range(ps) : p \in T
        BY <1>1, <1>6, <2>4
      <3> QED BY <1>15, <2>2, <2>4, <3>1 DEF Above
    <2> QED BY <1>7, <2>3, <2>4
  <1>17. Grows(I, J)
    BY <1>1, <1>2, <1>5, <1>8, <1>10, <1>12, <1>13, <1>15, <1>16 DEF Grows, IROK
  <1>18. Above(J, idom, I.size)
    BY <1>15, AboveChild
  <1> QED BY <1>2, <1>11, <1>14, <1>17, <1>18 DEF J

LEMMA NewBlock ==
  ASSUME NEW I, IROK(I), NEW p, InFunction(I, p), NEW t \in Blocktype \union {"LOOP_HEADER"}
  PROVE  LET J == new_block(I, p, t)
         IN  /\ Grows(I, J)
             /\ J.size = I.size + 1
             /\ InFunction(J, I.size)
             /\ Above(J, p, I.size)
             /\ t \in {"IF_BRANCH", "WHILE_BRANCH"} => Labelled(J, I.size)
  <1> DEFINE ps == <<p>>
             type == IF t = "LOOP_HEADER" THEN "INVALID" ELSE t
             J == new_block_helper(I, type, ps, p)
  <1>1. p \in Nat /\ p \in 0..(I.size - 1)
    BY DEF InFunction, Indices, IROK, IRType
  <1>2. ps \in Seq(Nat) /\ Range(ps) = {p} /\ type \in Blocktype
    <2>1. DOMAIN ps = {1}
      OBVIOUS
    <2> QED BY <1>1, <2>1 DEF Range, Blocktype
  <1> HIDE DEF ps
  <1>3. /\ Grows(I, J) /\ J.size = I.size + 1
        /\ J.blocks[I.size].type = type /\ InFunction(J, I.size)
        /\ Above(J, p, I.size)
    <2> HIDE DEF type
    <2>1. \A q \in Range(ps) : InFunction(I, q) /\ Above(I, p, q)
      BY <1>2, AboveReflexive
    <2> HIDE DEF J
    <2>2. Range(ps) # {}
      BY <1>2
    <2> QED BY <1>1, <1>2, <2>1, <2>2, NewBlockHelper, ZenonT(60) DEF J
  <1> HIDE DEF J
  <1>4. t \in {"IF_BRANCH", "WHILE_BRANCH"} => Labelled(J, I.size)
    BY <1>3 DEF Labelled
  <1>5. new_block(I, p, t) = J
    BY DEF new_block, J, ps
  <1> QED BY <1>3, <1>4, <1>5

LEMMA NewJoin ==
  ASSUME NEW I, IROK(I), NEW p1, InFunction(I, p1), NEW p2, InFunction(I, p2),
         NEW idom, InFunction(I, idom), Above(I, idom, p1), Above(I, idom, p2)
  PROVE  LET J == new_join(I, p1, p2, idom)
         IN  /\ Grows(I, J)
             /\ J.size = I.size + 1
             /\ InFunction(J, I.size)
             /\ Above(J, idom, I.size)
             /\ Labelled(J, I.size)
  <1> DEFINE ps == <<p1, p2>>
             J == new_block_helper(I, "JOIN", ps, idom)
  <1>1. p1 \in Nat /\ p2 \in Nat /\ idom \in 0..(I.size - 1)
    BY DEF InFunction, Indices, IROK, IRType
  <1>2. ps \in Seq(Nat) /\ Range(ps) = {p1, p2}
    <2>1. DOMAIN ps = {1, 2}
      OBVIOUS
    <2> QED BY <1>1, <2>1 DEF Range
  <1> HIDE DEF ps
  <1>3. /\ Grows(I, J) /\ J.size = I.size + 1
        /\ J.blocks[I.size].type = "JOIN" /\ InFunction(J, I.size)
        /\ Above(J, idom, I.size)
    <2>1. "JOIN" \in Blocktype
      BY DEF Blocktype
    <2> QED BY <1>1, <1>2, <2>1, NewBlockHelper, ZenonT(60)
  <1> HIDE DEF J
  <1>4. Labelled(J, I.size)
    BY <1>3 DEF Labelled
  <1>5. new_join(I, p1, p2, idom) = J
    BY DEF new_join, J, ps
  <1> QED BY <1>3, <1>4, <1>5

\* A new entry point: the blocks before it stay in their functions.
LEMMA NewFunction ==
  ASSUME NEW I, IROK(I)
  PROVE  LET J == new_function(I)
         IN  /\ IROK(J) /\ J.size = I.size + 1
             /\ InFunction(J, I.size) /\ I.size \in Succs(J, 0)
  <1> DEFINE J == new_function(I)
             fresh == BasicBlock("NONE", <<0>>)
             const == [I.blocks[0] EXCEPT !.successors = Append(I.blocks[0].successors, I.size)]
  <1>1. /\ I.size \in Nat \ {0}
        /\ \A b \in 0..(I.size - 1) : I.blocks[b] \in BasicBlocks /\ I.doms[b] \in Nat
    BY DEF IROK, IRType
  <1>2. Range(<<0>>) = {0}
    BY DEF Range
  <1>3. /\ J.size = I.size + 1
        /\ J.blocks = [b \in 0..I.size |-> IF b = I.size THEN fresh
                                           ELSE IF b = 0 THEN const ELSE I.blocks[b]]
        /\ J.doms = [b \in 0..I.size |-> IF b = I.size THEN 0 ELSE I.doms[b]]
        /\ J = [size |-> J.size, blocks |-> J.blocks, doms |-> J.doms]
    BY <1>1, <1>2 DEF new_function, new_block_helper
  <1>4. /\ fresh \in BasicBlocks
        /\ Range(fresh.predecessors) = {0}
        /\ Range(fresh.successors) = {}
        /\ fresh.larg = None /\ fresh.rarg = None
    BY <1>2 DEF BasicBlock, BasicBlocks, BranchOp, Blocktype, None, Range
  <1>5. /\ const \in BasicBlocks
        /\ const.predecessors = I.blocks[0].predecessors
        /\ Range(const.successors) = Succs(I, 0) \union {I.size}
    <2> DEFINE q == I.blocks[0].successors
    <2>1. q \in Seq(Nat) /\ I.size \in Nat /\ I.blocks[0] \in BasicBlocks
      BY <1>1 DEF BasicBlocks
    <2> HIDE DEF q
    <2>2. Append(q, I.size) \in Seq(Nat)
      BY <2>1
    <2>3. Range(Append(q, I.size)) = Range(q) \union {I.size}
      BY <2>1, RangeOfAppend
    <2>4. const \in BasicBlocks /\ const.predecessors = I.blocks[0].predecessors
      BY <2>1, <2>2 DEF q, BasicBlocks
    <2>5. const.successors = Append(q, I.size)
      BY <2>1 DEF q, BasicBlocks
    <2> HIDE DEF const
    <2> QED BY <2>3, <2>4, <2>5 DEF Succs, q
  <1> HIDE DEF fresh, const
  <1>6. IRType(J)
    BY <1>1, <1>3, <1>4, <1>5 DEF IRType
  <1>7. /\ \A b \in 1..(I.size - 1) : J.blocks[b] = I.blocks[b] /\ J.doms[b] = I.doms[b]
        /\ J.blocks[0] = const
        /\ J.blocks[I.size] = fresh /\ J.doms[I.size] = 0
    BY <1>1, <1>3
  <1>8. Indices(J) = Indices(I) \union {I.size}
        /\ \A b \in Indices(I) : b \in 1..(I.size - 1) /\ b # I.size
    BY <1>1, <1>3 DEF Indices
  <1>9. /\ Succs(J, 0) = Succs(I, 0) \union {I.size}
        /\ Succs(I, 0) \subseteq Indices(I)
        /\ Preds(J, I.size) = {0} /\ Succs(J, I.size) = {}
    BY <1>4, <1>5, <1>7 DEF Succs, Preds, IROK, GraphOK
  <1>10. \A b, c \in Indices(I) : SameFunction(I, b, c) => SameFunction(J, b, c)
    BY <1>1, <1>9 DEF SameFunction, Indices
  <1>11. InFunction(J, I.size)
    BY <1>1, <1>8, <1>9 DEF InFunction, Indices
  <1>12. GraphOK(J)
    <2>1. \A s \in Succs(J, 0) : s \in Indices(J)
      BY <1>8, <1>9
    <2>2. ASSUME NEW b \in Indices(I)
          PROVE  /\ J.doms[b] < b
                 /\ Preds(J, b) # {}
                 /\ \A p \in Preds(J, b) :
                      p < b /\ b \in Succs(J, p) /\ (p = 0 \/ SameFunction(J, p, b))
                 /\ \A s \in Succs(J, b) :
                      s \in Indices(J) /\ b < s /\ b \in Preds(J, s)
      <3>1. Preds(J, b) = Preds(I, b) /\ Succs(J, b) = Succs(I, b) /\ J.doms[b] = I.doms[b]
        BY <1>7, <1>8 DEF Preds, Succs
      <3>2. ASSUME NEW p \in Preds(J, b)
            PROVE  p < b /\ b \in Succs(J, p) /\ (p = 0 \/ SameFunction(J, p, b))
        <4>1. p < b /\ b \in Succs(I, p) /\ (p = 0 \/ SameFunction(I, p, b))
          BY <3>1, <3>2 DEF IROK, GraphOK
        <4>2. p \in Nat
          BY <1>1, <1>8, <3>1, <3>2, NeighboursAreNaturals DEF IROK
        <4>3. CASE p = 0
          BY <1>9, <4>1, <4>3
        <4>4. CASE p # 0
          <5>1. p \in Indices(I)
            BY <1>1, <1>8, <4>1, <4>2, <4>4 DEF Indices
          <5>2. Succs(J, p) = Succs(I, p)
            BY <1>7, <1>8, <5>1 DEF Succs
          <5> QED BY <1>10, <4>1, <4>4, <5>1, <5>2
        <4> QED BY <4>3, <4>4
      <3>3. ASSUME NEW s \in Succs(J, b)
            PROVE  s \in Indices(J) /\ b < s /\ b \in Preds(J, s)
        <4>1. s \in Indices(I) /\ b < s /\ b \in Preds(I, s)
          BY <3>1, <3>3 DEF IROK, GraphOK
        <4>2. Preds(J, s) = Preds(I, s)
          BY <1>7, <1>8, <4>1 DEF Preds
        <4> QED BY <1>8, <4>1, <4>2
      <3>4. J.doms[b] < b /\ Preds(J, b) # {}
        BY <3>1 DEF IROK, GraphOK
      <3> QED BY <3>2, <3>3, <3>4
    <2>3. /\ J.doms[I.size] < I.size
          /\ Preds(J, I.size) # {}
          /\ \A p \in Preds(J, I.size) :
               p < I.size /\ I.size \in Succs(J, p) /\ (p = 0 \/ SameFunction(J, p, I.size))
          /\ Succs(J, I.size) = {}
      BY <1>1, <1>7, <1>9
    <2> QED BY <1>8, <2>1, <2>2, <2>3 DEF GraphOK
  <1>13. LocationsOK(J)
    <2>1. \A b, x \in Indices(I) : LocationOK(I, b, x) => LocationOK(J, b, x)
      BY <1>7, <1>8, <1>10 DEF LocationOK, Labelled, is_loop_header, is_branch_back
    <2>2. \A b \in Indices(I) : \A x : LocationOK(I, b, x) => LocationOK(J, b, x)
      BY <2>1 DEF LocationOK
    <2>3. \A b \in Indices(I) : LocationOK(J, b, J.blocks[b].larg)
                                /\ LocationOK(J, b, J.blocks[b].rarg)
      BY <1>7, <1>8, <2>2 DEF LocationsOK, IROK
    <2> QED BY <1>4, <1>7, <1>8, <2>3 DEF LocationsOK, LocationOK
  <1>14. \A b \in 0..(I.size - 1) : J.doms[b] = I.doms[b]
    BY <1>1, <1>3
  <1> HIDE DEF J
  <1>15. DomsOK(J)
    <2>1. J.doms[0] = 0
      BY <1>1, <1>14 DEF IROK, DomsOK
    <2> SUFFICES ASSUME NEW S \in SUBSET (0..(J.size - 1)), Closed(J, S),
                        NEW b \in Indices(J), Preds(J, b) \intersect S # {}
                 PROVE  J.doms[b] \in S
      BY <2>1 DEF DomsOK
    <2> DEFINE T == S \intersect (0..(I.size - 1))
    <2>0. I.size <= J.size
      BY <1>1, <1>3
    <2>2. Closed(I, T)
      BY <1>14, <2>0, ClosedBefore
    <2>3. CASE b \in Indices(I)
      <3>1. Preds(I, b) \intersect S # {} /\ J.doms[b] = I.doms[b]
        BY <1>7, <1>8, <2>3 DEF Preds
      <3>2. Preds(I, b) \subseteq 0..(I.size - 1)
        <4>1. \A p \in Preds(I, b) : p \in Nat /\ p < b
          BY <1>8, <2>3, NeighboursAreNaturals DEF IROK, GraphOK
        <4> QED BY <1>1, <1>8, <2>3, <4>1
      <3> QED BY <2>2, <2>3, <3>1, <3>2 DEF IROK, DomsOK
    <2>4. CASE b = I.size
      BY <1>7, <1>9, <2>4
    <2> QED BY <1>8, <2>3, <2>4
  <1> QED BY <1>3, <1>6, <1>9, <1>11, <1>12, <1>13, <1>15 DEF IROK, J

-----------------------------------------------------------------------------
(* The ends of the constructs.                                             *)

\* A jump between two blocks of the function being parsed is in bounds.
LEMMA JumpInFunction ==
  ASSUME NEW I, IROK(I), NEW b, InFunction(I, b), NEW t, InFunction(I, t), Labelled(I, t)
  PROVE  LocationOK(I, b, t)
  BY DEF LocationOK, InFunction, SameFunction

LEMMA InFunctionIsIndex ==
  ASSUME NEW I, IROK(I), NEW b, InFunction(I, b)
  PROVE  b \in Indices(I) /\ b \in 0..(I.size - 1) /\ b \in Nat /\ b \in Int /\ b # None
  BY DEF InFunction, Indices, IROK, IRType, None

LEMMA Join ==
  ASSUME NEW I, IROK(I), NEW cond, InFunction(I, cond),
         NEW t, InFunction(I, t), Above(I, cond, t),
         NEW e, InFunction(I, e), Above(I, cond, e)
  PROVE  LET J == join(I, cond, t, e)
         IN  Grows(I, J) /\ InFunction(J, I.size) /\ Above(J, cond, I.size)
  <1> DEFINE J == new_join(I, t, e, cond)
             K == set_branch_cond(J, t, "BRA", I.size)
  <1>1. /\ Grows(I, J) /\ J.size = I.size + 1 /\ InFunction(J, I.size)
        /\ Labelled(J, I.size) /\ Above(J, cond, I.size)
    BY NewJoin
  <1> HIDE DEF J
  <1>2. IRType(I) /\ IROK(J) /\ InFunction(J, t)
    BY <1>1, GrowsKeepsFunction DEF Grows, IROK
  <1>3. LocationOK(J, t, I.size) /\ t \in 0..(J.size - 1) /\ I.size \in Int /\ "BRA" \in BranchOp
    BY <1>1, <1>2, JumpInFunction, InFunctionIsIndex DEF BranchOp
  <1>4. Grows(J, K)
    BY <1>2, <1>3, SetBranchCond
  <1> HIDE DEF K
  <1>5. Grows(I, K) /\ InFunction(K, I.size) /\ Above(K, cond, I.size)
    BY <1>1, <1>2, <1>4, GrowsTransitive, GrowsKeepsFunction, GrowsKeepsAbove,
       InFunctionIsIndex DEF IROK
  <1> QED BY <1>5 DEF join, J, K

LEMMA CloseLoop ==
  ASSUME NEW I, IROK(I), NEW h, InFunction(I, h), NEW w, InFunction(I, w)
  PROVE  LET J == close_loop(I, h, w) IN Grows(I, J) /\ J.size = I.size
  <1> DEFINE J == update_phi(I, h, w)
             K == set_branch_cond(J, w, "BRA", h)
  <1>1. Grows(I, J) /\ J.size = I.size /\ Labelled(J, h)
    BY UpdatePhi, InFunctionIsIndex
  <1> HIDE DEF J
  <1>2. IRType(I) /\ IROK(J) /\ InFunction(J, h) /\ InFunction(J, w)
    BY <1>1, GrowsKeepsFunction DEF Grows, IROK
  <1>3. LocationOK(J, w, h) /\ w \in 0..(J.size - 1) /\ h \in Int /\ "BRA" \in BranchOp
    BY <1>1, <1>2, JumpInFunction, InFunctionIsIndex DEF BranchOp
  <1>4. Grows(J, K) /\ K.size = J.size
    BY <1>2, <1>3, SetBranchCond
  <1> HIDE DEF K
  <1>5. Grows(I, K) /\ K.size = I.size
    BY <1>1, <1>2, <1>4, GrowsTransitive
  <1> QED BY <1>5 DEF close_loop, J, K

LEMMA Branch ==
  ASSUME NEW I, IROK(I), NEW h, InFunction(I, h), NEW w, InFunction(I, w)
  PROVE  LET J == branch(I, h, w)
         IN  Grows(I, J) /\ InFunction(J, I.size) /\ Above(J, h, I.size)
  <1> DEFINE J == close_loop(I, h, w)
             K == new_block(J, h, "WHILE_BRANCH")
             L == set_branch_location(K, h, J.size)
  <1>1. Grows(I, J) /\ J.size = I.size
    BY CloseLoop
  <1> HIDE DEF J
  <1>2. IRType(I) /\ IROK(J) /\ InFunction(J, h)
    BY <1>1, GrowsKeepsFunction DEF Grows, IROK
  <1>3. /\ Grows(J, K) /\ K.size = J.size + 1 /\ InFunction(K, J.size)
        /\ Labelled(K, J.size) /\ Above(K, h, J.size)
    BY <1>2, NewBlock DEF Blocktype
  <1> HIDE DEF K
  <1>4. IROK(K) /\ InFunction(K, h) /\ IRType(J)
    BY <1>2, <1>3, GrowsKeepsFunction DEF Grows, IROK
  <1>5. LocationOK(K, h, J.size) /\ h \in 0..(K.size - 1) /\ J.size \in Int
    BY <1>3, <1>4, JumpInFunction, InFunctionIsIndex
  <1>6. Grows(K, L)
    BY <1>4, <1>5, SetBranchLocation
  <1> HIDE DEF L
  <1>7. Grows(J, L) /\ IRType(K)
    BY <1>3, <1>4, <1>6, GrowsTransitive DEF IROK
  <1>8. Grows(I, L) /\ InFunction(L, I.size) /\ Above(L, h, I.size)
    BY <1>1, <1>2, <1>3, <1>4, <1>6, <1>7, GrowsTransitive, GrowsKeepsFunction,
       GrowsKeepsAbove, InFunctionIsIndex
  <1> QED BY <1>8 DEF branch, J, K, L

\* What the end of a construct leaves for the handlers that go on.
GoesOn(I, cond, end) ==
  /\ Grows(I, end.ir) /\ InFunction(end.ir, end.curr) /\ end.returns \in BOOLEAN
  /\ Above(end.ir, cond, end.curr)

LEMMA GoesOnIn ==
  ASSUME NEW I, NEW J, Grows(I, J), NEW c, InFunction(J, c), NEW r \in BOOLEAN,
         NEW cond, Above(J, cond, c)
  PROVE  GoesOn(I, cond, [ir |-> J, curr |-> c, returns |-> r])
  BY DEF GoesOn

LEMMA IfEnd ==
  ASSUME NEW I, IROK(I), NEW f \in Frames, FrameOK(I, f), Live(f), f.in_else,
         Above(I, f.cond, f.then_block),
         NEW e, InFunction(I, e), Above(I, f.cond, e)
  PROVE  GoesOn(I, f.cond, if_end(I, f, e))
  <1> DEFINE J == IF f.result = "NEITHER"
                    THEN set_branch_location(I, f.cond, f.og_else_block) ELSE I
             K == set_return(J, f.cond)
             L == join(J, f.cond, f.then_block, e)
  <1>1. IRType(I) /\ InFunction(I, f.cond) /\ InFunction(I, f.then_block)
    BY DEF Live, FrameOK, IROK
  <1>2. Grows(I, J) /\ J.size = I.size
    <2>1. CASE f.result = "NEITHER"
      <3>1. LocationOK(I, f.cond, f.og_else_block) /\ f.og_else_block \in Int
        BY <1>1, <2>1, JumpInFunction, InFunctionIsIndex DEF Live, FrameOK
      <3> QED BY <1>1, <2>1, <3>1, SetBranchLocation, InFunctionIsIndex
    <2>2. CASE f.result # "NEITHER"
      BY <2>2, GrowsReflexive
    <2> QED BY <2>1, <2>2
  <1> HIDE DEF J
  <1>3. /\ IROK(J) /\ InFunction(J, f.cond) /\ InFunction(J, f.then_block)
        /\ InFunction(J, e)
        /\ Above(J, f.cond, f.then_block) /\ Above(J, f.cond, e)
    BY <1>1, <1>2, GrowsKeepsFunction, GrowsKeepsAbove, InFunctionIsIndex DEF Grows
  <1>4. /\ Grows(J, K)
        /\ Grows(J, L) /\ InFunction(L, J.size) /\ Above(L, f.cond, J.size)
    BY <1>3, SetReturn, InFunctionIsIndex, Join
  <1> HIDE DEF K, L
  <1>5. Grows(I, K) /\ Grows(I, L) /\ InFunction(K, f.cond)
    BY <1>1, <1>2, <1>3, <1>4, GrowsTransitive, GrowsKeepsFunction DEF IROK
  <1>6. \/ if_end(I, f, e) = [ir |-> K, curr |-> f.cond, returns |-> TRUE]
        \/ if_end(I, f, e) = [ir |-> J, curr |-> e, returns |-> FALSE]
        \/ if_end(I, f, e) = [ir |-> J, curr |-> f.then_block, returns |-> FALSE]
        \/ if_end(I, f, e) = [ir |-> L, curr |-> J.size, returns |-> FALSE]
    BY DEF if_end, J, K, L
  <1> QED BY <1>2, <1>3, <1>4, <1>5, <1>6, AboveReflexive, GoesOnIn

LEMMA WhileEnd ==
  ASSUME NEW I, IROK(I), NEW f \in Frames, FrameOK(I, f), Live(f),
         NEW w, InFunction(I, w), Above(I, f.cond, w)
  PROVE  GoesOn(I, f.cond, while_end(I, f, w))
  <1> DEFINE J == close_loop(I, f.cond, w)
             K == branch(I, f.cond, w)
  <1>1. InFunction(I, f.cond)
    BY DEF Live, FrameOK
  <1>2. /\ Grows(I, J)
        /\ Grows(I, K) /\ InFunction(K, I.size) /\ Above(K, f.cond, I.size)
    BY <1>1, CloseLoop, Branch
  <1> HIDE DEF J, K
  <1>3. /\ InFunction(J, w) /\ IRType(I) /\ Grows(I, I)
        /\ Above(J, f.cond, w) /\ Above(I, f.cond, f.cond)
    BY <1>2, GrowsKeepsFunction, GrowsReflexive, GrowsKeepsAbove, AboveReflexive,
       InFunctionIsIndex DEF IROK
  <1>4. f.result \in {"TRUE", "FALSE", "NEITHER"}
    BY DEF Frames, Relation
  <1>5. \/ while_end(I, f, w) = [ir |-> J, curr |-> w, returns |-> TRUE]
        \/ while_end(I, f, w) = [ir |-> I, curr |-> f.cond, returns |-> FALSE]
        \/ while_end(I, f, w) = [ir |-> K, curr |-> I.size, returns |-> FALSE]
    BY <1>4 DEF while_end, J, K
  <1> QED BY <1>1, <1>2, <1>3, <1>5, GoesOnIn

-----------------------------------------------------------------------------
(* The stack.                                                              *)

LEMMA TopOfStack ==
  ASSUME Inv, frames # <<>>
  PROVE  /\ Len(frames) \in 1..Len(frames)
         /\ Top \in Frames /\ FrameOK(ir, Top)
  <1>1. frames \in Seq(Frames) /\ Len(frames) \in Nat /\ Len(frames) # 0
    BY DEF Inv, TypeOK
  <1> QED BY <1>1 DEF Top, Inv

LEMMA NewFrame ==
  ASSUME TypeOK, NEW kind \in {"if", "while"}, NEW r \in Relation, NEW c \in Int
  PROVE  /\ Frame(kind, r, c) \in Frames
         /\ Frame(kind, r, c).cond = c /\ ~Frame(kind, r, c).in_else
  BY DEF Frame, Frames, TypeOK, None

StackOK(q, I) == q \in Seq(Frames) /\ \A i \in 1..Len(q) : FrameOK(I, q[i])

LEMMA SameStack ==
  ASSUME Inv, NEW J, Grows(ir, J)
  PROVE  StackOK(frames, J)
  BY GrowsKeepsFrame DEF StackOK, Inv, TypeOK

LEMMA PushStack ==
  ASSUME Inv, NEW J, Grows(ir, J), NEW f \in Frames, FrameOK(J, f)
  PROVE  StackOK(Append(frames, f), J)
  <1>1. StackOK(frames, J) /\ frames \in Seq(Frames) /\ Len(frames) \in Nat
    BY SameStack DEF StackOK
  <1>2. /\ Append(frames, f) \in Seq(Frames)
        /\ Len(Append(frames, f)) = Len(frames) + 1
        /\ \A i \in 1..Len(frames) : Append(frames, f)[i] = frames[i]
        /\ Append(frames, f)[Len(frames) + 1] = f
    BY <1>1, AppendProperties
  <1> QED BY <1>1, <1>2 DEF StackOK

LEMMA PopStack ==
  ASSUME Inv, NEW J, Grows(ir, J), frames # <<>>
  PROVE  StackOK(Pop, J)
  <1>1. StackOK(frames, J) /\ frames \in Seq(Frames) /\ Len(frames) \in Nat \ {0}
    BY SameStack DEF StackOK
  <1>2. \A i \in 1..(Len(frames) - 1) : frames[i] \in Frames
    BY <1>1
  <1>3. /\ Pop \in Seq(Frames)
        /\ Len(Pop) = Len(frames) - 1
        /\ \A i \in 1..(Len(frames) - 1) : Pop[i] = frames[i]
    <2> DEFINE n == Len(frames) - 1
    <2>1. n \in Int /\ n >= 0 /\ n - 1 + 1 = n /\ \A i \in Int : 1 + i - 1 = i
      BY <1>1
    <2> HIDE DEF n
    <2>2. /\ SubSeq(frames, 1, n) \in Seq(Frames)
          /\ Len(SubSeq(frames, 1, n)) = IF 1 <= n THEN n - 1 + 1 ELSE 0
          /\ \A i \in 1..(n - 1 + 1) : SubSeq(frames, 1, n)[i] = frames[1 + i - 1]
      BY <1>2, <2>1, SubSeqProperties DEF n
    <2>3. Len(SubSeq(frames, 1, n)) = n
      BY <2>1, <2>2
    <2> QED BY <2>1, <2>2, <2>3 DEF Pop, n
  <1> QED BY <1>1, <1>3 DEF StackOK

LEMMA ChangeTop ==
  ASSUME Inv, NEW J, Grows(ir, J), frames # <<>>, NEW f \in Frames, FrameOK(J, f)
  PROVE  StackOK([frames EXCEPT ![Len(frames)] = f], J)
  <1>1. StackOK(frames, J) /\ frames \in Seq(Frames) /\ Len(frames) \in 1..Len(frames)
    BY SameStack, TopOfStack DEF StackOK
  <1> DEFINE q == [frames EXCEPT ![Len(frames)] = f]
  <1>2. /\ q \in Seq(Frames) /\ Len(q) = Len(frames)
        /\ \A i \in 1..Len(frames) : q[i] = IF i = Len(frames) THEN f ELSE frames[i]
    BY <1>1, ExceptSeq
  <1> HIDE DEF q
  <1>3. StackOK(q, J)
    BY <1>1, <1>2 DEF StackOK
  <1> QED BY <1>3 DEF q

\* What is remembered stays above what it was above.
LEMMA OldNested ==
  ASSUME Inv, Parsing, NEW J, Grows(ir, J)
  PROVE  Nested(J, frames, curr_block)
  <1>1. IROK(ir) /\ IRType(ir)
    BY DEF Inv, IROK
  <1>2. Nested(ir, frames, curr_block) /\ InFunction(ir, curr_block)
    BY DEF Inv
  <1>3. \A i \in 1..Len(frames) : FrameOK(ir, frames[i])
    BY DEF Inv
  <1>4. \A c, p : InFunction(ir, p) /\ Above(ir, c, p) => Above(J, c, p)
    BY <1>1, InFunctionIsIndex, GrowsKeepsAbove
  <1>5. \A i \in 1..Len(frames) : Live(frames[i]) =>
          /\ InFunction(ir, frames[i].cond)
          /\ frames[i].in_else => InFunction(ir, frames[i].then_block)
    BY <1>3 DEF FrameOK, Live
  <1> QED BY <1>2, <1>4, <1>5 DEF Nested

LEMMA SameNested ==
  ASSUME Inv, Parsing, NEW J, Grows(ir, J), NEW c, Above(J, curr_block, c)
  PROVE  Nested(J, frames, c)
  BY OldNested, AboveTransitive DEF Nested

LEMMA PushNested ==
  ASSUME Inv, Parsing, NEW J, Grows(ir, J), NEW c, Above(J, curr_block, c), NEW f,
         Live(f) => /\ ~f.in_else
                    /\ Above(J, curr_block, f.cond) /\ Above(J, f.cond, c)
  PROVE  Nested(J, Append(frames, f), c)
  <1> DEFINE q == Append(frames, f)
             n == Len(frames)
  <1>1. frames \in Seq(Frames) /\ n \in Nat
    BY DEF Inv, TypeOK
  <1>2. Len(q) = n + 1 /\ (\A i \in 1..n : q[i] = frames[i]) /\ q[n + 1] = f
    BY <1>1
  <1>3. Nested(J, frames, c)
    BY SameNested
  <1>4. \A i \in 1..n : Live(frames[i]) => Above(J, frames[i].cond, curr_block)
    BY OldNested DEF Nested
  <1> HIDE DEF q, n
  <1> SUFFICES ASSUME NEW i \in 1..(n + 1), Live(q[i])
               PROVE  /\ Above(J, q[i].cond, c)
                      /\ q[i].in_else => Above(J, q[i].cond, q[i].then_block)
                      /\ \A j \in 1..i : Live(q[j]) => Above(J, q[j].cond, q[i].cond)
    BY <1>2 DEF Nested, q
  <1>5. CASE i \in 1..n
    <2>1. \A j \in 1..i : q[j] = frames[j]
      BY <1>1, <1>2, <1>5
    <2> QED BY <1>2, <1>3, <1>5, <2>1 DEF Nested, n
  <1>6. CASE i = n + 1
    <2>1. \A j \in 1..i : j \in 1..n \/ j = n + 1
      BY <1>1, <1>6
    <2>2. \A j \in 1..n : Live(q[j]) => Above(J, q[j].cond, f.cond)
      BY <1>2, <1>4, <1>6, AboveTransitive
    <2> QED BY <1>2, <1>6, <2>1, <2>2, AboveReflexive
  <1> QED BY <1>1, <1>5, <1>6

\* When the innermost activation goes on in block c, so can the others.
LEMMA InsideTop ==
  ASSUME Inv, Parsing, NEW J, Grows(ir, J), frames # <<>>, NEW c,
         Above(J, IF Live(Top) THEN Top.cond ELSE curr_block, c)
  PROVE  Nested(J, frames, c)
  <1> DEFINE n == Len(frames)
  <1>1. n \in 1..n /\ \A i \in 1..n : i \in 1..n /\ n \in 1..n /\ i \in 1..n
    BY TopOfStack
  <1>2. Nested(J, frames, curr_block)
    BY OldNested
  <1>3. CASE ~Live(Top)
    BY <1>3, SameNested
  <1>4. CASE Live(Top)
    <2>1. \A i \in 1..n : Live(frames[i]) => Above(J, frames[i].cond, Top.cond)
      BY <1>1, <1>2, <1>4 DEF Nested, Top
    <2>2. \A i \in 1..n : Live(frames[i]) => Above(J, frames[i].cond, c)
      BY <1>4, <2>1, AboveTransitive
    <2> QED BY <1>2, <2>2 DEF Nested
  <1> QED BY <1>3, <1>4

LEMMA PopNested ==
  ASSUME Inv, NEW J, NEW c, frames # <<>>, Nested(J, frames, c)
  PROVE  Nested(J, Pop, c)
  <1> DEFINE n == Len(frames) - 1
  <1>1. frames \in Seq(Frames) /\ n \in Nat /\ n + 1 = Len(frames)
    BY DEF Inv, TypeOK
  <1>2. Len(Pop) = n /\ \A i \in 1..n : Pop[i] = frames[i]
    BY <1>1 DEF Pop
  <1> HIDE DEF n
  <1>3. \A i \in 1..n : i \in 1..Len(frames) /\ \A j \in 1..i : j \in 1..n
    BY <1>1
  <1> QED BY <1>2, <1>3 DEF Nested

LEMMA ChangeTopNested ==
  ASSUME Inv, NEW J, NEW c, frames # <<>>, Nested(J, frames, c), NEW f,
         f.cond = Top.cond, Live(f) => Above(J, f.cond, f.then_block)
  PROVE  Nested(J, [frames EXCEPT ![Len(frames)] = f], c)
  <1> DEFINE q == [frames EXCEPT ![Len(frames)] = f]
             n == Len(frames)
  <1>1. frames \in Seq(Frames) /\ n \in 1..n
    BY TopOfStack DEF Inv, TypeOK
  <1>2. Len(q) = n /\ \A i \in 1..n : q[i] = IF i = n THEN f ELSE frames[i]
    BY <1>1
  <1> HIDE DEF q
  <1>3. \A i \in 1..n : q[i].cond = frames[i].cond /\ (Live(q[i]) <=> Live(frames[i]))
    BY <1>2 DEF Live, Top
  <1> HIDE DEF n
  <1> SUFFICES ASSUME NEW i \in 1..n, Live(q[i])
               PROVE  /\ Above(J, q[i].cond, c)
                      /\ q[i].in_else => Above(J, q[i].cond, q[i].then_block)
                      /\ \A j \in 1..i : Live(q[j]) => Above(J, q[j].cond, q[i].cond)
    BY <1>2 DEF Nested, q
  <1>4. \A j \in 1..i : j \in 1..n
    BY <1>1
  <1>5. /\ Above(J, frames[i].cond, c)
        /\ frames[i].in_else => Above(J, frames[i].cond, frames[i].then_block)
        /\ \A j \in 1..i : Live(frames[j]) => Above(J, frames[j].cond, frames[i].cond)
    BY <1>3 DEF Nested, n
  <1>6. Above(J, q[i].cond, c)
        /\ \A j \in 1..i : Live(q[j]) => Above(J, q[j].cond, q[i].cond)
    BY <1>3, <1>4, <1>5
  <1>7. q[i].in_else => Above(J, q[i].cond, q[i].then_block)
    BY <1>2, <1>3, <1>5
  <1> QED BY <1>6, <1>7

\* What a step inside a function or main must establish.
LEMMA StatementStep ==
  ASSUME Inv, Grows(ir, ir'), InFunction(ir', curr_block'), StackOK(frames', ir'),
         Nested(ir', frames', curr_block'), Parsing, phase' = phase, entry' = entry, pos' \in {pos, pos + 1},
         ignore' \in BOOLEAN, while_loop' \in BOOLEAN
  PROVE  Inv'
  <1>1. IROK(ir') /\ IRType(ir') /\ curr_block' \in Nat
    BY InFunctionIsIndex DEF Grows, IROK
  <1>2. TypeOK'
    BY <1>1 DEF Inv, TypeOK, StackOK
  <1>3. phase' # "decl" => entry' \in Succs(ir', 0)
    BY DEF Inv, Grows
  <1> QED BY <1>1, <1>2, <1>3 DEF Inv, StackOK, Parsing

\* The facts about a state that every step starts from.
LEMMA StateFacts ==
  ASSUME Inv
  PROVE  /\ IROK(ir) /\ IRType(ir) /\ Grows(ir, ir)
         /\ pos \in Nat /\ ir.size \in Nat /\ None \in Int
         /\ ignore \in BOOLEAN /\ while_loop \in BOOLEAN
         /\ StackOK(frames, ir)
         /\ \A b : LocationOK(ir, b, None)
  <1>1. IROK(ir) /\ TypeOK
    BY DEF Inv
  <1>2. IRType(ir) /\ Grows(ir, ir)
    BY <1>1, GrowsReflexive DEF IROK
  <1>3. pos \in Nat /\ ir.size \in Nat /\ None \in Int
    BY <1>1, <1>2 DEF TypeOK, IRType, None
  <1>4. ignore \in BOOLEAN /\ while_loop \in BOOLEAN
    BY <1>1 DEF TypeOK
  <1>5. StackOK(frames, ir)
    BY <1>2, SameStack
  <1>6. \A b : LocationOK(ir, b, None)
    BY DEF LocationOK
  <1> QED BY <1>1, <1>2, <1>3, <1>4, <1>5, <1>6

LEMMA CurrentBlock ==
  ASSUME Inv, Parsing
  PROVE  /\ InFunction(ir, curr_block)
         /\ curr_block \in 0..(ir.size - 1) /\ curr_block \in Int /\ curr_block # None
         /\ \A J : Grows(ir, J) => Above(J, curr_block, curr_block)
  BY StateFacts, InFunctionIsIndex, AboveReflexive DEF Inv

\* Code, then a branch instruction without a location.
LEMMA EmitAndBranch ==
  ASSUME NEW I, IROK(I), NEW b, InFunction(I, b), NEW k \in Nat, NEW op \in BranchOp
  PROVE  LET J == set_branch_cond(add_instruction(I, b, k), b, op, None)
         IN  Grows(I, J) /\ J.size = I.size /\ InFunction(J, b)
  <1> DEFINE J == add_instruction(I, b, k)
             K == set_branch_cond(J, b, op, None)
  <1>1. Grows(I, J) /\ J.size = I.size
    BY InFunctionIsIndex, AddInstruction
  <1> HIDE DEF J
  <1>2. IROK(J) /\ InFunction(J, b) /\ IRType(I) /\ IRType(J)
    BY <1>1, GrowsKeepsFunction DEF Grows, IROK
  <1>3. LocationOK(J, b, None) /\ None \in Int /\ b \in 0..(J.size - 1)
    BY <1>2, InFunctionIsIndex DEF LocationOK, None
  <1>4. Grows(J, K) /\ K.size = J.size
    BY <1>2, <1>3, SetBranchCond
  <1> HIDE DEF K
  <1> QED BY <1>1, <1>2, <1>4, GrowsTransitive, GrowsKeepsFunction DEF J, K

-----------------------------------------------------------------------------
(* The steps.                                                              *)

LEMMA SimpleStatementStep ==
  ASSUME Inv, SimpleStatement
  PROVE  Inv'
  <1>1. Parsing /\ pos' = pos + 1 /\ UNCHANGED <<curr_block, ignore, while_loop, frames, entry, phase>>
    BY DEF SimpleStatement, NextPoint
  <1>2. Grows(ir, ir')
    BY <1>1, StateFacts, CurrentBlock, AddInstruction DEF SimpleStatement
  <1>3. InFunction(ir', curr_block')
    BY <1>1, <1>2, StateFacts, CurrentBlock, GrowsKeepsFunction
  <1>4. Nested(ir', frames', curr_block')
    BY <1>1, <1>2, OldNested
  <1> QED BY <1>1, <1>2, <1>3, <1>4, StateFacts, SameStack, StatementStep

LEMMA ReturnStatementStep ==
  ASSUME Inv, ReturnStatement
  PROVE  Inv'
  <1>1. Parsing /\ pos' = pos + 1 /\ UNCHANGED <<curr_block, while_loop, frames, entry, phase>>
        /\ ignore' = TRUE
    BY DEF ReturnStatement, NextPoint
  <1>2. Grows(ir, ir')
    BY <1>1, StateFacts, CurrentBlock, EmitAndBranch DEF ReturnStatement, BranchOp
  <1>3. InFunction(ir', curr_block')
    BY <1>1, <1>2, StateFacts, CurrentBlock, GrowsKeepsFunction
  <1>4. Nested(ir', frames', curr_block')
    BY <1>1, <1>2, OldNested
  <1> QED BY <1>1, <1>2, <1>3, <1>4, StateFacts, SameStack, StatementStep

LEMMA IfThenStep ==
  ASSUME Inv, NEW r \in Relation, IfThen(r)
  PROVE  Inv'
  <1> DEFINE I == set_branch_cond(add_instruction(ir, curr_block, pos), curr_block, "Bcc", None)
             f == Frame("if", r, curr_block)
             J == new_block(I, curr_block, "IF_FALLTHROUGH")
  <1>1. /\ Parsing /\ pos' = pos + 1 /\ UNCHANGED <<while_loop, entry, phase>>
        /\ frames' = Append(frames, f)
        /\ ignore' = (r = "TRUE")
        /\ IF r = "NEITHER" THEN ir' = J /\ curr_block' = I.size
           ELSE UNCHANGED <<ir, curr_block>>
    BY DEF IfThen, NextPoint
  <1>2. Grows(ir, I) /\ I.size = ir.size /\ InFunction(I, curr_block)
    BY <1>1, StateFacts, CurrentBlock, EmitAndBranch DEF BranchOp
  <1> HIDE DEF I
  <1>3. Grows(I, J) /\ InFunction(J, I.size) /\ Above(J, curr_block, I.size)
    <2>1. IROK(I) /\ "IF_FALLTHROUGH" \in Blocktype \union {"LOOP_HEADER"}
      BY <1>2 DEF Blocktype, Grows
    <2> QED BY <1>2, <2>1, NewBlock
  <1> HIDE DEF J
  <1>4. Grows(ir, J)
    BY <1>2, <1>3, StateFacts, GrowsTransitive
  <1>5. /\ Grows(ir, ir') /\ InFunction(ir', curr_block') /\ InFunction(ir', curr_block)
        /\ Above(ir', curr_block, curr_block')
    <2>1. CASE r = "NEITHER"
      BY <1>1, <1>3, <1>4, <2>1, StateFacts, CurrentBlock, GrowsKeepsFunction
    <2>2. CASE r # "NEITHER"
      BY <1>1, <2>2, StateFacts, CurrentBlock
    <2> QED BY <2>1, <2>2
  <1>6. f \in Frames /\ f.cond = curr_block /\ ~f.in_else
    BY <1>1, CurrentBlock, NewFrame DEF Inv
  <1> HIDE DEF f
  <1>7. StackOK(frames', ir')
    BY <1>1, <1>5, <1>6, PushStack DEF FrameOK
  <1>8. Nested(ir', frames', curr_block')
    BY <1>1, <1>5, <1>6, AboveReflexive, PushNested
  <1> QED BY <1>1, <1>5, <1>7, <1>8, StateFacts, StatementStep

LEMMA IgnoredConstructStep ==
  ASSUME Inv, IfThenIgnored \/ WhileDoIgnored
  PROVE  Inv'
  <1>1. PICK kind \in {"if", "while"} : frames' = Append(frames, Frame(kind, "NEITHER", None))
    BY DEF IfThenIgnored, WhileDoIgnored
  <1>2. /\ Parsing /\ pos' = pos + 1 /\ UNCHANGED <<ir, curr_block, ignore, entry, phase>>
        /\ while_loop' \in {while_loop, TRUE}
    BY DEF IfThenIgnored, WhileDoIgnored, NextPoint
  <1> DEFINE f == Frame(kind, "NEITHER", None)
  <1>3. f \in Frames /\ f.cond = None
    BY StateFacts, NewFrame DEF Inv, Relation
  <1> HIDE DEF f
  <1>4. StackOK(frames', ir')
    BY <1>1, <1>2, <1>3, StateFacts, PushStack DEF FrameOK, f
  <1>5. Nested(ir', frames', curr_block')
    BY <1>1, <1>2, <1>3, StateFacts, AboveReflexive, PushNested DEF Live, f
  <1> QED BY <1>2, <1>4, <1>5, StateFacts, CurrentBlock, StatementStep

LEMMA ThenEndStep ==
  ASSUME Inv, ThenEnd
  PROVE  Inv'
  <1> DEFINE fresh == Live(Top) /\ Top.result = "NEITHER"
             J == new_block(ir, Top.cond, "IF_BRANCH")
             f == [Top EXCEPT !.in_else = TRUE,
                              !.then_block = IF Live(Top) THEN curr_block ELSE None,
                              !.og_else_block = IF fresh THEN ir.size ELSE None]
  <1>1. /\ Parsing /\ frames # <<>> /\ UNCHANGED <<while_loop, entry, phase, pos>>
        /\ ir' = IF fresh THEN J ELSE ir
        /\ curr_block' = IF fresh THEN ir.size ELSE IF Live(Top) THEN Top.cond ELSE curr_block
        /\ frames' = [frames EXCEPT ![Len(frames)] = f]
        /\ ignore' \in BOOLEAN
    BY DEF ThenEnd, Top
  <1>2. Top \in Frames /\ FrameOK(ir, Top)
    BY <1>1, TopOfStack
  <1>3. Live(Top) => InFunction(ir, Top.cond)
    BY <1>2 DEF Live, FrameOK
  <1>4. fresh => /\ Grows(ir, ir') /\ InFunction(ir', curr_block')
                 /\ InFunction(ir', ir.size) /\ Labelled(ir', ir.size)
                 /\ Above(ir', Top.cond, curr_block')
    <2>1. "IF_BRANCH" \in Blocktype
      BY DEF Blocktype
    <2>2. fresh => /\ Grows(ir, J) /\ InFunction(J, ir.size) /\ Labelled(J, ir.size)
                   /\ Above(J, Top.cond, ir.size)
      BY <1>3, <2>1, StateFacts, NewBlock
    <2> HIDE DEF J
    <2> QED BY <1>1, <2>2
  <1> HIDE DEF J
  <1>5. ~fresh => Grows(ir, ir') /\ InFunction(ir', curr_block')
    BY <1>1, <1>3, StateFacts, CurrentBlock
  <1>6. Grows(ir, ir') /\ InFunction(ir', curr_block') /\ InFunction(ir', curr_block)
        /\ (Live(Top) => InFunction(ir', Top.cond))
    BY <1>1, <1>3, <1>4, <1>5, StateFacts, CurrentBlock, GrowsKeepsFunction
  <1>7. /\ f \in Frames /\ f.cond = Top.cond /\ f.result = Top.result /\ f.in_else
        /\ f.then_block = IF Live(Top) THEN curr_block ELSE None
        /\ f.og_else_block = IF fresh THEN ir.size ELSE None
    <2> DEFINE t == IF Live(Top) THEN curr_block ELSE None
               e == IF fresh THEN ir.size ELSE None
    <2>1. t \in Int /\ e \in Int
      BY <1>1, StateFacts, CurrentBlock
    <2> HIDE DEF t, e
    <2>2. LET g == [Top EXCEPT !.in_else = TRUE, !.then_block = t, !.og_else_block = e]
          IN  /\ g \in Frames /\ g.cond = Top.cond /\ g.result = Top.result /\ g.in_else
              /\ g.then_block = t /\ g.og_else_block = e
      BY <1>2, <2>1 DEF Frames
    <2> QED BY <2>2 DEF t, e
  <1>8. FrameOK(ir', f)
    BY <1>4, <1>6, <1>7 DEF FrameOK, Live
  <1> HIDE DEF f
  <1>9. StackOK(frames', ir')
    BY <1>1, <1>6, <1>7, <1>8, ChangeTop
  <1>10. Above(ir', IF Live(Top) THEN Top.cond ELSE curr_block, curr_block')
    BY <1>1, <1>4, AboveReflexive
  <1>11. Live(f) => Above(ir', f.cond, f.then_block)
    <2>1. Nested(ir', frames, curr_block)
      BY <1>1, <1>6, OldNested
    <2>2. Live(Top) => Above(ir', Top.cond, curr_block)
      BY <1>1, <2>1, TopOfStack DEF Nested, Top
    <2> QED BY <1>7, <2>2 DEF Live
  <1>12. Nested(ir', frames', curr_block')
    <2>1. Nested(ir', frames, curr_block')
      BY <1>1, <1>6, <1>10, InsideTop
    <2> QED BY <1>1, <1>7, <1>11, <2>1, ChangeTopNested
  <1> QED BY <1>1, <1>6, <1>9, <1>12, StateFacts, StatementStep

\* fi and od: what the handler returns, or nothing in ignore mode.
LEMMA ConstructEndStep ==
  ASSUME Inv, Fi \/ Od
  PROVE  Inv'
  <1>1. /\ Parsing /\ frames # <<>> /\ UNCHANGED <<entry, phase, pos>>
        /\ frames' = Pop
        /\ while_loop' \in {while_loop, Top.prev_while_loop}
    BY DEF Fi, Od
  <1>2. Top \in Frames /\ FrameOK(ir, Top)
    BY <1>1, TopOfStack
  <1>3. /\ Grows(ir, ir') /\ InFunction(ir', curr_block') /\ ignore' \in BOOLEAN
        /\ Above(ir', IF Live(Top) THEN Top.cond ELSE curr_block, curr_block')
    <2>0. Live(Top) => /\ Above(ir, Top.cond, curr_block)
                       /\ Top.in_else => Above(ir, Top.cond, Top.then_block)
      BY <1>1, TopOfStack DEF Nested, Top, Inv
    <2>1. CASE ~Live(Top)
      BY <1>1, <2>1, StateFacts, CurrentBlock DEF Fi, Od
    <2>2. CASE Live(Top) /\ Fi
      <3> DEFINE end == if_end(ir, Top, curr_block)
      <3>1. GoesOn(ir, Top.cond, end)
        BY <1>1, <1>2, <2>0, <2>2, StateFacts, CurrentBlock, IfEnd DEF Fi
      <3>2. ir' = end.ir /\ curr_block' = end.curr /\ ignore' = end.returns
        BY <2>2 DEF Fi
      <3> HIDE DEF end
      <3> QED BY <2>2, <3>1, <3>2 DEF GoesOn
    <2>3. CASE Live(Top) /\ Od
      <3> DEFINE end == while_end(ir, Top, curr_block)
      <3>1. GoesOn(ir, Top.cond, end)
        BY <1>1, <1>2, <2>0, <2>3, StateFacts, CurrentBlock, WhileEnd
      <3>2. ir' = end.ir /\ curr_block' = end.curr /\ ignore' = end.returns
        BY <2>3 DEF Od
      <3> HIDE DEF end
      <3> QED BY <2>3, <3>1, <3>2 DEF GoesOn
    <2> QED BY <2>1, <2>2, <2>3
  <1>4. while_loop' \in BOOLEAN
    BY <1>1, <1>2, StateFacts DEF Frames
  <1>5. StackOK(frames', ir')
    BY <1>1, <1>3, PopStack
  <1>6. Nested(ir', frames', curr_block')
    BY <1>1, <1>3, InsideTop, PopNested
  <1> QED BY <1>1, <1>3, <1>4, <1>5, <1>6, StatementStep

LEMMA WhileDoStep ==
  ASSUME Inv, NEW r \in Relation, WhileDo(r)
  PROVE  Inv'
  <1> DEFINE header == ir.size
             G == new_block(ir, curr_block, "LOOP_HEADER")
             H == add_instruction(G, header, pos)
             I == IF r = "NEITHER" THEN set_branch_cond(H, header, "Bcc", None) ELSE H
             J == new_block(I, header, "WHILE_FALLTHROUGH")
             f == Frame("while", r, header)
  <1>1. /\ Parsing /\ pos' = pos + 1 /\ UNCHANGED <<entry, phase>>
        /\ ir' = IF r = "TRUE" THEN I ELSE J
        /\ curr_block' = IF r = "TRUE" THEN header ELSE I.size
        /\ frames' = Append(frames, f)
        /\ ignore' \in BOOLEAN /\ while_loop' = TRUE
    BY DEF WhileDo, NextPoint
  <1>2. Grows(ir, G) /\ InFunction(G, header) /\ Above(G, curr_block, header)
    <2>1. "LOOP_HEADER" \in Blocktype \union {"LOOP_HEADER"}
      OBVIOUS
    <2> QED BY <1>1, <2>1, StateFacts, CurrentBlock, NewBlock
  <1> HIDE DEF G
  <1>3. Grows(G, H) /\ InFunction(H, header)
    <2>1. IROK(G) /\ IRType(G)
      BY <1>2 DEF Grows, IROK
    <2>2. header \in 0..(G.size - 1)
      BY <1>2, <2>1, InFunctionIsIndex
    <2>3. Grows(G, H)
      BY <2>1, <2>2, StateFacts, AddInstruction
    <2> QED BY <1>2, <2>1, <2>3, GrowsKeepsFunction
  <1> HIDE DEF H
  <1>4. Grows(H, I) /\ InFunction(I, header)
    <2>1. IROK(H) /\ IRType(H) /\ header \in 0..(H.size - 1) /\ LocationOK(H, header, None)
      BY <1>3, InFunctionIsIndex DEF Grows, IROK, LocationOK
    <2>2. Grows(H, I)
      BY <2>1, StateFacts, SetBranchCond, GrowsReflexive DEF BranchOp
    <2> QED BY <1>3, <2>1, <2>2, GrowsKeepsFunction
  <1> HIDE DEF I
  <1>5. Grows(I, J) /\ InFunction(J, I.size) /\ Above(J, header, I.size)
    <2>1. IROK(I) /\ "WHILE_FALLTHROUGH" \in Blocktype \union {"LOOP_HEADER"}
      BY <1>4 DEF Blocktype, Grows
    <2> QED BY <1>4, <2>1, NewBlock
  <1> HIDE DEF J
  <1>6. IRType(G) /\ IRType(H) /\ IRType(I)
    BY <1>2, <1>3, <1>4 DEF Grows, IROK
  <1>7. Grows(ir, I) /\ Grows(ir, J) /\ InFunction(J, header)
    BY <1>2, <1>3, <1>4, <1>5, <1>6, StateFacts, GrowsTransitive, GrowsKeepsFunction
  <1>8. /\ Grows(ir, ir') /\ InFunction(ir', curr_block') /\ InFunction(ir', header)
        /\ Above(ir', header, curr_block')
    BY <1>1, <1>4, <1>5, <1>7, AboveReflexive
  <1>9. f \in Frames /\ f.cond = header /\ ~f.in_else
    BY StateFacts, NewFrame DEF Inv
  <1> HIDE DEF f
  <1>10. StackOK(frames', ir')
    BY <1>1, <1>8, <1>9, PushStack DEF FrameOK
  <1>11. Above(ir', curr_block, header)
    <2>1. Grows(G, I) /\ Grows(G, J) /\ IROK(G) /\ header \in 0..(G.size - 1)
      BY <1>2, <1>3, <1>4, <1>5, <1>6, GrowsTransitive, InFunctionIsIndex DEF Grows
    <2> QED BY <1>1, <1>2, <2>1, GrowsKeepsAbove
  <1>12. Nested(ir', frames', curr_block')
    BY <1>1, <1>8, <1>9, <1>11, AboveTransitive, PushNested
  <1> QED BY <1>1, <1>8, <1>10, <1>12, StatementStep

LEMMA BeginStep ==
  ASSUME Inv, NEW kind \in {"function", "main"}, Begin(kind)
  PROVE  Inv'
  <1> DEFINE I == new_function(ir)
             J == add_instruction(I, ir.size, pos)
  <1>1. /\ pos' = pos + 1 /\ UNCHANGED <<ignore, while_loop, frames>>
        /\ ir' = J /\ entry' = ir.size /\ curr_block' = ir.size /\ phase' = kind
        /\ frames = <<>>
    BY DEF Begin, Inv, Parsing
  <1>2. IROK(I) /\ InFunction(I, ir.size) /\ ir.size \in Succs(I, 0)
    BY StateFacts, NewFunction
  <1> HIDE DEF I
  <1>3. Grows(I, J)
    BY <1>2, StateFacts, InFunctionIsIndex, AddInstruction
  <1> HIDE DEF J
  <1>4. IROK(J) /\ IRType(J) /\ InFunction(J, ir.size) /\ ir.size \in Succs(J, 0)
    BY <1>2, <1>3, GrowsKeepsFunction DEF Grows, IROK
  <1>5. TypeOK'
    BY <1>1, <1>4, StateFacts DEF Inv, TypeOK
  <1>6. Len(frames') = 0
    BY <1>1
  <1>7. Nested(ir', frames', curr_block')
    BY <1>6 DEF Nested
  <1> QED BY <1>1, <1>4, <1>5, <1>6, <1>7 DEF Inv, Parsing

LEMMA EndStep ==
  ASSUME Inv, FunctionEnd \/ MainEnd
  PROVE  Inv'
  <1>1. /\ Parsing /\ pos' \in {pos, pos + 1} /\ UNCHANGED <<curr_block, while_loop, frames, entry>>
        /\ frames = <<>> /\ ignore' = FALSE /\ phase' \in {"decl", "done"}
    BY DEF FunctionEnd, MainEnd, Parsing
  <1>2. Grows(ir, ir')
    BY <1>1, StateFacts, CurrentBlock, EmitAndBranch DEF FunctionEnd, MainEnd, BranchOp
  <1>3. IROK(ir') /\ IRType(ir')
    BY <1>2 DEF Grows, IROK
  <1>4. TypeOK'
    <2>1. pos' \in Nat \ {0}
      BY <1>1 DEF Inv, TypeOK
    <2> QED BY <1>1, <1>3, <2>1 DEF Inv, TypeOK
  <1>5. Len(frames') = 0
    BY <1>1
  <1>6. entry' \in Succs(ir', 0)
    <2>1. phase # "decl"
      BY <1>1 DEF Parsing
    <2> QED BY <1>1, <1>2, <2>1 DEF Inv, Grows
  <1> QED BY <1>1, <1>3, <1>4, <1>5, <1>6 DEF Inv, Parsing

LEMMA InitInv ==
  ASSUME Init
  PROVE  Inv
  <1>1. /\ ir.size = 1 /\ ir.doms = [b \in {0} |-> 0]
        /\ ir.blocks = [b \in {0} |-> BasicBlock("NONE", <<>>)]
        /\ ir = [size |-> ir.size, blocks |-> ir.blocks, doms |-> ir.doms]
    BY DEF Init, EmptyIR
  <1>2. BasicBlock("NONE", <<>>) \in BasicBlocks
        /\ Range(BasicBlock("NONE", <<>>).successors) = {}
    BY DEF BasicBlock, BasicBlocks, BranchOp, Blocktype, None, Range
  <1> DEFINE block == BasicBlock("NONE", <<>>)
  <1> HIDE DEF block
  <1>3. IRType(ir)
    BY <1>1, <1>2 DEF IRType, block
  <1>4. Indices(ir) = {} /\ Succs(ir, 0) = {}
    BY <1>1, <1>2 DEF Indices, Succs
  <1>5. IROK(ir)
    BY <1>1, <1>3, <1>4 DEF IROK, GraphOK, LocationsOK, DomsOK
  <1>6. frames = <<>> /\ Len(frames) = 0 /\ ~Parsing /\ phase = "decl"
    BY DEF Init, Parsing
  <1>7. /\ curr_block \in Nat /\ ignore \in BOOLEAN /\ while_loop \in BOOLEAN
        /\ entry \in Nat /\ phase \in {"decl", "function", "main", "done"}
        /\ pos \in Nat \ {0}
    <2>1. curr_block \in Nat /\ entry \in Nat /\ pos \in Nat \ {0}
      BY SMT DEF Init
    <2>2. ignore \in BOOLEAN /\ while_loop \in BOOLEAN
      BY Zenon DEF Init
    <2>3. phase \in {"decl", "function", "main", "done"}
      BY DEF Init
    <2> QED BY <2>1, <2>2, <2>3
  <1>8. TypeOK
    <2>1. frames \in Seq(Frames)
      BY <1>6
    <2> QED BY <1>3, <1>7, <2>1 DEF TypeOK
  <1> QED BY <1>5, <1>6, <1>8 DEF Inv

LEMMA NextInv ==
  ASSUME Inv, [Next]_vars
  PROVE  Inv'
  <1>1. CASE Next
    BY <1>1, SimpleStatementStep, ReturnStatementStep, IfThenStep, IgnoredConstructStep,
       ThenEndStep, ConstructEndStep, WhileDoStep, BeginStep, EndStep DEF Next
  <1>2. CASE UNCHANGED vars
    BY <1>2 DEF vars, Inv, TypeOK, Parsing
  <1> QED BY <1>1, <1>2

-----------------------------------------------------------------------------
(* The theorems.                                                           *)

\* The invariant of the module comment holds in every reachable state: it is
\* kept by every statement handler, at every length and nesting of the text.
THEOREM Invariance == Spec => []Inv
  <1>1. Init => Inv
    BY InitInv
  <1>2. Inv /\ [Next]_vars => Inv'
    BY NextInv
  <1> QED BY <1>1, <1>2, PTL DEF Spec

\* The parser's state keeps its types, whatever is parsed.
THEOREM TypeCorrect == Spec => []TypeOK
  <1>1. Inv => TypeOK
    BY DEF Inv
  <1> QED BY <1>1, Invariance, PTL

\* The block graph is well formed after every statement handler: the order of
\* the indices, the two-way edges and the function borders that the emitter,
\* the liveness analysis and the dominator walks rely on.
THEOREM GraphWellFormed == Spec => []WellFormedGraph
  <1>1. Inv => WellFormedGraph
    BY DEF Inv, IROK, WellFormedGraph
  <1> QED BY <1>1, Invariance, PTL

\* No branch ever leads to a block that the emitter writes without a label, or
\* into another function.
THEOREM BranchesHaveLabels == Spec => []BranchesLabelled
  <1>1. Inv => BranchesLabelled
    <2> SUFFICES ASSUME Inv, NEW b \in Blocks
                 PROVE  LocationOK(ir, b, Target(ir, b))
      BY DEF BranchesLabelled
    <2>1. /\ LocationOK(ir, b, ir.blocks[b].larg) /\ LocationOK(ir, b, ir.blocks[b].rarg)
          /\ LocationOK(ir, b, None)
      BY DEF Inv, IROK, LocationsOK, LocationOK, Blocks
    <2>2. Target(ir, b) \in {ir.blocks[b].larg, ir.blocks[b].rarg, None}
      BY DEF Target
    <2> QED BY <2>1, <2>2
  <1> QED BY <1>1, Invariance, PTL

-----------------------------------------------------------------------------
(* The dominators are immediate, the branches complete.                    *)

\* Only what is above doms[b] is above all the predecessors of b.
TightAt(I, idom, ps) ==
  \A d \in 0..(I.size - 1) : (\A p \in ps : Above(I, d, p)) => Above(I, d, idom)

Tight(I) == \A b \in Indices(I) : TightAt(I, I.doms[b], Preds(I, b))

\* b may jump to t: forth along an edge or back to a loop header above b.
JumpOK(I, b, t) == t \in Indices(I) /\ (t \in Succs(I, b) \/ Above(I, t, b))

JumpsOK(I) ==
  \A b \in 0..(I.size - 1) : I.blocks[b].op = "BRA" => JumpOK(I, b, I.blocks[b].larg)

\* The conditional branches without a location are in the blocks of S.
OpenIn(I, S) ==
  \A b \in Indices(I) : I.blocks[b].op = "Bcc" /\ I.blocks[b].rarg = None => b \in S

Sound(I, S) == Tight(I) /\ JumpsOK(I) /\ OpenIn(I, S)

\* The activations that owe a branch its location.
Branching(f) == f.result = "NEITHER"
Owing(q) == {q[i].cond : i \in {k \in 1..Len(q) : Branching(q[k])}}

\* r is a child of the start of activation i, and all that activation i still
\* holds open is parsed under r.
Side(I, q, c, i, r) ==
  /\ r \in Indices(I) /\ I.doms[r] = q[i].cond /\ Above(I, r, c)
  /\ \A j \in 1..Len(q) : i < j /\ Live(q[j]) => Above(I, r, q[j].cond)

\* The then part of activation i was parsed under another child than r.
OtherSide(I, f, r) ==
  \E t \in Indices(I) \ {r} : I.doms[t] = f.cond /\ Above(I, t, f.then_block)

TwoWay(f) == Live(f) /\ f.kind = "if" /\ Branching(f)

Sides(I, q, c) ==
  \A i \in 1..Len(q) : TwoWay(q[i]) =>
    IF q[i].in_else
      THEN Side(I, q, c, i, q[i].og_else_block)
           /\ OtherSide(I, q[i], q[i].og_else_block)
      ELSE \E r \in Indices(I) : Side(I, q, c, i, r)

DInv ==
  /\ Inv
  /\ Sound(ir, Owing(frames))
  /\ Sides(ir, frames, curr_block)

\* Every activation remembers the flag its construct was entered with.
FlagAt(q, i) == \E j \in 1..Len(q) : j < i /\ q[j].kind = "while"

FlagsOK(q, flag) ==
  /\ flag <=> FlagAt(q, Len(q) + 1)
  /\ \A i \in 1..Len(q) :
       q[i].kind = "while" => (q[i].prev_while_loop <=> FlagAt(q, i))

FlagInv == Inv /\ FlagsOK(frames, while_loop)

-----------------------------------------------------------------------------
(* The tree.                                                               *)

\* J has the blocks of I in the same places of the tree.
SameTree(I, J) ==
  /\ J.size \in Nat /\ I.size <= J.size
  /\ \A b \in 0..(I.size - 1) : J.doms[b] = I.doms[b]

LEMMA AboveInBoth ==
  ASSUME NEW I, IROK(I), NEW J, SameTree(I, J), NEW c, NEW p \in 0..(I.size - 1)
  PROVE  Above(I, c, p) <=> Above(J, c, p)
  <1>1. ASSUME Above(I, c, p)
        PROVE  Above(J, c, p)
    <2> SUFFICES ASSUME NEW S \in SUBSET (0..(J.size - 1)), Closed(J, S), p \in S
                 PROVE  c \in S
      BY DEF Above
    <2>1. Closed(I, S \intersect (0..(I.size - 1)))
      BY ClosedBefore DEF SameTree
    <2> QED BY <1>1, <2>1 DEF Above
  <1>2. ASSUME Above(J, c, p)
        PROVE  Above(I, c, p)
    <2> SUFFICES ASSUME NEW S \in SUBSET (0..(I.size - 1)), Closed(I, S), p \in S
                 PROVE  c \in S
      BY DEF Above
    <2>0. I.size \in Nat
      BY DEF IROK, IRType
    <2>1. S \in SUBSET (0..(J.size - 1))
      <3>1. I.size <= J.size /\ J.size \in Nat
        BY DEF SameTree
      <3>2. \A x \in S : x \in 0..(J.size - 1)
        <4> TAKE x \in S
        <4>1. x \in 0..(I.size - 1)
          OBVIOUS
        <4> QED BY <2>0, <3>1, <4>1
      <3> QED BY <3>2
    <2>2. Closed(J, S)
      BY DEF Closed, SameTree
    <2> QED BY <1>2, <2>1, <2>2 DEF Above
  <1> QED BY <1>1, <1>2

\* A set of the blocks up to p goes up the tree.
LEMMA AboveIsBefore ==
  ASSUME NEW I, IROK(I), NEW p \in 0..(I.size - 1), NEW c, Above(I, c, p)
  PROVE  c \in 0..p
  <1>1. I.size \in Nat /\ \A b \in 0..(I.size - 1) : I.doms[b] \in Nat
    BY DEF IROK, IRType
  <1>2. \A b \in 0..(I.size - 1) : I.doms[b] <= b
    <2> TAKE b \in 0..(I.size - 1)
    <2>1. CASE b = 0
      BY <2>1 DEF IROK, DomsOK
    <2>2. CASE b # 0
      <3>1. b \in Indices(I)
        BY <1>1, <2>2 DEF Indices
      <3>2. I.doms[b] < b
        BY <3>1 DEF IROK, GraphOK
      <3> QED BY <1>1, <3>2
    <2> QED BY <2>1, <2>2
  <1>3. Closed(I, 0..p)
    BY <1>1, <1>2 DEF Closed
  <1>4. 0..p \in SUBSET (0..(I.size - 1)) /\ p \in 0..p
    BY <1>1
  <1> QED BY <1>3, <1>4 DEF Above

\* The parent of a block, and the block itself, are all that is above it.
LEMMA AboveByParent ==
  ASSUME NEW I, IROK(I), NEW b \in 0..(I.size - 1), NEW c, Above(I, c, b), c # b
  PROVE  Above(I, c, I.doms[b])
  <1> SUFFICES ASSUME NEW S \in SUBSET (0..(I.size - 1)), Closed(I, S), I.doms[b] \in S
               PROVE  c \in S
    BY DEF Above
  <1>1. Closed(I, S \union {b}) /\ S \union {b} \in SUBSET (0..(I.size - 1))
    BY DEF Closed
  <1>2. c \in S \union {b}
    BY <1>1 DEF Above
  <1> QED BY <1>2

\* What is above a block is a chain.
LEMMA AboveIsChain ==
  ASSUME NEW I, IROK(I), NEW p \in 0..(I.size - 1),
         NEW c, Above(I, c, p), NEW d, Above(I, d, p)
  PROVE  Above(I, c, d) \/ Above(I, d, c)
  <1> DEFINE S == {x \in 0..(I.size - 1) : Above(I, c, x) \/ Above(I, x, c)}
  <1>1. ASSUME NEW x \in S
        PROVE  I.doms[x] \in S
    <2>1. x \in 0..(I.size - 1) /\ I.doms[x] \in 0..(I.size - 1)
      <3>1. x \in 0..(I.size - 1) /\ Above(I, I.doms[x], x)
        BY AboveChild
      <3>2. I.doms[x] \in 0..x /\ I.size \in Nat
        BY <3>1, AboveIsBefore DEF IROK, IRType
      <3> QED BY <3>1, <3>2
    <2>2. CASE Above(I, c, x) /\ c # x
      BY <2>1, <2>2, AboveByParent
    <2>3. CASE Above(I, x, c)
      <3>1. Above(I, I.doms[x], x)
        BY AboveChild
      <3>2. Above(I, I.doms[x], c)
        BY <2>3, <3>1, AboveTransitive
      <3> QED BY <2>1, <3>2
    <2>4. CASE c = x
      BY <2>3, <2>4, AboveReflexive
    <2> QED BY <2>2, <2>3, <2>4
  <1>2. Closed(I, S) /\ p \in S /\ S \in SUBSET (0..(I.size - 1))
    <2> HIDE DEF S
    <2>1. Closed(I, S)
      BY <1>1 DEF Closed
    <2> QED BY <2>1 DEF S
  <1>3. d \in S
    <2> HIDE DEF S
    <2> QED BY <1>2 DEF Above
  <1> QED BY <1>3

\* Two children of one block have nothing below them in common.
LEMMA SiblingsApart ==
  ASSUME NEW I, IROK(I), NEW r \in Indices(I), NEW t \in Indices(I), r # t,
         I.doms[r] = I.doms[t], NEW p \in 0..(I.size - 1), Above(I, r, p)
  PROVE  ~Above(I, t, p)
  <1> SUFFICES ASSUME Above(I, t, p)
               PROVE  FALSE
    OBVIOUS
  <1>1. /\ I.size \in Nat /\ r \in 0..(I.size - 1) /\ t \in 0..(I.size - 1)
        /\ I.doms[r] \in Nat /\ I.doms[t] \in Nat
        /\ I.doms[r] < r /\ I.doms[t] < t
    BY DEF IROK, IRType, GraphOK, Indices
  <1>2. \A x, y \in 0..(I.size - 1) :
          Above(I, x, y) /\ x # y /\ I.doms[y] < x /\ I.doms[y] \in Nat => FALSE
    <2> SUFFICES ASSUME NEW x \in 0..(I.size - 1), NEW y \in 0..(I.size - 1),
                        Above(I, x, y), x # y, I.doms[y] < x, I.doms[y] \in Nat
                 PROVE  FALSE
      OBVIOUS
    <2>1. Above(I, x, I.doms[y])
      BY AboveByParent
    <2>2. I.doms[y] \in 0..(I.size - 1)
      BY <1>1
    <2>3. x \in 0..I.doms[y]
      BY <2>1, <2>2, AboveIsBefore
    <2> QED BY <2>3
  <1>3. Above(I, r, t) \/ Above(I, t, r)
    BY AboveIsChain
  <1> QED BY <1>1, <1>2, <1>3

\* Only what is above their parent is above blocks on both sides.
LEMMA AboveBothSides ==
  ASSUME NEW I, IROK(I), NEW r \in Indices(I), NEW t \in Indices(I), r # t,
         I.doms[r] = I.doms[t],
         NEW p \in 0..(I.size - 1), Above(I, r, p),
         NEW q \in 0..(I.size - 1), Above(I, t, q),
         NEW d, Above(I, d, p), Above(I, d, q)
  PROVE  Above(I, d, I.doms[r])
  <1>1. r \in 0..(I.size - 1) /\ t \in 0..(I.size - 1)
    BY DEF IROK, IRType, Indices
  <1>2. ~Above(I, r, d)
    <2>1. Above(I, r, d) => Above(I, r, q)
      BY AboveTransitive
    <2> QED BY <2>1, SiblingsApart
  <1>3. Above(I, d, r)
    BY <1>2, AboveIsChain
  <1>4. d # r
    BY <1>2, AboveReflexive
  <1> QED BY <1>1, <1>3, <1>4, AboveByParent

-----------------------------------------------------------------------------
(* The methods of the IR.                                                  *)

LEMMA GrowsInTree ==
  ASSUME NEW I, NEW J, Grows(I, J)
  PROVE  SameTree(I, J)
  BY DEF Grows, IROK, IRType, SameTree

\* Dominators are settled by the predecessors and the tree.
LEMMA StaysTight ==
  ASSUME NEW I, IROK(I), NEW J, SameTree(I, J), NEW idom \in 0..(I.size - 1),
         NEW ps, ps # {}, ps \subseteq 0..(I.size - 1), TightAt(I, idom, ps)
  PROVE  TightAt(J, idom, ps)
  <1> SUFFICES ASSUME NEW d \in 0..(J.size - 1), \A p \in ps : Above(J, d, p)
               PROVE  Above(J, d, idom)
    BY DEF TightAt
  <1>1. \A p \in ps : Above(I, d, p)
    BY AboveInBoth
  <1>2. d \in 0..(I.size - 1)
    <2>1. PICK p \in ps : TRUE
      OBVIOUS
    <2>2. p \in 0..(I.size - 1) /\ Above(I, d, p)
      BY <1>1
    <2>3. d \in 0..p
      BY <2>2, AboveIsBefore
    <2>4. I.size \in Nat
      BY DEF IROK, IRType
    <2> QED BY <2>2, <2>3, <2>4
  <1>3. Above(I, d, idom)
    BY <1>1, <1>2 DEF TightAt
  <1> QED BY <1>3, AboveInBoth

\* Where the neighbours of a block are.
LEMMA Neighbours ==
  ASSUME NEW I, IROK(I), NEW b \in Indices(I)
  PROVE  /\ I.size \in Nat /\ b \in 0..(I.size - 1)
         /\ I.doms[b] \in 0..(I.size - 1)
         /\ Preds(I, b) # {} /\ Preds(I, b) \subseteq 0..(I.size - 1)
  <1>1. I.size \in Nat /\ b \in 0..(I.size - 1) /\ b \in Nat /\ I.doms[b] \in Nat
    BY DEF IROK, IRType, Indices
  <1>2. /\ I.doms[b] < b /\ Preds(I, b) # {}
        /\ \A p \in Preds(I, b) : p \in Nat /\ p < b
    BY <1>1, NeighboursAreNaturals DEF IROK, GraphOK
  <1> QED BY <1>1, <1>2

\* Replacing a block by one with the same edges.
LEMMA RewriteSound ==
  ASSUME NEW I, IROK(I), NEW S, Sound(I, S),
         NEW b \in Indices(I), NEW r \in BasicBlocks,
         r.predecessors = I.blocks[b].predecessors,
         r.successors = I.blocks[b].successors,
         r.op = "BRA" => JumpOK(I, b, r.larg),
         NEW T, S \subseteq T \union {b},
         r.op = "Bcc" /\ r.rarg = None => b \in T
  PROVE  Sound([I EXCEPT !.blocks[b] = r], T)
  <1> DEFINE J == [I EXCEPT !.blocks[b] = r]
  <1>0. b \in 0..(I.size - 1)
    BY Neighbours
  <1>1. /\ J.size = I.size /\ J.doms = I.doms
        /\ \A c \in 0..(I.size - 1) : J.blocks[c] = IF c = b THEN r ELSE I.blocks[c]
    BY <1>0, WriteBlock DEF IROK
  <1> HIDE DEF J
  <1>2. /\ Indices(J) = Indices(I)
        /\ \A c \in Indices(I) : c \in 0..(I.size - 1)
        /\ \A c \in 0..(I.size - 1) : Preds(J, c) = Preds(I, c) /\ Succs(J, c) = Succs(I, c)
    BY <1>1, Neighbours DEF Indices, Preds, Succs
  <1>3. \A c, p : Above(J, c, p) <=> Above(I, c, p)
    BY <1>1 DEF Above, Closed
  <1>4. Tight(J)
    BY <1>1, <1>2, <1>3 DEF Sound, Tight, TightAt
  <1>5. JumpsOK(J)
    BY <1>1, <1>2, <1>3 DEF Sound, JumpsOK, JumpOK
  <1>6. OpenIn(J, T)
    BY <1>1, <1>2 DEF Sound, OpenIn
  <1> QED BY <1>4, <1>5, <1>6 DEF Sound, J

LEMMA AddInstructionSound ==
  ASSUME NEW I, IROK(I), NEW S, Sound(I, S), NEW b \in Indices(I), NEW k \in Nat
  PROVE  Sound(add_instruction(I, b, k), S)
  <1> DEFINE r == [I.blocks[b] EXCEPT !.code = Append(I.blocks[b].code, k)]
  <1>0. b \in 0..(I.size - 1)
    BY Neighbours
  <1>1. Append(I.blocks[b].code, k) \in Seq(Nat)
    BY <1>0, BlockType DEF BasicBlocks
  <1>2. /\ r \in BasicBlocks
        /\ r.predecessors = I.blocks[b].predecessors
        /\ r.successors = I.blocks[b].successors
        /\ r.op = I.blocks[b].op
        /\ r.larg = I.blocks[b].larg
        /\ r.rarg = I.blocks[b].rarg
    BY <1>0, <1>1, BlockType DEF BasicBlocks
  <1>3. add_instruction(I, b, k) = [I EXCEPT !.blocks[b] = r]
    BY DEF add_instruction
  <1> HIDE DEF r
  <1>4. /\ r.op = "BRA" => JumpOK(I, b, r.larg)
        /\ r.op = "Bcc" /\ r.rarg = None => b \in S
    BY <1>0, <1>2 DEF Sound, JumpsOK, OpenIn
  <1> QED BY <1>2, <1>3, <1>4, RewriteSound

LEMMA SetReturnSound ==
  ASSUME NEW I, IROK(I), NEW S, Sound(I, S), NEW b \in Indices(I)
  PROVE  Sound(set_return(I, b), S)
  <1> DEFINE r == [I.blocks[b] EXCEPT !.will_return = TRUE]
  <1>0. b \in 0..(I.size - 1)
    BY Neighbours
  <1>1. /\ r \in BasicBlocks
        /\ r.predecessors = I.blocks[b].predecessors
        /\ r.successors = I.blocks[b].successors
        /\ r.op = I.blocks[b].op
        /\ r.larg = I.blocks[b].larg
        /\ r.rarg = I.blocks[b].rarg
    BY <1>0, BlockType DEF BasicBlocks
  <1>2. set_return(I, b) = [I EXCEPT !.blocks[b] = r]
    BY DEF set_return
  <1> HIDE DEF r
  <1>3. /\ r.op = "BRA" => JumpOK(I, b, r.larg)
        /\ r.op = "Bcc" /\ r.rarg = None => b \in S
    BY <1>0, <1>1 DEF Sound, JumpsOK, OpenIn
  <1> QED BY <1>1, <1>2, <1>3, RewriteSound

LEMMA SetBranchCondSound ==
  ASSUME NEW I, IROK(I), NEW S, Sound(I, S), NEW b \in Indices(I),
         NEW op \in BranchOp, NEW t \in Int, op = "BRA" => JumpOK(I, b, t),
         NEW T, S \subseteq T, op = "Bcc" => b \in T
  PROVE  Sound(set_branch_cond(I, b, op, t), T)
  <1> DEFINE r == [I.blocks[b] EXCEPT !.op = op, !.larg = t, !.will_return = (op = "RET")]
  <1>0. b \in 0..(I.size - 1)
    BY Neighbours
  <1>1. /\ r \in BasicBlocks
        /\ r.predecessors = I.blocks[b].predecessors
        /\ r.successors = I.blocks[b].successors
        /\ r.op = op
        /\ r.larg = t
    BY <1>0, BlockType DEF BasicBlocks
  <1>2. CASE will_return(I, b)
    BY <1>2 DEF set_branch_cond, Sound, OpenIn
  <1>3. CASE ~will_return(I, b)
    <2>1. set_branch_cond(I, b, op, t) = [I EXCEPT !.blocks[b] = r]
      BY <1>3 DEF set_branch_cond
    <2> HIDE DEF r
    <2> QED BY <1>1, <2>1, RewriteSound
  <1> QED BY <1>2, <1>3

LEMMA SetBranchLocationSound ==
  ASSUME NEW I, IROK(I), NEW S, Sound(I, S), NEW b \in Indices(I),
         NEW t \in Nat, NEW T, S \subseteq T \union {b}
  PROVE  Sound(set_branch_location(I, b, t), T)
  <1> DEFINE r == [I.blocks[b] EXCEPT !.rarg = t]
  <1>0. b \in 0..(I.size - 1)
    BY Neighbours
  <1>1. /\ r \in BasicBlocks
        /\ r.predecessors = I.blocks[b].predecessors
        /\ r.successors = I.blocks[b].successors
        /\ r.op = I.blocks[b].op
        /\ r.larg = I.blocks[b].larg
        /\ r.rarg # None
    <2>1. t \in Int /\ t # None /\ I.blocks[b] \in BasicBlocks
      BY <1>0, BlockType DEF None
    <2> QED BY <2>1 DEF BasicBlocks
  <1>2. set_branch_location(I, b, t) = [I EXCEPT !.blocks[b] = r]
    BY DEF set_branch_location
  <1> HIDE DEF r
  <1>3. r.op = "BRA" => JumpOK(I, b, r.larg)
    BY <1>0, <1>1 DEF Sound, JumpsOK
  <1> QED BY <1>1, <1>2, <1>3, RewriteSound

LEMMA UpdatePhiSound ==
  ASSUME NEW I, IROK(I), NEW S, Sound(I, S), NEW h \in Indices(I), NEW w \in Indices(I)
  PROVE  Sound(update_phi(I, h, w), S)
  <1> DEFINE r == [I.blocks[h] EXCEPT !.branch_block = w]
             J == [I EXCEPT !.blocks[h] = r]
             q == [J.blocks[w] EXCEPT !.loop_header = h]
             K == [J EXCEPT !.blocks[w] = q]
  <1>0. h \in 0..(I.size - 1) /\ w \in 0..(I.size - 1) /\ I.size \in Nat
    BY Neighbours
  <1>1. /\ h \in 0..(I.size - 1) /\ w \in 0..(I.size - 1) /\ h \in Int /\ w \in Int
        /\ h # None /\ w # None
    BY <1>0 DEF None
  <1>2. /\ r \in BasicBlocks
        /\ r.type = I.blocks[h].type
        /\ r.predecessors = I.blocks[h].predecessors
        /\ r.successors = I.blocks[h].successors
        /\ r.op = I.blocks[h].op
        /\ r.larg = I.blocks[h].larg
        /\ r.rarg = I.blocks[h].rarg
        /\ r.branch_block = w
        /\ r.loop_header = I.blocks[h].loop_header
    BY <1>1, BlockType DEF BasicBlocks
  <1>3. update_phi(I, h, w) = K
    BY DEF update_phi
  <1> HIDE DEF r, K
  <1>4. /\ r.op = "BRA" => JumpOK(I, h, r.larg)
        /\ r.op = "Bcc" /\ r.rarg = None => h \in S
    BY <1>1, <1>2 DEF Sound, JumpsOK, OpenIn
  <1>5. Sound(J, S)
    BY <1>2, <1>4, RewriteSound
  <1>6. IROK(J) /\ J.size = I.size
    BY <1>1, <1>2, RewriteBlock DEF Grows
  <1> HIDE DEF J
  <1>7. w \in Indices(J) /\ w \in 0..(J.size - 1)
    BY <1>1, <1>6 DEF Indices
  <1>8. /\ q \in BasicBlocks
        /\ q.predecessors = J.blocks[w].predecessors
        /\ q.successors = J.blocks[w].successors
        /\ q.op = J.blocks[w].op
        /\ q.larg = J.blocks[w].larg
        /\ q.rarg = J.blocks[w].rarg
    BY <1>1, <1>6, <1>7, BlockType DEF BasicBlocks
  <1> HIDE DEF q
  <1>9. /\ q.op = "BRA" => JumpOK(J, w, q.larg)
        /\ q.op = "Bcc" /\ q.rarg = None => w \in S
    BY <1>5, <1>7, <1>8 DEF Sound, JumpsOK, OpenIn
  <1>10. Sound(K, S)
    BY <1>5, <1>6, <1>7, <1>8, <1>9, RewriteSound DEF K
  <1> QED BY <1>3, <1>10

\* A new block with one or two predecessors, or the const block as the only one.
LEMMA NewBlockShape ==
  ASSUME NEW I, IROK(I), NEW t \in Blocktype, NEW ps \in Seq(Nat),
         Range(ps) \subseteq 0..(I.size - 1), NEW idom
  PROVE  LET J == new_block_helper(I, t, ps, idom)
         IN  /\ J.size = I.size + 1 /\ J.doms[I.size] = idom /\ SameTree(I, J)
             /\ Indices(J) = Indices(I) \union {I.size}
             /\ \A b \in 0..(I.size - 1) :
                  /\ Preds(J, b) = Preds(I, b)
                  /\ Succs(J, b) = Succs(I, b) \union (IF b \in Range(ps) THEN {I.size} ELSE {})
                  /\ J.blocks[b].op = I.blocks[b].op
                  /\ J.blocks[b].larg = I.blocks[b].larg
                  /\ J.blocks[b].rarg = I.blocks[b].rarg
             /\ Preds(J, I.size) = Range(ps)
             /\ J.blocks[I.size].op = "EMPTY"
  <1> DEFINE J == new_block_helper(I, t, ps, idom)
             fresh == BasicBlock(t, ps)
             old(b) == IF b \in Range(ps)
                         THEN [I.blocks[b] EXCEPT !.successors = Append(I.blocks[b].successors, I.size)]
                         ELSE I.blocks[b]
  <1>1. /\ I.size \in Nat \ {0}
        /\ \A b \in 0..(I.size - 1) : I.blocks[b] \in BasicBlocks
    BY DEF IROK, IRType
  <1>2. /\ J.size = I.size + 1
        /\ J.blocks = [b \in 0..I.size |-> IF b = I.size THEN fresh ELSE old(b)]
        /\ J.doms = [b \in 0..I.size |-> IF b = I.size THEN idom ELSE I.doms[b]]
    BY DEF new_block_helper
  <1>3. fresh.predecessors = ps /\ fresh.op = "EMPTY"
    BY DEF BasicBlock
  <1>4. ASSUME NEW b \in 0..(I.size - 1)
        PROVE  /\ old(b).predecessors = I.blocks[b].predecessors
               /\ Range(old(b).successors) =
                    Succs(I, b) \union (IF b \in Range(ps) THEN {I.size} ELSE {})
               /\ old(b).op = I.blocks[b].op
               /\ old(b).larg = I.blocks[b].larg
               /\ old(b).rarg = I.blocks[b].rarg
    <2> DEFINE q == I.blocks[b].successors
    <2>1. q \in Seq(Nat) /\ I.size \in Nat /\ I.blocks[b] \in BasicBlocks
      BY <1>1 DEF BasicBlocks
    <2> HIDE DEF q
    <2>2. Range(Append(q, I.size)) = Range(q) \union {I.size}
      BY <2>1, RangeOfAppendNat
    <2>3. CASE b \in Range(ps)
      <3>1. /\ old(b).predecessors = I.blocks[b].predecessors
            /\ old(b).successors = Append(q, I.size)
            /\ old(b).op = I.blocks[b].op
            /\ old(b).larg = I.blocks[b].larg
            /\ old(b).rarg = I.blocks[b].rarg
        BY <2>1, <2>3 DEF BasicBlocks, q
      <3> HIDE DEF old
      <3> QED BY <2>2, <2>3, <3>1 DEF Succs, q
    <2>4. CASE b \notin Range(ps)
      BY <2>4 DEF Succs
    <2> QED BY <2>3, <2>4
  <1> HIDE DEF fresh, old
  <1>5. /\ J.blocks[I.size] = fresh /\ J.doms[I.size] = idom
        /\ \A b \in 0..(I.size - 1) : J.blocks[b] = old(b) /\ J.doms[b] = I.doms[b]
    BY <1>1, <1>2
  <1>6. Indices(J) = Indices(I) \union {I.size} /\ SameTree(I, J)
    BY <1>1, <1>2, <1>5 DEF Indices, SameTree
  <1> HIDE DEF J
  <1>7. \A b \in 0..(I.size - 1) :
          /\ Preds(J, b) = Preds(I, b)
          /\ Succs(J, b) = Succs(I, b) \union (IF b \in Range(ps) THEN {I.size} ELSE {})
          /\ J.blocks[b].op = I.blocks[b].op
          /\ J.blocks[b].larg = I.blocks[b].larg
          /\ J.blocks[b].rarg = I.blocks[b].rarg
    BY <1>4, <1>5, Zenon DEF Preds, Succs
  <1>8. Preds(J, I.size) = Range(ps) /\ J.blocks[I.size].op = "EMPTY"
    BY <1>3, <1>5 DEF Preds
  <1> QED BY <1>2, <1>5, <1>6, <1>7, <1>8 DEF J

LEMMA NewBlockSound ==
  ASSUME NEW I, IROK(I), NEW S, Sound(I, S),
         NEW t \in Blocktype, NEW ps \in Seq(Nat),
         Range(ps) # {}, Range(ps) \subseteq 0..(I.size - 1),
         NEW idom \in 0..(I.size - 1), TightAt(I, idom, Range(ps))
  PROVE  Sound(new_block_helper(I, t, ps, idom), S)
  <1> DEFINE J == new_block_helper(I, t, ps, idom)
  <1>1. /\ J.size = I.size + 1 /\ J.doms[I.size] = idom /\ SameTree(I, J)
        /\ Indices(J) = Indices(I) \union {I.size}
        /\ \A b \in 0..(I.size - 1) :
             /\ Preds(J, b) = Preds(I, b)
             /\ Succs(I, b) \subseteq Succs(J, b)
             /\ J.blocks[b].op = I.blocks[b].op
             /\ J.blocks[b].larg = I.blocks[b].larg
             /\ J.blocks[b].rarg = I.blocks[b].rarg
        /\ Preds(J, I.size) = Range(ps)
        /\ J.blocks[I.size].op = "EMPTY"
    BY NewBlockShape
  <1> HIDE DEF J
  <1>2. /\ I.size \in Nat
        /\ \A b \in Indices(I) : b \in 0..(I.size - 1) /\ b # I.size
        /\ \A b \in 0..(J.size - 1) : b \in 0..(I.size - 1) \/ b = I.size
    BY <1>1 DEF Indices, IROK, IRType
  <1>3. Tight(J)
    <2> SUFFICES ASSUME NEW b \in Indices(J)
                 PROVE  TightAt(J, J.doms[b], Preds(J, b))
      BY DEF Tight
    <2>1. CASE b \in Indices(I)
      <3>1. /\ I.doms[b] \in 0..(I.size - 1)
            /\ Preds(I, b) # {} /\ Preds(I, b) \subseteq 0..(I.size - 1)
            /\ TightAt(I, I.doms[b], Preds(I, b))
        BY <2>1, Neighbours DEF Sound, Tight
      <3>2. TightAt(J, I.doms[b], Preds(I, b))
        BY <1>1, <3>1, StaysTight
      <3> QED BY <1>1, <1>2, <2>1, <3>2 DEF SameTree
    <2>2. CASE b = I.size
      BY <1>1, <2>2, StaysTight
    <2> QED BY <1>1, <2>1, <2>2
  <1>4. JumpsOK(J)
    <2> SUFFICES ASSUME NEW b \in 0..(J.size - 1), J.blocks[b].op = "BRA"
                 PROVE  JumpOK(J, b, J.blocks[b].larg)
      BY DEF JumpsOK
    <2>1. b \in 0..(I.size - 1)
      BY <1>1, <1>2
    <2>2. JumpOK(I, b, I.blocks[b].larg)
      BY <1>1, <2>1 DEF Sound, JumpsOK
    <2> QED BY <1>1, <2>1, <2>2, AboveInBoth DEF JumpOK
  <1>5. OpenIn(J, S)
    BY <1>1, <1>2 DEF Sound, OpenIn
  <1> QED BY <1>3, <1>4, <1>5 DEF Sound, J

LEMMA OnePredecessor ==
  ASSUME NEW I, NEW p
  PROVE  TightAt(I, p, {p})
  BY DEF TightAt

LEMMA new_blockSound ==
  ASSUME NEW I, IROK(I), NEW S, Sound(I, S), NEW p \in Indices(I),
         NEW t \in Blocktype \union {"LOOP_HEADER"}
  PROVE  LET J == new_block(I, p, t)
         IN  Sound(J, S) /\ J.doms[I.size] = p /\ SameTree(I, J)
  <1> DEFINE ps == <<p>>
             type == IF t = "LOOP_HEADER" THEN "INVALID" ELSE t
  <1>1. p \in 0..(I.size - 1) /\ p \in Nat
    BY Neighbours
  <1>2. DOMAIN ps = {1} /\ ps \in Seq(Nat) /\ type \in Blocktype
    BY <1>1 DEF Blocktype
  <1>3. Range(ps) = {p}
    BY <1>2 DEF Range
  <1>4. new_block(I, p, t) = new_block_helper(I, type, ps, p)
    BY DEF new_block
  <1> HIDE DEF ps, type
  <1>5. TightAt(I, p, Range(ps)) /\ Range(ps) # {} /\ Range(ps) \subseteq 0..(I.size - 1)
    BY <1>1, <1>3, OnePredecessor
  <1>6. Sound(new_block_helper(I, type, ps, p), S)
    BY <1>1, <1>2, <1>5, NewBlockSound
  <1>7. /\ new_block_helper(I, type, ps, p).doms[I.size] = p
        /\ SameTree(I, new_block_helper(I, type, ps, p))
    BY <1>2, <1>5, NewBlockShape
  <1> QED BY <1>4, <1>6, <1>7

LEMMA new_functionSound ==
  ASSUME NEW I, IROK(I), NEW S, Sound(I, S)
  PROVE  Sound(new_function(I), S)
  <1> DEFINE ps == <<0>>
  <1>1. DOMAIN ps = {1} /\ ps \in Seq(Nat) /\ 0 \in 0..(I.size - 1)
    BY DEF IROK, IRType
  <1>2. Range(ps) = {0}
    BY <1>1 DEF Range
  <1>3. new_function(I) = new_block_helper(I, "NONE", ps, 0)
    BY DEF new_function
  <1> HIDE DEF ps
  <1>4. TightAt(I, 0, Range(ps)) /\ Range(ps) # {} /\ Range(ps) \subseteq 0..(I.size - 1)
    BY <1>1, <1>2, OnePredecessor
  <1>5. Sound(new_block_helper(I, "NONE", ps, 0), S)
    BY <1>1, <1>4, NewBlockSound DEF Blocktype
  <1> QED BY <1>3, <1>5

\* Only the two parts of an if meet, and they have nothing but its start above
\* them both.
LEMMA new_joinSound ==
  ASSUME NEW I, IROK(I), NEW S, Sound(I, S),
         NEW p1 \in Indices(I), NEW p2 \in Indices(I), NEW idom \in Indices(I),
         NEW r \in Indices(I), NEW t \in Indices(I), r # t,
         I.doms[r] = idom, I.doms[t] = idom, Above(I, t, p1), Above(I, r, p2)
  PROVE  LET J == new_join(I, p1, p2, idom)
         IN  Sound(J, S) /\ I.size \in Succs(J, p1) /\ SameTree(I, J)
  <1> DEFINE ps == <<p1, p2>>
  <1>1. /\ p1 \in 0..(I.size - 1) /\ p2 \in 0..(I.size - 1) /\ idom \in 0..(I.size - 1)
        /\ p1 \in Nat /\ p2 \in Nat
    BY Neighbours
  <1>2. DOMAIN ps = {1, 2} /\ ps \in Seq(Nat)
    BY <1>1
  <1>3. Range(ps) = {p1, p2}
    BY <1>2 DEF Range
  <1>4. new_join(I, p1, p2, idom) = new_block_helper(I, "JOIN", ps, idom)
    BY DEF new_join
  <1> HIDE DEF ps
  <1>5. TightAt(I, idom, {p1, p2})
    <2> SUFFICES ASSUME NEW d \in 0..(I.size - 1), Above(I, d, p1), Above(I, d, p2)
                 PROVE  Above(I, d, idom)
      BY DEF TightAt
    <2>1. Above(I, d, I.doms[r])
      BY <1>1, AboveBothSides
    <2> QED BY <2>1
  <1>6. Sound(new_block_helper(I, "JOIN", ps, idom), S)
    <2>1. "JOIN" \in Blocktype
      BY DEF Blocktype
    <2>2. /\ Range(ps) # {} /\ Range(ps) \subseteq 0..(I.size - 1)
          /\ TightAt(I, idom, Range(ps))
      BY <1>1, <1>3, <1>5
    <2> QED BY <1>1, <1>2, <2>1, <2>2, NewBlockSound
  <1>7. /\ I.size \in Succs(new_block_helper(I, "JOIN", ps, idom), p1)
        /\ SameTree(I, new_block_helper(I, "JOIN", ps, idom))
    <2>1. "JOIN" \in Blocktype /\ Range(ps) \subseteq 0..(I.size - 1) /\ p1 \in Range(ps)
      BY <1>1, <1>3 DEF Blocktype
    <2> QED BY <1>1, <1>2, <2>1, NewBlockShape
  <1> QED BY <1>4, <1>6, <1>7

-----------------------------------------------------------------------------
(* The ends of the constructs.                                             *)

LEMMA JoinSound ==
  ASSUME NEW I, IROK(I), NEW S, Sound(I, S),
         NEW p1, InFunction(I, p1), NEW p2, InFunction(I, p2),
         NEW idom, InFunction(I, idom),
         NEW r \in Indices(I), NEW t \in Indices(I), r # t,
         I.doms[r] = idom, I.doms[t] = idom, Above(I, t, p1), Above(I, r, p2)
  PROVE  Sound(join(I, idom, p1, p2), S)
  <1> DEFINE J == new_join(I, p1, p2, idom)
             K == set_branch_cond(J, p1, "BRA", I.size)
  <1>1. p1 \in Indices(I) /\ p2 \in Indices(I) /\ idom \in Indices(I)
    BY DEF InFunction
  <1>2. Above(I, idom, p1) /\ Above(I, idom, p2)
    BY AboveChild, AboveTransitive
  <1>3. Sound(J, S) /\ I.size \in Succs(J, p1)
    BY <1>1, new_joinSound
  <1>4. IROK(J) /\ J.size = I.size + 1 /\ InFunction(J, I.size)
    BY <1>2, NewJoin DEF Grows
  <1> HIDE DEF J
  <1>5. p1 \in Indices(J) /\ I.size \in Int /\ JumpOK(J, p1, I.size)
    BY <1>1, <1>3, <1>4 DEF Indices, JumpOK, InFunction, IROK, IRType
  <1>6. Sound(K, S)
    BY <1>3, <1>4, <1>5, SetBranchCondSound DEF BranchOp
  <1> QED BY <1>6 DEF join, J, K

\* The branch-back block jumps up the tree.
LEMMA CloseLoopSound ==
  ASSUME NEW I, IROK(I), NEW S, Sound(I, S),
         NEW h, InFunction(I, h), NEW w, InFunction(I, w), Above(I, h, w)
  PROVE  Sound(close_loop(I, h, w), S)
  <1> DEFINE J == update_phi(I, h, w)
             K == set_branch_cond(J, w, "BRA", h)
  <1>1. h \in Indices(I) /\ w \in Indices(I) /\ w \in 0..(I.size - 1) /\ h \in Int
    BY InFunctionIsIndex
  <1>2. Sound(J, S)
    BY <1>1, UpdatePhiSound
  <1>3. IROK(J) /\ J.size = I.size /\ SameTree(I, J)
    BY <1>1, UpdatePhi, GrowsInTree DEF Grows
  <1> HIDE DEF J
  <1>4. w \in Indices(J) /\ JumpOK(J, w, h)
    BY <1>1, <1>3, AboveInBoth DEF Indices, JumpOK
  <1>5. Sound(K, S)
    BY <1>1, <1>2, <1>3, <1>4, SetBranchCondSound DEF BranchOp
  <1> QED BY <1>5 DEF close_loop, J, K

LEMMA BranchSound ==
  ASSUME NEW I, IROK(I), NEW h, InFunction(I, h), NEW w, InFunction(I, w),
         Above(I, h, w), NEW S, Sound(I, S), NEW T, S \subseteq T \union {h}
  PROVE  Sound(branch(I, h, w), T)
  <1> DEFINE J == close_loop(I, h, w)
             K == new_block(J, h, "WHILE_BRANCH")
             L == set_branch_location(K, h, J.size)
  <1>1. Sound(J, S)
    BY CloseLoopSound
  <1>2. IROK(J) /\ J.size = I.size /\ InFunction(J, h) /\ J.size \in Nat
    <2>1. Grows(I, J) /\ J.size = I.size /\ IRType(I)
      BY CloseLoop DEF IROK
    <2> HIDE DEF J
    <2> QED BY <2>1, GrowsKeepsFunction DEF Grows, IROK, IRType
  <1> HIDE DEF J
  <1>3. Sound(K, S)
    <2>1. h \in Indices(J) /\ "WHILE_BRANCH" \in Blocktype \union {"LOOP_HEADER"}
      BY <1>2 DEF InFunction, Blocktype
    <2> QED BY <1>1, <1>2, <2>1, new_blockSound
  <1>4. IROK(K) /\ h \in Indices(K)
    <2>1. Grows(J, K)
      BY <1>2, NewBlock DEF Blocktype
    <2>2. InFunction(K, h)
      BY <1>2, <2>1, GrowsKeepsFunction DEF IROK
    <2> QED BY <2>1, <2>2 DEF Grows, InFunction
  <1> HIDE DEF K
  <1>5. Sound(L, T)
    BY <1>2, <1>3, <1>4, SetBranchLocationSound
  <1> QED BY <1>5 DEF branch, J, K, L

LEMMA SoundWithMore ==
  ASSUME NEW I, NEW S, Sound(I, S), NEW T, S \subseteq T
  PROVE  Sound(I, T)
  BY DEF Sound, OpenIn

LEMMA IfEndSound ==
  ASSUME NEW I, IROK(I), NEW f \in Frames, FrameOK(I, f), Live(f), f.in_else,
         NEW e, InFunction(I, e),
         Branching(f) => /\ I.doms[f.og_else_block] = f.cond
                         /\ Above(I, f.og_else_block, e)
                         /\ OtherSide(I, f, f.og_else_block),
         NEW S, Sound(I, S), NEW T, S \subseteq T \union {f.cond},
         ~Branching(f) => S \subseteq T
  PROVE  Sound(if_end(I, f, e).ir, T)
  <1> DEFINE J == IF f.result = "NEITHER"
                    THEN set_branch_location(I, f.cond, f.og_else_block) ELSE I
             K == set_return(J, f.cond)
             L == join(J, f.cond, f.then_block, e)
             o == f.og_else_block
  <1>1. /\ IRType(I) /\ InFunction(I, f.cond) /\ InFunction(I, f.then_block)
        /\ Branching(f) => InFunction(I, o) /\ Labelled(I, o)
    BY DEF Live, FrameOK, IROK, Branching
  <1>2. Sound(J, T) /\ Grows(I, J) /\ J.size = I.size
    <2>1. CASE Branching(f)
      <3>1. J = set_branch_location(I, f.cond, o)
        BY <2>1 DEF Branching
      <3>2. /\ LocationOK(I, f.cond, o) /\ o \in Nat /\ o \in Int
            /\ f.cond \in Indices(I) /\ f.cond \in 0..(I.size - 1)
        BY <1>1, <2>1, JumpInFunction, InFunctionIsIndex
      <3>3. Sound(J, T)
        BY <3>1, <3>2, SetBranchLocationSound
      <3>4. Grows(I, J) /\ J.size = I.size
        BY <3>1, <3>2, SetBranchLocation
      <3> QED BY <3>3, <3>4
    <2>2. CASE ~Branching(f)
      BY <2>2, GrowsReflexive, SoundWithMore DEF Branching
    <2> QED BY <2>1, <2>2
  <1> HIDE DEF J
  <1>3. /\ IROK(J) /\ SameTree(I, J) /\ Indices(J) = Indices(I)
        /\ InFunction(J, f.cond) /\ InFunction(J, f.then_block) /\ InFunction(J, e)
    BY <1>1, <1>2, GrowsKeepsFunction, GrowsInTree DEF Grows, Indices
  <1>4. Sound(K, T)
    BY <1>2, <1>3, SetReturnSound DEF InFunction
  <1>5. CASE Branching(f)
    <2>1. PICK t \in Indices(I) \ {o} : I.doms[t] = f.cond /\ Above(I, t, f.then_block)
      BY <1>5 DEF OtherSide
    <2>2. /\ o \in Indices(I) /\ o \in 0..(I.size - 1) /\ t \in 0..(I.size - 1)
          /\ e \in 0..(I.size - 1) /\ f.then_block \in 0..(I.size - 1)
      BY <1>1, <1>5, InFunctionIsIndex, Neighbours
    <2>3. /\ J.doms[t] = f.cond /\ J.doms[o] = f.cond
          /\ Above(J, t, f.then_block) /\ Above(J, o, e)
      BY <1>3, <1>5, <2>1, <2>2, AboveInBoth DEF SameTree
    <2>4. Sound(L, T)
      BY <1>2, <1>3, <2>1, <2>2, <2>3, JoinSound
    <2>5. if_end(I, f, e).ir \in {J, K, L}
      BY DEF if_end, J, K, L
    <2> QED BY <1>2, <1>4, <2>4, <2>5
  <1>6. CASE ~Branching(f)
    <2>1. f.result \in {"TRUE", "FALSE"}
      BY <1>6 DEF Branching, Frames, Relation
    <2>2. if_end(I, f, e).ir \in {J, K}
      BY <2>1 DEF if_end, J, K
    <2> QED BY <1>2, <1>4, <2>2
  <1> QED BY <1>5, <1>6

LEMMA WhileEndSound ==
  ASSUME NEW I, IROK(I), NEW f \in Frames, FrameOK(I, f), Live(f),
         NEW w, InFunction(I, w), Above(I, f.cond, w),
         NEW S, Sound(I, S), NEW T, S \subseteq T \union {f.cond},
         ~Branching(f) => S \subseteq T
  PROVE  Sound(while_end(I, f, w).ir, T)
  <1>1. InFunction(I, f.cond) /\ f.result \in {"TRUE", "FALSE", "NEITHER"}
    BY DEF Live, FrameOK, Frames, Relation
  <1>2. CASE Branching(f)
    <2>1. while_end(I, f, w).ir = branch(I, f.cond, w)
      BY <1>2 DEF while_end, Branching
    <2> QED BY <1>1, <2>1, BranchSound
  <1>3. CASE ~Branching(f)
    <2>1. while_end(I, f, w).ir \in {close_loop(I, f.cond, w), I}
      BY <1>1, <1>3 DEF while_end, Branching
    <2>2. Sound(I, T)
      BY <1>3, SoundWithMore
    <2>3. Sound(close_loop(I, f.cond, w), T)
      BY <1>1, <2>2, CloseLoopSound
    <2> QED BY <2>1, <2>2, <2>3
  <1> QED BY <1>2, <1>3

-----------------------------------------------------------------------------
(* The stack.                                                              *)

LEMMA OwingPush ==
  ASSUME NEW q \in Seq(Frames), NEW f \in Frames
  PROVE  Owing(Append(q, f)) = Owing(q) \union (IF Branching(f) THEN {f.cond} ELSE {})
  <1> DEFINE p == Append(q, f)
             n == Len(q)
  <1>1. n \in Nat /\ Len(p) = n + 1 /\ p[n + 1] = f /\ \A i \in 1..n : p[i] = q[i]
    OBVIOUS
  <1> HIDE DEF p, n
  <1>2. \A i \in 1..(n + 1) : i \in 1..n \/ i = n + 1
    BY <1>1
  <1>3. ASSUME NEW x \in Owing(p)
        PROVE  x \in Owing(q) \union (IF Branching(f) THEN {f.cond} ELSE {})
    <2>1. PICK i \in 1..(n + 1) : Branching(p[i]) /\ x = p[i].cond
      BY <1>1, <1>3 DEF Owing
    <2>2. CASE i \in 1..n
      BY <1>1, <2>1, <2>2 DEF Owing, n
    <2>3. CASE i = n + 1
      BY <1>1, <2>1, <2>3
    <2> QED BY <1>2, <2>2, <2>3
  <1>4. ASSUME NEW x \in Owing(q)
        PROVE  x \in Owing(p)
    <2>1. PICK i \in 1..n : Branching(q[i]) /\ x = q[i].cond
      BY <1>4 DEF Owing, n
    <2>2. i \in 1..(n + 1)
      BY <1>1
    <2> QED BY <1>1, <2>1, <2>2 DEF Owing
  <1>5. Branching(f) => f.cond \in Owing(p)
    <2>1. n + 1 \in 1..(n + 1)
      BY <1>1
    <2> QED BY <1>1, <2>1 DEF Owing
  <1> QED BY <1>3, <1>4, <1>5 DEF p

\* What is owed when the top of the stack is popped.
LEMMA OwingPop ==
  ASSUME NEW q \in Seq(Frames), q # <<>>, NEW p, Len(p) = Len(q) - 1,
         \A i \in 1..(Len(q) - 1) : p[i] = q[i]
  PROVE  /\ Owing(q) \subseteq Owing(p) \union {q[Len(q)].cond}
         /\ ~Branching(q[Len(q)]) => Owing(q) \subseteq Owing(p)
  <1> DEFINE n == Len(q)
  <1>1. n \in Nat \ {0} /\ \A i \in 1..n : i \in 1..(n - 1) \/ i = n
    OBVIOUS
  <1> HIDE DEF n
  <1> SUFFICES ASSUME NEW i \in 1..n, Branching(q[i])
               PROVE  \/ q[i].cond \in Owing(p)
                      \/ i = n
    BY DEF Owing, n
  <1>2. CASE i \in 1..(n - 1)
    BY <1>2 DEF Owing, n
  <1> QED BY <1>1, <1>2

LEMMA OwingSame ==
  ASSUME NEW q, NEW p, Len(p) = Len(q),
         \A i \in 1..Len(q) : p[i].cond = q[i].cond /\ p[i].result = q[i].result
  PROVE  Owing(p) = Owing(q)
  BY DEF Owing, Branching

\* A side stays a side while the graph grows below it.
LEMMA KeepSide ==
  ASSUME NEW I, IROK(I), NEW J, SameTree(I, J), Indices(I) \subseteq Indices(J),
         NEW q, \A j \in 1..Len(q) : Live(q[j]) => q[j].cond \in 0..(I.size - 1),
         NEW c \in 0..(I.size - 1), NEW i, NEW r, Side(I, q, c, i, r)
  PROVE  Side(J, q, c, i, r)
  <1>1. r \in 0..(I.size - 1)
    BY Neighbours DEF Side
  <1>2. r \in Indices(J) /\ J.doms[r] = q[i].cond /\ Above(J, r, c)
    BY <1>1, AboveInBoth DEF Side, SameTree
  <1>3. ASSUME NEW j \in 1..Len(q), i < j, Live(q[j])
        PROVE  Above(J, r, q[j].cond)
    BY <1>3, AboveInBoth DEF Side
  <1> QED BY <1>2, <1>3 DEF Side

LEMMA KeepOtherSide ==
  ASSUME NEW I, IROK(I), NEW J, SameTree(I, J), Indices(I) \subseteq Indices(J),
         NEW f, f.then_block \in 0..(I.size - 1), NEW r, OtherSide(I, f, r)
  PROVE  OtherSide(J, f, r)
  <1>1. PICK t \in Indices(I) \ {r} : I.doms[t] = f.cond /\ Above(I, t, f.then_block)
    BY DEF OtherSide
  <1>2. t \in 0..(I.size - 1)
    BY <1>1, Neighbours
  <1>3. t \in Indices(J) \ {r} /\ J.doms[t] = f.cond /\ Above(J, t, f.then_block)
    BY <1>1, <1>2, AboveInBoth DEF SameTree
  <1> QED BY <1>3 DEF OtherSide

LEMMA OldSides ==
  ASSUME DInv, Parsing, NEW J, Grows(ir, J)
  PROVE  Sides(J, frames, curr_block)
  <1>1. /\ IROK(ir) /\ SameTree(ir, J) /\ Indices(ir) \subseteq Indices(J)
        /\ curr_block \in 0..(ir.size - 1)
    <2>1. IROK(ir) /\ SameTree(ir, J) /\ curr_block \in 0..(ir.size - 1) /\ ir.size \in Nat
      BY StateFacts, CurrentBlock, GrowsInTree DEF DInv
    <2>2. Indices(ir) \subseteq Indices(J)
      BY <2>1 DEF SameTree, Indices
    <2> QED BY <2>1, <2>2
  <1>2. \A i \in 1..Len(frames) : Live(frames[i]) =>
          /\ frames[i].cond \in 0..(ir.size - 1)
          /\ frames[i].in_else => frames[i].then_block \in 0..(ir.size - 1)
    BY <1>1, InFunctionIsIndex DEF DInv, Inv, FrameOK, Live
  <1>3. \A i, r : Side(ir, frames, curr_block, i, r) => Side(J, frames, curr_block, i, r)
    BY <1>1, <1>2, KeepSide
  <1>4. \A i \in 1..Len(frames) : \A r :
          Live(frames[i]) /\ frames[i].in_else /\ OtherSide(ir, frames[i], r)
            => OtherSide(J, frames[i], r)
    BY <1>1, <1>2, KeepOtherSide
  <1>5. Sides(ir, frames, curr_block)
    BY DEF DInv
  <1> SUFFICES ASSUME NEW i \in 1..Len(frames), TwoWay(frames[i])
               PROVE  IF frames[i].in_else
                        THEN Side(J, frames, curr_block, i, frames[i].og_else_block)
                             /\ OtherSide(J, frames[i], frames[i].og_else_block)
                        ELSE \E r \in Indices(J) : Side(J, frames, curr_block, i, r)
    BY DEF Sides
  <1>6. CASE frames[i].in_else
    BY <1>3, <1>4, <1>5, <1>6 DEF Sides, TwoWay
  <1>7. CASE ~frames[i].in_else
    BY <1>1, <1>3, <1>5, <1>7 DEF Sides
  <1> QED BY <1>6, <1>7

LEMMA PushSides ==
  ASSUME NEW I, NEW q \in Seq(Frames), NEW b, Sides(I, q, b), NEW c, Above(I, b, c),
         NEW f, Live(f) => Above(I, b, f.cond),
         TwoWay(f) => /\ ~f.in_else
                      /\ \E r \in Indices(I) : I.doms[r] = f.cond /\ Above(I, r, c)
  PROVE  Sides(I, Append(q, f), c)
  <1> DEFINE p == Append(q, f)
             n == Len(q)
  <1>1. n \in Nat /\ Len(p) = n + 1 /\ p[n + 1] = f /\ \A i \in 1..n : p[i] = q[i]
    OBVIOUS
  <1> HIDE DEF p, n
  <1>2. \A i \in 1..(n + 1) : i \in 1..n \/ i = n + 1
    BY <1>1
  <1>3. ASSUME NEW i \in 1..n, NEW r, Side(I, q, b, i, r)
        PROVE  Side(I, p, c, i, r)
    <2>1. r \in Indices(I) /\ I.doms[r] = p[i].cond /\ Above(I, r, b)
      BY <1>1, <1>3 DEF Side
    <2>2. Above(I, r, c)
      BY <2>1, AboveTransitive
    <2>3. ASSUME NEW j \in 1..(n + 1), i < j, Live(p[j])
          PROVE  Above(I, r, p[j].cond)
      <3>1. CASE j \in 1..n
        BY <1>1, <1>3, <2>3, <3>1 DEF Side, n
      <3>2. CASE j = n + 1
        BY <1>1, <2>1, <2>3, <3>2, AboveTransitive
      <3> QED BY <1>2, <3>1, <3>2
    <2> QED BY <1>1, <2>1, <2>2, <2>3 DEF Side
  <1> SUFFICES ASSUME NEW i \in 1..(n + 1), TwoWay(p[i])
               PROVE  IF p[i].in_else
                        THEN Side(I, p, c, i, p[i].og_else_block)
                             /\ OtherSide(I, p[i], p[i].og_else_block)
                        ELSE \E r \in Indices(I) : Side(I, p, c, i, r)
    BY <1>1 DEF Sides, p
  <1>4. CASE i \in 1..n
    <2>1. p[i] = q[i] /\ i \in 1..Len(q)
      BY <1>1, <1>4 DEF n
    <2>2. CASE q[i].in_else
      BY <1>3, <1>4, <2>1, <2>2 DEF Sides
    <2>3. CASE ~q[i].in_else
      BY <1>3, <1>4, <2>1, <2>3 DEF Sides
    <2> QED BY <2>1, <2>2, <2>3
  <1>5. CASE i = n + 1
    <2>1. PICK r \in Indices(I) : I.doms[r] = f.cond /\ Above(I, r, c)
      BY <1>1, <1>5
    <2>2. \A j \in 1..Len(p) : ~(n + 1 < j)
      BY <1>1
    <2>3. Side(I, p, c, n + 1, r)
      BY <1>1, <2>1, <2>2 DEF Side
    <2> QED BY <1>1, <1>5, <2>3
  <1> QED BY <1>2, <1>4, <1>5

\* When the innermost activation goes on in c, what lies under a side of an
\* outer activation stays under it.
LEMMA SideBelowTop ==
  ASSUME NEW I, NEW q \in Seq(Frames), q # <<>>, NEW b, NEW c,
         Above(I, IF Live(q[Len(q)]) THEN q[Len(q)].cond ELSE b, c),
         NEW i \in 1..(Len(q) - 1), NEW r, Side(I, q, b, i, r),
         NEW p, Len(p) \in {Len(q) - 1, Len(q)},
         \A j \in 1..Len(p) : p[j].cond = q[j].cond
  PROVE  Side(I, p, c, i, r)
  <1> DEFINE n == Len(q)
  <1>1. n \in Nat \ {0} /\ n \in 1..n /\ i \in 1..n /\ i < n /\ i \in 1..Len(p)
        /\ \A j \in 1..Len(p) : j \in 1..n
    OBVIOUS
  <1>2. r \in Indices(I) /\ I.doms[r] = p[i].cond /\ Above(I, r, b)
        /\ \A j \in 1..n : i < j /\ Live(q[j]) => Above(I, r, q[j].cond)
    BY <1>1 DEF Side
  <1>3. Above(I, r, IF Live(q[n]) THEN q[n].cond ELSE b)
    BY <1>1, <1>2
  <1>4. Above(I, r, c)
    BY <1>3, AboveTransitive
  <1>5. \A j \in 1..Len(p) : i < j /\ Live(p[j]) => Above(I, r, p[j].cond)
    BY <1>1, <1>2 DEF Live
  <1> QED BY <1>2, <1>4, <1>5 DEF Side

LEMMA PopSides ==
  ASSUME NEW I, NEW q \in Seq(Frames), q # <<>>, NEW b, NEW c, Sides(I, q, b),
         Above(I, IF Live(q[Len(q)]) THEN q[Len(q)].cond ELSE b, c),
         NEW p, Len(p) = Len(q) - 1, \A j \in 1..(Len(q) - 1) : p[j] = q[j]
  PROVE  Sides(I, p, c)
  <1>1. Len(q) \in Nat
    OBVIOUS
  <1>2. \A i \in 1..Len(p) : \A r : Side(I, q, b, i, r) => Side(I, p, c, i, r)
    BY SideBelowTop
  <1>3. \A i \in 1..Len(p) : i \in 1..Len(q) /\ p[i] = q[i]
    BY <1>1
  <1> SUFFICES ASSUME NEW i \in 1..Len(p), TwoWay(p[i])
               PROVE  IF p[i].in_else
                        THEN Side(I, p, c, i, p[i].og_else_block)
                             /\ OtherSide(I, p[i], p[i].og_else_block)
                        ELSE \E r \in Indices(I) : Side(I, p, c, i, r)
    BY DEF Sides
  <1>4. CASE q[i].in_else
    BY <1>2, <1>3, <1>4 DEF Sides
  <1>5. CASE ~q[i].in_else
    BY <1>2, <1>3, <1>5 DEF Sides
  <1> QED BY <1>4, <1>5

LEMMA ChangeTopSides ==
  ASSUME NEW I, NEW q \in Seq(Frames), q # <<>>, NEW b, NEW c, Sides(I, q, b),
         Above(I, IF Live(q[Len(q)]) THEN q[Len(q)].cond ELSE b, c),
         NEW p, Len(p) = Len(q), \A j \in 1..(Len(q) - 1) : p[j] = q[j],
         p[Len(q)].cond = q[Len(q)].cond, p[Len(q)].in_else,
         TwoWay(p[Len(q)]) => /\ Side(I, p, c, Len(q), p[Len(q)].og_else_block)
                              /\ OtherSide(I, p[Len(q)], p[Len(q)].og_else_block)
  PROVE  Sides(I, p, c)
  <1>1. Len(q) \in Nat /\ \A j \in 1..Len(q) : j \in 1..(Len(q) - 1) \/ j = Len(q)
    OBVIOUS
  <1>2. \A j \in 1..Len(p) : p[j].cond = q[j].cond
    BY <1>1
  <1>3. \A i \in 1..(Len(q) - 1) : \A r : Side(I, q, b, i, r) => Side(I, p, c, i, r)
    BY <1>2, SideBelowTop
  <1> SUFFICES ASSUME NEW i \in 1..Len(q), TwoWay(p[i])
               PROVE  IF p[i].in_else
                        THEN Side(I, p, c, i, p[i].og_else_block)
                             /\ OtherSide(I, p[i], p[i].og_else_block)
                        ELSE \E r \in Indices(I) : Side(I, p, c, i, r)
    BY DEF Sides
  <1>4. CASE i \in 1..(Len(q) - 1)
    <2>1. p[i] = q[i]
      BY <1>4
    <2>2. CASE q[i].in_else
      BY <1>3, <1>4, <2>1, <2>2 DEF Sides
    <2>3. CASE ~q[i].in_else
      BY <1>3, <1>4, <2>1, <2>3 DEF Sides
    <2> QED BY <2>1, <2>2, <2>3
  <1>5. CASE i = Len(q)
    BY <1>5
  <1> QED BY <1>1, <1>4, <1>5

-----------------------------------------------------------------------------
(* The steps.                                                              *)

LEMMA DStateFacts ==
  ASSUME DInv
  PROVE  /\ Inv /\ IROK(ir) /\ IRType(ir) /\ Sound(ir, Owing(frames))
         /\ frames \in Seq(Frames) /\ ir.size \in Nat /\ pos \in Nat /\ None \in Int
         /\ Parsing => /\ curr_block \in Indices(ir) /\ InFunction(ir, curr_block)
                       /\ curr_block \in Int
  <1>1. Inv
    BY DEF DInv
  <1> QED BY <1>1, StateFacts, CurrentBlock DEF DInv, StackOK, InFunction

\* The code of a statement, then a branch instruction without a location.
LEMMA EmitAndBranchSound ==
  ASSUME NEW I, IROK(I), NEW S, Sound(I, S), NEW b, InFunction(I, b), NEW k \in Nat,
         NEW op \in BranchOp \ {"BRA"}, NEW T, S \subseteq T, op = "Bcc" => b \in T
  PROVE  Sound(set_branch_cond(add_instruction(I, b, k), b, op, None), T)
  <1> DEFINE J == add_instruction(I, b, k)
  <1>1. b \in Indices(I) /\ b \in 0..(I.size - 1)
    BY InFunctionIsIndex
  <1>2. Sound(J, S)
    BY <1>1, AddInstructionSound
  <1>3. IROK(J) /\ J.size = I.size
    BY <1>1, AddInstruction DEF Grows
  <1> HIDE DEF J
  <1>4. b \in Indices(J) /\ None \in Int
    BY <1>1, <1>3 DEF Indices, None
  <1>5. Sound(set_branch_cond(J, b, op, None), T)
    BY <1>2, <1>3, <1>4, SetBranchCondSound
  <1> QED BY <1>5 DEF J

LEMMA SimpleStatementSound ==
  ASSUME DInv, SimpleStatement
  PROVE  DInv'
  <1>1. Inv' /\ Parsing /\ UNCHANGED <<curr_block, frames>>
    BY SimpleStatementStep DEF DInv, SimpleStatement, NextPoint
  <1>2. Grows(ir, ir')
    BY <1>1, DStateFacts, StateFacts, CurrentBlock, AddInstruction DEF SimpleStatement
  <1>3. Sound(ir', Owing(frames'))
    BY <1>1, DStateFacts, AddInstructionSound DEF SimpleStatement
  <1>4. Sides(ir', frames', curr_block')
    BY <1>1, <1>2, OldSides
  <1> QED BY <1>1, <1>3, <1>4 DEF DInv

LEMMA ReturnStatementSound ==
  ASSUME DInv, ReturnStatement
  PROVE  DInv'
  <1>1. Inv' /\ Parsing /\ UNCHANGED <<curr_block, frames>>
    BY ReturnStatementStep DEF DInv, ReturnStatement, NextPoint
  <1>2. "RET" \in BranchOp \ {"BRA"} /\ "RET" \in BranchOp /\ "RET" # "Bcc"
    BY DEF BranchOp
  <1>3. Grows(ir, ir')
    BY <1>1, <1>2, DStateFacts, StateFacts, EmitAndBranch DEF ReturnStatement
  <1>4. Sound(ir', Owing(frames'))
    BY <1>1, <1>2, DStateFacts, EmitAndBranchSound DEF ReturnStatement
  <1>5. Sides(ir', frames', curr_block')
    BY <1>1, <1>3, OldSides
  <1> QED BY <1>1, <1>4, <1>5 DEF DInv

LEMMA IfThenSound ==
  ASSUME DInv, NEW r \in Relation, IfThen(r)
  PROVE  DInv'
  <1> DEFINE I == set_branch_cond(add_instruction(ir, curr_block, pos), curr_block, "Bcc", None)
             f == Frame("if", r, curr_block)
             J == new_block(I, curr_block, "IF_FALLTHROUGH")
             S == Owing(frames) \union (IF Branching(f) THEN {f.cond} ELSE {})
  <1>1. /\ Parsing /\ frames' = Append(frames, f)
        /\ IF r = "NEITHER" THEN ir' = J /\ curr_block' = I.size
           ELSE UNCHANGED <<ir, curr_block>>
    BY DEF IfThen, NextPoint
  <1>2. Inv'
    BY IfThenStep DEF DInv
  <1>3. f \in Frames /\ f.cond = curr_block /\ ~f.in_else /\ (Branching(f) <=> r = "NEITHER")
    <2>1. f \in Frames /\ f.cond = curr_block /\ ~f.in_else
      BY <1>1, DStateFacts, NewFrame DEF Inv
    <2> QED BY <2>1 DEF Branching, Frame
  <1> HIDE DEF f
  <1>4. Owing(frames') = S
    BY <1>1, <1>3, DStateFacts, OwingPush
  <1>5. CASE r = "NEITHER"
    <2>1. "Bcc" \in BranchOp \ {"BRA"} /\ "Bcc" \in BranchOp
          /\ "IF_FALLTHROUGH" \in Blocktype \union {"LOOP_HEADER"}
      BY DEF BranchOp, Blocktype
    <2>2. Sound(I, S)
      BY <1>1, <1>3, <1>5, <2>1, DStateFacts, EmitAndBranchSound
    <2>3. Grows(ir, I) /\ InFunction(I, curr_block) /\ IROK(I) /\ curr_block \in Indices(I)
      BY <1>1, <2>1, DStateFacts, EmitAndBranch DEF Grows, InFunction
    <2> HIDE DEF I, S
    <2>4. Sound(J, S) /\ J.doms[I.size] = curr_block
      BY <2>1, <2>2, <2>3, new_blockSound
    <2>5. Grows(I, J) /\ InFunction(J, I.size) /\ Above(J, curr_block, I.size)
      BY <2>1, <2>3, NewBlock
    <2> HIDE DEF J
    <2>6. Grows(ir, J)
      BY <2>3, <2>5, DStateFacts, GrowsTransitive
    <2>7. Sides(J, frames, curr_block)
      BY <1>1, <2>6, OldSides
    <2>8. /\ I.size \in Indices(J) /\ Above(J, I.size, I.size)
          /\ Above(J, curr_block, f.cond)
      BY <1>3, <2>5, AboveReflexive DEF InFunction
    <2>9. Sides(J, Append(frames, f), I.size)
      BY <1>3, <2>4, <2>5, <2>7, <2>8, DStateFacts, PushSides
    <2> QED BY <1>1, <1>2, <1>4, <1>5, <2>4, <2>9 DEF DInv
  <1>6. CASE r # "NEITHER"
    <2>1. ir' = ir /\ curr_block' = curr_block /\ S = Owing(frames)
      BY <1>1, <1>3, <1>6
    <2> HIDE DEF S
    <2>2. Sides(ir, frames, curr_block) /\ Above(ir, curr_block, curr_block)
      BY AboveReflexive DEF DInv
    <2>3. Sides(ir, Append(frames, f), curr_block)
      BY <1>3, <1>6, <2>2, DStateFacts, PushSides DEF TwoWay
    <2> QED BY <1>1, <1>2, <1>4, <2>1, <2>3, DStateFacts DEF DInv
  <1> QED BY <1>5, <1>6

LEMMA IgnoredConstructSound ==
  ASSUME DInv, IfThenIgnored \/ WhileDoIgnored
  PROVE  DInv'
  <1>1. PICK kind \in {"if", "while"} : frames' = Append(frames, Frame(kind, "NEITHER", None))
    BY DEF IfThenIgnored, WhileDoIgnored
  <1>2. Parsing /\ UNCHANGED <<ir, curr_block>>
    BY DEF IfThenIgnored, WhileDoIgnored, NextPoint
  <1>3. Inv'
    BY IgnoredConstructStep DEF DInv
  <1> DEFINE f == Frame(kind, "NEITHER", None)
  <1>4. f \in Frames /\ f.cond = None
    BY DStateFacts, NewFrame DEF Inv, Relation
  <1> HIDE DEF f
  <1>5. Owing(frames) \subseteq Owing(frames')
    BY <1>1, <1>4, DStateFacts, OwingPush DEF f
  <1>6. Sound(ir, Owing(frames'))
    BY <1>5, DStateFacts, SoundWithMore
  <1>7. Sides(ir, frames, curr_block) /\ Above(ir, curr_block, curr_block)
    BY AboveReflexive DEF DInv
  <1>8. Sides(ir, Append(frames, f), curr_block)
    BY <1>4, <1>7, DStateFacts, PushSides DEF TwoWay, Live
  <1> QED BY <1>1, <1>2, <1>3, <1>6, <1>8 DEF DInv, f

\* The other part of an if starts in a new child of the if's start.
LEMMA ThenEndSound ==
  ASSUME DInv, ThenEnd
  PROVE  DInv'
  <1> DEFINE n == Len(frames)
             fresh == Live(Top) /\ Top.result = "NEITHER"
             J == new_block(ir, Top.cond, "IF_BRANCH")
             f == [Top EXCEPT !.in_else = TRUE,
                              !.then_block = IF Live(Top) THEN curr_block ELSE None,
                              !.og_else_block = IF fresh THEN ir.size ELSE None]
  <1>1. /\ Parsing /\ frames # <<>> /\ Top.kind = "if" /\ ~Top.in_else
        /\ ir' = IF fresh THEN J ELSE ir
        /\ curr_block' = IF fresh THEN ir.size ELSE IF Live(Top) THEN Top.cond ELSE curr_block
        /\ frames' = [frames EXCEPT ![n] = f]
    BY DEF ThenEnd, Top
  <1>2. Inv'
    BY ThenEndStep DEF DInv
  <1>3. /\ Inv /\ n \in Nat \ {0} /\ n \in 1..n /\ Top = frames[n]
        /\ Top \in Frames /\ FrameOK(ir, Top)
    BY <1>1, DStateFacts, TopOfStack DEF Top
  <1>4. /\ f.cond = Top.cond /\ f.result = Top.result /\ f.kind = Top.kind /\ f.in_else
        /\ f.then_block = IF Live(Top) THEN curr_block ELSE None
        /\ f.og_else_block = IF fresh THEN ir.size ELSE None
    BY <1>3 DEF Frames
  <1> HIDE DEF f
  <1>5. Len(frames') = n /\ \A i \in 1..n : frames'[i] = IF i = n THEN f ELSE frames[i]
    BY <1>1, <1>3, DStateFacts
  <1>6. Owing(frames') = Owing(frames)
    <2>1. \A i \in 1..n : frames'[i].cond = frames[i].cond /\ frames'[i].result = frames[i].result
      BY <1>3, <1>4, <1>5
    <2> QED BY <1>5, <2>1, OwingSame
  <1>7. Live(Top) => InFunction(ir, Top.cond) /\ Top.cond \in Indices(ir)
    BY <1>3 DEF Live, FrameOK, InFunction
  <1>8. fresh => /\ Sound(J, Owing(frames)) /\ J.doms[ir.size] = Top.cond
                 /\ Grows(ir, J) /\ InFunction(J, ir.size) /\ Above(J, Top.cond, ir.size)
    <2>1. "IF_BRANCH" \in Blocktype \union {"LOOP_HEADER"}
      BY DEF Blocktype
    <2> QED BY <1>7, <2>1, DStateFacts, NewBlock, new_blockSound
  <1> HIDE DEF J
  <1>9. Sound(ir', Owing(frames')) /\ Grows(ir, ir')
    BY <1>1, <1>6, <1>8, DStateFacts, StateFacts
  <1>10. Sides(ir', frames, curr_block)
    BY <1>1, <1>9, OldSides
  <1>11. Above(ir', IF Live(Top) THEN Top.cond ELSE curr_block, curr_block')
    BY <1>1, <1>8, AboveReflexive
  <1>12. ASSUME TwoWay(f)
         PROVE  /\ Side(ir', frames', curr_block', n, f.og_else_block)
                /\ OtherSide(ir', f, f.og_else_block)
    <2>1. fresh /\ TwoWay(Top)
      BY <1>1, <1>4, <1>12 DEF TwoWay, Branching, Live
    <2>2. /\ ir' = J /\ curr_block' = ir.size /\ f.og_else_block = ir.size
          /\ f.then_block = curr_block
      BY <1>1, <1>4, <2>1
    <2>3. Side(ir', frames', curr_block', n, ir.size)
      <3>1. ir.size \in Indices(ir') /\ ir'.doms[ir.size] = frames'[n].cond
        BY <1>3, <1>4, <1>5, <1>8, <2>1, <2>2 DEF InFunction
      <3>2. \A j \in 1..Len(frames') : ~(n < j)
        BY <1>3, <1>5
      <3> QED BY <2>2, <3>1, <3>2, AboveReflexive DEF Side
    <2>4. PICK r \in Indices(ir) : Side(ir, frames, curr_block, n, r)
      BY <1>1, <1>3, <2>1 DEF DInv, Sides
    <2>5. r # ir.size /\ r \in 0..(ir.size - 1) /\ curr_block \in 0..(ir.size - 1)
      BY <1>1, DStateFacts, Neighbours DEF Indices
    <2>6. SameTree(ir, ir') /\ Indices(ir) \subseteq Indices(ir')
      <3>1. SameTree(ir, ir')
        BY <1>9, GrowsInTree
      <3> QED BY <3>1, DStateFacts DEF SameTree, Indices
    <2>7. r \in Indices(ir') \ {ir.size} /\ ir'.doms[r] = f.cond /\ Above(ir', r, curr_block)
      BY <1>3, <1>4, <2>4, <2>5, <2>6, DStateFacts, AboveInBoth DEF Side, SameTree
    <2> QED BY <2>2, <2>3, <2>7 DEF OtherSide
  <1>13. Sides(ir', frames', curr_block')
    <2>1. frames'[n] = f /\ \A j \in 1..(n - 1) : frames'[j] = frames[j]
      BY <1>3, <1>5
    <2>2. /\ frames \in Seq(Frames) /\ Len(frames') = Len(frames)
          /\ frames'[Len(frames)].cond = frames[Len(frames)].cond
          /\ frames'[Len(frames)].in_else
          /\ Above(ir', IF Live(frames[Len(frames)]) THEN frames[Len(frames)].cond
                        ELSE curr_block, curr_block')
      BY <1>3, <1>4, <1>5, <1>11, <2>1, DStateFacts
    <2>3. TwoWay(frames'[Len(frames)]) =>
            /\ Side(ir', frames', curr_block', Len(frames), frames'[Len(frames)].og_else_block)
            /\ OtherSide(ir', frames'[Len(frames)], frames'[Len(frames)].og_else_block)
      BY <1>12, <2>1
    <2> QED BY <1>1, <1>10, <2>1, <2>2, <2>3, ChangeTopSides, Zenon
  <1> QED BY <1>2, <1>9, <1>13 DEF DInv

LEMMA ShapeOfPop ==
  ASSUME frames \in Seq(Frames), frames # <<>>
  PROVE  Len(Pop) = Len(frames) - 1 /\ \A i \in 1..(Len(frames) - 1) : Pop[i] = frames[i]
  <1> DEFINE m == Len(frames) - 1
  <1>1. m \in Nat /\ m + 1 = Len(frames)
    OBVIOUS
  <1> HIDE DEF m
  <1>2. Len(SubSeq(frames, 1, m)) = m /\ \A i \in 1..m : SubSeq(frames, 1, m)[i] = frames[i]
    BY <1>1
  <1> QED BY <1>2 DEF Pop, m

\* fi and od: the graph the handler leaves, and the sides of the others.
LEMMA ConstructEndSound ==
  ASSUME DInv, Fi \/ Od
  PROVE  DInv'
  <1> DEFINE n == Len(frames)
  <1>1. Parsing /\ frames # <<>> /\ frames' = Pop
    BY DEF Fi, Od
  <1>2. Inv'
    BY ConstructEndStep DEF DInv
  <1>3. /\ Inv /\ n \in Nat \ {0} /\ n \in 1..n /\ Top = frames[n]
        /\ Top \in Frames /\ FrameOK(ir, Top)
    BY <1>1, DStateFacts, TopOfStack DEF Top
  <1>4. Len(frames') = n - 1 /\ \A i \in 1..(n - 1) : frames'[i] = frames[i]
    BY <1>1, DStateFacts, ShapeOfPop
  <1>5. /\ Owing(frames) \subseteq Owing(frames') \union {Top.cond}
        /\ ~Branching(Top) => Owing(frames) \subseteq Owing(frames')
    BY <1>1, <1>3, <1>4, DStateFacts, OwingPop
  <1>6. Live(Top) => /\ Above(ir, Top.cond, curr_block)
                     /\ Top.in_else => Above(ir, Top.cond, Top.then_block)
    BY <1>1, <1>3 DEF Nested, Inv
  <1>7. /\ Grows(ir, ir') /\ Sound(ir', Owing(frames'))
        /\ Above(ir', IF Live(Top) THEN Top.cond ELSE curr_block, curr_block')
    <2>1. CASE ~Live(Top)
      <3>1. UNCHANGED <<ir, curr_block>> /\ Top.cond = None
        BY <1>1, <2>1 DEF Fi, Od, Live
      <3>2. None \notin Indices(ir)
        BY DStateFacts DEF Indices, None
      <3>3. Sound(ir, Owing(frames'))
        BY <1>5, <3>1, <3>2, DStateFacts DEF Sound, OpenIn
      <3> QED BY <2>1, <3>1, <3>3, DStateFacts, StateFacts, AboveReflexive
    <2>2. CASE Live(Top) /\ Fi
      <3> DEFINE end == if_end(ir, Top, curr_block)
                 o == Top.og_else_block
      <3>1. ir' = end.ir /\ curr_block' = end.curr /\ Top.in_else /\ Top.kind = "if"
        BY <2>2 DEF Fi
      <3>2. GoesOn(ir, Top.cond, end)
        BY <1>1, <1>3, <1>6, <2>2, <3>1, DStateFacts, IfEnd
      <3>3. Branching(Top) => Side(ir, frames, curr_block, n, o) /\ OtherSide(ir, Top, o)
        BY <1>3, <2>2, <3>1 DEF DInv, Sides, TwoWay
      <3>4. Branching(Top) => /\ ir.doms[o] = Top.cond
                              /\ Above(ir, o, curr_block) /\ OtherSide(ir, Top, o)
        BY <1>3, <3>3 DEF Side
      <3>5. Sound(end.ir, Owing(frames'))
        BY <1>1, <1>3, <1>5, <2>2, <3>1, <3>4, DStateFacts, IfEndSound
      <3> HIDE DEF end
      <3> QED BY <2>2, <3>1, <3>2, <3>5 DEF GoesOn
    <2>3. CASE Live(Top) /\ Od
      <3> DEFINE end == while_end(ir, Top, curr_block)
      <3>1. ir' = end.ir /\ curr_block' = end.curr
        BY <2>3 DEF Od
      <3>2. GoesOn(ir, Top.cond, end)
        BY <1>1, <1>3, <1>6, <2>3, DStateFacts, WhileEnd
      <3>3. Sound(end.ir, Owing(frames'))
        BY <1>1, <1>3, <1>5, <1>6, <2>3, DStateFacts, WhileEndSound
      <3> HIDE DEF end
      <3> QED BY <2>3, <3>1, <3>2, <3>3 DEF GoesOn
    <2> QED BY <1>1, <2>1, <2>2, <2>3
  <1>8. Sides(ir', frames', curr_block')
    <2>1. Sides(ir', frames, curr_block)
      BY <1>1, <1>7, OldSides
    <2> QED BY <1>1, <1>3, <1>4, <1>7, <2>1, DStateFacts, PopSides
  <1> QED BY <1>2, <1>7, <1>8 DEF DInv

LEMMA WhileDoSound ==
  ASSUME DInv, NEW r \in Relation, WhileDo(r)
  PROVE  DInv'
  <1> DEFINE header == ir.size
             G == new_block(ir, curr_block, "LOOP_HEADER")
             H == add_instruction(G, header, pos)
             I == IF r = "NEITHER" THEN set_branch_cond(H, header, "Bcc", None) ELSE H
             J == new_block(I, header, "WHILE_FALLTHROUGH")
             f == Frame("while", r, header)
             S == Owing(frames) \union (IF Branching(f) THEN {f.cond} ELSE {})
  <1>1. /\ Parsing /\ frames' = Append(frames, f)
        /\ ir' = IF r = "TRUE" THEN I ELSE J
        /\ curr_block' = IF r = "TRUE" THEN header ELSE I.size
    BY DEF WhileDo, NextPoint
  <1>2. Inv'
    BY WhileDoStep DEF DInv
  <1>3. f \in Frames /\ f.cond = header /\ f.kind = "while" /\ (Branching(f) <=> r = "NEITHER")
    <2>1. f \in Frames /\ f.cond = header
      BY DStateFacts, NewFrame DEF Inv
    <2> QED BY <2>1 DEF Branching, Frame
  <1> HIDE DEF f
  <1>4. Owing(frames') = S
    BY <1>1, <1>3, DStateFacts, OwingPush
  <1>5. /\ Grows(ir, G) /\ InFunction(G, header) /\ Above(G, curr_block, header)
        /\ Sound(G, Owing(frames))
    <2>1. "LOOP_HEADER" \in Blocktype \union {"LOOP_HEADER"}
      OBVIOUS
    <2> QED BY <1>1, <2>1, DStateFacts, NewBlock, new_blockSound
  <1> HIDE DEF G
  <1>6. Grows(G, H) /\ H.size = G.size /\ InFunction(H, header) /\ Sound(H, Owing(frames))
    <2>1. IROK(G) /\ IRType(G) /\ header \in Indices(G) /\ header \in 0..(G.size - 1)
      BY <1>5, InFunctionIsIndex DEF Grows, IROK
    <2>2. Grows(G, H) /\ H.size = G.size /\ Sound(H, Owing(frames))
      BY <1>5, <2>1, DStateFacts, AddInstruction, AddInstructionSound
    <2> HIDE DEF H
    <2> QED BY <1>5, <2>1, <2>2, GrowsKeepsFunction
  <1> HIDE DEF H
  <1>7. Grows(H, I) /\ InFunction(I, header) /\ Sound(I, S)
    <2>1. /\ IROK(H) /\ IRType(H) /\ LocationOK(H, header, None)
          /\ header \in Indices(H) /\ header \in 0..(H.size - 1)
      BY <1>6, InFunctionIsIndex DEF Grows, IROK, LocationOK
    <2>2. CASE r = "NEITHER"
      <3>1. Grows(H, I)
        BY <2>1, <2>2, DStateFacts, SetBranchCond DEF BranchOp
      <3>2. Sound(I, S)
        <4>1. "Bcc" \in BranchOp /\ Owing(frames) \subseteq S /\ header \in S
          BY <1>3, <2>2 DEF BranchOp
        <4> HIDE DEF S
        <4> QED BY <1>6, <2>1, <2>2, <4>1, DStateFacts, SetBranchCondSound
      <3> HIDE DEF I
      <3> QED BY <1>6, <2>1, <3>1, <3>2, GrowsKeepsFunction
    <2>3. CASE r # "NEITHER"
      BY <1>3, <1>6, <2>1, <2>3, GrowsReflexive
    <2> QED BY <2>2, <2>3
  <1> HIDE DEF I
  <1>8. /\ Grows(I, J) /\ InFunction(J, I.size) /\ Above(J, header, I.size)
        /\ Sound(J, S)
    <2>1. IROK(I) /\ "WHILE_FALLTHROUGH" \in Blocktype \union {"LOOP_HEADER"}
          /\ header \in Indices(I)
      BY <1>7 DEF Blocktype, Grows, InFunction
    <2> HIDE DEF S
    <2> QED BY <1>7, <2>1, NewBlock, new_blockSound
  <1> HIDE DEF J, S
  <1>9. IRType(G) /\ IRType(H) /\ IRType(I) /\ IROK(G)
    BY <1>5, <1>6, <1>7 DEF Grows, IROK
  <1>10. Grows(G, I) /\ Grows(G, J) /\ Grows(ir, I) /\ Grows(ir, J)
    BY <1>5, <1>6, <1>7, <1>8, <1>9, DStateFacts, GrowsTransitive
  <1>11. Grows(ir, ir') /\ Grows(G, ir') /\ Sound(ir', Owing(frames'))
    BY <1>1, <1>4, <1>7, <1>8, <1>10
  <1>12. Above(ir', curr_block, header)
    <2>1. header \in 0..(G.size - 1)
      BY <1>5, <1>9, InFunctionIsIndex
    <2> QED BY <1>5, <1>9, <1>11, <2>1, GrowsKeepsAbove
  <1>13. Above(ir', curr_block, curr_block')
    BY <1>1, <1>8, <1>12, AboveTransitive
  <1>14. Sides(ir', frames', curr_block')
    <2>1. Sides(ir', frames, curr_block)
      BY <1>1, <1>11, OldSides
    <2> QED BY <1>1, <1>3, <1>12, <1>13, <2>1, DStateFacts, PushSides DEF TwoWay
  <1> QED BY <1>2, <1>11, <1>14 DEF DInv

LEMMA BeginSound ==
  ASSUME DInv, NEW kind \in {"function", "main"}, Begin(kind)
  PROVE  DInv'
  <1> DEFINE I == new_function(ir)
             J == add_instruction(I, ir.size, pos)
  <1>1. Inv' /\ ir' = J /\ frames' = frames /\ frames = <<>>
    BY BeginStep DEF DInv, Inv, Begin, Parsing
  <1>2. Sound(I, Owing(frames)) /\ IROK(I) /\ ir.size \in Indices(I)
    BY DStateFacts, new_functionSound, NewFunction DEF InFunction
  <1> HIDE DEF I
  <1>3. Sound(J, Owing(frames))
    BY <1>2, DStateFacts, AddInstructionSound
  <1>4. Len(frames') = 0
    BY <1>1
  <1>5. Sides(ir', frames', curr_block')
    BY <1>4 DEF Sides
  <1> QED BY <1>1, <1>3, <1>5 DEF DInv

LEMMA EndSound ==
  ASSUME DInv, FunctionEnd \/ MainEnd
  PROVE  DInv'
  <1>1. Inv' /\ frames' = frames /\ frames = <<>> /\ Parsing
    BY EndStep DEF DInv, FunctionEnd, MainEnd, Parsing
  <1>2. "RET" \in BranchOp \ {"BRA"} /\ "RET" # "Bcc"
    BY DEF BranchOp
  <1>3. Sound(ir', Owing(frames'))
    BY <1>1, <1>2, DStateFacts, EmitAndBranchSound DEF FunctionEnd, MainEnd
  <1>4. Len(frames') = 0
    BY <1>1
  <1>5. Sides(ir', frames', curr_block')
    BY <1>4 DEF Sides
  <1> QED BY <1>1, <1>3, <1>5 DEF DInv

LEMMA InitDInv ==
  ASSUME Init
  PROVE  DInv
  <1>1. Inv
    BY InitInv
  <1>2. ir.size = 1 /\ ir.blocks[0].op = "EMPTY" /\ frames = <<>>
    BY DEF Init, EmptyIR, BasicBlock
  <1>3. Indices(ir) = {} /\ \A b \in 0..(ir.size - 1) : b = 0
    BY <1>2 DEF Indices
  <1>4. Sound(ir, Owing(frames))
    BY <1>2, <1>3 DEF Sound, Tight, JumpsOK, OpenIn
  <1>5. Len(frames) = 0
    BY <1>2
  <1>6. Sides(ir, frames, curr_block)
    BY <1>5 DEF Sides
  <1> QED BY <1>1, <1>4, <1>6 DEF DInv

LEMMA NextDInv ==
  ASSUME DInv, [Next]_vars
  PROVE  DInv'
  <1>1. CASE Next
    BY <1>1, SimpleStatementSound, ReturnStatementSound, IfThenSound, IgnoredConstructSound,
       ThenEndSound, ConstructEndSound, WhileDoSound, BeginSound, EndSound DEF Next
  <1>2. CASE UNCHANGED vars
    <2>1. Inv'
      BY <1>2, NextInv DEF DInv
    <2> QED BY <1>2, <2>1 DEF vars, DInv
  <1> QED BY <1>1, <1>2

-----------------------------------------------------------------------------
(* What the definition of dominators iterates.                             *)

Onward(d, before) == before \union ((UNION {Flow(b) : b \in before}) \ {d})

Iteration(d, n, g) ==
  g = [k \in 0..n |-> IF k = 0 THEN {0} \ {d} ELSE Onward(d, g[k - 1])]

\* The iteration can be carried out any number of times.
LEMMA IterationExists ==
  ASSUME NEW d, NEW n \in Nat
  PROVE  \E g : Iteration(d, n, g)
  <1> DEFINE T == {m \in Nat : ~ \E g : Iteration(d, m, g)}
  <1> SUFFICES ASSUME T # {}
               PROVE  FALSE
    OBVIOUS
  <1>1. PICK m \in T : \A k \in T : m <= k
    <2> HIDE DEF T
    <2>1. T \subseteq Nat
      BY DEF T
    <2> QED BY <2>1, LeastNumber
  <1>2. m \in Nat /\ ~ \E g : Iteration(d, m, g)
    BY <1>1
  <1>3. CASE m = 0
    <2> DEFINE g == [k \in 0..0 |-> {0} \ {d}]
    <2>1. Iteration(d, 0, g)
      BY DEF Iteration
    <2> QED BY <1>2, <1>3, <2>1
  <1>4. CASE m # 0
    <2>1. m - 1 \in Nat /\ m - 1 \notin T
      BY <1>1, <1>2, <1>4
    <2>2. PICK h : Iteration(d, m - 1, h)
      BY <2>1
    <2> DEFINE g == [k \in 0..m |-> IF k = m THEN Onward(d, h[m - 1]) ELSE h[k]]
    <2>3. \A k \in 0..(m - 1) : h[k] = IF k = 0 THEN {0} \ {d} ELSE Onward(d, h[k - 1])
      BY <2>2 DEF Iteration
    <2>4. \A k \in 0..m : g[k] = IF k = 0 THEN {0} \ {d} ELSE Onward(d, g[k - 1])
      <3> TAKE k \in 0..m
      <3>1. CASE k = m
        <4>1. g[k] = Onward(d, h[m - 1]) /\ g[k - 1] = h[m - 1] /\ k # 0
          BY <1>2, <1>4, <3>1
        <4> QED BY <3>1, <4>1
      <3>2. CASE k # m /\ k # 0
        <4>1. k \in 0..(m - 1) /\ g[k] = h[k] /\ g[k - 1] = h[k - 1]
          BY <1>2, <3>2
        <4> QED BY <2>3, <3>2, <4>1
      <3>3. CASE k # m /\ k = 0
        <4>1. k \in 0..(m - 1) /\ g[k] = h[k]
          BY <1>2, <3>3
        <4> QED BY <2>3, <3>3, <4>1
      <3> QED BY <3>1, <3>2, <3>3
    <2>5. Iteration(d, m, g)
      <3> HIDE DEF g
      <3>1. g = [k \in 0..m |-> g[k]]
        BY DEF g
      <3> QED BY <2>4, <3>1 DEF Iteration
    <2> QED BY <1>2, <2>5
  <1> QED BY <1>3, <1>4

LEMMA ReachedByIteration ==
  ASSUME NEW d, ir.size \in Nat
  PROVE  \E g : /\ ReachedAvoiding(d) = g[ir.size]
                /\ g[0] = {0} \ {d}
                /\ \A k \in 1..ir.size : g[k] = Onward(d, g[k - 1])
  <1> DEFINE g == CHOOSE f : Iteration(d, ir.size, f)
  <1>1. Iteration(d, ir.size, g)
    BY IterationExists
  <1>2. ReachedAvoiding(d) = g[ir.size]
    BY DEF ReachedAvoiding, Iteration, Onward
  <1> HIDE DEF g
  <1>3. \A k \in 0..ir.size : g[k] = IF k = 0 THEN {0} \ {d} ELSE Onward(d, g[k - 1])
    BY <1>1 DEF Iteration
  <1>4. g[0] = {0} \ {d} /\ \A k \in 1..ir.size : g[k] = Onward(d, g[k - 1])
    <2>1. 0 \in 0..ir.size /\ \A k \in 1..ir.size : k \in 0..ir.size /\ k # 0
      OBVIOUS
    <2> QED BY <1>3, <2>1
  <1> QED BY <1>2, <1>4

LEMMA OnwardFrom ==
  ASSUME NEW d, NEW R, NEW s \in Onward(d, R), s \notin R
  PROVE  \E b \in R : s \in Flow(b) /\ s # d
  <1>1. PICK F \in {Flow(b) : b \in R} : s \in F
    BY DEF Onward
  <1>2. PICK b \in R : F = Flow(b)
    BY <1>1
  <1>3. s # d
    BY DEF Onward
  <1> QED BY <1>1, <1>2, <1>3

LEMMA OnwardTo ==
  ASSUME NEW d, NEW R, NEW b \in R, NEW s \in Flow(b), s # d
  PROVE  s \in Onward(d, R)
  <1>1. Flow(b) \in {Flow(c) : c \in R}
    OBVIOUS
  <1>2. s \in UNION {Flow(c) : c \in R}
    BY <1>1
  <1> QED BY <1>2 DEF Onward

\* The blocks d is not above: those that are reached without d.
Beside(d) == {b \in 0..(ir.size - 1) : ~Above(ir, d, b)}

\* An edge or a jump that does not lead to d does not lead below it.
LEMMA FlowStaysBeside ==
  ASSUME IROK(ir), JumpsOK(ir), NEW d, NEW b \in Beside(d), NEW s \in Flow(b), s # d
  PROVE  s \in Beside(d)
  <1>1. b \in 0..(ir.size - 1) /\ ~Above(ir, d, b) /\ ir.size \in Nat \ {0}
    BY DEF Beside, IROK, IRType
  <1>2. s \in Succs(ir, b) \/ (ir.blocks[b].op = "BRA" /\ s = ir.blocks[b].larg)
    BY DEF Flow
  <1>3. CASE s \in Succs(ir, b)
    <2>1. s \in Indices(ir) /\ b \in Preds(ir, s)
      <3>1. CASE b = 0
        <4>1. s \in Indices(ir) /\ s \in Succs(ir, 0)
          BY <1>3, <3>1 DEF IROK, GraphOK
        <4>2. PICK p \in Preds(ir, s) : p < s /\ (p = 0 \/ SameFunction(ir, p, s))
          BY <4>1 DEF IROK, GraphOK
        <4>3. p \in 0..(ir.size - 1)
          BY <4>1, Neighbours
        <4>4. SameFunction(ir, p, s) => s <= p
          BY <4>1, <4>3 DEF SameFunction, Indices
        <4> QED BY <1>1, <3>1, <4>1, <4>2, <4>3, <4>4 DEF Indices
      <3>2. CASE b # 0
        <4>1. b \in Indices(ir)
          BY <1>1, <3>2 DEF Indices
        <4> QED BY <1>3, <4>1 DEF IROK, GraphOK
      <3> QED BY <3>1, <3>2
    <2>2. Above(ir, ir.doms[s], b)
      <3> SUFFICES ASSUME NEW S \in SUBSET (0..(ir.size - 1)), Closed(ir, S), b \in S
                   PROVE  ir.doms[s] \in S
        BY DEF Above
      <3> QED BY <2>1 DEF IROK, DomsOK
    <2>3. s \in 0..(ir.size - 1)
      BY <2>1, Neighbours
    <2>4. Above(ir, d, s) => Above(ir, d, ir.doms[s])
      BY <2>3, AboveByParent
    <2> QED BY <1>1, <2>2, <2>3, <2>4, AboveTransitive DEF Beside
  <1>4. CASE s \notin Succs(ir, b)
    <2>1. s \in Indices(ir) /\ Above(ir, s, b)
      BY <1>1, <1>2, <1>4 DEF JumpsOK, JumpOK
    <2>2. s \in 0..(ir.size - 1)
      BY <2>1, Neighbours
    <2> QED BY <1>1, <2>1, <2>2, AboveTransitive DEF Beside
  <1> QED BY <1>3, <1>4

\* A block but for the first is beside d only if a predecessor is, too.
LEMMA PredecessorBeside ==
  ASSUME IROK(ir), Tight(ir), NEW d \in 0..(ir.size - 1), NEW b \in Beside(d), b # 0
  PROVE  \E p \in Beside(d) : p < b /\ p \in Nat /\ b \in Flow(p)
  <1>1. b \in Indices(ir) /\ b \in 0..(ir.size - 1) /\ ~Above(ir, d, b)
    BY DEF Beside, Indices, IROK, IRType
  <1>2. Above(ir, d, ir.doms[b]) => Above(ir, d, b)
    BY AboveChild, AboveTransitive
  <1>3. PICK p \in Preds(ir, b) : ~Above(ir, d, p)
    BY <1>1, <1>2 DEF Tight, TightAt
  <1>4. p < b /\ b \in Succs(ir, p)
    BY <1>1 DEF IROK, GraphOK
  <1>5. p \in 0..(ir.size - 1)
    BY <1>1, Neighbours
  <1> QED BY <1>3, <1>4, <1>5 DEF Beside, Flow

\* The iteration in the definition finds exactly the blocks d is not above.
LEMMA ReachedIsBeside ==
  ASSUME IROK(ir), Tight(ir), JumpsOK(ir), NEW d \in 0..(ir.size - 1)
  PROVE  ReachedAvoiding(d) = Beside(d)
  <1> DEFINE n == ir.size
  <1>0. n \in Nat /\ n # 0 /\ d \in Nat
    BY DEF IROK, IRType
  <1>1. PICK g : /\ ReachedAvoiding(d) = g[n]
                 /\ g[0] = {0} \ {d}
                 /\ \A k \in 1..n : g[k] = Onward(d, g[k - 1])
    BY <1>0, ReachedByIteration
  <1>2. \A b : b \in Beside(d) => b \in 0..(n - 1) /\ b # d
    BY AboveReflexive DEF Beside
  <1>3. 0 \in Beside(d) <=> d # 0
    <2>1. 0 \in 0..(n - 1)
      BY <1>0
    <2>2. Above(ir, d, 0) => d \in 0..0
      BY <2>1, AboveIsBefore
    <2> QED BY <1>2, <2>1, <2>2 DEF Beside
  <1>4. \A k \in 0..n : g[k] \subseteq Beside(d)
    <2> DEFINE T == {k \in 0..n : ~(g[k] \subseteq Beside(d))}
    <2> SUFFICES ASSUME T # {}
                 PROVE  FALSE
      OBVIOUS
    <2>1. PICK k \in T : \A m \in T : k <= m
      <3>1. T \subseteq Nat
        OBVIOUS
      <3> HIDE DEF T
      <3> QED BY <3>1, LeastNumber
    <2>2. k \in 0..n /\ ~(g[k] \subseteq Beside(d))
      BY <2>1
    <2>3. k # 0
      BY <1>1, <1>3, <2>2
    <2>4. k \in 1..n /\ k - 1 \in 0..n /\ ~(k <= k - 1)
      BY <1>0, <2>2, <2>3
    <2>5. g[k - 1] \subseteq Beside(d)
      BY <2>1, <2>4
    <2>6. g[k] = Onward(d, g[k - 1])
      BY <1>1, <2>4
    <2>7. ASSUME NEW s \in g[k]
          PROVE  s \in Beside(d)
      <3>1. CASE s \in g[k - 1]
        BY <2>5, <3>1
      <3>2. CASE s \notin g[k - 1]
        <4>1. PICK b \in g[k - 1] : s \in Flow(b) /\ s # d
          BY <2>6, <3>2, OnwardFrom
        <4> QED BY <2>5, <4>1, FlowStaysBeside
      <3> QED BY <3>1, <3>2
    <2> QED BY <2>2, <2>7
  <1>5. \A b \in Beside(d) : \A k \in b..n : b \in g[k]
    <2> DEFINE T == {b \in Beside(d) : \E k \in b..n : b \notin g[k]}
    <2> SUFFICES ASSUME T # {}
                 PROVE  FALSE
      OBVIOUS
    <2>1. PICK b \in T : \A m \in T : b <= m
      <3>1. T \subseteq Nat
        BY <1>0, <1>2
      <3> HIDE DEF T
      <3> QED BY <3>1, LeastNumber
    <2>2. b \in Beside(d) /\ b \in 0..(n - 1) /\ b # d
      BY <1>2, <2>1
    <2>3. PICK k \in b..n : b \notin g[k]
      BY <2>1
    <2>4. CASE b = 0
      <3> DEFINE U == {m \in 0..n : 0 \notin g[m]}
      <3>1. PICK m \in U : \A j \in U : m <= j
        <4>1. U \subseteq Nat /\ k \in U
          BY <2>3, <2>4
        <4> HIDE DEF U
        <4> QED BY <4>1, LeastNumber
      <3>2. m \in 0..n /\ 0 \notin g[m] /\ m # 0
        BY <1>1, <2>2, <2>4, <3>1
      <3>3. m \in 1..n /\ m - 1 \in 0..n /\ ~(m <= m - 1)
        BY <1>0, <3>2
      <3>4. 0 \in g[m - 1]
        BY <3>1, <3>3
      <3> QED BY <1>1, <3>2, <3>3, <3>4 DEF Onward
    <2>5. CASE b # 0
      <3>1. PICK p \in Beside(d) : p < b /\ p \in Nat /\ b \in Flow(p)
        BY <2>2, <2>5, PredecessorBeside
      <3>2. p \notin T
        BY <2>1, <2>2, <3>1
      <3>3. k \in 1..n /\ k - 1 \in p..n
        BY <1>0, <2>2, <2>3, <2>5, <3>1
      <3>4. p \in g[k - 1]
        BY <3>1, <3>2, <3>3
      <3>5. b \in Onward(d, g[k - 1])
        BY <2>2, <3>1, <3>4, OnwardTo, Zenon
      <3> QED BY <1>1, <2>3, <3>3, <3>5
    <2> QED BY <2>4, <2>5
  <1>6. Beside(d) \subseteq g[n]
    <2>1. \A b \in Beside(d) : n \in b..n
      BY <1>0, <1>2
    <2> QED BY <1>5, <2>1
  <1>7. g[n] \subseteq Beside(d)
    BY <1>0, <1>4
  <1> QED BY <1>1, <1>6, <1>7

\* So the definition of dominators and the tree agree.
LEMMA TreeOfDominators ==
  ASSUME DInv
  PROVE  DomsAreDominators
  <1> DEFINE reached == {<<d, ReachedAvoiding(d)>> : d \in 0..(ir.size - 1)}
             strict(b) == {r[1] : r \in {q \in reached : b \notin q[2]}} \ {b}
  <1>1. IROK(ir) /\ Tight(ir) /\ JumpsOK(ir)
    BY DStateFacts DEF Sound
  <1>2. ASSUME NEW b \in 0..(ir.size - 1), NEW d
        PROVE  d \in strict(b) <=> d \in 0..(ir.size - 1) /\ Above(ir, d, b) /\ d # b
    <2>1. ASSUME d \in strict(b)
          PROVE  d \in 0..(ir.size - 1) /\ Above(ir, d, b) /\ d # b
      <3>1. PICK r \in reached : b \notin r[2] /\ d = r[1] /\ d # b
        BY <2>1
      <3>2. PICK e \in 0..(ir.size - 1) : r = <<e, ReachedAvoiding(e)>>
        BY <3>1
      <3>3. d = e /\ b \notin Beside(e)
        BY <1>1, <3>1, <3>2, ReachedIsBeside
      <3> QED BY <3>1, <3>2, <3>3 DEF Beside
    <2>2. ASSUME d \in 0..(ir.size - 1), Above(ir, d, b), d # b
          PROVE  d \in strict(b)
      <3>1. b \notin ReachedAvoiding(d)
        BY <1>1, <2>2, ReachedIsBeside DEF Beside
      <3>2. <<d, ReachedAvoiding(d)>> \in {q \in reached : b \notin q[2]}
        BY <2>2, <3>1
      <3>3. <<d, ReachedAvoiding(d)>>[1] = d
        OBVIOUS
      <3> QED BY <2>2, <3>2, <3>3
    <2> QED BY <2>1, <2>2
  <1>3. ASSUME NEW b \in Blocks
        PROVE  ir.doms[b] \in strict(b) /\ strict(b) = strict(ir.doms[b]) \union {ir.doms[b]}
    <2> HIDE DEF strict
    <2>1. /\ b \in 0..(ir.size - 1) /\ ir.doms[b] \in 0..(ir.size - 1)
          /\ ir.doms[b] < b /\ ir.doms[b] \in Nat /\ b \in Nat
      <3>1. b \in Indices(ir)
        BY DEF Blocks
      <3> QED BY <1>1, <3>1, Neighbours DEF IROK, GraphOK
    <2>2. Above(ir, ir.doms[b], b)
      BY AboveChild
    <2>3. ir.doms[b] \in strict(b)
      BY <1>2, <2>1, <2>2
    <2>4. ASSUME NEW d \in strict(b)
          PROVE  d \in strict(ir.doms[b]) \union {ir.doms[b]}
      <3>1. d \in 0..(ir.size - 1) /\ Above(ir, d, b) /\ d # b
        BY <1>2, <2>1
      <3>2. Above(ir, d, ir.doms[b])
        BY <1>1, <2>1, <3>1, AboveByParent
      <3> QED BY <1>2, <2>1, <3>1, <3>2
    <2>5. ASSUME NEW d \in strict(ir.doms[b])
          PROVE  d \in strict(b)
      <3>1. d \in 0..(ir.size - 1) /\ Above(ir, d, ir.doms[b])
        BY <1>2, <2>1
      <3>2. Above(ir, d, b)
        BY <2>2, <3>1, AboveTransitive
      <3>3. d \in 0..ir.doms[b]
        BY <1>1, <2>1, <3>1, AboveIsBefore
      <3>4. d # b
        BY <2>1, <3>3
      <3> QED BY <1>2, <2>1, <3>1, <3>2, <3>4
    <2> QED BY <2>3, <2>4, <2>5
  <1> HIDE DEF strict
  <1>4. \A b \in Blocks : /\ ir.doms[b] \in strict(b)
                          /\ strict(b) = strict(ir.doms[b]) \union {ir.doms[b]}
    BY <1>3
  <1> QED BY <1>4 DEF DomsAreDominators, strict

LEMMA LocationsGiven ==
  ASSUME DInv
  PROVE  BranchesComplete
  <1> SUFFICES ASSUME NEW b \in Blocks, ir.blocks[b].op \in {"BRA", "Bcc"},
                      Target(ir, b) = None
               PROVE  \E i \in DOMAIN frames : frames[i].cond = b
    BY DEF BranchesComplete
  <1>1. Sound(ir, Owing(frames)) /\ frames \in Seq(Frames) /\ b \in Indices(ir)
        /\ IROK(ir)
    BY DStateFacts DEF Blocks
  <1>2. CASE ir.blocks[b].op = "BRA"
    <2>1. b \in 0..(ir.size - 1) /\ ir.size \in Nat
      BY <1>1, Neighbours
    <2>2. ir.blocks[b].larg \in Indices(ir)
      BY <1>1, <1>2, <2>1 DEF Sound, JumpsOK, JumpOK
    <2>3. ir.blocks[b].larg = None
      BY <1>2 DEF Target
    <2> QED BY <2>1, <2>2, <2>3 DEF Indices, None
  <1>3. CASE ir.blocks[b].op = "Bcc"
    <2>1. ir.blocks[b].rarg = None
      BY <1>3 DEF Target
    <2>2. b \in Owing(frames)
      BY <1>1, <1>3, <2>1 DEF Sound, OpenIn
    <2>3. PICK i \in 1..Len(frames) : frames[i].cond = b
      BY <2>2 DEF Owing
    <2> QED BY <1>1, <2>3
  <1> QED BY <1>2, <1>3

-----------------------------------------------------------------------------
(* The flag of the loops.                                                  *)

LEMMA PushFlags ==
  ASSUME NEW q \in Seq(Frames), NEW flag, FlagsOK(q, flag), NEW f \in Frames,
         f.kind = "while" => f.prev_while_loop = flag
  PROVE  FlagsOK(Append(q, f), flag \/ f.kind = "while")
  <1> DEFINE p == Append(q, f)
             n == Len(q)
  <1>1. n \in Nat /\ Len(p) = n + 1 /\ p[n + 1] = f /\ \A i \in 1..n : p[i] = q[i]
    OBVIOUS
  <1> HIDE DEF p
  <1>2. \A i \in 1..(n + 1) : FlagAt(p, i) <=> FlagAt(q, i)
    <2> HIDE DEF n
    <2> TAKE i \in 1..(n + 1)
    <2>1. \A j \in 1..(n + 1) : j < i => j \in 1..n
      BY <1>1
    <2>2. \A j \in 1..n : j \in 1..(n + 1)
      BY <1>1
    <2> QED BY <1>1, <2>1, <2>2 DEF FlagAt, n
  <1>3. FlagAt(p, n + 2) <=> FlagAt(p, n + 1) \/ f.kind = "while"
    <2> HIDE DEF n
    <2>1. \A j \in 1..(n + 1) : j < n + 2 /\ (j < n + 1 \/ j = n + 1)
      BY <1>1
    <2>2. n + 1 \in 1..(n + 1)
      BY <1>1
    <2> QED BY <1>1, <2>1, <2>2 DEF FlagAt
  <1>4. n + 1 \in 1..(n + 1) /\ (n + 1) + 1 = n + 2
    BY <1>1
  <1>5. \A i \in 1..(n + 1) : i \in 1..n \/ i = n + 1
    BY <1>1
  <1>6. ASSUME NEW i \in 1..(n + 1), p[i].kind = "while"
        PROVE  p[i].prev_while_loop <=> FlagAt(p, i)
    <2>1. CASE i \in 1..n
      BY <1>1, <1>2, <1>6, <2>1 DEF FlagsOK
    <2>2. CASE i = n + 1
      BY <1>1, <1>2, <1>4, <1>6, <2>2, Zenon DEF FlagsOK
    <2> QED BY <1>5, <2>1, <2>2
  <1>7. (flag \/ f.kind = "while") <=> FlagAt(p, n + 2)
    BY <1>2, <1>3, <1>4, Zenon DEF FlagsOK
  <1>8. FlagsOK(p, flag \/ f.kind = "while")
    BY <1>1, <1>4, <1>6, <1>7, Zenon DEF FlagsOK
  <1> QED BY <1>8 DEF p

LEMMA PopFlags ==
  ASSUME NEW q \in Seq(Frames), q # <<>>, NEW flag, FlagsOK(q, flag),
         NEW p, Len(p) = Len(q) - 1, \A i \in 1..(Len(q) - 1) : p[i] = q[i],
         NEW new, q[Len(q)].kind = "while" => new = q[Len(q)].prev_while_loop,
         q[Len(q)].kind # "while" => new = flag
  PROVE  FlagsOK(p, new)
  <1> DEFINE n == Len(q)
  <1>1. n \in Nat \ {0} /\ n \in 1..n /\ (n - 1) + 1 = n /\ \A i \in 1..(n - 1) : i \in 1..n
    OBVIOUS
  <1>2. \A i \in 1..n : FlagAt(p, i) <=> FlagAt(q, i)
    <2> HIDE DEF n
    <2> TAKE i \in 1..n
    <2>1. \A j \in 1..n : j < i => j \in 1..(n - 1)
      BY <1>1
    <2> QED BY <1>1, <2>1 DEF FlagAt, n
  <1>3. FlagAt(q, n + 1) <=> FlagAt(q, n) \/ q[n].kind = "while"
    <2> HIDE DEF n
    <2>1. \A j \in 1..n : j < n + 1 /\ (j < n \/ j = n)
      BY <1>1
    <2> QED BY <1>1, <2>1 DEF FlagAt, n
  <1>4. new <=> FlagAt(p, n)
    <2>1. CASE q[n].kind = "while"
      BY <1>1, <1>2, <2>1, Zenon DEF FlagsOK
    <2>2. CASE q[n].kind # "while"
      <3>1. new <=> FlagAt(q, n + 1)
        <4>1. q[Len(q)].kind # "while" /\ n = Len(q)
          BY <2>2
        <4>2. new = flag
          BY <4>1
        <4>3. flag <=> FlagAt(q, n + 1)
          BY <4>1 DEF FlagsOK
        <4> QED BY <4>2, <4>3, Zenon
      <3>2. FlagAt(q, n + 1) <=> FlagAt(q, n)
        BY <1>3, <2>2
      <3> QED BY <1>1, <1>2, <3>1, <3>2
    <2> QED BY <2>1, <2>2
  <1>5. ASSUME NEW i \in 1..(n - 1), p[i].kind = "while"
        PROVE  p[i].prev_while_loop <=> FlagAt(p, i)
    BY <1>1, <1>2, <1>5 DEF FlagsOK
  <1> QED BY <1>1, <1>4, <1>5 DEF FlagsOK

LEMMA SameFlags ==
  ASSUME NEW q \in Seq(Frames), NEW flag, FlagsOK(q, flag),
         NEW p, Len(p) = Len(q),
         \A i \in 1..Len(q) : /\ p[i].kind = q[i].kind
                              /\ p[i].prev_while_loop = q[i].prev_while_loop
  PROVE  FlagsOK(p, flag)
  <1>1. \A i : FlagAt(p, i) <=> FlagAt(q, i)
    BY DEF FlagAt
  <1> QED BY <1>1 DEF FlagsOK

LEMMA NextFlags ==
  ASSUME FlagInv, [Next]_vars
  PROVE  FlagInv'
  <1>1. /\ Inv /\ FlagsOK(frames, while_loop) /\ frames \in Seq(Frames)
        /\ while_loop \in BOOLEAN /\ Inv'
    BY NextInv DEF FlagInv, Inv, TypeOK
  <1>2. CASE UNCHANGED <<while_loop, frames>>
    BY <1>1, <1>2 DEF FlagInv
  <1>3. ASSUME NEW kind \in {"if", "while"}, NEW r \in Relation, NEW c \in Int,
               frames' = Append(frames, Frame(kind, r, c)),
               while_loop' = (while_loop \/ kind = "while")
        PROVE  FlagInv'
    <2> DEFINE f == Frame(kind, r, c)
    <2>1. f \in Frames
      BY <1>1, NewFrame DEF Inv
    <2>2. f.kind = kind /\ f.prev_while_loop = while_loop
      BY DEF Frame
    <2> HIDE DEF f
    <2>3. FlagsOK(Append(frames, f), while_loop \/ f.kind = "while")
      BY <1>1, <2>1, <2>2, PushFlags
    <2>4. FlagsOK(frames', while_loop')
      BY <1>3, <2>2, <2>3 DEF f
    <2> QED BY <1>1, <2>4 DEF FlagInv
  <1>4. ASSUME frames # <<>>, frames' = Pop,
               Top.kind = "while" => while_loop' = Top.prev_while_loop,
               Top.kind # "while" => while_loop' = while_loop
        PROVE  FlagInv'
    <2>1. Len(Pop) = Len(frames) - 1 /\ \A i \in 1..(Len(frames) - 1) : Pop[i] = frames[i]
      BY <1>1, <1>4, ShapeOfPop
    <2>2. FlagsOK(Pop, while_loop')
      BY <1>1, <1>4, <2>1, PopFlags DEF Top
    <2> QED BY <1>1, <1>4, <2>2 DEF FlagInv
  <1>5. CASE \E r \in Relation : IfThen(r)
    <2>1. PICK r \in Relation : IfThen(r)
      BY <1>5
    <2>2. curr_block \in Int
      BY <1>1, CurrentBlock, <2>1 DEF IfThen, NextPoint
    <2> QED BY <1>1, <1>3, <2>1, <2>2 DEF IfThen
  <1>6. CASE IfThenIgnored
    BY <1>1, <1>3, <1>6 DEF IfThenIgnored, Relation, None
  <1>7. CASE ThenEnd
    <2> DEFINE f == [Top EXCEPT !.in_else = TRUE,
                                !.then_block = IF Live(Top) THEN curr_block ELSE None,
                                !.og_else_block = IF Live(Top) /\ Top.result = "NEITHER"
                                                  THEN ir.size ELSE None]
    <2>1. frames' = [frames EXCEPT ![Len(frames)] = f] /\ while_loop' = while_loop
          /\ frames # <<>>
      BY <1>7 DEF ThenEnd, Top
    <2>2. Top \in Frames /\ Len(frames) \in 1..Len(frames)
      BY <1>1, <2>1, TopOfStack
    <2>3. f.kind = Top.kind /\ f.prev_while_loop = Top.prev_while_loop
      BY <2>2 DEF Frames
    <2> HIDE DEF f
    <2>4. Len(frames') = Len(frames)
          /\ \A i \in 1..Len(frames) : frames'[i] = IF i = Len(frames) THEN f ELSE frames[i]
      BY <1>1, <2>1, <2>2
    <2>5. FlagsOK(frames', while_loop)
      BY <1>1, <2>3, <2>4, SameFlags DEF Top
    <2> QED BY <1>1, <2>1, <2>5 DEF FlagInv
  <1>8. CASE Fi
    BY <1>4, <1>8 DEF Fi
  <1>9. CASE \E r \in Relation : WhileDo(r)
    <2>1. PICK r \in Relation : WhileDo(r)
      BY <1>9
    <2>2. ir.size \in Int /\ "while" \in {"if", "while"}
      BY <1>1, StateFacts
    <2>3. /\ frames' = Append(frames, Frame("while", r, ir.size))
          /\ while_loop' = (while_loop \/ "while" = "while")
      BY <2>1, Zenon DEF WhileDo
    <2> QED BY <1>3, <2>2, <2>3, Zenon
  <1>10. CASE WhileDoIgnored
    <2>1. /\ frames' = Append(frames, Frame("while", "NEITHER", None))
          /\ while_loop' = (while_loop \/ "while" = "while")
      BY <1>10, Zenon DEF WhileDoIgnored
    <2>2. "while" \in {"if", "while"} /\ "NEITHER" \in Relation /\ None \in Int
      BY DEF Relation, None
    <2> QED BY <1>3, <2>1, <2>2, Zenon
  <1>11. CASE Od
    BY <1>4, <1>11 DEF Od
  <1>12. CASE \/ SimpleStatement \/ ReturnStatement \/ FunctionEnd \/ MainEnd
              \/ \E kind \in {"function", "main"} : Begin(kind)
    BY <1>2, <1>12 DEF SimpleStatement, ReturnStatement, FunctionEnd, MainEnd, Begin
  <1> QED BY <1>2, <1>5, <1>6, <1>7, <1>8, <1>9, <1>10, <1>11, <1>12 DEF Next, vars

-----------------------------------------------------------------------------
(* The theorems.                                                           *)

\* The invariant of the module comment holds in every reachable state: every
\* handler keeps the tree of dominators tight, the jumps inside it and the
\* two parts of an open if on different sides.
THEOREM DInvariance == Spec => []DInv
  <1>1. Init => DInv
    BY InitDInv
  <1>2. DInv /\ [Next]_vars => DInv'
    BY NextDInv
  <1> QED BY <1>1, <1>2, PTL DEF Spec

\* Whenever search_cse() may walk doms, doms holds the immediate dominators of
\* the flow graph, whatever loops have been closed since: the entry for a block
\* is the last block that cannot be avoided on the way to it.
THEOREM DominatorsImmediate == Spec => []DomsAreDominators
  <1>1. DInv => DomsAreDominators
    BY TreeOfDominators
  <1> QED BY <1>1, DInvariance, PTL

\* The handlers of a finished construct leave no branch without its location:
\* one that has none belongs to an activation that is still on the stack.
THEOREM BranchesGetLocations == Spec => []BranchesComplete
  <1>1. DInv => BranchesComplete
    BY LocationsGiven
  <1> QED BY <1>1, DInvariance, PTL

\* While any loop is being parsed, in ignore mode or not, while_loop is set, and
\* it is reset by the end of the outermost one.
THEOREM WhileLoopFlagRight == Spec => []WhileLoopFlag
  <1>1. Init => FlagInv
    <2> SUFFICES ASSUME Init
                 PROVE  FlagInv
      OBVIOUS
    <2>1. Inv /\ frames = <<>> /\ ~while_loop /\ Len(frames) = 0
      BY InitInv DEF Init
    <2> QED BY <2>1 DEF FlagInv, FlagsOK, FlagAt
  <1>2. FlagInv /\ [Next]_vars => FlagInv'
    BY NextFlags
  <1>3. FlagInv => WhileLoopFlag
    <2> SUFFICES ASSUME FlagInv
                 PROVE  WhileLoopFlag
      OBVIOUS
    <2>1. frames \in Seq(Frames) /\ (while_loop <=> FlagAt(frames, Len(frames) + 1))
      BY DEF FlagInv, FlagsOK, Inv, TypeOK
    <2>2. Len(frames) \in Nat /\ DOMAIN frames = 1..Len(frames)
      BY <2>1
    <2>3. \A j \in 1..Len(frames) : j < Len(frames) + 1
      BY <2>2
    <2> QED BY <2>1, <2>2, <2>3, Zenon DEF WhileLoopFlag, FlagAt
  <1> QED BY <1>1, <1>2, <1>3, PTL DEF Spec

=============================================================================
