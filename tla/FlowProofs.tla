------------------------------ MODULE FlowProofs -------------------------------
(***************************************************************************)
(* Proofs about CompileFlow, for source texts of every length: the blocks  *)
(* that the handlers build have the flow of the statements in the source.  *)
(*                                                                         *)
(* Each of the four invariants contains the one before.                    *)
(*   FlowInv    what is ignored and which constructs are open agrees with  *)
(*              the source; the current block can be appended to.          *)
(*   BlocksInv  the shape of every block, and which blocks are still       *)
(*              without a way out.                                         *)
(*   CarryInv   there is a function A, from a block to the open ends that  *)
(*              arrive at its beginning, with which the edges of the       *)
(*              source are those the blocks make.  The handlers append a   *)
(*              statement, lead an open end to a new block or to an old    *)
(*              one, or begin a function; one lemma for each says how A    *)
(*              changes.                                                   *)
(*   LayoutInv  what falls through falls into the next block.              *)
(*                                                                         *)
(* The last step reads the edges back from the blocks, which FlowEdges     *)
(* does with a recursive function over the blocks without code.            *)
(***************************************************************************)
EXTENDS CompileFlow, EdgeProofs

-----------------------------------------------------------------------------
(* What the methods of the IR do to the fields that execution depends on.  *)

\* What block b is as far as execution is concerned.
Is(I, b, code, succs, op, larg, rarg, returns) ==
  /\ I.blocks[b].code = code
  /\ I.blocks[b].successors = succs
  /\ I.blocks[b].op = op
  /\ I.blocks[b].larg = larg
  /\ I.blocks[b].rarg = rarg
  /\ I.blocks[b].will_return = returns

Alike(I, J, b) ==
  /\ J.blocks[b].code = I.blocks[b].code
  /\ J.blocks[b].successors = I.blocks[b].successors
  /\ J.blocks[b].op = I.blocks[b].op
  /\ J.blocks[b].larg = I.blocks[b].larg
  /\ J.blocks[b].rarg = I.blocks[b].rarg
  /\ J.blocks[b].will_return = I.blocks[b].will_return

\* Only the blocks of S differ.
OnlyIn(I, J, S) == \A b \in 0..(I.size - 1) : b \notin S => Alike(I, J, b)

Fresh(I, b) == Is(I, b, <<>>, <<>>, "EMPTY", None, None, FALSE)

\* Two changes, one after the other.
LEMMA OnlyInTwice ==
  ASSUME NEW I, NEW J, NEW K, NEW S, NEW T, NEW R, OnlyIn(I, J, S), OnlyIn(J, K, T),
         \A b \in 0..(I.size - 1) : b \notin R =>
           b \in 0..(J.size - 1) /\ b \notin S /\ b \notin T
  PROVE  OnlyIn(I, K, R)
<1> SUFFICES ASSUME NEW b \in 0..(I.size - 1), b \notin R
             PROVE  Alike(I, K, b)
  BY DEF OnlyIn
<1>1. Alike(I, J, b) /\ Alike(J, K, b)
  BY DEF OnlyIn
<1> QED
  BY <1>1 DEF Alike

\* One block of an IR is replaced.
LEMMA ReplaceBlock ==
  ASSUME NEW I, IRType(I), NEW b \in 0..(I.size - 1), NEW r \in BasicBlocks
  PROVE  LET J == [I EXCEPT !.blocks[b] = r]
         IN  /\ IRType(J) /\ J.size = I.size /\ OnlyIn(I, J, {b})
             /\ Is(J, b, r.code, r.successors, r.op, r.larg, r.rarg, r.will_return)
<1> DEFINE J == [I EXCEPT !.blocks[b] = r]
<1>1. /\ IRType(J) /\ J.size = I.size
      /\ \A c \in 0..(I.size - 1) : J.blocks[c] = IF c = b THEN r ELSE I.blocks[c]
  BY WriteBlock
<1> HIDE DEF J
<1>2. IRType(J) /\ J.size = I.size /\ OnlyIn(I, J, {b})
      /\ Is(J, b, r.code, r.successors, r.op, r.larg, r.rarg, r.will_return)
  BY <1>1 DEF OnlyIn, Alike, Is
<1> QED
  BY <1>2 DEF J

LEMMA BlockFields ==
  ASSUME NEW I, IRType(I), NEW b \in 0..(I.size - 1)
  PROVE  /\ I.blocks[b] \in BasicBlocks
         /\ I.blocks[b].code \in Seq(Nat) /\ I.blocks[b].successors \in Seq(Nat)
         /\ I.blocks[b].op \in BranchOp /\ I.blocks[b].larg \in Int /\ I.blocks[b].rarg \in Int
         /\ I.blocks[b].will_return \in BOOLEAN
BY DEF IRType, BasicBlocks

LEMMA AddInstructionEffect ==
  ASSUME NEW I, IRType(I), NEW b \in 0..(I.size - 1), NEW k \in Nat
  PROVE  LET J == add_instruction(I, b, k)
         IN  /\ IRType(J) /\ J.size = I.size /\ OnlyIn(I, J, {b})
             /\ Is(J, b, Append(I.blocks[b].code, k), I.blocks[b].successors, I.blocks[b].op,
                   I.blocks[b].larg, I.blocks[b].rarg, I.blocks[b].will_return)
<1> DEFINE code == Append(I.blocks[b].code, k)
           r == [I.blocks[b] EXCEPT !.code = code]
<1>1. I.blocks[b] \in BasicBlocks /\ code \in Seq(Nat)
  BY BlockFields
<1> HIDE DEF code
<1>2. /\ r \in BasicBlocks
      /\ r.code = code /\ r.successors = I.blocks[b].successors /\ r.op = I.blocks[b].op
      /\ r.larg = I.blocks[b].larg /\ r.rarg = I.blocks[b].rarg
      /\ r.will_return = I.blocks[b].will_return
  BY <1>1 DEF BasicBlocks
<1>3. add_instruction(I, b, k) = [I EXCEPT !.blocks[b] = r]
  BY DEF add_instruction, code
<1> HIDE DEF r
<1> DEFINE J == [I EXCEPT !.blocks[b] = r]
<1>4. /\ IRType(J) /\ J.size = I.size /\ OnlyIn(I, J, {b})
      /\ Is(J, b, r.code, r.successors, r.op, r.larg, r.rarg, r.will_return)
  BY <1>2, ReplaceBlock
<1> HIDE DEF J
<1> QED
  BY <1>2, <1>3, <1>4 DEF J, code

LEMMA SetReturnEffect ==
  ASSUME NEW I, IRType(I), NEW b \in 0..(I.size - 1)
  PROVE  LET J == set_return(I, b)
         IN  /\ IRType(J) /\ J.size = I.size /\ OnlyIn(I, J, {b})
             /\ Is(J, b, I.blocks[b].code, I.blocks[b].successors, I.blocks[b].op,
                   I.blocks[b].larg, I.blocks[b].rarg, TRUE)
<1> DEFINE r == [I.blocks[b] EXCEPT !.will_return = TRUE]
<1>1. I.blocks[b] \in BasicBlocks
  BY BlockFields
<1>2. /\ r \in BasicBlocks
      /\ r.code = I.blocks[b].code /\ r.successors = I.blocks[b].successors
      /\ r.op = I.blocks[b].op /\ r.larg = I.blocks[b].larg /\ r.rarg = I.blocks[b].rarg
      /\ r.will_return = TRUE
  BY <1>1 DEF BasicBlocks
<1>3. set_return(I, b) = [I EXCEPT !.blocks[b] = r]
  BY DEF set_return
<1> HIDE DEF r
<1> DEFINE J == [I EXCEPT !.blocks[b] = r]
<1>4. /\ IRType(J) /\ J.size = I.size /\ OnlyIn(I, J, {b})
      /\ Is(J, b, r.code, r.successors, r.op, r.larg, r.rarg, r.will_return)
  BY <1>2, ReplaceBlock
<1> HIDE DEF J
<1> QED
  BY <1>2, <1>3, <1>4 DEF J

LEMMA SetBranchLocationEffect ==
  ASSUME NEW I, IRType(I), NEW b \in 0..(I.size - 1), NEW t \in Int
  PROVE  LET J == set_branch_location(I, b, t)
         IN  /\ IRType(J) /\ J.size = I.size /\ OnlyIn(I, J, {b})
             /\ Is(J, b, I.blocks[b].code, I.blocks[b].successors, I.blocks[b].op,
                   I.blocks[b].larg, t, I.blocks[b].will_return)
<1> DEFINE r == [I.blocks[b] EXCEPT !.rarg = t]
<1>1. I.blocks[b] \in BasicBlocks
  BY BlockFields
<1>2. /\ r \in BasicBlocks
      /\ r.code = I.blocks[b].code /\ r.successors = I.blocks[b].successors
      /\ r.op = I.blocks[b].op /\ r.larg = I.blocks[b].larg /\ r.rarg = t
      /\ r.will_return = I.blocks[b].will_return
  BY <1>1 DEF BasicBlocks
<1>3. set_branch_location(I, b, t) = [I EXCEPT !.blocks[b] = r]
  BY DEF set_branch_location
<1> HIDE DEF r
<1> DEFINE J == [I EXCEPT !.blocks[b] = r]
<1>4. /\ IRType(J) /\ J.size = I.size /\ OnlyIn(I, J, {b})
      /\ Is(J, b, r.code, r.successors, r.op, r.larg, r.rarg, r.will_return)
  BY <1>2, ReplaceBlock
<1> HIDE DEF J
<1> QED
  BY <1>2, <1>3, <1>4 DEF J

LEMMA SetBranchCondEffect ==
  ASSUME NEW I, IRType(I), NEW b \in 0..(I.size - 1), NEW op \in BranchOp, NEW t \in Int,
         ~will_return(I, b)
  PROVE  LET J == set_branch_cond(I, b, op, t)
         IN  /\ IRType(J) /\ J.size = I.size /\ OnlyIn(I, J, {b})
             /\ Is(J, b, I.blocks[b].code, I.blocks[b].successors, op, t,
                   I.blocks[b].rarg, op = "RET")
<1> DEFINE r == [I.blocks[b] EXCEPT !.op = op, !.larg = t, !.will_return = (op = "RET")]
<1>1. I.blocks[b] \in BasicBlocks
  BY BlockFields
<1>2. /\ r \in BasicBlocks
      /\ r.code = I.blocks[b].code /\ r.successors = I.blocks[b].successors
      /\ r.op = op /\ r.larg = t /\ r.rarg = I.blocks[b].rarg
      /\ r.will_return = (op = "RET")
  BY <1>1 DEF BasicBlocks
<1>3. set_branch_cond(I, b, op, t) = [I EXCEPT !.blocks[b] = r]
  BY DEF set_branch_cond
<1> HIDE DEF r
<1> DEFINE J == [I EXCEPT !.blocks[b] = r]
<1>4. /\ IRType(J) /\ J.size = I.size /\ OnlyIn(I, J, {b})
      /\ Is(J, b, r.code, r.successors, r.op, r.larg, r.rarg, r.will_return)
  BY <1>2, ReplaceBlock
<1> HIDE DEF J
<1> QED
  BY <1>2, <1>3, <1>4 DEF J

LEMMA UpdatePhiEffect ==
  ASSUME NEW I, IRType(I), NEW h \in 0..(I.size - 1), NEW w \in 0..(I.size - 1)
  PROVE  LET J == update_phi(I, h, w)
         IN  IRType(J) /\ J.size = I.size /\ OnlyIn(I, J, {})
<1> DEFINE r == [I.blocks[h] EXCEPT !.branch_block = w]
           J == [I EXCEPT !.blocks[h] = r]
           q == [J.blocks[w] EXCEPT !.loop_header = h]
           K == [J EXCEPT !.blocks[w] = q]
<1>1. h \in Int /\ w \in Int /\ I.size \in Nat
  BY DEF IRType
<1>2. /\ r \in BasicBlocks
      /\ r.code = I.blocks[h].code /\ r.successors = I.blocks[h].successors
      /\ r.op = I.blocks[h].op /\ r.larg = I.blocks[h].larg /\ r.rarg = I.blocks[h].rarg
      /\ r.will_return = I.blocks[h].will_return
  BY <1>1, BlockFields DEF BasicBlocks
<1>3. update_phi(I, h, w) = K
  BY DEF update_phi
<1> HIDE DEF r, K
<1>4. /\ IRType(J) /\ J.size = I.size /\ OnlyIn(I, J, {h})
      /\ Is(J, h, r.code, r.successors, r.op, r.larg, r.rarg, r.will_return)
  BY <1>2, ReplaceBlock
<1> HIDE DEF J
<1>5. OnlyIn(I, J, {})
  BY <1>2, <1>4 DEF OnlyIn, Alike, Is
<1>6. /\ q \in BasicBlocks
      /\ q.code = J.blocks[w].code /\ q.successors = J.blocks[w].successors
      /\ q.op = J.blocks[w].op /\ q.larg = J.blocks[w].larg /\ q.rarg = J.blocks[w].rarg
      /\ q.will_return = J.blocks[w].will_return
  <2>1. J.blocks[w] \in BasicBlocks
    BY <1>4, BlockFields
  <2> QED
    BY <1>1, <2>1 DEF BasicBlocks
<1> HIDE DEF q
<1>7. /\ IRType(K) /\ K.size = J.size /\ OnlyIn(J, K, {w})
      /\ Is(K, w, q.code, q.successors, q.op, q.larg, q.rarg, q.will_return)
  <2> DEFINE L == [J EXCEPT !.blocks[w] = q]
  <2>1. w \in 0..(J.size - 1)
    BY <1>4
  <2>3. K = L
    BY DEF K
  <2>2. /\ IRType(L) /\ L.size = J.size /\ OnlyIn(J, L, {w})
        /\ Is(L, w, q.code, q.successors, q.op, q.larg, q.rarg, q.will_return)
    BY <1>4, <1>6, <2>1, ReplaceBlock
  <2> HIDE DEF L
  <2> QED
    BY <2>2, <2>3
<1>8. OnlyIn(J, K, {})
  BY <1>4, <1>6, <1>7 DEF OnlyIn, Alike, Is
<1>9. OnlyIn(I, K, {})
  BY <1>1, <1>4, <1>5, <1>7, <1>8 DEF OnlyIn, Alike
<1> QED
  BY <1>3, <1>4, <1>7, <1>9

\* Block b with one more successor.
OneMore(I, J, b) ==
  Is(J, b, I.blocks[b].code, Append(I.blocks[b].successors, I.size), I.blocks[b].op,
     I.blocks[b].larg, I.blocks[b].rarg, I.blocks[b].will_return)

LEMMA NewBlockEffect ==
  ASSUME NEW I, IRType(I), NEW t \in Blocktype, NEW ps \in Seq(Nat), NEW idom \in Nat
  PROVE  LET J == new_block_helper(I, t, ps, idom)
         IN  /\ IRType(J) /\ J.size = I.size + 1 /\ OnlyIn(I, J, Range(ps))
             /\ Fresh(J, I.size)
             /\ \A p \in Range(ps) : p \in 0..(I.size - 1) => OneMore(I, J, p)
<1> DEFINE J == new_block_helper(I, t, ps, idom)
           fresh == BasicBlock(t, ps)
           old(b) == IF b \in Range(ps)
                       THEN [I.blocks[b] EXCEPT !.successors = Append(I.blocks[b].successors, I.size)]
                       ELSE I.blocks[b]
<1>1. /\ I.size \in Nat \ {0} /\ I.doms \in [0..(I.size - 1) -> Nat]
      /\ \A b \in 0..(I.size - 1) : I.blocks[b] \in BasicBlocks
  BY DEF IRType
<1>2. /\ J.size = I.size + 1
      /\ J.blocks = [b \in 0..I.size |-> IF b = I.size THEN fresh ELSE old(b)]
      /\ J.doms = [b \in 0..I.size |-> IF b = I.size THEN idom ELSE I.doms[b]]
      /\ J = [size |-> J.size, blocks |-> J.blocks, doms |-> J.doms]
  BY DEF new_block_helper
<1>3. /\ fresh \in BasicBlocks
      /\ fresh.code = <<>> /\ fresh.successors = <<>> /\ fresh.op = "EMPTY"
      /\ fresh.larg = None /\ fresh.rarg = None /\ fresh.will_return = FALSE
  BY DEF BasicBlock, BasicBlocks, BranchOp, None
<1>4. ASSUME NEW b \in 0..(I.size - 1)
      PROVE  /\ old(b) \in BasicBlocks
             /\ old(b).code = I.blocks[b].code
             /\ old(b).successors =
                  IF b \in Range(ps) THEN Append(I.blocks[b].successors, I.size)
                  ELSE I.blocks[b].successors
             /\ old(b).op = I.blocks[b].op /\ old(b).larg = I.blocks[b].larg
             /\ old(b).rarg = I.blocks[b].rarg
             /\ old(b).will_return = I.blocks[b].will_return
  <2> DEFINE q == Append(I.blocks[b].successors, I.size)
  <2>1. I.blocks[b] \in BasicBlocks /\ q \in Seq(Nat)
    <3>1. I.blocks[b].successors \in Seq(Nat) /\ I.size \in Nat
      BY <1>1, BlockFields
    <3> QED
      BY <1>1, <3>1
  <2> HIDE DEF q
  <2>2. CASE b \in Range(ps)
    <3>1. old(b) = [I.blocks[b] EXCEPT !.successors = q]
      BY <2>2 DEF q
    <3> HIDE DEF old
    <3>2. /\ old(b) \in BasicBlocks
          /\ old(b).code = I.blocks[b].code /\ old(b).successors = q
          /\ old(b).op = I.blocks[b].op /\ old(b).larg = I.blocks[b].larg
          /\ old(b).rarg = I.blocks[b].rarg
          /\ old(b).will_return = I.blocks[b].will_return
      BY <2>1, <3>1 DEF BasicBlocks
    <3> QED
      BY <2>2, <3>2 DEF q
  <2>3. CASE b \notin Range(ps)
    BY <1>1, <2>3
  <2> QED
    BY <2>2, <2>3
<1> HIDE DEF fresh, old
<1>5. J.blocks[I.size] = fresh /\ \A b \in 0..(I.size - 1) : J.blocks[b] = old(b)
  BY <1>1, <1>2
<1>6. IRType(J)
  <2> HIDE DEF J
  <2>1. J.blocks \in [0..I.size -> BasicBlocks]
    <3> DEFINE new(b) == IF b = I.size THEN fresh ELSE old(b)
    <3>1. \A b \in 0..I.size : b = I.size \/ b \in 0..(I.size - 1)
      BY <1>1
    <3>2. \A b \in 0..I.size : new(b) \in BasicBlocks
      BY <1>3, <1>4, <3>1
    <3>3. J.blocks = [b \in 0..I.size |-> new(b)]
      BY <1>2
    <3> HIDE DEF new
    <3> QED
      BY <3>2, <3>3
  <2>2. J.doms \in [0..I.size -> Nat]
    <3>1. \A b \in 0..I.size : b = I.size \/ b \in 0..(I.size - 1)
      BY <1>1
    <3>2. \A b \in 0..I.size : (IF b = I.size THEN idom ELSE I.doms[b]) \in Nat
      BY <1>1, <3>1
    <3>3. J.doms = [b \in 0..I.size |-> IF b = I.size THEN idom ELSE I.doms[b]]
      BY <1>2
    <3> QED
      BY <3>2, <3>3
  <2>3. J.size \in Nat \ {0} /\ J.size - 1 = I.size
    <3>1. J.size = I.size + 1 /\ I.size \in Nat
      BY <1>1, <1>2
    <3> QED
      BY <3>1
  <2>4. J = [size |-> J.size, blocks |-> J.blocks, doms |-> J.doms]
    BY <1>2
  <2> QED
    BY <2>1, <2>2, <2>3, <2>4 DEF IRType
<1>7. OnlyIn(I, J, Range(ps))
  BY <1>4, <1>5 DEF OnlyIn, Alike
<1>8. \A p \in Range(ps) : p \in 0..(I.size - 1) => OneMore(I, J, p)
  BY <1>4, <1>5 DEF OneMore, Is
<1>9. Fresh(J, I.size)
  BY <1>3, <1>5 DEF Fresh, Is
<1> QED
  BY <1>2, <1>6, <1>7, <1>8, <1>9

LEMMA new_blockEffect ==
  ASSUME NEW I, IRType(I), NEW p \in 0..(I.size - 1), NEW t \in Blocktype \union {"LOOP_HEADER"}
  PROVE  LET J == new_block(I, p, t)
         IN  /\ IRType(J) /\ J.size = I.size + 1 /\ OnlyIn(I, J, {p})
             /\ Fresh(J, I.size) /\ OneMore(I, J, p)
<1> DEFINE ps == <<p>>
           type == IF t = "LOOP_HEADER" THEN "INVALID" ELSE t
           J == new_block_helper(I, type, ps, p)
<1>1. p \in Nat
  BY DEF IRType
<1>2. ps \in Seq(Nat) /\ Range(ps) = {p} /\ type \in Blocktype
  <2>1. DOMAIN ps = {1}
    OBVIOUS
  <2> QED
    BY <1>1, <2>1 DEF Range, Blocktype
<1> HIDE DEF ps, type
<1>3. /\ IRType(J) /\ J.size = I.size + 1 /\ OnlyIn(I, J, Range(ps))
      /\ Fresh(J, I.size)
      /\ \A q \in Range(ps) : q \in 0..(I.size - 1) => OneMore(I, J, q)
  BY <1>1, <1>2, NewBlockEffect
<1> HIDE DEF J
<1>4. new_block(I, p, t) = J
  BY DEF new_block, J, ps, type
<1> QED
  BY <1>2, <1>3, <1>4

LEMMA new_joinEffect ==
  ASSUME NEW I, IRType(I), NEW p1 \in 0..(I.size - 1), NEW p2 \in 0..(I.size - 1),
         NEW idom \in Nat
  PROVE  LET J == new_join(I, p1, p2, idom)
         IN  /\ IRType(J) /\ J.size = I.size + 1 /\ OnlyIn(I, J, {p1, p2})
             /\ Fresh(J, I.size) /\ OneMore(I, J, p1) /\ OneMore(I, J, p2)
<1> DEFINE ps == <<p1, p2>>
           J == new_block_helper(I, "JOIN", ps, idom)
<1>1. p1 \in Nat /\ p2 \in Nat
  BY DEF IRType
<1>2. ps \in Seq(Nat) /\ Range(ps) = {p1, p2} /\ "JOIN" \in Blocktype
  <2>1. DOMAIN ps = {1, 2}
    OBVIOUS
  <2> QED
    BY <1>1, <2>1 DEF Range, Blocktype
<1> HIDE DEF ps
<1>3. /\ IRType(J) /\ J.size = I.size + 1 /\ OnlyIn(I, J, Range(ps))
      /\ Fresh(J, I.size)
      /\ \A q \in Range(ps) : q \in 0..(I.size - 1) => OneMore(I, J, q)
  BY <1>1, <1>2, NewBlockEffect
<1> HIDE DEF J
<1>4. new_join(I, p1, p2, idom) = J
  BY DEF new_join, J, ps
<1> QED
  BY <1>2, <1>3, <1>4

-----------------------------------------------------------------------------
(* What the handlers do to them.                                           *)

LEMMA SizeGrows ==
  ASSUME NEW I, IRType(I), NEW J, J.size = I.size + 1
  PROVE  /\ I.size \in Nat \ {0} /\ J.size \in Nat /\ I.size <= J.size
         /\ I.size \in 0..(J.size - 1) /\ I.size \notin 0..(I.size - 1)
         /\ \A b \in 0..(I.size - 1) : b \in 0..(J.size - 1) /\ b # I.size /\ b \in Nat
<1>1. I.size \in Nat \ {0}
  BY DEF IRType
<1> QED
  BY <1>1

\* A statement that ends in a branch instruction.
LEMMA EmitEffect ==
  ASSUME NEW I, IRType(I), NEW c \in 0..(I.size - 1), ~will_return(I, c),
         NEW k \in Nat, NEW op \in BranchOp
  PROVE  LET K == set_branch_cond(add_instruction(I, c, k), c, op, None)
         IN  /\ IRType(K) /\ K.size = I.size /\ OnlyIn(I, K, {c})
             /\ Is(K, c, Append(I.blocks[c].code, k), I.blocks[c].successors, op, None,
                   I.blocks[c].rarg, op = "RET")
<1> DEFINE J == add_instruction(I, c, k)
           K == set_branch_cond(J, c, op, None)
<1>1. /\ IRType(J) /\ J.size = I.size /\ OnlyIn(I, J, {c})
      /\ Is(J, c, Append(I.blocks[c].code, k), I.blocks[c].successors, I.blocks[c].op,
            I.blocks[c].larg, I.blocks[c].rarg, I.blocks[c].will_return)
  BY AddInstructionEffect
<1> HIDE DEF J
<1>2. /\ IRType(K) /\ K.size = J.size /\ OnlyIn(J, K, {c})
      /\ Is(K, c, J.blocks[c].code, J.blocks[c].successors, op, None,
            J.blocks[c].rarg, op = "RET")
  <2>1. c \in 0..(J.size - 1) /\ ~will_return(J, c) /\ None \in Int
    BY <1>1 DEF will_return, Is, None
  <2> QED
    BY <1>1, <2>1, SetBranchCondEffect
<1> HIDE DEF K
<1>3. OnlyIn(I, K, {c})
  <2>1. OnlyIn(I, J, {c}) /\ OnlyIn(J, K, {c})
    BY <1>1, <1>2
  <2>2. \A b \in 0..(I.size - 1) : b \notin {c} => b \in 0..(J.size - 1)
    <3>1. J.size = I.size
      BY <1>1, Zenon
    <3> QED
      BY <3>1
  <2> QED
    BY <2>1, <2>2, OnlyInTwice
<1> QED
  BY <1>1, <1>2, <1>3 DEF Is, J, K

LEMMA IfThenEffect ==
  ASSUME NEW I, IRType(I), NEW c \in 0..(I.size - 1), ~will_return(I, c), NEW k \in Nat
  PROVE  LET K == set_branch_cond(add_instruction(I, c, k), c, "Bcc", None)
             J == new_block(K, c, "IF_FALLTHROUGH")
         IN  /\ IRType(J) /\ J.size = I.size + 1 /\ K.size = I.size /\ OnlyIn(I, J, {c})
             /\ Is(J, c, Append(I.blocks[c].code, k), Append(I.blocks[c].successors, I.size),
                   "Bcc", None, I.blocks[c].rarg, FALSE)
             /\ Fresh(J, I.size)
<1> DEFINE K == set_branch_cond(add_instruction(I, c, k), c, "Bcc", None)
           J == new_block(K, c, "IF_FALLTHROUGH")
<1>1. /\ IRType(K) /\ K.size = I.size /\ OnlyIn(I, K, {c})
      /\ Is(K, c, Append(I.blocks[c].code, k), I.blocks[c].successors, "Bcc", None,
            I.blocks[c].rarg, "Bcc" = "RET")
  BY EmitEffect DEF BranchOp
<1> HIDE DEF K
<1>2. /\ IRType(J) /\ J.size = K.size + 1 /\ OnlyIn(K, J, {c})
      /\ Fresh(J, K.size) /\ OneMore(K, J, c)
  <2>1. c \in 0..(K.size - 1) /\ "IF_FALLTHROUGH" \in Blocktype \union {"LOOP_HEADER"}
    BY <1>1 DEF Blocktype
  <2> QED
    BY <1>1, <2>1, new_blockEffect
<1> HIDE DEF J
<1>3. OnlyIn(I, J, {c})
  BY <1>1, <1>2 DEF OnlyIn, Alike
<1> QED
  BY <1>1, <1>2, <1>3 DEF Is, OneMore, J, K

LEMMA JoinEffect ==
  ASSUME NEW I, IRType(I), NEW cond \in Nat, NEW t \in 0..(I.size - 1),
         NEW e \in 0..(I.size - 1), t # e, ~will_return(I, t)
  PROVE  LET K == join(I, cond, t, e)
         IN  /\ IRType(K) /\ K.size = I.size + 1 /\ OnlyIn(I, K, {t, e})
             /\ Is(K, t, I.blocks[t].code, Append(I.blocks[t].successors, I.size), "BRA", I.size,
                   I.blocks[t].rarg, FALSE)
             /\ OneMore(I, K, e) /\ Fresh(K, I.size)
<1> DEFINE J == new_join(I, t, e, cond)
           K == set_branch_cond(J, t, "BRA", I.size)
<1>1. /\ IRType(J) /\ J.size = I.size + 1 /\ OnlyIn(I, J, {t, e})
      /\ Fresh(J, I.size) /\ OneMore(I, J, t) /\ OneMore(I, J, e)
  BY new_joinEffect
<1> HIDE DEF J
<1>2. /\ I.size \in Nat /\ t \in 0..(J.size - 1) /\ t # I.size /\ e # I.size
      /\ e \in 0..(J.size - 1) /\ I.size \in 0..(J.size - 1)
      /\ \A b \in 0..(I.size - 1) : b \in 0..(J.size - 1)
  BY <1>1, SizeGrows
<1>3. /\ IRType(K) /\ K.size = J.size /\ OnlyIn(J, K, {t})
      /\ Is(K, t, J.blocks[t].code, J.blocks[t].successors, "BRA", I.size,
            J.blocks[t].rarg, "BRA" = "RET")
  <2>1. ~will_return(J, t) /\ I.size \in Int /\ "BRA" \in BranchOp
    BY <1>1, <1>2 DEF will_return, OneMore, Is, BranchOp
  <2> QED
    BY <1>1, <1>2, <2>1, SetBranchCondEffect
<1> HIDE DEF K
<1>4. OnlyIn(I, K, {t, e})
  <2>1. OnlyIn(I, J, {t, e}) /\ OnlyIn(J, K, {t})
    BY <1>1, <1>3
  <2>2. \A b \in 0..(I.size - 1) : b \notin {t, e} =>
          b \in 0..(J.size - 1) /\ b \notin {t, e} /\ b \notin {t}
    <3>1. \A b \in 0..(I.size - 1) : b \in 0..(J.size - 1)
      BY <1>2, Zenon
    <3> QED
      BY <3>1
  <2> QED
    BY <2>1, <2>2, OnlyInTwice
<1>5. OneMore(I, K, e) /\ Fresh(K, I.size)
  BY <1>1, <1>2, <1>3 DEF OnlyIn, Alike, OneMore, Fresh, Is
<1>6. Is(K, t, I.blocks[t].code, Append(I.blocks[t].successors, I.size), "BRA", I.size,
         I.blocks[t].rarg, FALSE)
  BY <1>1, <1>3 DEF OneMore, Is
<1> QED
  BY <1>1, <1>3, <1>4, <1>5, <1>6 DEF join, J, K

\* The end w of a loop body jumps back to the header h, unless it returns.
JumpsTo(I, J, w, h) ==
  IF will_return(I, w) THEN Alike(I, J, w)
  ELSE Is(J, w, I.blocks[w].code, I.blocks[w].successors, "BRA", h, I.blocks[w].rarg, FALSE)

LEMMA CloseLoopEffect ==
  ASSUME NEW I, IRType(I), NEW h \in 0..(I.size - 1), NEW w \in 0..(I.size - 1)
  PROVE  LET K == close_loop(I, h, w)
         IN  IRType(K) /\ K.size = I.size /\ OnlyIn(I, K, {w}) /\ JumpsTo(I, K, w, h)
<1> DEFINE J == update_phi(I, h, w)
           K == set_branch_cond(J, w, "BRA", h)
<1>1. IRType(J) /\ J.size = I.size /\ OnlyIn(I, J, {})
  BY UpdatePhiEffect
<1> HIDE DEF J
<1>2. Alike(I, J, w) /\ w \in 0..(J.size - 1) /\ h \in Int /\ "BRA" \in BranchOp
  BY <1>1 DEF OnlyIn, IRType, BranchOp
<1>3. IRType(K) /\ K.size = I.size /\ OnlyIn(I, K, {w}) /\ JumpsTo(I, K, w, h)
  <2>1. CASE will_return(J, w)
    <3>1. K = J
      BY <2>1 DEF set_branch_cond
    <3> HIDE DEF K
    <3> QED
      BY <1>1, <1>2, <2>1, <3>1 DEF JumpsTo, will_return, Alike, OnlyIn
  <2>2. CASE ~will_return(J, w)
    <3>1. /\ IRType(K) /\ K.size = J.size /\ OnlyIn(J, K, {w})
          /\ Is(K, w, J.blocks[w].code, J.blocks[w].successors, "BRA", h,
                J.blocks[w].rarg, "BRA" = "RET")
      BY <1>1, <1>2, <2>2, SetBranchCondEffect
    <3> HIDE DEF K
    <3>2. OnlyIn(I, K, {w})
      BY <1>1, <3>1 DEF OnlyIn, Alike
    <3> QED
      BY <1>1, <1>2, <2>2, <3>1, <3>2 DEF JumpsTo, will_return, Alike, Is
  <2> QED
    BY <2>1, <2>2
<1> HIDE DEF K
<1> QED
  BY <1>3 DEF close_loop, J, K

LEMMA BranchEffect ==
  ASSUME NEW I, IRType(I), NEW h \in 0..(I.size - 1), NEW w \in 0..(I.size - 1), w # h
  PROVE  LET L == branch(I, h, w)
         IN  /\ IRType(L) /\ L.size = I.size + 1 /\ OnlyIn(I, L, {h, w})
             /\ JumpsTo(I, L, w, h) /\ Fresh(L, I.size)
             /\ Is(L, h, I.blocks[h].code, Append(I.blocks[h].successors, I.size),
                   I.blocks[h].op, I.blocks[h].larg, I.size, I.blocks[h].will_return)
<1> DEFINE J == close_loop(I, h, w)
           K == new_block(J, h, "WHILE_BRANCH")
           L == set_branch_location(K, h, J.size)
<1>1. IRType(J) /\ J.size = I.size /\ OnlyIn(I, J, {w}) /\ JumpsTo(I, J, w, h)
  BY CloseLoopEffect
<1> HIDE DEF J
<1>2. /\ IRType(K) /\ K.size = J.size + 1 /\ OnlyIn(J, K, {h})
      /\ Fresh(K, J.size) /\ OneMore(J, K, h)
  <2>1. h \in 0..(J.size - 1) /\ "WHILE_BRANCH" \in Blocktype \union {"LOOP_HEADER"}
    BY <1>1 DEF Blocktype
  <2> QED
    BY <1>1, <2>1, new_blockEffect
<1> HIDE DEF K
<1>3. /\ I.size \in Int /\ h \in 0..(K.size - 1) /\ h # I.size /\ w # I.size
      /\ w \in 0..(K.size - 1) /\ I.size \in 0..(K.size - 1)
      /\ \A b \in 0..(I.size - 1) : b \in 0..(K.size - 1) /\ b \in 0..(J.size - 1)
  BY <1>1, <1>2, SizeGrows
<1>4. /\ IRType(L) /\ L.size = K.size /\ OnlyIn(K, L, {h})
      /\ Is(L, h, K.blocks[h].code, K.blocks[h].successors, K.blocks[h].op,
            K.blocks[h].larg, J.size, K.blocks[h].will_return)
  BY <1>1, <1>2, <1>3, SetBranchLocationEffect
<1> HIDE DEF L
<1>5. OnlyIn(I, L, {h, w})
  BY <1>1, <1>2, <1>3, <1>4 DEF OnlyIn, Alike
<1>6. Alike(J, L, w)
  BY <1>1, <1>2, <1>3, <1>4 DEF OnlyIn, Alike
<1>7. JumpsTo(I, L, w, h)
  BY <1>1, <1>6 DEF JumpsTo, Alike, Is
<1>8. Fresh(L, I.size)
  BY <1>1, <1>2, <1>3, <1>4 DEF OnlyIn, Alike, Fresh, Is
<1>9. Alike(I, J, h)
  BY <1>1 DEF OnlyIn
<1>10. Is(L, h, I.blocks[h].code, Append(I.blocks[h].successors, I.size),
          I.blocks[h].op, I.blocks[h].larg, I.size, I.blocks[h].will_return)
  BY <1>1, <1>2, <1>4, <1>9 DEF OneMore, Is, Alike
<1> QED
  BY <1>1, <1>2, <1>4, <1>5, <1>7, <1>8, <1>10 DEF branch, J, K, L

\* The header of a loop, whose relation is r.
Header(I, c, k, r) ==
  LET H == add_instruction(new_block(I, c, "LOOP_HEADER"), I.size, k)
  IN  IF r = "NEITHER" THEN set_branch_cond(H, I.size, "Bcc", None) ELSE H

HeaderOp(r) == IF r = "NEITHER" THEN "Bcc" ELSE "EMPTY"

LEMMA HeaderEffect ==
  ASSUME NEW I, IRType(I), NEW c \in 0..(I.size - 1), NEW k \in Nat, NEW r
  PROVE  LET H == Header(I, c, k, r)
         IN  /\ IRType(H) /\ H.size = I.size + 1 /\ OnlyIn(I, H, {c}) /\ OneMore(I, H, c)
             /\ Is(H, I.size, <<k>>, <<>>, HeaderOp(r), None, None, FALSE)
<1> DEFINE J == new_block(I, c, "LOOP_HEADER")
           H == add_instruction(J, I.size, k)
           K == set_branch_cond(H, I.size, "Bcc", None)
<1>1. /\ IRType(J) /\ J.size = I.size + 1 /\ OnlyIn(I, J, {c})
      /\ Fresh(J, I.size) /\ OneMore(I, J, c)
  BY new_blockEffect
<1> HIDE DEF J
<1>2. /\ I.size \in 0..(J.size - 1) /\ c # I.size /\ c \in 0..(J.size - 1)
      /\ \A b \in 0..(I.size - 1) : b \in 0..(J.size - 1) /\ b # I.size
  BY <1>1, SizeGrows
<1>3. /\ IRType(H) /\ H.size = J.size /\ OnlyIn(J, H, {I.size})
      /\ Is(H, I.size, Append(J.blocks[I.size].code, k), J.blocks[I.size].successors,
            J.blocks[I.size].op, J.blocks[I.size].larg, J.blocks[I.size].rarg,
            J.blocks[I.size].will_return)
  BY <1>1, <1>2, AddInstructionEffect
<1> HIDE DEF H
<1>4. Is(H, I.size, <<k>>, <<>>, "EMPTY", None, None, FALSE)
  <2>1. Append(<<>>, k) = <<k>>
    OBVIOUS
  <2> QED
    BY <1>1, <1>3, <2>1 DEF Fresh, Is
<1>5. OnlyIn(I, H, {c}) /\ OneMore(I, H, c)
  <2>1. OnlyIn(I, H, {c})
    BY <1>1, <1>2, <1>3 DEF OnlyIn, Alike
  <2>2. Alike(J, H, c)
    BY <1>2, <1>3 DEF OnlyIn
  <2> QED
    BY <1>1, <2>1, <2>2 DEF OneMore, Is, Alike
<1>6. CASE r = "NEITHER"
  <2>1. /\ IRType(K) /\ K.size = H.size /\ OnlyIn(H, K, {I.size})
        /\ Is(K, I.size, H.blocks[I.size].code, H.blocks[I.size].successors, "Bcc", None,
              H.blocks[I.size].rarg, "Bcc" = "RET")
    <3>1. ~will_return(H, I.size) /\ None \in Int /\ "Bcc" \in BranchOp
          /\ I.size \in 0..(H.size - 1)
      BY <1>2, <1>3, <1>4 DEF will_return, Is, None, BranchOp
    <3> QED
      BY <1>3, <3>1, SetBranchCondEffect
  <2> HIDE DEF K
  <2>2. \A b \in 0..(I.size - 1) : b \in 0..(H.size - 1) /\ b # I.size
    BY <1>2, <1>3
  <2>3. OnlyIn(I, K, {c}) /\ OneMore(I, K, c)
    <3>1. OnlyIn(I, K, {c})
      BY <1>5, <2>1, <2>2 DEF OnlyIn, Alike
    <3>2. Alike(H, K, c)
      BY <2>1, <2>2 DEF OnlyIn
    <3> QED
      BY <1>5, <3>1, <3>2 DEF OneMore, Is, Alike
  <2>4. Is(K, I.size, <<k>>, <<>>, HeaderOp(r), None, None, FALSE)
    BY <1>4, <1>6, <2>1 DEF Is, HeaderOp
  <2> QED
    BY <1>1, <1>3, <1>6, <2>1, <2>3, <2>4 DEF Header, H, J, K
<1>7. CASE r # "NEITHER"
  BY <1>1, <1>3, <1>4, <1>5, <1>7 DEF Header, HeaderOp, H, J
<1> QED
  BY <1>6, <1>7

LEMMA LoopEffect ==
  ASSUME NEW I, IRType(I), NEW c \in 0..(I.size - 1), NEW k \in Nat, NEW r
  PROVE  LET J == new_block(Header(I, c, k, r), I.size, "WHILE_FALLTHROUGH")
         IN  /\ IRType(J) /\ J.size = I.size + 2 /\ OnlyIn(I, J, {c}) /\ OneMore(I, J, c)
             /\ Is(J, I.size, <<k>>, <<I.size + 1>>, HeaderOp(r), None, None, FALSE)
             /\ Fresh(J, I.size + 1)
<1> DEFINE H == Header(I, c, k, r)
           J == new_block(H, I.size, "WHILE_FALLTHROUGH")
<1>1. /\ IRType(H) /\ H.size = I.size + 1 /\ OnlyIn(I, H, {c}) /\ OneMore(I, H, c)
      /\ Is(H, I.size, <<k>>, <<>>, HeaderOp(r), None, None, FALSE)
  BY HeaderEffect
<1> HIDE DEF H
<1>2. /\ I.size \in 0..(H.size - 1) /\ c # I.size /\ c \in 0..(H.size - 1)
      /\ \A b \in 0..(I.size - 1) : b \in 0..(H.size - 1) /\ b # I.size
      /\ I.size \in Nat
  BY <1>1, SizeGrows
<1>3. /\ IRType(J) /\ J.size = H.size + 1 /\ OnlyIn(H, J, {I.size})
      /\ Fresh(J, H.size) /\ OneMore(H, J, I.size)
  <2>1. "WHILE_FALLTHROUGH" \in Blocktype \union {"LOOP_HEADER"}
    BY DEF Blocktype
  <2> QED
    BY <1>1, <1>2, <2>1, new_blockEffect
<1> HIDE DEF J
<1>4. OnlyIn(I, J, {c}) /\ OneMore(I, J, c)
  <2>1. OnlyIn(I, J, {c})
    BY <1>1, <1>2, <1>3 DEF OnlyIn, Alike
  <2>2. Alike(H, J, c)
    BY <1>2, <1>3 DEF OnlyIn
  <2> QED
    BY <1>1, <2>1, <2>2 DEF OneMore, Is, Alike
<1>5. Is(J, I.size, <<k>>, <<I.size + 1>>, HeaderOp(r), None, None, FALSE)
  <2>1. \A x : Append(<<>>, x) = <<x>>
    OBVIOUS
  <2> QED
    BY <1>1, <1>3, <2>1 DEF OneMore, Is
<1>6. J.size = I.size + 2 /\ Fresh(J, I.size + 1)
  BY <1>1, <1>2, <1>3
<1> QED
  BY <1>3, <1>4, <1>5, <1>6 DEF H, J

LEMMA BeginEffect ==
  ASSUME NEW I, IRType(I), NEW k \in Nat
  PROVE  LET J == add_instruction(new_function(I), I.size, k)
         IN  /\ IRType(J) /\ J.size = I.size + 1 /\ OnlyIn(I, J, {0})
             /\ OneMore(I, J, 0)
             /\ Is(J, I.size, <<k>>, <<>>, "EMPTY", None, None, FALSE)
<1> DEFINE ps == <<0>>
           H == new_block_helper(I, "NONE", ps, 0)
           J == add_instruction(H, I.size, k)
<1>1. ps \in Seq(Nat) /\ Range(ps) = {0} /\ "NONE" \in Blocktype
  <2>1. DOMAIN ps = {1}
    OBVIOUS
  <2> QED
    BY <2>1 DEF Range, Blocktype
<1> HIDE DEF ps
<1>2. /\ IRType(H) /\ H.size = I.size + 1 /\ OnlyIn(I, H, Range(ps))
      /\ Fresh(H, I.size)
      /\ \A q \in Range(ps) : q \in 0..(I.size - 1) => OneMore(I, H, q)
  BY <1>1, NewBlockEffect
<1> HIDE DEF H
<1>3. /\ I.size \in 0..(H.size - 1) /\ 0 \in 0..(I.size - 1) /\ 0 \in 0..(H.size - 1)
      /\ \A b \in 0..(I.size - 1) : b \in 0..(H.size - 1) /\ b # I.size
  <2>1. I.size \in Nat \ {0}
    BY DEF IRType
  <2> QED
    BY <1>2, <2>1
<1>4. /\ IRType(J) /\ J.size = H.size /\ OnlyIn(H, J, {I.size})
      /\ Is(J, I.size, Append(H.blocks[I.size].code, k), H.blocks[I.size].successors,
            H.blocks[I.size].op, H.blocks[I.size].larg, H.blocks[I.size].rarg,
            H.blocks[I.size].will_return)
  BY <1>2, <1>3, AddInstructionEffect
<1> HIDE DEF J
<1>5. Is(J, I.size, <<k>>, <<>>, "EMPTY", None, None, FALSE)
  <2>1. Append(<<>>, k) = <<k>>
    OBVIOUS
  <2> QED
    BY <1>2, <1>4, <2>1 DEF Fresh, Is
<1>6. OnlyIn(I, J, {0})
  <2>1. \A b \in 0..(I.size - 1) : b \in 0..(H.size - 1) /\ b # I.size
    BY <1>2, <1>3
  <2> QED
    BY <1>1, <1>2, <1>4, <2>1, OnlyInTwice
<1>7. OneMore(I, J, 0)
  <2>1. OneMore(I, H, 0) /\ 0 \in 0..(H.size - 1) /\ 0 \notin {I.size}
    BY <1>1, <1>2, <1>3
  <2>2. Alike(H, J, 0)
    BY <1>4, <2>1 DEF OnlyIn
  <2> QED
    BY <2>1, <2>2 DEF OneMore, Is, Alike
<1> QED
  BY <1>2, <1>4, <1>5, <1>6, <1>7 DEF new_function, H, J, ps

\* At "fi" the branch that chose between the parts gets its second location.
ElseLocation(I, f) == IF f.result = "NEITHER" THEN f.og_else_block ELSE I.blocks[f.cond].rarg

Located(I, J, f, returns) ==
  Is(J, f.cond, I.blocks[f.cond].code, I.blocks[f.cond].successors, I.blocks[f.cond].op,
     I.blocks[f.cond].larg, ElseLocation(I, f), returns)

\* Both parts of an if return.
BothReturn(I, f, e, end) ==
  /\ end.returns /\ end.curr = f.cond
  /\ end.ir.size = I.size /\ OnlyIn(I, end.ir, {f.cond}) /\ Located(I, end.ir, f, TRUE)

\* Only the part that ends in block c goes on.
OneGoesOn(I, f, c, end) ==
  /\ ~end.returns /\ end.curr = c
  /\ end.ir.size = I.size /\ OnlyIn(I, end.ir, {f.cond})
  /\ Located(I, end.ir, f, I.blocks[f.cond].will_return)

\* Both do.
BothGoOn(I, f, e, end) ==
  /\ ~end.returns /\ end.curr = I.size
  /\ end.ir.size = I.size + 1 /\ OnlyIn(I, end.ir, {f.cond, f.then_block, e})
  /\ Located(I, end.ir, f, I.blocks[f.cond].will_return)
  /\ Is(end.ir, f.then_block, I.blocks[f.then_block].code,
        Append(I.blocks[f.then_block].successors, I.size), "BRA", I.size,
        I.blocks[f.then_block].rarg, FALSE)
  /\ OneMore(I, end.ir, e) /\ Fresh(end.ir, I.size)

LEMMA LocationEffect ==
  ASSUME NEW I, IRType(I), NEW f, f.cond \in 0..(I.size - 1), f.og_else_block \in Int,
         NEW J, J = IF f.result = "NEITHER"
                      THEN set_branch_location(I, f.cond, f.og_else_block) ELSE I
  PROVE  /\ IRType(J) /\ J.size = I.size /\ OnlyIn(I, J, {f.cond})
         /\ Located(I, J, f, I.blocks[f.cond].will_return)
         /\ \A b \in 0..(I.size - 1) : will_return(J, b) = will_return(I, b)
<1> DEFINE K == set_branch_location(I, f.cond, f.og_else_block)
<1>1. /\ IRType(K) /\ K.size = I.size /\ OnlyIn(I, K, {f.cond})
      /\ Is(K, f.cond, I.blocks[f.cond].code, I.blocks[f.cond].successors, I.blocks[f.cond].op,
            I.blocks[f.cond].larg, f.og_else_block, I.blocks[f.cond].will_return)
  BY SetBranchLocationEffect
<1>2. J = IF f.result = "NEITHER" THEN K ELSE I
  OBVIOUS
<1> HIDE DEF K
<1>3. OnlyIn(I, I, {f.cond}) /\ (f.result # "NEITHER" => Located(I, I, f, I.blocks[f.cond].will_return))
  BY DEF OnlyIn, Alike, Located, Is, ElseLocation
<1>4. f.result = "NEITHER" => Located(I, K, f, I.blocks[f.cond].will_return)
  BY <1>1 DEF Located, Is, ElseLocation
<1>5. /\ IRType(J) /\ J.size = I.size /\ OnlyIn(I, J, {f.cond})
      /\ Located(I, J, f, I.blocks[f.cond].will_return)
  BY <1>1, <1>2, <1>3, <1>4
<1>6. \A b \in 0..(I.size - 1) : will_return(J, b) = will_return(I, b)
  BY <1>5 DEF OnlyIn, Alike, Located, Is, will_return
<1> QED
  BY <1>5, <1>6

LEMMA IfEndEffect ==
  ASSUME NEW I, IRType(I), NEW f, f.cond \in 0..(I.size - 1), f.og_else_block \in Int,
         f.then_block \in 0..(I.size - 1), NEW e \in 0..(I.size - 1),
         f.result \in Relation,
         f.result = "NEITHER" => f.then_block # e /\ f.cond # e /\ f.cond # f.then_block
  PROVE  LET end == if_end(I, f, e)
             then_returns == will_return(I, f.then_block)
             else_returns == will_return(I, e)
         IN  /\ then_returns /\ else_returns => BothReturn(I, f, e, end)
             /\ ~(then_returns /\ else_returns) /\ (then_returns \/ f.result = "TRUE") =>
                  OneGoesOn(I, f, e, end)
             /\ ~then_returns /\ f.result # "TRUE" /\ (else_returns \/ f.result = "FALSE") =>
                  OneGoesOn(I, f, f.then_block, end)
             /\ ~then_returns /\ ~else_returns /\ f.result = "NEITHER" =>
                  BothGoOn(I, f, e, end)
<1> DEFINE J == IF f.result = "NEITHER"
                  THEN set_branch_location(I, f.cond, f.og_else_block) ELSE I
           K == set_return(J, f.cond)
           L == join(J, f.cond, f.then_block, e)
           end == if_end(I, f, e)
           then_returns == will_return(I, f.then_block)
           else_returns == will_return(I, e)
<1>1. /\ IRType(J) /\ J.size = I.size /\ OnlyIn(I, J, {f.cond})
      /\ Located(I, J, f, I.blocks[f.cond].will_return)
      /\ \A b \in 0..(I.size - 1) : will_return(J, b) = will_return(I, b)
  BY LocationEffect
<1>2. /\ then_returns /\ else_returns =>
           end = [ir |-> K, curr |-> f.cond, returns |-> TRUE]
      /\ ~(then_returns /\ else_returns) /\ (then_returns \/ f.result = "TRUE") =>
           end = [ir |-> J, curr |-> e, returns |-> FALSE]
      /\ ~then_returns /\ f.result # "TRUE" /\ (else_returns \/ f.result = "FALSE") =>
           end = [ir |-> J, curr |-> f.then_block, returns |-> FALSE]
      /\ ~then_returns /\ ~else_returns /\ f.result = "NEITHER" =>
           end = [ir |-> L, curr |-> J.size, returns |-> FALSE]
  <2> DEFINE tr == will_return(J, f.then_block)
             er == will_return(J, e)
  <2>1. tr = then_returns /\ er = else_returns
    BY <1>1
  <2>2. end = CASE tr /\ er -> [ir |-> K, curr |-> f.cond, returns |-> TRUE]
                [] ~(tr /\ er) /\ (tr \/ f.result = "TRUE") ->
                     [ir |-> J, curr |-> e, returns |-> FALSE]
                [] ~tr /\ f.result # "TRUE" /\ (er \/ f.result = "FALSE") ->
                     [ir |-> J, curr |-> f.then_block, returns |-> FALSE]
                [] OTHER -> [ir |-> L, curr |-> J.size, returns |-> FALSE]
    BY DEF if_end
  <2> HIDE DEF tr, er, end, J, K, L
  <2>3. ASSUME tr, er
        PROVE  end = [ir |-> K, curr |-> f.cond, returns |-> TRUE]
    BY <2>2, <2>3
  <2>4. ASSUME ~(tr /\ er), tr \/ f.result = "TRUE"
        PROVE  end = [ir |-> J, curr |-> e, returns |-> FALSE]
    BY <2>2, <2>4
  <2>5. ASSUME ~tr, f.result # "TRUE", er \/ f.result = "FALSE"
        PROVE  end = [ir |-> J, curr |-> f.then_block, returns |-> FALSE]
    BY <2>2, <2>5
  <2>6. ASSUME ~tr, ~er, f.result = "NEITHER"
        PROVE  end = [ir |-> L, curr |-> J.size, returns |-> FALSE]
    BY <2>2, <2>6
  <2> HIDE DEF then_returns, else_returns
  <2> QED
    BY <2>1, <2>3, <2>4, <2>5, <2>6
<1> HIDE DEF J, K, L, end, then_returns, else_returns
<1>3. BothReturn(I, f, e, [ir |-> K, curr |-> f.cond, returns |-> TRUE])
  <2>1. /\ IRType(K) /\ K.size = J.size /\ OnlyIn(J, K, {f.cond})
        /\ Is(K, f.cond, J.blocks[f.cond].code, J.blocks[f.cond].successors,
              J.blocks[f.cond].op, J.blocks[f.cond].larg, J.blocks[f.cond].rarg, TRUE)
    <3>1. f.cond \in 0..(J.size - 1)
      BY <1>1
    <3> QED
      BY <1>1, <3>1, SetReturnEffect DEF K
  <2>2. OnlyIn(I, K, {f.cond})
    BY <1>1, <2>1 DEF OnlyIn, Alike
  <2>3. Located(I, K, f, TRUE)
    BY <1>1, <2>1 DEF Located, Is
  <2> QED
    BY <1>1, <2>1, <2>2, <2>3 DEF BothReturn
<1>4. /\ OneGoesOn(I, f, e, [ir |-> J, curr |-> e, returns |-> FALSE])
      /\ OneGoesOn(I, f, f.then_block, [ir |-> J, curr |-> f.then_block, returns |-> FALSE])
  BY <1>1 DEF OneGoesOn
<1>5. ASSUME ~then_returns, f.result = "NEITHER"
      PROVE  BothGoOn(I, f, e, [ir |-> L, curr |-> J.size, returns |-> FALSE])
  <2> DEFINE t == f.then_block
  <2>1. /\ t \in 0..(J.size - 1) /\ e \in 0..(J.size - 1) /\ t # e /\ ~will_return(J, t)
        /\ f.cond \in Nat /\ f.cond # t /\ f.cond # e
    BY <1>1, <1>5 DEF then_returns
  <2> HIDE DEF t
  <2>2. /\ IRType(L) /\ L.size = J.size + 1 /\ OnlyIn(J, L, {t, e})
        /\ Is(L, t, J.blocks[t].code, Append(J.blocks[t].successors, J.size), "BRA", J.size,
              J.blocks[t].rarg, FALSE)
        /\ OneMore(J, L, e) /\ Fresh(L, J.size)
    <3> DEFINE M == join(J, f.cond, t, e)
    <3>1. /\ IRType(M) /\ M.size = J.size + 1 /\ OnlyIn(J, M, {t, e})
          /\ Is(M, t, J.blocks[t].code, Append(J.blocks[t].successors, J.size), "BRA", J.size,
                J.blocks[t].rarg, FALSE)
          /\ OneMore(J, M, e) /\ Fresh(M, J.size)
      BY <1>1, <2>1, JoinEffect
    <3> HIDE DEF M
    <3> QED
      BY <3>1 DEF L, M, t
  <2>3. Alike(I, J, t) /\ Alike(I, J, e) /\ Alike(J, L, f.cond)
    BY <1>1, <2>1, <2>2 DEF OnlyIn
  <2>4. OnlyIn(I, L, {f.cond, t, e})
    BY <1>1, <2>2 DEF OnlyIn, Alike
  <2>5. Located(I, L, f, I.blocks[f.cond].will_return)
    BY <1>1, <2>3 DEF Located, Is, Alike
  <2>6. Is(L, t, I.blocks[t].code, Append(I.blocks[t].successors, I.size), "BRA", I.size,
           I.blocks[t].rarg, FALSE)
    BY <1>1, <2>2, <2>3 DEF Is, Alike
  <2>7. OneMore(I, L, e) /\ Fresh(L, I.size)
    BY <1>1, <2>2, <2>3 DEF OneMore, Is, Alike
  <2> QED
    BY <1>1, <2>2, <2>4, <2>5, <2>6, <2>7 DEF BothGoOn, t
<1> QED
  BY <1>2, <1>3, <1>4, <1>5 DEF end, then_returns, else_returns


-----------------------------------------------------------------------------
(* The activations and the constructs of the source.                       *)

Exits == Nat \X {"next", "then", "else"}

Constructs == [point : Nat, alt : SUBSET Exits, out : SUBSET Exits]

\* A block that execution can fall out of and that leads nowhere yet.
Ready(I, b) ==
  I.blocks[b].op = "EMPTY" /\ ~will_return(I, b) /\ I.blocks[b].successors = <<>>

\* The handler is in a part that is never executed.
DeadPart(f) ==
  \/ ~Live(f)
  \/ (f.result = "TRUE" /\ ~f.in_else)
  \/ (f.result = "FALSE" /\ f.in_else)

\* Such a part is ignored to its end, and so is all it contains.
DeadInside(q, flag, c) ==
  \A i \in 1..Len(q) : DeadPart(q[i]) =>
    /\ flag
    /\ Live(q[i]) => c = q[i].cond
    /\ \A j \in (i + 1)..Len(q) : ~Live(q[j])

\* What an activation knows of the blocks it remembers, given the ways out of
\* the source it stands for.
PartFlow(I, f, n) ==
  /\ ~Live(f) => n.alt = {} /\ n.out = {}
  /\ Live(f) /\ f.result = "NEITHER" => I.blocks[f.cond].op = "Bcc"
  /\ Live(f) /\ ~f.in_else =>
       /\ n.out = {}
       /\ n.alt = {} <=> f.result = "FALSE"
       /\ f.result = "TRUE" => Ready(I, f.cond)
  /\ Live(f) /\ f.in_else =>
       /\ f.kind = "if"
       /\ n.alt = {}
       /\ f.result = "TRUE" => n.out = {} /\ f.then_block = f.cond
       /\ f.result # "TRUE" =>
            IF n.out = {} THEN will_return(I, f.then_block) ELSE Ready(I, f.then_block)

PartsFlow(I, q, n) == Len(n) = Len(q) /\ \A i \in 1..Len(q) : PartFlow(I, q[i], n[i])

Forever(f) == Live(f) /\ f.kind = "while" /\ f.result = "FALSE"

ForeverOutermost(q) == \A i \in 1..Len(q) : Forever(q[i]) => i = 1

\* Parsing appends to the current block, or ignores what follows a return.
Runs(q) == \E i \in 1..Len(q) : Live(q[i])
NoneDead(q) == \A i \in 1..Len(q) : Live(q[i]) => ~DeadPart(q[i])

CurrFlow(I, q, c, flag) ==
  /\ ~flag => Ready(I, c)
  /\ flag /\ Runs(q) /\ NoneDead(q) => will_return(I, c)

FlowOf(I, q, n, c, flag) ==
  /\ PartsFlow(I, q, n)
  /\ DeadInside(q, flag, c)
  /\ ForeverOutermost(q)
  /\ CurrFlow(I, q, c, flag)

FlowInv ==
  /\ EInv
  /\ open \in SUBSET Exits /\ nest \in Seq(Constructs)
  /\ Parsing => FlowOf(ir, frames, nest, curr_block, ignore) /\ (ignore <=> open = {})
  /\ ~Parsing => ~ignore

\* The blocks an activation still relies on.
Remembers(f, b) ==
  \/ b = f.cond /\ (Entered(f) \/ (Live(f) /\ f.result = "TRUE" /\ ~f.in_else))
  \/ b = f.then_block /\ Kept(f)

LEMMA PartStays ==
  ASSUME NEW I, NEW J, NEW f, NEW n, PartFlow(I, f, n),
         \A b : Remembers(f, b) => Alike(I, J, b)
  PROVE  PartFlow(J, f, n)
<1>1. Live(f) /\ (f.result = "NEITHER" \/ (f.result = "TRUE" /\ ~f.in_else)) =>
        Alike(I, J, f.cond)
  BY DEF Remembers, Entered, Branching
<1>2. Live(f) /\ f.kind = "if" /\ f.in_else /\ f.result # "TRUE" => Alike(I, J, f.then_block)
  BY DEF Remembers, Kept
<1> QED
  BY <1>1, <1>2 DEF PartFlow, Alike, Ready, will_return

\* All but the last element of a sequence.
LEMMA FrontShape ==
  ASSUME NEW S, NEW s \in Seq(S), s # <<>>
  PROVE  LET t == SubSeq(s, 1, Len(s) - 1)
         IN  /\ t \in Seq(S) /\ Len(t) = Len(s) - 1 /\ Len(s) \in Nat \ {0}
             /\ \A i \in 1..(Len(s) - 1) : i \in 1..Len(s) /\ i # Len(s) /\ t[i] = s[i]
<1> DEFINE m == Len(s) - 1
<1>1. m \in Nat /\ m + 1 = Len(s)
  OBVIOUS
<1> HIDE DEF m
<1>2. /\ SubSeq(s, 1, m) \in Seq(S) /\ Len(SubSeq(s, 1, m)) = m
      /\ \A i \in 1..m : SubSeq(s, 1, m)[i] = s[i]
  BY <1>1
<1>3. Len(s) \in Nat \ {0} /\ \A i \in 1..m : i \in 1..Len(s) /\ i # Len(s)
  BY <1>1
<1> QED
  BY <1>2, <1>3 DEF m

LEMMA PushedAt ==
  ASSUME NEW S, NEW s \in Seq(S), NEW x \in S
  PROVE  /\ Append(s, x) \in Seq(S)
         /\ Len(Append(s, x)) = Len(s) + 1 /\ Len(s) \in Nat
         /\ Len(s) + 1 \in 1..(Len(s) + 1)
         /\ \A i \in 1..(Len(s) + 1) :
              /\ i = Len(s) + 1 => Append(s, x)[i] = x
              /\ i # Len(s) + 1 => i \in 1..Len(s) /\ Append(s, x)[i] = s[i]
OBVIOUS

\* A construct begins.
LEMMA PushFlow ==
  ASSUME NEW J, NEW q \in Seq(Frames), NEW n \in Seq(Constructs), PartsFlow(J, q, n),
         NEW flag, NEW c, DeadInside(q, flag, c), ForeverOutermost(q),
         NEW f \in Frames, NEW m \in Constructs, PartFlow(J, f, m),
         Forever(f) => q = <<>>,
         NEW c2, NEW flag2, CurrFlow(J, Append(q, f), c2, flag2),
         flag => ~Live(f) /\ flag2 /\ c2 = c,
         DeadPart(f) => flag2 /\ (Live(f) => c2 = f.cond)
  PROVE  FlowOf(J, Append(q, f), Append(n, m), c2, flag2)
<1> DEFINE p == Append(q, f)
           o == Append(n, m)
           k == Len(q) + 1
<1>1. /\ Len(p) = k /\ Len(q) \in Nat /\ k \in Nat /\ k \in 1..k
      /\ \A i \in 1..k : /\ i = k => p[i] = f
                         /\ i # k => i \in 1..Len(q) /\ p[i] = q[i]
  BY PushedAt
<1>2. /\ Len(o) = k
      /\ \A i \in 1..k : /\ i = k => o[i] = m
                         /\ i # k => i \in 1..Len(q) /\ o[i] = n[i]
  <2>1. Len(n) = Len(q)
    BY DEF PartsFlow
  <2> QED
    BY <2>1, PushedAt
<1> HIDE DEF p, o
<1>3. PartsFlow(J, p, o)
  <2> SUFFICES ASSUME NEW i \in 1..k
               PROVE  PartFlow(J, p[i], o[i])
    BY <1>1, <1>2 DEF PartsFlow
  <2> QED
    BY <1>1, <1>2 DEF PartsFlow
<1>4. DeadInside(p, flag2, c2)
  <2> SUFFICES ASSUME NEW i \in 1..k, DeadPart(p[i])
               PROVE  /\ flag2
                      /\ Live(p[i]) => c2 = p[i].cond
                      /\ \A j \in (i + 1)..k : ~Live(p[j])
    BY <1>1 DEF DeadInside
  <2>1. CASE i = k
    <3>1. \A j \in (k + 1)..k : FALSE
      BY <1>1
    <3> QED
      BY <1>1, <2>1, <3>1
  <2>2. CASE i # k
    <3>1. i \in 1..Len(q) /\ p[i] = q[i]
      BY <1>1, <2>2
    <3>2. flag /\ (Live(q[i]) => c = q[i].cond) /\ \A j \in (i + 1)..Len(q) : ~Live(q[j])
      BY <3>1 DEF DeadInside
    <3>3. ASSUME NEW j \in (i + 1)..k
          PROVE  ~Live(p[j])
      <4>1. j = k \/ (j \in (i + 1)..Len(q) /\ j \in 1..k)
        BY <1>1, <3>1
      <4>2. j # k => p[j] = q[j]
        BY <1>1, <4>1
      <4> QED
        BY <1>1, <3>2, <4>1, <4>2
    <3> QED
      BY <3>1, <3>2, <3>3
  <2> QED
    BY <2>1, <2>2
<1>5. ForeverOutermost(p)
  <2> SUFFICES ASSUME NEW i \in 1..k, Forever(p[i])
               PROVE  i = 1
    BY <1>1 DEF ForeverOutermost
  <2>1. CASE i = k
    <3>1. q = <<>>
      BY <1>1, <2>1
    <3>2. Len(q) = 0
      BY <3>1
    <3> QED
      BY <2>1, <3>2
  <2>2. CASE i # k
    BY <1>1, <2>2 DEF ForeverOutermost
  <2> QED
    BY <2>1, <2>2
<1> QED
  BY <1>3, <1>4, <1>5 DEF FlowOf, p, o

\* A construct ends.
LEMMA PopFlow ==
  ASSUME NEW I, NEW J, NEW q \in Seq(Frames), q # <<>>, NEW n \in Seq(Constructs),
         NEW c, NEW flag, FlowOf(I, q, n, c, flag),
         NEW c2, NEW flag2,
         IF Live(q[Len(q)]) THEN \A i \in 1..(Len(q) - 1) : PartFlow(J, q[i], n[i])
         ELSE J = I /\ flag2 /\ c2 = c,
         CurrFlow(J, SubSeq(q, 1, Len(q) - 1), c2, flag2)
  PROVE  FlowOf(J, SubSeq(q, 1, Len(q) - 1), SubSeq(n, 1, Len(n) - 1), c2, flag2)
<1> DEFINE p == SubSeq(q, 1, Len(q) - 1)
           o == SubSeq(n, 1, Len(n) - 1)
           k == Len(q) - 1
<1>1. /\ Len(p) = k /\ k \in Nat /\ Len(q) = k + 1
      /\ \A i \in 1..k : i \in 1..Len(q) /\ p[i] = q[i]
  BY FrontShape
<1>2. Len(n) = Len(q) /\ n # <<>>
  <2>1. Len(n) = Len(q) /\ Len(q) # 0
    BY <1>1 DEF FlowOf, PartsFlow
  <2> QED
    BY <2>1
<1>3. Len(o) = k /\ \A i \in 1..k : o[i] = n[i]
  BY <1>2, FrontShape
<1> HIDE DEF p, o, k
<1>4. PartsFlow(J, p, o)
  <2> SUFFICES ASSUME NEW i \in 1..k
               PROVE  PartFlow(J, q[i], n[i])
    BY <1>1, <1>3 DEF PartsFlow
  <2>1. i \in 1..(Len(q) - 1) /\ i \in 1..Len(q)
    BY <1>1 DEF k
  <2> QED
    BY <2>1 DEF FlowOf, PartsFlow
<1>5. DeadInside(p, flag2, c2)
  <2> SUFFICES ASSUME NEW i \in 1..k, DeadPart(q[i])
               PROVE  /\ flag2
                      /\ Live(q[i]) => c2 = q[i].cond
                      /\ \A j \in (i + 1)..k : ~Live(p[j])
    BY <1>1 DEF DeadInside
  <2>1. i \in 1..Len(q) /\ Len(q) \in (i + 1)..Len(q)
    BY <1>1
  <2>2. (Live(q[i]) => c = q[i].cond) /\ \A j \in (i + 1)..Len(q) : ~Live(q[j])
    BY <2>1 DEF FlowOf, DeadInside
  <2>3. J = I /\ flag2 /\ c2 = c
    BY <2>1, <2>2
  <2>4. \A j \in (i + 1)..k : j \in (i + 1)..Len(q) /\ p[j] = q[j]
    BY <1>1
  <2> QED
    BY <2>2, <2>3, <2>4
<1>6. ForeverOutermost(p)
  BY <1>1 DEF FlowOf, ForeverOutermost
<1> QED
  BY <1>4, <1>5, <1>6 DEF FlowOf, p, o

\* A handler goes from the first to the second part of its construct.
LEMMA ChangeFlow ==
  ASSUME NEW I, NEW J, NEW q \in Seq(Frames), q # <<>>, NEW n \in Seq(Constructs),
         NEW c, NEW flag, FlowOf(I, q, n, c, flag),
         NEW f, NEW m \in Constructs, NEW p, NEW o, Len(p) = Len(q), Len(o) = Len(n),
         \A i \in 1..(Len(q) - 1) : p[i] = q[i] /\ o[i] = n[i],
         p[Len(q)] = f, o[Len(n)] = m, PartFlow(J, f, m), ~Forever(f),
         NEW c2, NEW flag2, Live(f) <=> Live(q[Len(q)]),
         IF Live(f) THEN \A i \in 1..(Len(q) - 1) : PartFlow(J, q[i], n[i])
         ELSE J = I /\ flag2 /\ c2 = c,
         DeadPart(f) => flag2 /\ (Live(f) => c2 = f.cond),
         CurrFlow(J, p, c2, flag2)
  PROVE  FlowOf(J, p, o, c2, flag2)
<1> DEFINE k == Len(q)
<1>1. /\ k \in Nat \ {0} /\ Len(n) = k
      /\ \A i \in 1..k : i = k \/ i \in 1..(k - 1)
      /\ PartsFlow(I, q, n) /\ DeadInside(q, flag, c) /\ ForeverOutermost(q)
  BY DEF FlowOf, PartsFlow
<1>2. PartsFlow(J, p, o)
  <2> SUFFICES ASSUME NEW i \in 1..k
               PROVE  PartFlow(J, p[i], o[i])
    BY <1>1 DEF PartsFlow
  <2>1. i # k => PartFlow(J, q[i], n[i])
    BY <1>1 DEF PartsFlow
  <2> QED
    BY <1>1, <2>1
<1>3. DeadInside(p, flag2, c2)
  <2> SUFFICES ASSUME NEW i \in 1..k, DeadPart(p[i])
               PROVE  /\ flag2
                      /\ Live(p[i]) => c2 = p[i].cond
                      /\ \A j \in (i + 1)..k : ~Live(p[j])
    BY DEF DeadInside
  <2>1. CASE i = k
    <3>1. \A j \in (k + 1)..k : FALSE
      BY <1>1
    <3> QED
      BY <2>1, <3>1
  <2>2. CASE i # k
    <3>1. p[i] = q[i] /\ k \in (i + 1)..k
      BY <1>1, <2>2
    <3>2. (Live(q[i]) => c = q[i].cond) /\ \A j \in (i + 1)..k : ~Live(q[j])
      BY <1>1, <3>1 DEF DeadInside
    <3>3. J = I /\ flag2 /\ c2 = c /\ ~Live(f)
      BY <3>1, <3>2
    <3>4. \A j \in (i + 1)..k : j = k \/ (p[j] = q[j] /\ ~Live(q[j]))
      BY <1>1, <3>2
    <3> QED
      BY <3>1, <3>2, <3>3, <3>4
  <2> QED
    BY <2>1, <2>2
<1>4. ForeverOutermost(p)
  <2> SUFFICES ASSUME NEW i \in 1..k, Forever(p[i])
               PROVE  i = 1
    BY DEF ForeverOutermost
  <2> QED
    BY <1>1 DEF ForeverOutermost
<1> QED
  BY <1>2, <1>3, <1>4 DEF FlowOf


\* The facts about a state that every step starts from.
LEMMA FStateFacts ==
  ASSUME FlowInv
  PROVE  /\ EInv /\ Inv /\ IROK(ir) /\ IRType(ir) /\ frames \in Seq(Frames)
         /\ open \in SUBSET Exits /\ nest \in Seq(Constructs)
         /\ ir.size \in Nat /\ pos \in Nat /\ ignore \in BOOLEAN
         /\ Parsing =>
              /\ curr_block \in Indices(ir) /\ curr_block \in 0..(ir.size - 1)
              /\ Len(nest) = Len(frames)
              /\ \A i \in 1..Len(frames) : PartFlow(ir, frames[i], nest[i])
              /\ DeadInside(frames, ignore, curr_block) /\ ForeverOutermost(frames)
              /\ ~ignore => Ready(ir, curr_block) /\ ~will_return(ir, curr_block)
              /\ CurrFlow(ir, frames, curr_block, ignore)
              /\ (ignore <=> open = {})
<1>1. EInv
  BY DEF FlowInv
<1>2. /\ Inv /\ IROK(ir) /\ frames \in Seq(Frames) /\ ir.size \in Nat /\ pos \in Nat
      /\ Parsing => curr_block \in Indices(ir) /\ curr_block \in 0..(ir.size - 1)
  BY <1>1, EStateFacts
<1>3. ignore \in BOOLEAN
  BY <1>2, StateFacts
<1> QED
  BY <1>1, <1>2, <1>3 DEF FlowInv, FlowOf, PartsFlow, CurrFlow, Ready, IROK

LEMMA NoDeadPart ==
  ASSUME FlowInv, Parsing, NEW i \in 1..Len(frames),
         ~ignore \/ (i < Len(frames) /\ Live(Top))
  PROVE  ~DeadPart(frames[i])
<1>1. frames \in Seq(Frames) /\ DeadInside(frames, ignore, curr_block)
  BY FStateFacts
<1>2. Len(frames) \in Nat /\ (i < Len(frames) => Len(frames) \in (i + 1)..Len(frames))
  BY <1>1
<1> QED
  BY <1>1, <1>2 DEF DeadInside, Top

\* Nothing that is still relied on is in the current block.
LEMMA CurrNotRemembered ==
  ASSUME FlowInv, Parsing, NEW i \in 1..Len(frames), ~DeadPart(frames[i])
  PROVE  ~Remembers(frames[i], curr_block)
<1> DEFINE f == frames[i]
<1>1. /\ EInv /\ frames \in Seq(Frames) /\ f \in Frames /\ IROK(ir)
      /\ curr_block \in 0..(ir.size - 1) /\ ir.size \in Nat
  BY FStateFacts
<1>2. CASE Entered(f)
  <2>1. f.cond < curr_block /\ f.cond \in Int
    BY <1>1, <1>2, EStateFacts DEF Before, Frames
  <2>2. f.cond # curr_block
    <3> HIDE DEF f
    <3> QED
      BY <1>1, <2>1
  <2>3. Kept(f) => f.then_block # curr_block
    <3> SUFFICES ASSUME Kept(f)
                 PROVE  f.then_block # curr_block
      OBVIOUS
    <3> DEFINE r == f.og_else_block
    <3>1. TwoWay(f) /\ f.in_else
      BY <1>2 DEF Kept, Entered, TwoWay
    <3>2. Side(ir, frames, curr_block, i, r) /\ OtherSide(ir, f, r)
      BY <1>1, <3>1 DEF EInv, DInv, Sides
    <3>3. r \in Indices(ir) /\ ir.doms[r] = f.cond /\ Above(ir, r, curr_block)
      BY <3>2 DEF Side
    <3>4. PICK t \in Indices(ir) \ {r} : ir.doms[t] = f.cond /\ Above(ir, t, f.then_block)
      BY <3>2 DEF OtherSide
    <3>5. ~Above(ir, t, curr_block)
      BY <1>1, <3>3, <3>4, SiblingsApart
    <3> QED
      BY <3>4, <3>5
  <2> QED
    BY <2>2, <2>3, <1>2 DEF Remembers, DeadPart
<1>3. CASE ~Entered(f)
  <2>1. f.result \in {"TRUE", "FALSE", "NEITHER"} /\ f.kind \in {"if", "while"}
    BY <1>1 DEF Frames, Relation
  <2> HIDE DEF f
  <2> QED
    BY <1>3, <2>1 DEF Entered, Branching, Remembers, DeadPart, Kept, f
<1> QED
  BY <1>2, <1>3

\* Nor is what an outer activation relies on inside the innermost one.
LEMMA OuterNotRemembered ==
  ASSUME FlowInv, Parsing, frames # <<>>, Live(Top), NEW i \in 1..(Len(frames) - 1),
         NEW p \in 0..(ir.size - 1), Above(ir, Top.cond, p)
  PROVE  ~Remembers(frames[i], p)
<1> DEFINE f == frames[i]
<1>1. /\ EInv /\ Inv /\ frames \in Seq(Frames) /\ IROK(ir) /\ IRType(ir) /\ ir.size \in Nat
      /\ p \in Nat
  BY FStateFacts
<1>2. /\ i \in 1..Len(frames) /\ i < Len(frames) /\ Len(frames) \in 1..Len(frames)
      /\ f \in Frames /\ Top = frames[Len(frames)]
  BY <1>1 DEF Top
<1>3. ~DeadPart(f)
  BY <1>2, NoDeadPart
<1>4. Top.cond \in 0..p
  BY <1>1, <1>2, TopOfStack, InFunctionIsIndex, AboveIsBefore DEF FrameOK, Live
<1>5. Entered(f) => f.cond # p
  <2> SUFFICES ASSUME Entered(f)
               PROVE  f.cond # p
    OBVIOUS
  <2>1. f.cond < Top.cond /\ f.cond \in Int
    BY <1>1, <1>2, EStateFacts DEF Ascending, Frames
  <2>2. Top.cond <= p /\ Top.cond \in Int
    BY <1>4
  <2> HIDE DEF f
  <2> QED
    BY <1>1, <2>1, <2>2
<1>6. Kept(f) => f.then_block # p
  <2>1. Kept(f) => ~Above(ir, p, f.then_block)
    BY <1>1, OuterPartsApart
  <2>2. Above(ir, p, p)
    BY <1>1, AboveReflexive
  <2> QED
    BY <2>1, <2>2
<1> QED
  BY <1>3, <1>5, <1>6 DEF Remembers, DeadPart

LEMMA RememberedIsBlock ==
  ASSUME FlowInv, NEW i \in 1..Len(frames), NEW b, Remembers(frames[i], b)
  PROVE  b \in 0..(ir.size - 1) /\ b \in Indices(ir)
<1>1. Inv /\ FrameOK(ir, frames[i]) /\ IROK(ir) /\ frames[i] \in Frames
  BY FStateFacts DEF Inv
<1>2. InFunction(ir, b)
  BY <1>1 DEF Remembers, FrameOK, Entered, Kept, Live
<1> QED
  BY <1>1, <1>2, InFunctionIsIndex

\* What stays true of the activations when only some blocks change.
LEMMA PartsStay ==
  ASSUME FlowInv, Parsing, NEW i \in 1..Len(frames), NEW J, NEW S, OnlyIn(ir, J, S),
         \A p \in S : ~Remembers(frames[i], p)
  PROVE  PartFlow(J, frames[i], nest[i])
<1>1. PartFlow(ir, frames[i], nest[i])
  BY FStateFacts
<1>2. ASSUME NEW b, Remembers(frames[i], b)
      PROVE  Alike(ir, J, b)
  <2>1. b \in 0..(ir.size - 1)
    BY <1>2, RememberedIsBlock
  <2>2. b \notin S
    BY <1>2
  <2> QED
    BY <2>1, <2>2 DEF OnlyIn
<1> QED
  BY <1>1, <1>2, PartStays

LEMMA LivePartsStay ==
  ASSUME FlowInv, Parsing, ~ignore, NEW J, OnlyIn(ir, J, {curr_block})
  PROVE  \A i \in 1..Len(frames) : PartFlow(J, frames[i], nest[i])
BY NoDeadPart, CurrNotRemembered, PartsStay

LEMMA OuterPartsStay ==
  ASSUME FlowInv, Parsing, frames # <<>>, Live(Top), NEW J,
         NEW S \in SUBSET (0..(ir.size - 1)), \A p \in S : Above(ir, Top.cond, p),
         OnlyIn(ir, J, S)
  PROVE  \A i \in 1..(Len(frames) - 1) : PartFlow(J, frames[i], nest[i])
<1> SUFFICES ASSUME NEW i \in 1..(Len(frames) - 1)
             PROVE  PartFlow(J, frames[i], nest[i])
  OBVIOUS
<1>1. i \in 1..Len(frames)
  BY FStateFacts
<1>2. \A p \in S : ~Remembers(frames[i], p)
  BY OuterNotRemembered
<1> QED
  BY <1>1, <1>2, PartsStay


-----------------------------------------------------------------------------
(* The steps.                                                              *)

LEMMA CNextIsNext ==
  ASSUME [CNext]_all_vars
  PROVE  [Next]_vars
BY DEF CNext, all_vars, vars, Next, CSimple, CReturn, CIf, CIfIgnored, CThenEnd, CFi, CWhile,
       CWhileIgnored, COd, CBegin, CFunctionEnd, CMainEnd

\* The source stays well formed.
LEMMA LeaveType ==
  ASSUME NEW k \in Nat, NEW how \in {"next", "then", "else"}
  PROVE  Leave(k, how) \in SUBSET Exits /\ (open # {} => Leave(k, how) # {})
         /\ (open = {} => Leave(k, how) = {})
BY DEF Leave, Exits

LEMMA ConstructType ==
  ASSUME NEW k \in Nat, NEW alt \in SUBSET Exits
  PROVE  /\ Construct(k, alt) \in Constructs
         /\ Construct(k, alt).point = k /\ Construct(k, alt).alt = alt
         /\ Construct(k, alt).out = {}
BY DEF Construct, Constructs

\* A statement of a function that goes on.
LEMMA FlowStep ==
  ASSUME EInv', Parsing', open' \in SUBSET Exits, nest' \in Seq(Constructs),
         FlowOf(ir', frames', nest', curr_block', ignore'), ignore' <=> open' = {}
  PROVE  FlowInv'
BY DEF FlowInv

LEMMA LiveStatementFlow ==
  ASSUME FlowInv, Parsing, ~ignore, NEW J, OnlyIn(ir, J, {curr_block}), NEW flag,
         IF flag THEN will_return(J, curr_block) ELSE Ready(J, curr_block)
  PROVE  FlowOf(J, frames, nest, curr_block, flag)
<1>1. /\ Len(nest) = Len(frames) /\ ForeverOutermost(frames)
      /\ \A i \in 1..Len(frames) : ~DeadPart(frames[i])
  BY FStateFacts, NoDeadPart
<1>2. PartsFlow(J, frames, nest)
  BY <1>1, LivePartsStay DEF PartsFlow
<1>3. DeadInside(frames, flag, curr_block)
  BY <1>1 DEF DeadInside
<1>4. CurrFlow(J, frames, curr_block, flag)
  BY DEF CurrFlow
<1> QED
  BY <1>1, <1>2, <1>3, <1>4 DEF FlowOf

LEMMA SimpleFlow ==
  ASSUME FlowInv, CSimple
  PROVE  FlowInv'
<1>1. /\ SimpleStatement /\ SrcSimple(pos) /\ Parsing /\ Parsing'
      /\ UNCHANGED <<curr_block, ignore, frames, nest>> /\ open' = Leave(pos, "next")
  BY DEF CSimple, SimpleStatement, NextPoint, SrcSimple, Parsing
<1>2. EInv'
  BY <1>1, FStateFacts, SimpleStatementSettled
<1>3. open' \in SUBSET Exits /\ nest' \in Seq(Constructs) /\ (ignore' <=> open' = {})
  BY <1>1, FStateFacts, LeaveType
<1>4. CASE ignore
  BY <1>1, <1>2, <1>3, <1>4, FlowStep DEF SimpleStatement, FlowInv
<1>5. CASE ~ignore
  <2> DEFINE J == add_instruction(ir, curr_block, pos)
  <2>1. /\ IRType(J) /\ J.size = ir.size /\ OnlyIn(ir, J, {curr_block})
        /\ Is(J, curr_block, Append(ir.blocks[curr_block].code, pos),
              ir.blocks[curr_block].successors, ir.blocks[curr_block].op,
              ir.blocks[curr_block].larg, ir.blocks[curr_block].rarg,
              ir.blocks[curr_block].will_return)
    BY <1>1, FStateFacts, AddInstructionEffect
  <2>2. ir' = J
    BY <1>1, <1>5 DEF SimpleStatement
  <2> HIDE DEF J
  <2>3. Ready(J, curr_block)
    BY <1>1, <1>5, <2>1, FStateFacts DEF Ready, Is, will_return
  <2>4. FlowOf(J, frames, nest, curr_block, ignore)
    BY <1>1, <1>5, <2>1, <2>3, LiveStatementFlow
  <2> QED
    BY <1>1, <1>2, <1>3, <1>5, <2>2, <2>4, FlowStep
<1> QED
  BY <1>4, <1>5

LEMMA ReturnFlow ==
  ASSUME FlowInv, CReturn
  PROVE  FlowInv'
<1>1. /\ ReturnStatement /\ Parsing /\ Parsing'
      /\ UNCHANGED <<curr_block, frames, nest>> /\ open' = {} /\ ignore' = TRUE
  BY DEF CReturn, ReturnStatement, NextPoint, SrcReturn, Parsing
<1>2. EInv'
  BY <1>1, FStateFacts, ReturnStatementSettled
<1>3. open' \in SUBSET Exits /\ nest' \in Seq(Constructs) /\ (ignore' <=> open' = {})
  BY <1>1, FStateFacts
<1>4. CASE ignore
  BY <1>1, <1>2, <1>3, <1>4, FlowStep DEF ReturnStatement, FlowInv
<1>5. CASE ~ignore
  <2> DEFINE J == set_branch_cond(add_instruction(ir, curr_block, pos), curr_block, "RET", None)
  <2>1. /\ OnlyIn(ir, J, {curr_block})
        /\ Is(J, curr_block, Append(ir.blocks[curr_block].code, pos),
              ir.blocks[curr_block].successors, "RET", None,
              ir.blocks[curr_block].rarg, "RET" = "RET")
    BY <1>1, <1>5, FStateFacts, EmitEffect DEF BranchOp
  <2>2. ir' = J
    BY <1>1, <1>5 DEF ReturnStatement
  <2> HIDE DEF J
  <2>3. will_return(J, curr_block)
    BY <2>1 DEF Is, will_return
  <2>4. FlowOf(J, frames, nest, curr_block, TRUE)
    BY <1>1, <1>5, <2>1, <2>3, LiveStatementFlow
  <2> QED
    BY <1>1, <1>2, <1>3, <2>2, <2>4, FlowStep
<1> QED
  BY <1>4, <1>5

\* The ignored constructs.
LEMMA IgnoredConstructFlow ==
  ASSUME FlowInv, CIfIgnored \/ CWhileIgnored
  PROVE  FlowInv'
<1> DEFINE kind == IF CIfIgnored THEN "if" ELSE "while"
           f == Frame(kind, "NEITHER", None)
           m == Construct(pos, Leave(pos, "else"))
<1>1. /\ IfThenIgnored \/ WhileDoIgnored
      /\ Parsing /\ Parsing' /\ ignore /\ UNCHANGED <<ir, curr_block, ignore>>
      /\ frames' = Append(frames, f) /\ open' = Leave(pos, "then") /\ nest' = Append(nest, m)
  BY DEF CIfIgnored, CWhileIgnored, IfThenIgnored, WhileDoIgnored, NextPoint, SrcIf, SrcWhile,
         Parsing
<1>2. EInv'
  BY <1>1, FStateFacts, IgnoredConstructSettled
<1>3. open = {} /\ pos \in Nat /\ Inv
  BY <1>1, FStateFacts
<1>4. /\ open' = {} /\ Leave(pos, "else") = {}
      /\ m \in Constructs /\ m.alt = {} /\ m.out = {}
  BY <1>1, <1>3, LeaveType, ConstructType
<1>5. f \in Frames /\ ~Live(f) /\ ~Forever(f)
  <2>1. while_loop \in BOOLEAN /\ None \in Int /\ kind \in {"if", "while"}
    BY <1>3, StateFacts
  <2> HIDE DEF kind
  <2>2. f.cond = None
    BY DEF Frame
  <2>3. f \in Frames
    BY <2>1 DEF Frame, Frames, Relation
  <2> QED
    BY <2>2, <2>3 DEF Live, Forever
<1>6. PartFlow(ir, f, m)
  BY <1>4, <1>5 DEF PartFlow
<1> HIDE DEF f, m, kind
<1>7. CurrFlow(ir, Append(frames, f), curr_block, ignore)
  <2> DEFINE q == frames
             p == Append(q, f)
  <2>0. q \in Seq(Frames)
    BY FStateFacts
  <2>1. /\ Len(p) = Len(q) + 1 /\ Len(q) \in Nat
        /\ \A i \in 1..(Len(q) + 1) :
             /\ i = Len(q) + 1 => p[i] = f
             /\ i # Len(q) + 1 => i \in 1..Len(q) /\ p[i] = q[i]
    BY <1>5, <2>0, PushedAt
  <2> HIDE DEF p
  <2>2. (Runs(p) => Runs(q)) /\ (NoneDead(p) => NoneDead(q))
    <3>1. ASSUME NEW i \in 1..Len(p), Live(p[i])
          PROVE  i \in 1..Len(q) /\ p[i] = q[i]
      BY <1>5, <2>1, <3>1
    <3>2. \A i \in 1..Len(q) : i \in 1..Len(p) /\ p[i] = q[i]
      BY <2>1
    <3> QED
      BY <3>1, <3>2 DEF Runs, NoneDead
  <2> QED
    BY <1>1, <2>2, FStateFacts DEF CurrFlow, p
<1>8. FlowOf(ir, Append(frames, f), Append(nest, m), curr_block, ignore)
  <2>1. PartsFlow(ir, frames, nest)
    BY <1>1 DEF FlowInv, FlowOf
  <2> QED
    BY <1>1, <1>4, <1>5, <1>6, <1>7, <2>1, FStateFacts, PushFlow
<1> QED
  BY <1>1, <1>2, <1>3, <1>4, <1>8, FStateFacts, FlowStep, PushedAt


\* An activation with a handler that begins now.
LEMMA NewFrameFlow ==
  ASSUME FlowInv, NEW kind \in {"if", "while"}, NEW r \in Relation, NEW c \in Nat
  PROVE  LET f == Frame(kind, r, c)
         IN  /\ f \in Frames /\ Live(f) /\ ~f.in_else
             /\ f.cond = c /\ f.result = r /\ f.kind = kind
             /\ DeadPart(f) <=> r = "TRUE"
             /\ Forever(f) <=> kind = "while" /\ r = "FALSE"
<1> DEFINE f == Frame(kind, r, c)
<1>1. while_loop \in BOOLEAN /\ c \in Int /\ c # None /\ None \in Int
  BY FStateFacts, StateFacts DEF None
<1>2. /\ f \in Frames /\ f.in_else = FALSE /\ f.cond = c /\ f.result = r /\ f.kind = kind
  BY <1>1 DEF Frame, Frames
<1> HIDE DEF f
<1>3. Live(f) /\ (DeadPart(f) <=> r = "TRUE") /\ (Forever(f) <=> kind = "while" /\ r = "FALSE")
  BY <1>1, <1>2 DEF Live, DeadPart, Forever
<1> QED
  BY <1>2, <1>3 DEF f

LEMMA LivePushFlow ==
  ASSUME FlowInv, Parsing, ~ignore, NEW J, OnlyIn(ir, J, {curr_block}),
         NEW kind \in {"if", "while"}, NEW r \in Relation, NEW c \in Nat,
         NEW m \in Constructs, NEW c2, NEW flag2 \in BOOLEAN, flag2 <=> r = "TRUE",
         r = "TRUE" => c2 = c, kind = "while" /\ r = "FALSE" => frames = <<>>,
         ~flag2 => Ready(J, c2), m.out = {}, m.alt = {} <=> r = "FALSE",
         r = "TRUE" => Ready(J, c), r = "NEITHER" => J.blocks[c].op = "Bcc"
  PROVE  FlowOf(J, Append(frames, Frame(kind, r, c)), Append(nest, m), c2, flag2)
<1> DEFINE f == Frame(kind, r, c)
<1>1. /\ f \in Frames /\ Live(f) /\ ~f.in_else
      /\ f.cond = c /\ f.result = r /\ f.kind = kind
      /\ DeadPart(f) <=> r = "TRUE"
      /\ Forever(f) <=> kind = "while" /\ r = "FALSE"
  BY NewFrameFlow
<1> HIDE DEF f
<1>2. PartFlow(J, f, m)
  BY <1>1 DEF PartFlow
<1>3. PartsFlow(J, frames, nest)
  BY LivePartsStay, FStateFacts DEF PartsFlow
<1>4. CurrFlow(J, Append(frames, f), c2, flag2)
  <2> DEFINE p == Append(frames, f)
             k == Len(frames) + 1
  <2>1. Len(p) = k /\ k \in 1..k /\ p[k] = f
    BY <1>1, FStateFacts, PushedAt
  <2> HIDE DEF p, k
  <2>2. flag2 => ~NoneDead(p)
    BY <1>1, <2>1 DEF NoneDead
  <2> QED
    BY <2>2 DEF CurrFlow, p
<1>5. FlowOf(J, Append(frames, f), Append(nest, m), c2, flag2)
  BY <1>1, <1>2, <1>3, <1>4, FStateFacts, PushFlow
<1> QED
  BY <1>5 DEF f

LEMMA IfFlow ==
  ASSUME FlowInv, NEW r \in Relation, CIf(r)
  PROVE  FlowInv'
<1> DEFINE K == set_branch_cond(add_instruction(ir, curr_block, pos), curr_block, "Bcc", None)
           L == new_block(K, curr_block, "IF_FALLTHROUGH")
           J == IF r = "NEITHER" THEN L ELSE ir
           c2 == IF r = "NEITHER" THEN ir.size ELSE curr_block
           alt == IF r = "NEITHER" THEN Leave(pos, "else")
                  ELSE IF r = "FALSE" THEN {} ELSE open
           m == Construct(pos, alt)
           f == Frame("if", r, curr_block)
<1>1. /\ IfThen(r) /\ SrcIf(pos, r) /\ Parsing /\ Parsing' /\ ~ignore
  BY DEF CIf, IfThen, NextPoint, Parsing
<1>2. EInv'
  BY <1>1, FStateFacts, IfThenSettled
<1>3. /\ IRType(L) /\ L.size = ir.size + 1 /\ K.size = ir.size /\ OnlyIn(ir, L, {curr_block})
      /\ Is(L, curr_block, Append(ir.blocks[curr_block].code, pos),
            Append(ir.blocks[curr_block].successors, ir.size),
            "Bcc", None, ir.blocks[curr_block].rarg, FALSE)
      /\ Fresh(L, ir.size)
  BY <1>1, FStateFacts, IfThenEffect
<1>4. ir' = J /\ curr_block' = c2 /\ frames' = Append(frames, f) /\ ignore' = (r = "TRUE")
  BY <1>1, <1>3 DEF IfThen
<1>5. /\ open # {} /\ open \in SUBSET Exits /\ pos \in Nat /\ Ready(ir, curr_block)
      /\ curr_block \in Nat /\ nest \in Seq(Constructs)
  BY <1>1, FStateFacts, EStateFacts DEF IRType
<1>6. /\ alt \in SUBSET Exits /\ (alt = {} <=> r = "FALSE")
      /\ m \in Constructs /\ m.alt = alt /\ m.out = {}
  <2>1. alt \in SUBSET Exits /\ (alt = {} <=> r = "FALSE")
    BY <1>5, LeaveType
  <2> HIDE DEF alt
  <2> QED
    BY <1>5, <2>1, ConstructType
<1>7. /\ nest' = Append(nest, m)
      /\ open' = IF r = "NEITHER" THEN Leave(pos, "then") ELSE IF r = "FALSE" THEN open ELSE {}
  BY <1>1 DEF SrcIf
<1> HIDE DEF K, L, alt, m
<1>8. /\ OnlyIn(ir, J, {curr_block})
      /\ r = "NEITHER" => J.blocks[curr_block].op = "Bcc" /\ Ready(J, ir.size)
      /\ r # "NEITHER" => Ready(J, curr_block)
  BY <1>3, <1>5 DEF Is, Fresh, Ready, will_return, OnlyIn, Alike
<1>9. FlowOf(J, Append(frames, f), Append(nest, m), c2, r = "TRUE")
  <2>1. (r = "TRUE") \in BOOLEAN /\ "if" \in {"if", "while"}
    OBVIOUS
  <2> HIDE DEF J
  <2> QED
    BY <1>1, <1>5, <1>6, <1>8, <2>1, LivePushFlow
<1>10. /\ open' \in SUBSET Exits /\ nest' \in Seq(Constructs)
       /\ (ignore' <=> open' = {})
  <2>1. r \in {"TRUE", "FALSE", "NEITHER"}
    BY DEF Relation
  <2> QED
    BY <1>4, <1>5, <1>6, <1>7, <2>1, LeaveType, PushedAt
<1> QED
  BY <1>1, <1>2, <1>4, <1>7, <1>9, <1>10, FlowStep

LEMMA WhileFlow ==
  ASSUME FlowInv, ~NestedForever, NEW r \in Relation, CWhile(r)
  PROVE  FlowInv'
<1> DEFINE h == ir.size
           H == Header(ir, curr_block, pos, r)
           L == new_block(H, h, "WHILE_FALLTHROUGH")
           J == IF r = "TRUE" THEN H ELSE L
           c2 == IF r = "TRUE" THEN h ELSE h + 1
           alt == CASE r = "NEITHER" -> Leave(pos, "else")
                    [] r = "FALSE" -> {}
                    [] r = "TRUE" -> Leave(pos, "next")
           m == Construct(pos, alt)
           f == Frame("while", r, h)
<1>1. /\ WhileDo(r) /\ SrcWhile(pos, r) /\ Parsing /\ Parsing' /\ ~ignore
      /\ (r = "FALSE" => frames = <<>>)
  BY DEF CWhile, WhileDo, NextPoint, Parsing, WhileInScope
<1>2. EInv'
  BY <1>1, FStateFacts, WhileDoSettled
<1>3. /\ IRType(H) /\ H.size = h + 1 /\ OnlyIn(ir, H, {curr_block})
      /\ Is(H, h, <<pos>>, <<>>, HeaderOp(r), None, None, FALSE)
  BY <1>1, FStateFacts, HeaderEffect
<1>4. /\ IRType(L) /\ L.size = h + 2 /\ OnlyIn(ir, L, {curr_block})
      /\ Is(L, h, <<pos>>, <<h + 1>>, HeaderOp(r), None, None, FALSE)
      /\ Fresh(L, h + 1)
  BY <1>1, FStateFacts, LoopEffect
<1>5. ir' = J /\ curr_block' = c2 /\ frames' = Append(frames, f) /\ ignore' = (r = "TRUE")
  <2>1. /\ ir' = IF r = "TRUE" THEN H ELSE new_block(H, h, "WHILE_FALLTHROUGH")
        /\ curr_block' = IF r = "TRUE" THEN h ELSE H.size
        /\ frames' = Append(frames, f) /\ ignore' = (r = "TRUE")
    BY <1>1 DEF WhileDo, Header
  <2> QED
    BY <1>3, <2>1
<1>6. /\ open # {} /\ pos \in Nat /\ h \in Nat /\ nest \in Seq(Constructs)
  BY <1>1, FStateFacts
<1>7. /\ alt \in SUBSET Exits /\ (alt = {} <=> r = "FALSE")
      /\ m \in Constructs /\ m.alt = alt /\ m.out = {}
  <2>1. alt \in SUBSET Exits /\ (alt = {} <=> r = "FALSE")
    <3>1. /\ r = "NEITHER" => alt = Leave(pos, "else")
          /\ r = "FALSE" => alt = {}
          /\ r = "TRUE" => alt = Leave(pos, "next")
      OBVIOUS
    <3>2. r \in {"TRUE", "FALSE", "NEITHER"}
      BY DEF Relation
    <3> HIDE DEF alt
    <3> QED
      BY <1>6, <3>1, <3>2, LeaveType
  <2> HIDE DEF alt
  <2> QED
    BY <1>6, <2>1, ConstructType
<1>8. /\ nest' = Append(nest, m)
      /\ open' = CASE r = "NEITHER" -> Leave(pos, "then")
                   [] r = "FALSE" -> Leave(pos, "next")
                   [] r = "TRUE" -> {}
  BY <1>1 DEF SrcWhile
<1> HIDE DEF H, L, alt, m, h
<1>9. /\ OnlyIn(ir, J, {curr_block})
      /\ r = "NEITHER" => J.blocks[h].op = "Bcc"
      /\ r # "TRUE" => Ready(J, h + 1)
      /\ r = "TRUE" => Ready(J, h)
  BY <1>3, <1>4 DEF Is, Fresh, Ready, will_return, HeaderOp
<1>10. FlowOf(J, Append(frames, f), Append(nest, m), c2, r = "TRUE")
  <2>1. (r = "TRUE") \in BOOLEAN /\ "while" \in {"if", "while"}
    OBVIOUS
  <2> HIDE DEF J
  <2> QED
    BY <1>1, <1>6, <1>7, <1>9, <2>1, LivePushFlow
<1>11. /\ open' \in SUBSET Exits /\ nest' \in Seq(Constructs)
       /\ (ignore' <=> open' = {})
  <2>1. r \in {"TRUE", "FALSE", "NEITHER"}
    BY DEF Relation
  <2> QED
    BY <1>5, <1>6, <1>7, <1>8, <2>1, LeaveType, PushedAt
<1> QED
  BY <1>1, <1>2, <1>5, <1>8, <1>10, <1>11, FlowStep


\* The innermost activation.
LEMMA TopFacts ==
  ASSUME FlowInv, Parsing, frames # <<>>
  PROVE  /\ Top \in Frames /\ Top = frames[Len(frames)] /\ Len(frames) \in 1..Len(frames)
         /\ Inner \in Constructs /\ Inner = nest[Len(nest)] /\ nest # <<>>
         /\ PartFlow(ir, Top, Inner)
         /\ DeadPart(Top) => ignore /\ open = {} /\ (Live(Top) => curr_block = Top.cond)
         /\ Live(Top) /\ ~DeadPart(Top) /\ ignore => will_return(ir, curr_block)
         /\ Live(Top) => /\ Top.cond \in 0..(ir.size - 1) /\ Top.cond \in Nat
                         /\ Above(ir, Top.cond, curr_block) /\ Above(ir, Top.cond, Top.cond)
         /\ Live(Top) /\ Top.in_else => /\ Top.then_block \in 0..(ir.size - 1)
                                        /\ Above(ir, Top.cond, Top.then_block)
         /\ Live(Top) /\ Top.result = "NEITHER" => Top.cond # curr_block
<1>1. /\ Inv /\ EInv /\ IROK(ir) /\ frames \in Seq(Frames) /\ nest \in Seq(Constructs)
      /\ Len(nest) = Len(frames)
      /\ \A i \in 1..Len(frames) : PartFlow(ir, frames[i], nest[i])
      /\ DeadInside(frames, ignore, curr_block) /\ CurrFlow(ir, frames, curr_block, ignore)
      /\ (ignore <=> open = {}) /\ curr_block \in 0..(ir.size - 1) /\ ignore \in BOOLEAN
  BY FStateFacts
<1>2. /\ Top \in Frames /\ FrameOK(ir, Top) /\ Len(frames) \in 1..Len(frames)
      /\ Top = frames[Len(frames)]
  BY <1>1, TopOfStack DEF Top
<1>3. Inner \in Constructs /\ Inner = nest[Len(nest)] /\ nest # <<>> /\ PartFlow(ir, Top, Inner)
  <2>1. Len(nest) \in 1..Len(nest)
    BY <1>1, <1>2
  <2> QED
    BY <1>1, <1>2, <2>1 DEF Inner
<1>4. DeadPart(Top) => ignore /\ open = {} /\ (Live(Top) => curr_block = Top.cond)
  BY <1>1, <1>2 DEF DeadInside
<1>5. Live(Top) /\ ~DeadPart(Top) /\ ignore => will_return(ir, curr_block)
  <2> SUFFICES ASSUME Live(Top), ~DeadPart(Top), ignore
               PROVE  will_return(ir, curr_block)
    OBVIOUS
  <2>1. Runs(frames)
    BY <1>2 DEF Runs
  <2>2. \A i \in 1..Len(frames) : i = Len(frames) \/ i < Len(frames)
    BY <1>2
  <2>3. NoneDead(frames)
    BY <1>2, <2>2, NoDeadPart DEF NoneDead
  <2> QED
    BY <1>1, <2>1, <2>3 DEF CurrFlow
<1>6. Live(Top) => /\ Top.cond \in 0..(ir.size - 1) /\ Top.cond \in Nat
                   /\ Above(ir, Top.cond, Top.cond)
  BY <1>1, <1>2, InFunctionIsIndex, AboveReflexive DEF FrameOK, Live
<1>7. Live(Top) => /\ Above(ir, Top.cond, curr_block)
                   /\ Top.in_else => Above(ir, Top.cond, Top.then_block)
  BY <1>1, <1>2 DEF Inv, Nested
<1>8. Live(Top) /\ Top.in_else => Top.then_block \in 0..(ir.size - 1)
  BY <1>1, <1>2, InFunctionIsIndex DEF FrameOK, Live
<1>9. Live(Top) /\ Top.result = "NEITHER" => Top.cond # curr_block
  <2> SUFFICES ASSUME Live(Top), Top.result = "NEITHER"
               PROVE  Top.cond # curr_block
    OBVIOUS
  <2>1. ~DeadPart(Top) /\ Entered(Top)
    BY DEF DeadPart, Entered, Branching
  <2>2. ~Remembers(Top, curr_block)
    BY <1>2, <2>1, CurrNotRemembered
  <2> QED
    BY <2>1, <2>2 DEF Remembers
<1> QED
  BY <1>2, <1>3, <1>4, <1>5, <1>6, <1>7, <1>8, <1>9

\* The second part begins: the frame remembers the end of the first.
LEMMA SecondPart ==
  ASSUME FlowInv, ThenEnd
  PROVE  LET f == frames'[Len(frames)]
         IN  /\ Len(frames') = Len(frames)
             /\ \A i \in 1..(Len(frames) - 1) : frames'[i] = frames[i]
             /\ f.kind = "if" /\ f.result = Top.result /\ f.cond = Top.cond /\ f.in_else
             /\ Live(f) <=> Live(Top)
             /\ Live(Top) => f.then_block = curr_block
             /\ Live(Top) /\ Top.result = "NEITHER" => f.og_else_block = ir.size
<1> DEFINE g == [Top EXCEPT !.in_else = TRUE,
                            !.then_block = IF Live(Top) THEN curr_block ELSE None,
                            !.og_else_block = IF Live(Top) /\ Top.result = "NEITHER"
                                                THEN ir.size ELSE None]
<1>1. /\ Parsing /\ frames # <<>> /\ Top.kind = "if"
      /\ frames' = [frames EXCEPT ![Len(frames)] = g]
  BY DEF ThenEnd, Top
<1>2. Top \in Frames /\ Len(frames) \in 1..Len(frames) /\ frames \in Seq(Frames)
  BY <1>1, TopFacts, FStateFacts
<1>3. /\ g.kind = "if" /\ g.result = Top.result /\ g.cond = Top.cond /\ g.in_else = TRUE
      /\ Live(Top) => g.then_block = curr_block
      /\ Live(Top) /\ Top.result = "NEITHER" => g.og_else_block = ir.size
  BY <1>1, <1>2 DEF Frames
<1> HIDE DEF g
<1>4. /\ Len(frames') = Len(frames) /\ frames'[Len(frames)] = g
      /\ \A i \in 1..(Len(frames) - 1) : frames'[i] = frames[i]
  BY <1>1, <1>2
<1> QED
  BY <1>3, <1>4 DEF Live

LEMMA ElseShape ==
  ASSUME FlowInv, Parsing, frames # <<>>, SrcElse
  PROVE  LET m == nest'[Len(nest)]
         IN  /\ nest' \in Seq(Constructs) /\ Len(nest') = Len(nest)
             /\ \A i \in 1..(Len(nest) - 1) : nest'[i] = nest[i]
             /\ m.point = Inner.point /\ m.alt = {} /\ m.out = open /\ m \in Constructs
<1> DEFINE g == [Inner EXCEPT !.alt = {}, !.out = open]
           t == SubSeq(nest, 1, Len(nest) - 1)
           k == Len(nest) - 1
<1>1. nest' = Append(t, g)
  BY DEF SrcElse, Outer
<1>2. /\ Inner \in Constructs /\ nest # <<>> /\ nest \in Seq(Constructs)
      /\ open \in SUBSET Exits
  BY TopFacts, FStateFacts
<1>3. g \in Constructs /\ g.point = Inner.point /\ g.alt = {} /\ g.out = open
  BY <1>2 DEF Constructs
<1>4. /\ t \in Seq(Constructs) /\ Len(t) = k /\ Len(nest) \in Nat \ {0}
      /\ \A i \in 1..k : t[i] = nest[i]
  BY <1>2, FrontShape
<1> HIDE DEF g, t
<1>5. /\ nest' \in Seq(Constructs) /\ Len(nest') = Len(nest) /\ nest'[Len(nest)] = g
      /\ \A i \in 1..k : nest'[i] = t[i]
  BY <1>1, <1>3, <1>4
<1> QED
  BY <1>3, <1>4, <1>5

LEMMA ThenEndFlow ==
  ASSUME FlowInv, CThenEnd
  PROVE  FlowInv'
<1> DEFINE L == new_block(ir, Top.cond, "IF_BRANCH")
           fresh == Live(Top) /\ Top.result = "NEITHER"
           J == IF fresh THEN L ELSE ir
           c2 == IF fresh THEN ir.size ELSE IF Live(Top) THEN Top.cond ELSE curr_block
           flag2 == ~Live(Top) \/ Top.result = "FALSE"
           f == frames'[Len(frames)]
           m == nest'[Len(nest)]
<1>1. /\ ThenEnd /\ SrcElse /\ Parsing /\ Parsing' /\ frames # <<>>
      /\ Top.kind = "if" /\ ~Top.in_else
      /\ ir' = J /\ curr_block' = c2 /\ ignore' = flag2 /\ open' = Inner.alt
  BY DEF CThenEnd, ThenEnd, Parsing, SrcElse
<1>2. EInv'
  BY <1>1, FStateFacts, ThenEndSettled
<1>3. /\ Len(frames') = Len(frames)
      /\ \A i \in 1..(Len(frames) - 1) : frames'[i] = frames[i]
      /\ f.kind = "if" /\ f.result = Top.result /\ f.cond = Top.cond /\ f.in_else
      /\ Live(f) <=> Live(Top)
      /\ Live(Top) => f.then_block = curr_block
  BY <1>1, SecondPart
<1>4. /\ nest' \in Seq(Constructs) /\ Len(nest') = Len(nest)
      /\ \A i \in 1..(Len(nest) - 1) : nest'[i] = nest[i]
      /\ m.alt = {} /\ m.out = open /\ m \in Constructs
  BY <1>1, ElseShape
<1>5. /\ Top \in Frames /\ Top = frames[Len(frames)] /\ Len(frames) \in 1..Len(frames)
      /\ Inner \in Constructs /\ PartFlow(ir, Top, Inner)
      /\ DeadPart(Top) => ignore /\ open = {} /\ (Live(Top) => curr_block = Top.cond)
      /\ Live(Top) /\ ~DeadPart(Top) /\ ignore => will_return(ir, curr_block)
      /\ fresh => Top.cond # curr_block
  BY <1>1, TopFacts
<1>6. /\ frames \in Seq(Frames) /\ nest \in Seq(Constructs) /\ Len(nest) = Len(frames)
      /\ curr_block \in 0..(ir.size - 1)
      /\ ~ignore => Ready(ir, curr_block)
      /\ (ignore <=> open = {}) /\ FlowOf(ir, frames, nest, curr_block, ignore)
      /\ Top.result \in {"TRUE", "FALSE", "NEITHER"}
  BY <1>1, <1>5, FStateFacts DEF FlowInv, Frames, Relation
<1>7. fresh => /\ OnlyIn(ir, L, {Top.cond}) /\ OneMore(ir, L, Top.cond) /\ Fresh(L, ir.size)
               /\ \A i \in 1..(Len(frames) - 1) : PartFlow(L, frames[i], nest[i])
  <2> SUFFICES ASSUME Live(Top)
               PROVE  /\ OnlyIn(ir, L, {Top.cond}) /\ OneMore(ir, L, Top.cond)
                      /\ Fresh(L, ir.size)
                      /\ \A i \in 1..(Len(frames) - 1) : PartFlow(L, frames[i], nest[i])
    OBVIOUS
  <2>1. /\ Top.cond \in 0..(ir.size - 1) /\ IRType(ir) /\ Above(ir, Top.cond, Top.cond)
        /\ "IF_BRANCH" \in Blocktype \union {"LOOP_HEADER"}
    BY <1>1, TopFacts, FStateFacts DEF Blocktype
  <2>2. OnlyIn(ir, L, {Top.cond}) /\ OneMore(ir, L, Top.cond) /\ Fresh(L, ir.size)
    BY <2>1, new_blockEffect
  <2> HIDE DEF L
  <2>3. {Top.cond} \in SUBSET (0..(ir.size - 1))
    BY <2>1
  <2>4. \A i \in 1..(Len(frames) - 1) : PartFlow(L, frames[i], nest[i])
    BY <1>1, <2>1, <2>2, <2>3, OuterPartsStay
  <2> QED
    BY <2>2, <2>4
<1> HIDE DEF L, f, m
<1>8. fresh => Alike(ir, J, curr_block) /\ J.blocks[Top.cond].op = "Bcc" /\ Ready(J, c2)
  <2> SUFFICES ASSUME fresh
               PROVE  Alike(ir, J, curr_block) /\ J.blocks[Top.cond].op = "Bcc" /\ Ready(J, c2)
    OBVIOUS
  <2>1. Alike(ir, L, curr_block)
    <3>1. OnlyIn(ir, L, {Top.cond}) /\ curr_block # Top.cond /\ curr_block \in 0..(ir.size - 1)
      BY <1>5, <1>6, <1>7
    <3> QED
      BY <3>1 DEF OnlyIn
  <2>2. L.blocks[Top.cond].op = "Bcc"
    <3>1. ir.blocks[Top.cond].op = "Bcc"
      BY <1>5 DEF PartFlow
    <3>2. L.blocks[Top.cond].op = ir.blocks[Top.cond].op
      BY <1>7 DEF OneMore, Is
    <3> QED
      BY <3>1, <3>2
  <2>3. Ready(L, ir.size)
    BY <1>7 DEF Is, Fresh, Ready, will_return
  <2> QED
    BY <2>1, <2>2, <2>3
<1>9. /\ Live(Top) /\ Top.result = "TRUE" =>
           /\ open = {} /\ Ready(ir, Top.cond) /\ curr_block = Top.cond /\ Inner.alt # {}
      /\ Top.result = "FALSE" \/ ~Live(Top) => Inner.alt = {}
      /\ fresh => Inner.alt # {}
      /\ ~Live(Top) => open = {}
  BY <1>1, <1>5 DEF PartFlow, DeadPart
<1>10. PartFlow(J, f, m)
  <2>1. Live(Top) /\ Top.result # "TRUE" =>
          IF open = {} THEN will_return(J, curr_block) ELSE Ready(J, curr_block)
    <3>1. Live(Top) /\ Top.result # "TRUE" =>
            IF open = {} THEN will_return(ir, curr_block) ELSE Ready(ir, curr_block)
      BY <1>1, <1>5, <1>6 DEF DeadPart
    <3> QED
      BY <1>8, <3>1 DEF Alike, will_return, Ready
  <2> QED
    BY <1>3, <1>4, <1>8, <1>9, <2>1 DEF PartFlow
<1>11. CurrFlow(J, frames', c2, flag2)
  <2>1. ~flag2 => Ready(J, c2)
    BY <1>6, <1>8, <1>9
  <2>2. flag2 /\ NoneDead(frames') => ~Live(Top)
    <3>1. Live(Top) /\ flag2 => DeadPart(f)
      BY <1>3 DEF DeadPart
    <3>2. Live(Top) /\ flag2 => ~NoneDead(frames')
      BY <1>3, <1>5, <3>1 DEF NoneDead, f
    <3> QED
      BY <3>2
  <2>3. ASSUME ~Live(Top), Runs(frames'), NoneDead(frames')
        PROVE  will_return(ir, curr_block)
    <3>1. \A i \in 1..Len(frames) : i = Len(frames) \/ i \in 1..(Len(frames) - 1)
      BY <1>5
    <3>2. \A i \in 1..Len(frames) : Live(frames'[i]) = Live(frames[i])
                                    /\ (Live(frames[i]) => frames'[i] = frames[i])
      BY <1>3, <1>5, <2>3, <3>1 DEF f, Live
    <3>3. Runs(frames) /\ NoneDead(frames)
      BY <1>3, <2>3, <3>2 DEF Runs, NoneDead
    <3>4. ignore
      BY <1>5, <2>3 DEF DeadPart
    <3> QED
      BY <1>6, <3>3, <3>4 DEF FlowOf, CurrFlow
  <2> QED
    BY <2>1, <2>2, <2>3 DEF CurrFlow
<1>12. FlowOf(J, frames', nest', c2, flag2)
  <2>1. /\ ~Forever(f) /\ (Live(f) <=> Live(frames[Len(frames)]))
        /\ DeadPart(f) => flag2 /\ (Live(f) => c2 = f.cond)
    BY <1>3, <1>5, <1>6 DEF Forever, DeadPart
  <2>2. IF Live(f) THEN \A i \in 1..(Len(frames) - 1) : PartFlow(J, frames[i], nest[i])
        ELSE J = ir /\ flag2 /\ c2 = curr_block
    <3>1. \A i \in 1..(Len(frames) - 1) : PartFlow(ir, frames[i], nest[i])
      <4>1. \A i \in 1..(Len(frames) - 1) : i \in 1..Len(frames)
        BY <1>6
      <4> QED
        BY <1>1, <4>1, FStateFacts
    <3> QED
      BY <1>3, <1>7, <3>1
  <2>3. \A i \in 1..(Len(frames) - 1) : frames'[i] = frames[i] /\ nest'[i] = nest[i]
    BY <1>3, <1>4, <1>6
  <2>4. frames # <<>> /\ frames'[Len(frames)] = f /\ nest'[Len(nest)] = m
    BY <1>1 DEF f, m
  <2> HIDE DEF J, c2, flag2
  <2> QED
    BY <1>3, <1>4, <1>6, <1>10, <1>11, <2>1, <2>2, <2>3, <2>4, ChangeFlow
<1>13. open' \in SUBSET Exits /\ (ignore' <=> open' = {})
  BY <1>1, <1>5, <1>6, <1>9 DEF Constructs
<1> QED
  BY <1>1, <1>2, <1>4, <1>12, <1>13, FlowStep


\* How an if ends, seen from the source.
FiCases(end) ==
  \/ BothReturn(ir, Top, curr_block, end) /\ ignore /\ Inner.out = {}
  \/ OneGoesOn(ir, Top, curr_block, end) /\ ~ignore /\ Inner.out = {}
  \/ /\ OneGoesOn(ir, Top, Top.then_block, end) /\ ignore /\ Inner.out # {}
     /\ Ready(ir, Top.then_block) /\ Top.result # "TRUE"
  \/ /\ BothGoOn(ir, Top, curr_block, end) /\ ~ignore /\ Inner.out # {}
     /\ Top.result = "NEITHER" /\ Ready(ir, Top.then_block)
     /\ Top.then_block # curr_block /\ Top.then_block # Top.cond

LEMMA FiEndsRight ==
  ASSUME FlowInv, ~FoldedReturns, CFi, Live(Top)
  PROVE  FiCases(if_end(ir, Top, curr_block))
<1> DEFINE end == if_end(ir, Top, curr_block)
           then_returns == will_return(ir, Top.then_block)
           else_returns == will_return(ir, curr_block)
<1>1. Parsing /\ frames # <<>> /\ Top.kind = "if" /\ Top.in_else /\ FiInScope
  BY DEF CFi, Fi
<1>2. /\ Top \in Frames
      /\ PartFlow(ir, Top, Inner)
      /\ DeadPart(Top) => ignore /\ open = {} /\ curr_block = Top.cond
      /\ ~DeadPart(Top) /\ ignore => will_return(ir, curr_block)
      /\ Top.cond \in 0..(ir.size - 1) /\ Top.then_block \in 0..(ir.size - 1)
      /\ Top.result = "NEITHER" => Top.cond # curr_block
  BY <1>1, TopFacts
<1>3. /\ IRType(ir) /\ curr_block \in 0..(ir.size - 1) /\ ignore \in BOOLEAN
      /\ ~ignore => ~will_return(ir, curr_block)
      /\ (ignore <=> open = {}) /\ EInv
      /\ Top.og_else_block \in Int /\ Top.result \in Relation
      /\ Top.result \in {"TRUE", "FALSE", "NEITHER"}
  BY <1>1, <1>2, FStateFacts DEF Frames, Relation
<1>4. Top.result = "NEITHER" =>
        /\ Top.then_block # curr_block /\ Top.cond # curr_block
        /\ Top.cond # Top.then_block
  <2> SUFFICES ASSUME Top.result = "NEITHER"
               PROVE  Top.then_block # curr_block /\ Top.cond # Top.then_block
    BY <1>2
  <2>1. Meet(ir, Top, curr_block, OwedWay(Pop)) /\ Top.cond < Top.then_block
    BY <1>1, <1>3, PartsMeet DEF Branching
  <2> QED
    BY <1>2, <2>1 DEF Meet
<1>5. /\ then_returns /\ else_returns => BothReturn(ir, Top, curr_block, end)
      /\ ~(then_returns /\ else_returns) /\ (then_returns \/ Top.result = "TRUE") =>
           OneGoesOn(ir, Top, curr_block, end)
      /\ ~then_returns /\ Top.result # "TRUE" /\ (else_returns \/ Top.result = "FALSE") =>
           OneGoesOn(ir, Top, Top.then_block, end)
      /\ ~then_returns /\ ~else_returns /\ Top.result = "NEITHER" =>
           BothGoOn(ir, Top, curr_block, end)
  BY <1>2, <1>3, <1>4, IfEndEffect
<1>6. /\ Inner.alt = {}
      /\ Top.result = "TRUE" => Inner.out = {} /\ Top.then_block = Top.cond
      /\ Top.result # "TRUE" => /\ then_returns <=> Inner.out = {}
                                /\ ~then_returns => Ready(ir, Top.then_block)
  BY <1>1, <1>2 DEF PartFlow, Ready
<1>7. Top.result # "FALSE" => (else_returns <=> ignore)
  BY <1>1, <1>2, <1>3 DEF DeadPart
<1>8. Top.result = "FALSE" => ignore /\ open = {} /\ curr_block = Top.cond
  BY <1>1, <1>2 DEF DeadPart
<1>9. Top.result # "NEITHER" /\ open = {} /\ Inner.out = {} => will_return(ir, Top.cond)
  BY <1>1, <1>6 DEF FiInScope, AlwaysReturns
<1> HIDE DEF end
<1>10. CASE Top.result = "NEITHER"
  BY <1>3, <1>4, <1>5, <1>6, <1>7, <1>10 DEF FiCases, end
<1>11. CASE Top.result = "TRUE"
  BY <1>3, <1>5, <1>6, <1>7, <1>9, <1>11 DEF FiCases, end
<1>12. CASE Top.result = "FALSE"
  BY <1>3, <1>5, <1>6, <1>8, <1>9, <1>12 DEF FiCases, end
<1> QED
  BY <1>3, <1>10, <1>11, <1>12

\* The source of an ended construct.
LEMMA OuterShape ==
  ASSUME FlowInv, Parsing, frames # <<>>
  PROVE  Outer \in Seq(Constructs) /\ Len(Outer) = Len(nest) - 1
         /\ \A i \in 1..(Len(nest) - 1) : Outer[i] = nest[i]
<1>1. nest \in Seq(Constructs) /\ nest # <<>>
  BY TopFacts, FStateFacts
<1> QED
  BY <1>1, FrontShape DEF Outer

\* A construct that was ignored as a whole.
LEMMA IgnoredEndFlow ==
  ASSUME FlowInv, CFi \/ COd, ~Live(Top)
  PROVE  FlowInv'
<1>1. /\ Fi \/ Od
      /\ Parsing /\ Parsing' /\ frames # <<>> /\ frames' = Pop /\ ignore' = TRUE
      /\ UNCHANGED <<ir, curr_block>> /\ nest' = Outer
      /\ open' = open \union Inner.out \/ open' = Inner.alt
  BY DEF CFi, COd, Fi, Od, SrcFi, SrcOd, Parsing
<1>2. EInv'
  BY <1>1, FStateFacts, IgnoredEndSettled
<1>3. /\ open = {} /\ Inner.out = {} /\ Inner.alt = {} /\ ignore
      /\ Top = frames[Len(frames)] /\ Len(frames) \in 1..Len(frames)
  BY <1>1, TopFacts DEF DeadPart, PartFlow
<1>4. /\ frames \in Seq(Frames) /\ nest \in Seq(Constructs)
      /\ FlowOf(ir, frames, nest, curr_block, ignore)
  BY <1>1, FStateFacts DEF FlowInv
<1>5. Len(Pop) = Len(frames) - 1 /\ \A i \in 1..(Len(frames) - 1) : Pop[i] = frames[i]
  BY <1>1, <1>4, ShapeOfPop
<1>6. CurrFlow(ir, Pop, curr_block, TRUE)
  <2>1. \A i \in 1..Len(frames) : i = Len(frames) \/ i \in 1..(Len(frames) - 1)
    BY <1>3
  <2>2. \A i \in 1..(Len(frames) - 1) : i \in 1..Len(frames)
    BY <1>3
  <2>3. (Runs(Pop) => Runs(frames)) /\ (NoneDead(Pop) => NoneDead(frames))
    BY <1>3, <1>5, <2>1, <2>2 DEF Runs, NoneDead
  <2> QED
    BY <1>3, <1>4, <2>3 DEF FlowOf, CurrFlow
<1>7. FlowOf(ir, Pop, Outer, curr_block, TRUE)
  <2>1. FlowOf(ir, SubSeq(frames, 1, Len(frames) - 1), SubSeq(nest, 1, Len(nest) - 1),
               curr_block, TRUE)
    <3>1. /\ CurrFlow(ir, SubSeq(frames, 1, Len(frames) - 1), curr_block, TRUE)
          /\ ~Live(frames[Len(frames)])
      BY <1>3, <1>6 DEF Pop
    <3> QED
      BY <1>1, <1>4, <3>1, PopFlow
  <2> QED
    BY <2>1 DEF Pop, Outer
<1> QED
  BY <1>1, <1>2, <1>3, <1>7, OuterShape, FlowStep

LEMMA LiveEndFlow ==
  ASSUME FlowInv, Parsing, frames # <<>>, Live(Top), NEW J, NEW c2, NEW flag2 \in BOOLEAN,
         NEW S \in SUBSET (0..(ir.size - 1)), \A p \in S : Above(ir, Top.cond, p),
         OnlyIn(ir, J, S), ~flag2 => Ready(J, c2),
         flag2 => will_return(J, c2) \/ Len(frames) = 1
  PROVE  FlowOf(J, Pop, Outer, c2, flag2)
<1>1. /\ frames \in Seq(Frames) /\ nest \in Seq(Constructs)
      /\ FlowOf(ir, frames, nest, curr_block, ignore) /\ Live(frames[Len(frames)])
  BY FStateFacts DEF FlowInv, Top
<1>2. \A i \in 1..(Len(frames) - 1) : PartFlow(J, frames[i], nest[i])
  BY OuterPartsStay
<1>3. Len(Pop) = Len(frames) - 1
  BY <1>1, ShapeOfPop
<1>4. CurrFlow(J, Pop, c2, flag2)
  <2>1. Len(frames) = 1 => ~Runs(Pop)
    BY <1>3 DEF Runs
  <2> QED
    BY <2>1 DEF CurrFlow
<1>5. FlowOf(J, SubSeq(frames, 1, Len(frames) - 1), SubSeq(nest, 1, Len(nest) - 1), c2, flag2)
  BY <1>1, <1>2, <1>4, PopFlow DEF Pop
<1> QED
  BY <1>5 DEF Pop, Outer

LEMMA FiFlow ==
  ASSUME FlowInv, ~FoldedReturns, CFi, Live(Top)
  PROVE  FlowInv'
<1> DEFINE end == if_end(ir, Top, curr_block)
           S == {Top.cond, Top.then_block, curr_block}
<1>1. /\ Fi /\ Parsing /\ Parsing' /\ frames # <<>> /\ Top.in_else /\ frames' = Pop
      /\ ir' = end.ir /\ curr_block' = end.curr /\ ignore' = end.returns
      /\ nest' = Outer /\ open' = open \union Inner.out
  BY DEF CFi, Fi, SrcFi, Parsing
<1>2. EInv'
  BY <1>1, FStateFacts, FiSettled
<1>3. FiCases(end)
  BY FiEndsRight
<1>4. /\ IRType(ir) /\ curr_block \in 0..(ir.size - 1) /\ ignore \in BOOLEAN
      /\ ~ignore => Ready(ir, curr_block)
      /\ (ignore <=> open = {}) /\ open \in SUBSET Exits
  BY <1>1, FStateFacts
<1>5. /\ Top.cond \in 0..(ir.size - 1) /\ Top.then_block \in 0..(ir.size - 1)
      /\ Above(ir, Top.cond, curr_block) /\ Above(ir, Top.cond, Top.cond)
      /\ Above(ir, Top.cond, Top.then_block)
      /\ Inner \in Constructs
  BY <1>1, TopFacts
<1> HIDE DEF end
<1>6. OnlyIn(ir, end.ir, S)
  BY <1>3 DEF FiCases, BothReturn, OneGoesOn, BothGoOn, OnlyIn
<1>7. /\ end.returns \in BOOLEAN /\ (end.returns <=> open \union Inner.out = {})
      /\ end.returns => will_return(end.ir, end.curr)
      /\ ~end.returns => Ready(end.ir, end.curr)
  <2>1. CASE BothReturn(ir, Top, curr_block, end) /\ ignore /\ Inner.out = {}
    <3>1. will_return(end.ir, end.curr)
      BY <2>1 DEF BothReturn, Located, Is, will_return
    <3>2. end.returns = TRUE
      BY <1>1, <1>3, <2>1, <1>4 DEF BothReturn, if_end, end
    <3> QED
      BY <1>4, <2>1, <3>1, <3>2
  <2>2. ASSUME NEW b \in 0..(ir.size - 1), Ready(ir, b), OneGoesOn(ir, Top, b, end),
               open \union Inner.out # {}
        PROVE  /\ end.returns = FALSE
               /\ Ready(end.ir, end.curr) /\ (end.returns <=> open \union Inner.out = {})
    <3>1. end.returns = FALSE
      BY <2>2 DEF OneGoesOn, if_end, end
    <3>2. Ready(end.ir, end.curr)
      <4>1. CASE b = Top.cond
        BY <2>2, <4>1 DEF OneGoesOn, Located, Is, Ready, will_return
      <4>2. CASE b # Top.cond
        BY <2>2, <4>2 DEF OneGoesOn, OnlyIn, Alike, Ready, will_return
      <4> QED
        BY <4>1, <4>2
    <3> QED
      BY <2>2, <3>1, <3>2
  <2>3. CASE BothGoOn(ir, Top, curr_block, end) /\ Inner.out # {}
    <3>1. end.returns = FALSE
      BY <2>3 DEF BothGoOn, if_end, end
    <3>2. Ready(end.ir, end.curr)
      BY <2>3 DEF BothGoOn, Fresh, Is, Ready, will_return
    <3> QED
      BY <2>3, <3>1, <3>2
  <2> QED
    BY <1>3, <1>4, <1>5, <2>1, <2>2, <2>3 DEF FiCases
<1>8. FlowOf(end.ir, Pop, Outer, end.curr, end.returns)
  <2>1. S \in SUBSET (0..(ir.size - 1)) /\ \A p \in S : Above(ir, Top.cond, p)
    BY <1>4, <1>5
  <2> HIDE DEF S
  <2> QED
    BY <1>1, <1>6, <1>7, <2>1, LiveEndFlow
<1>9. open' \in SUBSET Exits
  BY <1>1, <1>4, <1>5 DEF Constructs
<1> QED
  BY <1>1, <1>2, <1>7, <1>8, <1>9, OuterShape, FlowStep


\* How a loop ends.
ForeverEnds(end) ==
  /\ Top.result = "FALSE" /\ Len(frames) = 1
  /\ end.returns = TRUE /\ end.curr = curr_block /\ end.ir.size = ir.size
  /\ OnlyIn(ir, end.ir, {curr_block}) /\ JumpsTo(ir, end.ir, curr_block, Top.cond)

NeverEntered(end) ==
  /\ Top.result = "TRUE" /\ ignore
  /\ end.returns = FALSE /\ end.curr = Top.cond /\ end.ir = ir /\ Ready(ir, Top.cond)

LoopEnds(end) ==
  /\ Top.result = "NEITHER"
  /\ end.returns = FALSE /\ end.curr = ir.size /\ end.ir.size = ir.size + 1
  /\ OnlyIn(ir, end.ir, {Top.cond, curr_block})
  /\ JumpsTo(ir, end.ir, curr_block, Top.cond) /\ Fresh(end.ir, ir.size)
  /\ Is(end.ir, Top.cond, ir.blocks[Top.cond].code,
        Append(ir.blocks[Top.cond].successors, ir.size),
        ir.blocks[Top.cond].op, ir.blocks[Top.cond].larg, ir.size,
        ir.blocks[Top.cond].will_return)

OdCases(end) == ForeverEnds(end) \/ NeverEntered(end) \/ LoopEnds(end)

LEMMA OdEndsRight ==
  ASSUME FlowInv, COd, Live(Top)
  PROVE  OdCases(while_end(ir, Top, curr_block))
<1> DEFINE end == while_end(ir, Top, curr_block)
           K == close_loop(ir, Top.cond, curr_block)
           L == branch(ir, Top.cond, curr_block)
<1>1. Parsing /\ frames # <<>> /\ Top.kind = "while"
  BY DEF COd, Od
<1>2. /\ Top \in Frames /\ Top = frames[Len(frames)] /\ Len(frames) \in 1..Len(frames)
      /\ PartFlow(ir, Top, Inner)
      /\ DeadPart(Top) => ignore
      /\ Top.cond \in 0..(ir.size - 1)
      /\ Top.result = "NEITHER" => curr_block # Top.cond
  BY <1>1, TopFacts
<1>3. /\ IRType(ir) /\ curr_block \in 0..(ir.size - 1) /\ ForeverOutermost(frames)
      /\ Top.result \in {"TRUE", "FALSE", "NEITHER"}
  BY <1>1, <1>2, FStateFacts DEF Frames, Relation
<1>4. ~Top.in_else
  BY <1>1, <1>2 DEF PartFlow
<1>5. K.size = ir.size /\ OnlyIn(ir, K, {curr_block}) /\ JumpsTo(ir, K, curr_block, Top.cond)
  BY <1>2, <1>3, CloseLoopEffect
<1>6. Top.result = "NEITHER" =>
        /\ L.size = ir.size + 1 /\ OnlyIn(ir, L, {Top.cond, curr_block})
        /\ JumpsTo(ir, L, curr_block, Top.cond) /\ Fresh(L, ir.size)
        /\ Is(L, Top.cond, ir.blocks[Top.cond].code,
              Append(ir.blocks[Top.cond].successors, ir.size),
              ir.blocks[Top.cond].op, ir.blocks[Top.cond].larg, ir.size,
              ir.blocks[Top.cond].will_return)
  BY <1>2, <1>3, BranchEffect
<1>7. /\ Top.result = "FALSE" => end = [ir |-> K, curr |-> curr_block, returns |-> TRUE]
      /\ Top.result = "TRUE" => end = [ir |-> ir, curr |-> Top.cond, returns |-> FALSE]
      /\ Top.result = "NEITHER" => end = [ir |-> L, curr |-> ir.size, returns |-> FALSE]
  BY DEF while_end
<1>8. /\ Top.result = "FALSE" => Len(frames) = 1
      /\ Top.result = "TRUE" => ignore /\ Ready(ir, Top.cond)
  BY <1>1, <1>2, <1>3, <1>4 DEF ForeverOutermost, Forever, DeadPart, PartFlow
<1> HIDE DEF end, K, L
<1>9. CASE Top.result = "FALSE"
  BY <1>5, <1>7, <1>8, <1>9 DEF OdCases, ForeverEnds, end
<1>10. CASE Top.result = "TRUE"
  BY <1>7, <1>8, <1>10 DEF OdCases, NeverEntered, end
<1>11. CASE Top.result = "NEITHER"
  BY <1>6, <1>7, <1>11 DEF OdCases, LoopEnds, end
<1> QED
  BY <1>3, <1>9, <1>10, <1>11

LEMMA OdFlow ==
  ASSUME FlowInv, COd, Live(Top)
  PROVE  FlowInv'
<1> DEFINE end == while_end(ir, Top, curr_block)
           S == {Top.cond, curr_block}
<1>1. /\ Od /\ Parsing /\ Parsing' /\ frames # <<>> /\ frames' = Pop
      /\ ir' = end.ir /\ curr_block' = end.curr /\ ignore' = end.returns
      /\ nest' = Outer /\ open' = Inner.alt
  BY DEF COd, Od, SrcOd, Parsing
<1>2. EInv'
  BY <1>1, FStateFacts, OdSettled
<1>3. OdCases(end)
  BY OdEndsRight
<1>4. /\ IRType(ir) /\ curr_block \in 0..(ir.size - 1)
      /\ Top.cond \in 0..(ir.size - 1)
      /\ Above(ir, Top.cond, curr_block) /\ Above(ir, Top.cond, Top.cond)
      /\ Inner \in Constructs /\ PartFlow(ir, Top, Inner)
  BY <1>1, TopFacts, FStateFacts
<1> HIDE DEF end
<1>5. /\ OnlyIn(ir, end.ir, S) /\ end.returns \in BOOLEAN
      /\ end.returns <=> Top.result = "FALSE"
      /\ end.returns => Len(frames) = 1
      /\ ~end.returns => Ready(end.ir, end.curr)
  <2>1. CASE ForeverEnds(end)
    BY <2>1 DEF ForeverEnds, OnlyIn
  <2>2. CASE NeverEntered(end)
    BY <2>2 DEF NeverEntered, OnlyIn, Alike
  <2>3. CASE LoopEnds(end)
    BY <2>3 DEF LoopEnds, Fresh, Is, Ready, will_return
  <2> QED
    BY <1>3, <2>1, <2>2, <2>3 DEF OdCases
<1>6. Inner.alt = {} <=> Top.result = "FALSE"
  <2>1. Top.kind = "while"
    BY <1>1 DEF Od
  <2> QED
    BY <1>4, <2>1 DEF PartFlow
<1>7. FlowOf(end.ir, Pop, Outer, end.curr, end.returns)
  <2>1. S \in SUBSET (0..(ir.size - 1)) /\ \A p \in S : Above(ir, Top.cond, p)
    BY <1>4
  <2> HIDE DEF S
  <2> QED
    BY <1>1, <1>5, <2>1, LiveEndFlow
<1>8. open' \in SUBSET Exits
  BY <1>1, <1>4 DEF Constructs
<1> QED
  BY <1>1, <1>2, <1>5, <1>6, <1>7, <1>8, OuterShape, FlowStep

LEMMA BeginFlow ==
  ASSUME FlowInv, NEW kind \in {"function", "main"}, CBegin(kind)
  PROVE  FlowInv'
<1> DEFINE J == add_instruction(new_function(ir), ir.size, pos)
<1>1. /\ Begin(kind) /\ ~Parsing /\ Parsing' /\ ir' = J /\ curr_block' = ir.size
      /\ UNCHANGED <<frames, ignore>> /\ open' = {<<pos, "next">>} /\ nest' = <<>>
  BY DEF CBegin, Begin, SrcBegin, Parsing
<1>2. EInv' /\ ~ignore /\ Inv /\ pos \in Nat
  BY <1>1, FStateFacts, BeginSettled DEF FlowInv
<1>3. frames = <<>>
  BY <1>1, <1>2 DEF Inv
<1>4. Is(J, ir.size, <<pos>>, <<>>, "EMPTY", None, None, FALSE)
  BY <1>2, FStateFacts, BeginEffect
<1> HIDE DEF J
<1>5. Ready(J, ir.size)
  BY <1>4 DEF Is, Ready, will_return
<1>6. FlowOf(J, <<>>, <<>>, ir.size, ignore)
  <2>1. Len(<<>>) = 0
    OBVIOUS
  <2> QED
    BY <1>2, <1>5, <2>1 DEF FlowOf, PartsFlow, DeadInside, ForeverOutermost, CurrFlow
<1>7. open' \in SUBSET Exits /\ nest' \in Seq(Constructs) /\ open' # {}
  BY <1>1, <1>2 DEF Exits
<1> QED
  BY <1>1, <1>2, <1>3, <1>6, <1>7, FlowStep

LEMMA EndFlow ==
  ASSUME FlowInv, CFunctionEnd \/ CMainEnd
  PROVE  FlowInv'
<1>1. /\ FunctionEnd \/ MainEnd
      /\ ~Parsing' /\ ~ignore' /\ open' = {} /\ nest' = nest
  BY DEF CFunctionEnd, CMainEnd, FunctionEnd, MainEnd, Parsing, SrcReturn
<1>2. EInv'
  BY <1>1, FStateFacts, EndSettled
<1> QED
  BY <1>1, <1>2, FStateFacts DEF FlowInv

LEMMA InitFlow ==
  ASSUME CInit
  PROVE  FlowInv
<1>1. /\ Init /\ open = {} /\ nest = <<>> /\ ~Parsing /\ ~ignore
  BY DEF CInit, Init, SrcInit, Parsing
<1>2. EInv
  BY <1>1, InitEInv
<1> QED
  BY <1>1, <1>2 DEF FlowInv

LEMMA NextFlow ==
  ASSUME FlowInv, ~NestedForever, ~FoldedReturns, [CNext]_all_vars
  PROVE  FlowInv'
<1>1. CASE CNext
  <2>1. ASSUME CFi \/ COd
        PROVE  FlowInv'
    BY <2>1, FiFlow, OdFlow, IgnoredEndFlow
  <2> QED
    BY <1>1, <2>1, SimpleFlow, ReturnFlow, IfFlow, IgnoredConstructFlow, ThenEndFlow, WhileFlow,
       BeginFlow, EndFlow DEF CNext
<1>2. CASE UNCHANGED all_vars
  <2>1. EInv'
    BY CNextIsNext, FStateFacts, NextEInv
  <2> QED
    BY <1>2, <2>1 DEF all_vars, vars, src_vars, FlowInv, Parsing
<1> QED
  BY <1>1, <1>2

\* A block that returns or jumps is finished.
Finished(I, J, b) ==
  I.blocks[b].op \in {"RET", "BRA"} =>
    /\ J.blocks[b].code = I.blocks[b].code /\ J.blocks[b].successors = I.blocks[b].successors
    /\ J.blocks[b].op = I.blocks[b].op /\ J.blocks[b].larg = I.blocks[b].larg

LEMMA FinishedOutside ==
  ASSUME IRType(ir), NEW J, NEW S, OnlyIn(ir, J, S), NEW b \in Blocks, b \in S => Finished(ir, J, b)
  PROVE  Finished(ir, J, b)
<1>1. b \in 0..(ir.size - 1)
  BY DEF Blocks, Indices, IRType
<1> QED
  BY <1>1 DEF OnlyIn, Alike, Finished

LEMMA NextFinished ==
  ASSUME FlowInv, ~NestedForever, ~FoldedReturns, CNext, NEW b \in Blocks
  PROVE  Finished(ir, ir', b)
<1>1. /\ IRType(ir) /\ pos \in Nat
      /\ Parsing => curr_block \in 0..(ir.size - 1)
      /\ Parsing /\ ~ignore => ir.blocks[curr_block].op = "EMPTY" /\ ~will_return(ir, curr_block)
  BY FStateFacts DEF Ready
<1>2. Finished(ir, ir, b)
  BY DEF Finished
<1>3. ASSUME Parsing, ~ignore, OnlyIn(ir, ir', {curr_block})
      PROVE  Finished(ir, ir', b)
  <2>1. ir.blocks[curr_block].op = "EMPTY"
    BY <1>1, <1>3
  <2>2. Finished(ir, ir', curr_block)
    BY <2>1 DEF Finished
  <2> QED
    BY <1>1, <1>3, <2>2, FinishedOutside
<1>4. CASE CSimple
  <2>1. Parsing /\ (ignore => ir' = ir) /\ (~ignore => ir' = add_instruction(ir, curr_block, pos))
    BY <1>4 DEF CSimple, SimpleStatement, NextPoint
  <2>2. ~ignore => OnlyIn(ir, ir', {curr_block})
    BY <1>1, <2>1, AddInstructionEffect
  <2> QED
    BY <1>2, <1>3, <2>1, <2>2
<1>5. CASE CReturn
  <2>1. /\ Parsing /\ (ignore => ir' = ir)
        /\ ~ignore => ir' = set_branch_cond(add_instruction(ir, curr_block, pos),
                                            curr_block, "RET", None)
    BY <1>5 DEF CReturn, ReturnStatement, NextPoint
  <2>2. ~ignore => OnlyIn(ir, ir', {curr_block})
    BY <1>1, <2>1, EmitEffect DEF BranchOp
  <2> QED
    BY <1>2, <1>3, <2>1, <2>2
<1>6. ASSUME NEW r \in Relation, CIf(r)
      PROVE  Finished(ir, ir', b)
  <2> DEFINE K == set_branch_cond(add_instruction(ir, curr_block, pos), curr_block, "Bcc", None)
             L == new_block(K, curr_block, "IF_FALLTHROUGH")
  <2>1. Parsing /\ ~ignore /\ (ir' = L \/ ir' = ir)
    BY <1>6 DEF CIf, IfThen, NextPoint
  <2>2. OnlyIn(ir, L, {curr_block})
    BY <1>1, <2>1, IfThenEffect
  <2> HIDE DEF L
  <2> QED
    BY <1>2, <1>3, <2>1, <2>2
<1>7. ASSUME NEW r \in Relation, CWhile(r)
      PROVE  Finished(ir, ir', b)
  <2> DEFINE H == Header(ir, curr_block, pos, r)
             L == new_block(H, ir.size, "WHILE_FALLTHROUGH")
  <2>1. Parsing /\ ~ignore /\ (ir' = H \/ ir' = L)
    BY <1>7 DEF CWhile, WhileDo, Header, NextPoint
  <2>2. OnlyIn(ir, H, {curr_block}) /\ OnlyIn(ir, L, {curr_block})
    BY <1>1, <2>1, HeaderEffect, LoopEffect
  <2> HIDE DEF H, L
  <2> QED
    BY <1>3, <2>1, <2>2
<1>8. CASE CThenEnd
  <2> DEFINE L == new_block(ir, Top.cond, "IF_BRANCH")
  <2>1. /\ Parsing /\ frames # <<>>
        /\ ir' = ir \/ (ir' = L /\ Live(Top) /\ Top.result = "NEITHER")
    BY <1>8 DEF CThenEnd, ThenEnd
  <2>2. ASSUME Live(Top), Top.result = "NEITHER"
        PROVE  Finished(ir, L, b)
    <3>1. /\ Top.cond \in 0..(ir.size - 1) /\ ir.blocks[Top.cond].op = "Bcc"
          /\ "IF_BRANCH" \in Blocktype \union {"LOOP_HEADER"}
      BY <2>1, <2>2, TopFacts DEF PartFlow, Blocktype
    <3>2. OnlyIn(ir, L, {Top.cond})
      BY <1>1, <3>1, new_blockEffect
    <3> HIDE DEF L
    <3>3. Finished(ir, L, Top.cond)
      BY <3>1 DEF Finished
    <3> QED
      BY <1>1, <3>2, <3>3, FinishedOutside
  <2> QED
    BY <1>2, <2>1, <2>2
<1>9. CASE CFi
  <2> DEFINE end == if_end(ir, Top, curr_block)
  <2>1. /\ Parsing /\ frames # <<>> /\ Top.in_else
        /\ IF Live(Top) THEN ir' = end.ir ELSE ir' = ir
    BY <1>9 DEF CFi, Fi
  <2>2. ASSUME Live(Top)
        PROVE  Finished(ir, end.ir, b)
    <3>1. FiCases(end)
      BY <1>9, <2>2, FiEndsRight
    <3> HIDE DEF end
    <3>2. CASE BothReturn(ir, Top, curr_block, end)
      <4>1. OnlyIn(ir, end.ir, {Top.cond}) /\ Finished(ir, end.ir, Top.cond)
        BY <3>2 DEF BothReturn, Located, Is, Finished
      <4> QED
        BY <1>1, <4>1, FinishedOutside
    <3>3. ASSUME NEW c, OneGoesOn(ir, Top, c, end)
          PROVE  Finished(ir, end.ir, b)
      <4>1. OnlyIn(ir, end.ir, {Top.cond}) /\ Finished(ir, end.ir, Top.cond)
        <5>1. OnlyIn(ir, end.ir, {Top.cond})
          BY <3>3 DEF OneGoesOn
        <5>2. Located(ir, end.ir, Top, ir.blocks[Top.cond].will_return)
          BY <3>3 DEF OneGoesOn
        <5>3. Finished(ir, end.ir, Top.cond)
          BY <5>2 DEF Located, Is, Finished
        <5> QED
          BY <5>1, <5>3
      <4> QED
        BY <1>1, <4>1, FinishedOutside
    <3>4. CASE BothGoOn(ir, Top, curr_block, end) /\ ~ignore /\ Ready(ir, Top.then_block)
      <4>1. OnlyIn(ir, end.ir, {Top.cond, Top.then_block, curr_block})
        BY <3>4 DEF BothGoOn
      <4>2. Finished(ir, end.ir, Top.cond)
        <5>1. Located(ir, end.ir, Top, ir.blocks[Top.cond].will_return)
          BY <3>4 DEF BothGoOn
        <5> QED
          BY <5>1 DEF Located, Is, Finished
      <4>3. Finished(ir, end.ir, Top.then_block) /\ Finished(ir, end.ir, curr_block)
        BY <1>1, <2>1, <3>4 DEF Ready, Finished
      <4> QED
        BY <1>1, <4>1, <4>2, <4>3, FinishedOutside
    <3> QED
      BY <3>1, <3>2, <3>3, <3>4 DEF FiCases
  <2> QED
    BY <1>2, <2>1, <2>2
<1>10. CASE COd
  <2> DEFINE end == while_end(ir, Top, curr_block)
  <2>1. /\ Parsing /\ frames # <<>> /\ Top.kind = "while"
        /\ IF Live(Top) THEN ir' = end.ir ELSE ir' = ir
    BY <1>10 DEF COd, Od
  <2>2. ASSUME Live(Top)
        PROVE  Finished(ir, end.ir, b)
    <3>1. OdCases(end)
      BY <1>10, <2>2, OdEndsRight
    <3> HIDE DEF end
    <3>2. Top.result # "TRUE" /\ ~will_return(ir, curr_block) =>
            ir.blocks[curr_block].op = "EMPTY"
      <4>1. Top.result # "TRUE" => ~DeadPart(Top)
        BY <2>1, <2>2, TopFacts DEF DeadPart, PartFlow
      <4> QED
        BY <1>1, <2>1, <2>2, <4>1, TopFacts
    <3>3. Top.result # "TRUE" /\ JumpsTo(ir, end.ir, curr_block, Top.cond) =>
            Finished(ir, end.ir, curr_block)
      BY <3>2 DEF JumpsTo, Alike, Finished
    <3>4. CASE ForeverEnds(end)
      <4>1. OnlyIn(ir, end.ir, {curr_block}) /\ Finished(ir, end.ir, curr_block)
        BY <3>3, <3>4 DEF ForeverEnds
      <4> QED
        BY <1>1, <4>1, FinishedOutside
    <3>5. CASE LoopEnds(end)
      <4>1. /\ OnlyIn(ir, end.ir, {Top.cond, curr_block})
            /\ Finished(ir, end.ir, curr_block)
        BY <3>3, <3>5 DEF LoopEnds
      <4>2. Finished(ir, end.ir, Top.cond)
        <5>1. ir.blocks[Top.cond].op = "Bcc"
          BY <2>1, <2>2, <3>5, TopFacts DEF PartFlow, LoopEnds
        <5> QED
          BY <5>1 DEF Finished
      <4> QED
        BY <1>1, <4>1, <4>2, FinishedOutside
    <3> QED
      BY <1>2, <3>1, <3>4, <3>5 DEF OdCases, NeverEntered
  <2> QED
    BY <1>2, <2>1, <2>2
<1>11. ASSUME NEW kind, CBegin(kind)
       PROVE  Finished(ir, ir', b)
  <2> DEFINE J == add_instruction(new_function(ir), ir.size, pos)
  <2>1. OnlyIn(ir, J, {0})
    BY <1>1, BeginEffect
  <2>2. b # 0
    BY <1>1 DEF Blocks, Indices, IRType
  <2>3. ir' = J
    BY <1>11 DEF CBegin, Begin
  <2> HIDE DEF J
  <2> QED
    BY <1>1, <2>1, <2>2, <2>3, FinishedOutside
<1>12. CASE CFunctionEnd
  <2> DEFINE I == add_instruction(ir, curr_block, pos)
             K == set_branch_cond(I, curr_block, "RET", None)
  <2>1. /\ Parsing
        /\ ir' = ir \/ (ir' = K /\ ir.blocks[curr_block].op = "EMPTY")
    BY <1>12 DEF CFunctionEnd, FunctionEnd, has_branch_instruction, Parsing
  <2>2. IRType(I) /\ I.size = ir.size /\ OnlyIn(ir, I, {curr_block})
    BY <1>1, <2>1, AddInstructionEffect
  <2> HIDE DEF I
  <2>3. OnlyIn(ir, K, {curr_block})
    <3>1. CASE will_return(I, curr_block)
      BY <2>2, <3>1 DEF set_branch_cond
    <3>2. CASE ~will_return(I, curr_block)
      <4>1. "RET" \in BranchOp /\ None \in Int
        BY DEF BranchOp, None
      <4>2. OnlyIn(I, K, {curr_block})
        BY <1>1, <2>1, <2>2, <3>2, <4>1, SetBranchCondEffect
      <4> HIDE DEF K
      <4> QED
        BY <2>2, <4>2 DEF OnlyIn, Alike
    <3> QED
      BY <3>1, <3>2
  <2> HIDE DEF K
  <2>4. ir.blocks[curr_block].op = "EMPTY" => Finished(ir, K, curr_block)
    BY DEF Finished
  <2> QED
    BY <1>1, <1>2, <2>1, <2>3, <2>4, FinishedOutside
<1>13. CASE CMainEnd \/ CIfIgnored \/ CWhileIgnored
  <2>1. ir' = ir
    BY <1>13 DEF CMainEnd, MainEnd, CIfIgnored, IfThenIgnored, CWhileIgnored, WhileDoIgnored
  <2> QED
    BY <1>2, <2>1
<1> QED
  BY <1>4, <1>5, <1>6, <1>7, <1>8, <1>9, <1>10, <1>11, <1>12, <1>13 DEF CNext

LEMMA StepFinished ==
  ASSUME FlowInv, ~NestedForever, ~FoldedReturns, [CNext]_all_vars
  PROVE  UNCHANGED vars \/ \A b \in Blocks : Finished(ir, ir', b)
BY NextFinished DEF all_vars

-----------------------------------------------------------------------------
(* Theorems.                                                               *)

\* Parsing goes on in a block that execution falls out of and that leads nowhere
\* yet, or ignores what follows; every open construct remembers such a block, or
\* one that returns, exactly where the source says: FlowInv is inductive.
THEOREM FlowInvariance ==
  ASSUME ~NestedForever, ~FoldedReturns
  PROVE  CSpec => []FlowInv
<1>1. CInit => FlowInv
  BY InitFlow
<1>2. FlowInv /\ [CNext]_all_vars => FlowInv'
  BY NextFlow
<1> QED
  BY <1>1, <1>2, PTL DEF CSpec

\* The parser ignores (IntermediateRepresentation::ignore, if_statement,
\* while_statement) exactly the statements the source cannot reach.
THEOREM IgnoredIsUnreachable ==
  ASSUME ~NestedForever, ~FoldedReturns
  PROVE  CSpec => []IgnoreIffUnreachable
<1>1. FlowInv => IgnoreIffUnreachable
  BY DEF FlowInv, IgnoreIffUnreachable
<1> QED
  BY <1>1, FlowInvariance, PTL

\* Nothing is appended to a block that has returned (add_instruction and
\* new_block_helper are only called for blocks that go on).
THEOREM NothingAfterReturn ==
  ASSUME ~NestedForever, ~FoldedReturns
  PROVE  CSpec => NoCodeAfterReturn
<1>1. FlowInv /\ [CNext]_all_vars =>
        [\A b \in Blocks : ir.blocks[b].op = "RET" =>
           /\ ir'.blocks[b].code = ir.blocks[b].code
           /\ ir'.blocks[b].successors = ir.blocks[b].successors]_vars
  BY StepFinished DEF Finished
<1> QED
  BY <1>1, FlowInvariance, PTL DEF CSpec, NoCodeAfterReturn

\* The jump that close_loop() writes at the end of a loop is never replaced.
THEOREM LoopsJumpBack ==
  ASSUME ~NestedForever, ~FoldedReturns
  PROVE  CSpec => BackEdgeStays
<1>1. FlowInv /\ [CNext]_all_vars =>
        [\A b \in Blocks : is_branch_back(ir, b) /\ ir.blocks[b].op = "BRA" =>
           /\ ir'.blocks[b].op = "BRA"
           /\ ir'.blocks[b].larg = ir.blocks[b].larg]_vars
  BY StepFinished DEF Finished
<1> QED
  BY <1>1, FlowInvariance, PTL DEF CSpec, BackEdgeStays

-----------------------------------------------------------------------------
(* The steps once more, as changes of the fields that execution depends on.*)

\* The live activations, and what they stand for, are the same.
SameLive(q, n, p, o) ==
  /\ \A i \in 1..Len(p) : Live(p[i]) => i \in 1..Len(q) /\ p[i] = q[i] /\ o[i] = n[i]
  /\ \A i \in 1..Len(q) : Live(q[i]) => i \in 1..Len(p) /\ p[i] = q[i]

\* A step in code that is ignored.
IdleStep ==
  /\ Parsing /\ Parsing' /\ ignore /\ ignore' /\ open = {} /\ open' = {}
  /\ UNCHANGED <<ir, curr_block, entry, edges>>
  /\ SameLive(frames, nest, frames', nest')

LEMMA ArriveNowhere ==
  ASSUME open = {}, NEW k
  PROVE  Arrive(k) = {}
BY DEF Arrive

LEMMA IgnoredStatementIdle ==
  ASSUME FlowInv, ignore, CSimple \/ CReturn
  PROVE  IdleStep
<1>1. /\ Parsing /\ Parsing' /\ ignore' /\ UNCHANGED <<ir, curr_block, entry, frames, nest>>
      /\ edges' = edges \union Arrive(pos) /\ (open' = {} \/ open' = Leave(pos, "next"))
  BY DEF CSimple, CReturn, SimpleStatement, ReturnStatement, NextPoint, SrcSimple, SrcReturn,
         Parsing
<1>2. open = {} /\ pos \in Nat /\ Len(nest) = Len(frames)
  BY <1>1, FStateFacts
<1>3. SameLive(frames, nest, frames', nest')
  BY <1>1 DEF SameLive
<1> QED
  BY <1>1, <1>2, <1>3, ArriveNowhere DEF IdleStep, Leave

LEMMA IgnoredConstructIdle ==
  ASSUME FlowInv, CIfIgnored \/ CWhileIgnored
  PROVE  IdleStep
<1>1. /\ Parsing /\ Parsing' /\ ignore /\ ignore' /\ UNCHANGED <<ir, curr_block, entry>>
      /\ \E kind \in {"if", "while"} : frames' = Append(frames, Frame(kind, "NEITHER", None))
      /\ open' = Leave(pos, "then") /\ nest' = Append(nest, Construct(pos, Leave(pos, "else")))
      /\ edges' = edges \union Arrive(pos)
  BY DEF CIfIgnored, CWhileIgnored, IfThenIgnored, WhileDoIgnored, NextPoint, SrcIf, SrcWhile,
         Parsing
<1>2. /\ open = {} /\ pos \in Nat /\ Len(nest) = Len(frames)
      /\ frames \in Seq(Frames) /\ nest \in Seq(Constructs)
  BY <1>1, FStateFacts
<1>3. PICK kind \in {"if", "while"} : frames' = Append(frames, Frame(kind, "NEITHER", None))
  BY <1>1
<1> DEFINE f == Frame(kind, "NEITHER", None)
           m == Construct(pos, Leave(pos, "else"))
<1>4. ~Live(f)
  BY DEF Live, Frame
<1> HIDE DEF f, m
<1>5. SameLive(frames, nest, frames', nest')
  <2>1. /\ Len(frames') = Len(frames) + 1 /\ Len(frames) \in Nat
        /\ frames'[Len(frames) + 1] = f
        /\ \A i \in 1..Len(frames) : frames'[i] = frames[i] /\ nest'[i] = nest[i]
    BY <1>1, <1>2, <1>3 DEF f, m
  <2> QED
    BY <1>4, <2>1 DEF SameLive
<1> QED
  BY <1>1, <1>2, <1>5, ArriveNowhere DEF IdleStep, Leave

LEMMA IgnoredEndIdle ==
  ASSUME FlowInv, CFi \/ COd, ~Live(Top)
  PROVE  IdleStep
<1>1. /\ Parsing /\ Parsing' /\ frames # <<>> /\ frames' = Pop /\ ignore' = TRUE
      /\ UNCHANGED <<ir, curr_block, entry>> /\ nest' = Outer
      /\ open' = open \union Inner.out \/ open' = Inner.alt
      /\ edges' = edges \/ edges' = edges \union Arrive(Inner.point)
  BY DEF CFi, COd, Fi, Od, SrcFi, SrcOd, Parsing
<1>2. /\ open = {} /\ Inner.out = {} /\ Inner.alt = {} /\ ignore
      /\ Top = frames[Len(frames)] /\ Len(frames) \in 1..Len(frames)
  BY <1>1, TopFacts DEF DeadPart, PartFlow
<1>3. Len(Pop) = Len(frames) - 1 /\ \A i \in 1..(Len(frames) - 1) : Pop[i] = frames[i]
  BY <1>1, ShapeOfPop, FStateFacts
<1>4. Len(nest) = Len(frames) /\ \A i \in 1..(Len(nest) - 1) : Outer[i] = nest[i]
  BY <1>1, OuterShape, FStateFacts
<1>5. SameLive(frames, nest, Pop, Outer)
  <2>1. \A i \in 1..Len(frames) : i = Len(frames) \/ i \in 1..(Len(frames) - 1)
    BY <1>2
  <2>2. \A i \in 1..(Len(frames) - 1) : i \in 1..Len(frames)
    BY <1>2
  <2> QED
    BY <1>2, <1>3, <1>4, <2>1, <2>2 DEF SameLive
<1> QED
  BY <1>1, <1>2, <1>5, ArriveNowhere DEF IdleStep

LEMMA IgnoredElseIdle ==
  ASSUME FlowInv, CThenEnd, ~Live(Top)
  PROVE  IdleStep
<1>1. /\ ThenEnd /\ SrcElse /\ Parsing /\ Parsing' /\ frames # <<>> /\ ignore'
      /\ UNCHANGED <<ir, curr_block, entry, edges>> /\ open' = Inner.alt
  BY DEF CThenEnd, ThenEnd, SrcElse, Parsing
<1>2. /\ open = {} /\ Inner.alt = {} /\ ignore
      /\ Top = frames[Len(frames)] /\ Len(frames) \in 1..Len(frames)
  BY <1>1, TopFacts DEF DeadPart, PartFlow
<1>3. /\ Len(frames') = Len(frames)
      /\ \A i \in 1..(Len(frames) - 1) : frames'[i] = frames[i]
      /\ Live(frames'[Len(frames)]) <=> Live(Top)
  BY <1>1, SecondPart
<1>4. Len(nest) = Len(frames) /\ \A i \in 1..(Len(nest) - 1) : nest'[i] = nest[i]
  BY <1>1, ElseShape, FStateFacts
<1>5. SameLive(frames, nest, frames', nest')
  <2>1. \A i \in 1..Len(frames) : i = Len(frames) \/ i \in 1..(Len(frames) - 1)
    BY <1>2
  <2> QED
    BY <1>2, <1>3, <1>4, <2>1 DEF SameLive
<1> QED
  BY <1>1, <1>2, <1>5 DEF IdleStep

\* A statement that is compiled.
Emitted(op) ==
  /\ Parsing /\ Parsing' /\ ~ignore /\ UNCHANGED <<curr_block, entry, frames, nest>>
  /\ IRType(ir') /\ ir'.size = ir.size /\ OnlyIn(ir, ir', {curr_block})
  /\ Is(ir', curr_block, Append(ir.blocks[curr_block].code, pos), <<>>, op,
        ir'.blocks[curr_block].larg, ir.blocks[curr_block].rarg, op = "RET")
  /\ edges' = edges \union Arrive(pos)

LEMMA SimpleShape ==
  ASSUME FlowInv, ~ignore, CSimple
  PROVE  Emitted("EMPTY") /\ ~ignore' /\ open' = Leave(pos, "next")
<1> DEFINE J == add_instruction(ir, curr_block, pos)
<1>1. /\ Parsing /\ Parsing' /\ UNCHANGED <<curr_block, ignore, entry, frames, nest>>
      /\ open' = Leave(pos, "next") /\ edges' = edges \union Arrive(pos) /\ ir' = J
  BY DEF CSimple, SimpleStatement, NextPoint, SrcSimple, Parsing
<1>2. Ready(ir, curr_block)
  BY <1>1, FStateFacts
<1>3. /\ IRType(J) /\ J.size = ir.size /\ OnlyIn(ir, J, {curr_block})
      /\ Is(J, curr_block, Append(ir.blocks[curr_block].code, pos),
            ir.blocks[curr_block].successors, ir.blocks[curr_block].op,
            ir.blocks[curr_block].larg, ir.blocks[curr_block].rarg,
            ir.blocks[curr_block].will_return)
  BY <1>1, FStateFacts, AddInstructionEffect
<1>4. ir.blocks[curr_block].will_return = FALSE
  <2>1. ir.blocks[curr_block].will_return \in BOOLEAN
    BY <1>1, FStateFacts, BlockFields
  <2> QED
    BY <1>2, <2>1 DEF Ready, will_return
<1> HIDE DEF J
<1>5. Is(J, curr_block, Append(ir.blocks[curr_block].code, pos), <<>>, "EMPTY",
         J.blocks[curr_block].larg, ir.blocks[curr_block].rarg, FALSE)
  BY <1>2, <1>3, <1>4 DEF Is, Ready
<1>6. ("EMPTY" = "RET") = FALSE
  OBVIOUS
<1> QED
  BY <1>1, <1>3, <1>5, <1>6 DEF Emitted

LEMMA ReturnShape ==
  ASSUME FlowInv, ~ignore, CReturn
  PROVE  Emitted("RET") /\ ignore' /\ open' = {}
<1> DEFINE J == set_branch_cond(add_instruction(ir, curr_block, pos), curr_block, "RET", None)
<1>1. /\ Parsing /\ Parsing' /\ UNCHANGED <<curr_block, entry, frames, nest>>
      /\ ignore' = TRUE
      /\ open' = {} /\ edges' = edges \union Arrive(pos) /\ ir' = J
  BY DEF CReturn, ReturnStatement, NextPoint, SrcReturn, Parsing
<1>2. Ready(ir, curr_block)
  BY <1>1, FStateFacts
<1>3. /\ IRType(J) /\ J.size = ir.size /\ OnlyIn(ir, J, {curr_block})
      /\ Is(J, curr_block, Append(ir.blocks[curr_block].code, pos),
            ir.blocks[curr_block].successors, "RET", None,
            ir.blocks[curr_block].rarg, "RET" = "RET")
  BY <1>1, FStateFacts, EmitEffect DEF BranchOp
<1> HIDE DEF J
<1>4. Is(J, curr_block, Append(ir.blocks[curr_block].code, pos), <<>>, "RET",
         J.blocks[curr_block].larg, ir.blocks[curr_block].rarg, "RET" = "RET")
  BY <1>2, <1>3 DEF Is, Ready
<1> QED
  BY <1>1, <1>3, <1>4 DEF Emitted

\* A construct begins: the state but for the blocks.
Begun(kind, r, c, alt) ==
  /\ Parsing /\ Parsing' /\ ~ignore /\ UNCHANGED entry /\ (ignore' <=> r = "TRUE")
  /\ frames' = Append(frames, Frame(kind, r, c)) /\ nest' = Append(nest, Construct(pos, alt))

\* The current block branches.
Branched ==
  /\ Begun("if", "NEITHER", curr_block, Leave(pos, "else"))
  /\ IRType(ir') /\ ir'.size = ir.size + 1 /\ OnlyIn(ir, ir', {curr_block})
  /\ Is(ir', curr_block, Append(ir.blocks[curr_block].code, pos), <<ir.size>>, "Bcc", None,
        ir.blocks[curr_block].rarg, FALSE)
  /\ Fresh(ir', ir.size) /\ curr_block' = ir.size
  /\ edges' = edges \union Arrive(pos) /\ open' = Leave(pos, "then")

\* A folded relation leaves no trace.
Folded(r) ==
  /\ r \in {"TRUE", "FALSE"}
  /\ Begun("if", r, curr_block, IF r = "FALSE" THEN {} ELSE open)
  /\ UNCHANGED <<ir, curr_block, edges>>
  /\ open' = IF r = "FALSE" THEN open ELSE {}

LEMMA IfShape ==
  ASSUME FlowInv, NEW r \in Relation, CIf(r)
  PROVE  /\ r = "NEITHER" => Branched
         /\ r # "NEITHER" => Folded(r)
<1> DEFINE K == set_branch_cond(add_instruction(ir, curr_block, pos), curr_block, "Bcc", None)
           L == new_block(K, curr_block, "IF_FALLTHROUGH")
<1>1. /\ IfThen(r) /\ SrcIf(pos, r) /\ Parsing /\ Parsing' /\ ~ignore /\ UNCHANGED entry
      /\ frames' = Append(frames, Frame("if", r, curr_block)) /\ ignore' = (r = "TRUE")
  BY DEF CIf, IfThen, NextPoint, Parsing
<1>2. CASE r = "NEITHER"
  <2>1. /\ IRType(L) /\ L.size = ir.size + 1 /\ K.size = ir.size /\ OnlyIn(ir, L, {curr_block})
        /\ Is(L, curr_block, Append(ir.blocks[curr_block].code, pos),
              Append(ir.blocks[curr_block].successors, ir.size),
              "Bcc", None, ir.blocks[curr_block].rarg, FALSE)
        /\ Fresh(L, ir.size)
    BY <1>1, FStateFacts, IfThenEffect
  <2>2. ir' = L /\ curr_block' = K.size
    BY <1>1, <1>2 DEF IfThen
  <2> HIDE DEF K, L
  <2>3. ir.blocks[curr_block].successors = <<>>
    BY <1>1, FStateFacts DEF Ready
  <2>4. Append(<<>>, ir.size) = <<ir.size>>
    OBVIOUS
  <2>5. /\ nest' = Append(nest, Construct(pos, Leave(pos, "else")))
        /\ edges' = edges \union Arrive(pos) /\ open' = Leave(pos, "then")
    BY <1>1, <1>2 DEF SrcIf
  <2> QED
    BY <1>1, <1>2, <2>1, <2>2, <2>3, <2>4, <2>5 DEF Branched, Begun
<1>3. CASE r # "NEITHER"
  <2>1. r \in {"TRUE", "FALSE"}
    BY <1>3 DEF Relation
  <2>2. UNCHANGED <<ir, curr_block>>
    BY <1>1, <1>3 DEF IfThen
  <2> QED
    BY <1>1, <1>3, <2>1, <2>2 DEF Folded, Begun, SrcIf
<1> QED
  BY <1>2, <1>3

\* A loop begins with a header of its own.
LoopAlt(r) == CASE r = "NEITHER" -> Leave(pos, "else")
                [] r = "FALSE" -> {}
                [] r = "TRUE" -> Leave(pos, "next")

Looped(r) ==
  /\ Begun("while", r, ir.size, LoopAlt(r))
  /\ IRType(ir') /\ OnlyIn(ir, ir', {curr_block})
  /\ Is(ir', curr_block, ir.blocks[curr_block].code, <<ir.size>>, "EMPTY",
        ir.blocks[curr_block].larg, ir.blocks[curr_block].rarg, FALSE)
  /\ IF r = "TRUE"
       THEN /\ ir'.size = ir.size + 1 /\ curr_block' = ir.size
            /\ Is(ir', ir.size, <<pos>>, <<>>, "EMPTY", None, None, FALSE)
       ELSE /\ ir'.size = ir.size + 2 /\ curr_block' = ir.size + 1
            /\ Is(ir', ir.size, <<pos>>, <<ir.size + 1>>, HeaderOp(r), None, None, FALSE)
            /\ Fresh(ir', ir.size + 1)
  /\ edges' = edges \union Arrive(pos)
  /\ open' = CASE r = "NEITHER" -> Leave(pos, "then")
               [] r = "FALSE" -> Leave(pos, "next")
               [] r = "TRUE" -> {}

LEMMA WhileShape ==
  ASSUME FlowInv, NEW r \in Relation, CWhile(r)
  PROVE  Looped(r)
<1> DEFINE h == ir.size
           c == curr_block
           H == Header(ir, c, pos, r)
           L == new_block(H, h, "WHILE_FALLTHROUGH")
<1>1. /\ WhileDo(r) /\ SrcWhile(pos, r) /\ Parsing /\ Parsing' /\ ~ignore /\ UNCHANGED entry
      /\ frames' = Append(frames, Frame("while", r, h)) /\ (ignore' <=> r = "TRUE")
  BY DEF CWhile, WhileDo, NextPoint, Parsing
<1>2. /\ IRType(H) /\ H.size = h + 1 /\ OnlyIn(ir, H, {c}) /\ OneMore(ir, H, c)
      /\ Is(H, h, <<pos>>, <<>>, HeaderOp(r), None, None, FALSE)
  BY <1>1, FStateFacts, HeaderEffect
<1>3. /\ IRType(L) /\ L.size = h + 2 /\ OnlyIn(ir, L, {c}) /\ OneMore(ir, L, c)
      /\ Is(L, h, <<pos>>, <<h + 1>>, HeaderOp(r), None, None, FALSE)
      /\ Fresh(L, h + 1)
  BY <1>1, FStateFacts, LoopEffect
<1>4. /\ ir' = IF r = "TRUE" THEN H ELSE L
      /\ curr_block' = IF r = "TRUE" THEN h ELSE H.size
  BY <1>1 DEF WhileDo, Header
<1>5. /\ ir.blocks[c].successors = <<>> /\ ir.blocks[c].op = "EMPTY"
      /\ ir.blocks[c].will_return = FALSE
  <2>1. Ready(ir, c) /\ ir.blocks[c].will_return \in BOOLEAN
    BY <1>1, FStateFacts, BlockFields
  <2> QED
    BY <2>1 DEF Ready, will_return
<1> HIDE DEF H, L, h
<1>6. Append(<<>>, h) = <<h>> /\ ir.size = h
  BY DEF h
<1>7. \A J : OneMore(ir, J, c) =>
        Is(J, c, ir.blocks[c].code, <<h>>, "EMPTY", ir.blocks[c].larg, ir.blocks[c].rarg, FALSE)
  BY <1>5, <1>6 DEF OneMore, Is
<1>8. r = "TRUE" => HeaderOp(r) = "EMPTY"
  BY DEF HeaderOp
<1>9. /\ nest' = Append(nest, Construct(pos, LoopAlt(r)))
      /\ edges' = edges \union Arrive(pos)
      /\ open' = CASE r = "NEITHER" -> Leave(pos, "then")
                   [] r = "FALSE" -> Leave(pos, "next")
                   [] r = "TRUE" -> {}
  BY <1>1 DEF SrcWhile, LoopAlt
<1>10. Begun("while", r, h, LoopAlt(r))
  BY <1>1, <1>9 DEF Begun
<1>11. CASE r = "TRUE"
  BY <1>2, <1>4, <1>6, <1>7, <1>8, <1>9, <1>10, <1>11 DEF Looped
<1>12. CASE r # "TRUE"
  <2>1. curr_block' = h + 1 /\ ir' = L
    BY <1>2, <1>4, <1>12
  <2> QED
    BY <1>3, <1>6, <1>7, <1>9, <1>10, <1>12, <2>1 DEF Looped
<1> QED
  BY <1>11, <1>12

\* The first part of an if ends.
Turned(c2, flag2) ==
  /\ Parsing /\ Parsing' /\ frames # <<>> /\ Live(Top) /\ Top.kind = "if" /\ ~Top.in_else
  /\ UNCHANGED <<entry, edges>> /\ open' = Inner.alt
  /\ Len(frames') = Len(frames) /\ Len(nest') = Len(frames)
  /\ \A i \in 1..(Len(frames) - 1) : frames'[i] = frames[i] /\ nest'[i] = nest[i]
  /\ frames'[Len(frames)].kind = "if" /\ frames'[Len(frames)].in_else
  /\ frames'[Len(frames)].result = Top.result /\ frames'[Len(frames)].cond = Top.cond
  /\ frames'[Len(frames)].then_block = curr_block
  /\ nest'[Len(frames)].point = Inner.point /\ nest'[Len(frames)].alt = {}
  /\ nest'[Len(frames)].out = open
  /\ curr_block' = c2 /\ (ignore' <=> flag2)

TurnedNew ==
  /\ Turned(ir.size, FALSE) /\ Top.result = "NEITHER"
  /\ frames'[Len(frames)].og_else_block = ir.size
  /\ IRType(ir') /\ ir'.size = ir.size + 1 /\ OnlyIn(ir, ir', {Top.cond})
  /\ OneMore(ir, ir', Top.cond) /\ Fresh(ir', ir.size)

TurnedFolded ==
  /\ Turned(Top.cond, Top.result = "FALSE") /\ Top.result # "NEITHER" /\ ir' = ir

LEMMA ThenEndShape ==
  ASSUME FlowInv, CThenEnd, Live(Top)
  PROVE  TurnedNew \/ TurnedFolded
<1> DEFINE L == new_block(ir, Top.cond, "IF_BRANCH")
<1>1. /\ ThenEnd /\ SrcElse /\ Parsing /\ Parsing' /\ frames # <<>>
      /\ Top.kind = "if" /\ ~Top.in_else /\ UNCHANGED <<entry, edges>>
      /\ ir' = (IF Top.result = "NEITHER" THEN L ELSE ir)
      /\ curr_block' = (IF Top.result = "NEITHER" THEN ir.size ELSE Top.cond)
      /\ (ignore' <=> Top.result = "FALSE") /\ open' = Inner.alt
  BY DEF CThenEnd, ThenEnd, Parsing, SrcElse
<1>2. /\ Len(frames') = Len(frames)
      /\ \A i \in 1..(Len(frames) - 1) : frames'[i] = frames[i]
      /\ frames'[Len(frames)].kind = "if" /\ frames'[Len(frames)].in_else
      /\ frames'[Len(frames)].result = Top.result /\ frames'[Len(frames)].cond = Top.cond
      /\ frames'[Len(frames)].then_block = curr_block
      /\ Top.result = "NEITHER" => frames'[Len(frames)].og_else_block = ir.size
  BY <1>1, SecondPart
<1>3. /\ Len(nest) = Len(frames) /\ Len(nest') = Len(nest)
      /\ \A i \in 1..(Len(nest) - 1) : nest'[i] = nest[i]
      /\ nest'[Len(nest)].point = Inner.point /\ nest'[Len(nest)].alt = {}
      /\ nest'[Len(nest)].out = open
  BY <1>1, ElseShape, FStateFacts
<1>4. Top.result = "NEITHER" =>
        IRType(L) /\ L.size = ir.size + 1 /\ OnlyIn(ir, L, {Top.cond}) /\ OneMore(ir, L, Top.cond)
        /\ Fresh(L, ir.size)
  <2>1. /\ Top.cond \in 0..(ir.size - 1) /\ IRType(ir)
        /\ "IF_BRANCH" \in Blocktype \union {"LOOP_HEADER"}
    BY <1>1, TopFacts, FStateFacts DEF Blocktype
  <2> QED
    BY <2>1, new_blockEffect
<1> HIDE DEF L
<1>5. Turned(IF Top.result = "NEITHER" THEN ir.size ELSE Top.cond, Top.result = "FALSE")
  BY <1>1, <1>2, <1>3 DEF Turned
<1>6. CASE Top.result = "NEITHER"
  <2>1. Turned(ir.size, FALSE)
    BY <1>5, <1>6
  <2> QED
    BY <1>1, <1>2, <1>4, <1>6, <2>1 DEF TurnedNew
<1>7. CASE Top.result # "NEITHER"
  BY <1>1, <1>5, <1>7 DEF TurnedFolded
<1> QED
  BY <1>6, <1>7

\* A construct ends.
Ended(end) ==
  /\ Parsing /\ Parsing' /\ frames # <<>> /\ Live(Top) /\ UNCHANGED entry
  /\ ir' = end.ir /\ curr_block' = end.curr /\ (ignore' <=> end.returns)
  /\ Len(frames') = Len(frames) - 1 /\ Len(nest') = Len(frames) - 1
  /\ \A i \in 1..(Len(frames) - 1) : frames'[i] = frames[i] /\ nest'[i] = nest[i]

LEMMA FiShape ==
  ASSUME FlowInv, ~FoldedReturns, CFi, Live(Top)
  PROVE  LET end == if_end(ir, Top, curr_block)
         IN  /\ Ended(end) /\ FiCases(end) /\ Top.kind = "if" /\ Top.in_else
             /\ UNCHANGED edges /\ open' = open \union Inner.out
<1> DEFINE end == if_end(ir, Top, curr_block)
<1>1. /\ Fi /\ Parsing /\ Parsing' /\ frames # <<>> /\ Top.in_else /\ frames' = Pop
      /\ Top.kind = "if" /\ UNCHANGED <<entry, edges>>
      /\ ir' = end.ir /\ curr_block' = end.curr /\ ignore' = end.returns
      /\ nest' = Outer /\ open' = open \union Inner.out
  BY DEF CFi, Fi, SrcFi, Parsing
<1>2. FiCases(end)
  BY FiEndsRight
<1> HIDE DEF end
<1>3. Len(Pop) = Len(frames) - 1 /\ \A i \in 1..(Len(frames) - 1) : Pop[i] = frames[i]
  BY <1>1, ShapeOfPop, FStateFacts
<1>4. /\ Len(nest) = Len(frames) /\ Len(Outer) = Len(nest) - 1
      /\ \A i \in 1..(Len(nest) - 1) : Outer[i] = nest[i]
  BY <1>1, OuterShape, FStateFacts
<1>5. Ended(end)
  BY <1>1, <1>3, <1>4 DEF Ended
<1> QED
  BY <1>1, <1>2, <1>5 DEF end

LEMMA OdShape ==
  ASSUME FlowInv, COd, Live(Top)
  PROVE  LET end == while_end(ir, Top, curr_block)
         IN  /\ Ended(end) /\ OdCases(end) /\ Top.kind = "while"
             /\ edges' = edges \union Arrive(Inner.point) /\ open' = Inner.alt
<1> DEFINE end == while_end(ir, Top, curr_block)
<1>1. /\ Od /\ Parsing /\ Parsing' /\ frames # <<>> /\ frames' = Pop
      /\ Top.kind = "while" /\ UNCHANGED entry
      /\ ir' = end.ir /\ curr_block' = end.curr /\ ignore' = end.returns
      /\ nest' = Outer /\ open' = Inner.alt /\ edges' = edges \union Arrive(Inner.point)
  BY DEF COd, Od, SrcOd, Parsing
<1>2. OdCases(end)
  BY OdEndsRight
<1> HIDE DEF end
<1>3. Len(Pop) = Len(frames) - 1 /\ \A i \in 1..(Len(frames) - 1) : Pop[i] = frames[i]
  BY <1>1, ShapeOfPop, FStateFacts
<1>4. /\ Len(nest) = Len(frames) /\ Len(Outer) = Len(nest) - 1
      /\ \A i \in 1..(Len(nest) - 1) : Outer[i] = nest[i]
  BY <1>1, OuterShape, FStateFacts
<1>5. Ended(end)
  BY <1>1, <1>3, <1>4 DEF Ended
<1> QED
  BY <1>1, <1>2, <1>5 DEF end

-----------------------------------------------------------------------------
(* The blocks, one by one.                                                 *)

\* A block leads on in the way its branch instruction needs.
BlockOK(I, b) ==
  /\ I.blocks[b].op = "EMPTY" => /\ ~will_return(I, b) /\ I.blocks[b].rarg = None
                                 /\ Len(I.blocks[b].successors) <= 1
  /\ I.blocks[b].op = "BRA" => /\ I.blocks[b].larg \in Indices(I)
                               /\ I.blocks[b].larg > b \/ I.blocks[I.blocks[b].larg].code # <<>>
  /\ I.blocks[b].op = "Bcc" =>
       /\ I.blocks[b].code # <<>> /\ Len(I.blocks[b].successors) \in 1..2
       /\ \/ I.blocks[b].rarg = None
          \/ Len(I.blocks[b].successors) = 2 /\ I.blocks[b].rarg = I.blocks[b].successors[2]

\* The branch of an activation has the ways that were parsed so far.
PartBlocks(I, f) ==
  /\ Entered(f) => I.blocks[f.cond].code # <<>>
  /\ Live(f) /\ f.result = "NEITHER" /\ ~f.in_else => Len(I.blocks[f.cond].successors) = 1
  /\ Live(f) /\ f.result = "NEITHER" /\ f.in_else =>
       /\ Len(I.blocks[f.cond].successors) = 2 /\ I.blocks[f.cond].rarg = None
       /\ f.og_else_block = I.blocks[f.cond].successors[2]

\* A block that leads nowhere is one that parsing will go on in.
Stray(I, b) == I.blocks[b].op = "EMPTY" /\ I.blocks[b].successors = <<>>

\* The parts that parsing leaves for a while.
Awaited(f, b) ==
  \/ b = f.cond /\ Live(f) /\ f.result = "TRUE" /\ ~f.in_else
  \/ b = f.then_block /\ Kept(f)

AwaitedIn(q, b) == \E i \in 1..Len(q) : Awaited(q[i], b)

Expected(q, c, flag, b) == (~flag /\ b = c) \/ AwaitedIn(q, b)

BlocksInv ==
  /\ FlowInv
  /\ \A b \in Indices(ir) : BlockOK(ir, b)
  /\ Parsing =>
       /\ \A i \in 1..Len(frames) : PartBlocks(ir, frames[i])
       /\ \A b \in entry..(ir.size - 1) : Stray(ir, b) => Expected(frames, curr_block, ignore, b)
       /\ ignore /\ NoneDead(frames) => ir.blocks[curr_block].op # "EMPTY"

Untouched(J, f) == \A b : Remembers(f, b) => Alike(ir, J, b)

LEMMA LiveUntouched ==
  ASSUME FlowInv, Parsing, ~ignore, NEW J, OnlyIn(ir, J, {curr_block}), NEW i \in 1..Len(frames)
  PROVE  Untouched(J, frames[i])
<1>1. ~Remembers(frames[i], curr_block)
  BY NoDeadPart, CurrNotRemembered
<1> QED
  BY <1>1, RememberedIsBlock DEF Untouched, OnlyIn

LEMMA OuterUntouched ==
  ASSUME FlowInv, Parsing, frames # <<>>, Live(Top), NEW J,
         NEW S \in SUBSET (0..(ir.size - 1)), \A p \in S : Above(ir, Top.cond, p),
         OnlyIn(ir, J, S), NEW i \in 1..(Len(frames) - 1)
  PROVE  i \in 1..Len(frames) /\ Untouched(J, frames[i])
<1>1. i \in 1..Len(frames)
  BY FStateFacts
<1>2. \A p \in S : ~Remembers(frames[i], p)
  BY OuterNotRemembered
<1> QED
  BY <1>1, <1>2, RememberedIsBlock DEF Untouched, OnlyIn

LEMMA PartBlocksStay ==
  ASSUME NEW J, NEW f, PartBlocks(ir, f), Untouched(J, f)
  PROVE  PartBlocks(J, f)
<1>1. Entered(f) \/ (Live(f) /\ f.result = "NEITHER") => Remembers(f, f.cond)
  BY DEF Remembers, Entered, Branching
<1> QED
  BY <1>1 DEF PartBlocks, Untouched, Alike

LEMMA FreshBlock ==
  ASSUME NEW J, NEW b, Fresh(J, b)
  PROVE  BlockOK(J, b)
<1>1. Len(<<>>) <= 1
  OBVIOUS
<1> QED
  BY <1>1 DEF Fresh, Is, BlockOK, will_return

LEMMA BlocksStay ==
  ASSUME BlocksInv, NEW J, NEW S, OnlyIn(ir, J, S), J.size \in Nat, ir.size <= J.size,
         \A c \in Indices(ir) : ir.blocks[c].code # <<>> => J.blocks[c].code # <<>>,
         NEW b \in Indices(ir), b \notin S
  PROVE  BlockOK(J, b)
<1>1. BlockOK(ir, b)
  BY DEF BlocksInv
<1>2. ir.size \in Nat /\ b \in 0..(ir.size - 1) /\ Indices(ir) \subseteq Indices(J)
  <2>1. ir.size \in Nat
    BY FStateFacts DEF BlocksInv
  <2> QED
    BY <2>1 DEF Indices
<1>3. Alike(ir, J, b)
  BY <1>2 DEF OnlyIn
<1> QED
  BY <1>1, <1>2, <1>3 DEF BlockOK, Alike, will_return

LEMMA StraysStay ==
  ASSUME BlocksInv, Parsing, NEW J, NEW S, OnlyIn(ir, J, S),
         NEW b \in entry..(ir.size - 1), b \notin S, Stray(J, b)
  PROVE  Expected(frames, curr_block, ignore, b)
<1>1. b \in 0..(ir.size - 1)
  <2>1. entry \in Nat /\ ir.size \in Nat
    BY FStateFacts, StateFacts DEF BlocksInv, Inv, TypeOK
  <2> QED
    BY <2>1
<1>2. Stray(ir, b)
  BY <1>1 DEF OnlyIn, Alike, Stray
<1> QED
  BY <1>2 DEF BlocksInv

LEMMA AppendNotEmpty ==
  ASSUME NEW s \in Seq(Nat), NEW k \in Nat
  PROVE  Append(s, k) # <<>>
<1>1. Len(Append(s, k)) = Len(s) + 1 /\ Len(s) \in Nat
  OBVIOUS
<1>2. Len(<<>>) = 0
  OBVIOUS
<1> QED
  BY <1>1, <1>2

\* The steps.
LEMMA IdleBlocks ==
  ASSUME BlocksInv, IdleStep, FlowInv'
  PROVE  BlocksInv'
<1> DEFINE q == frames
           p == frames'
<1>1. /\ Parsing /\ ignore /\ ignore' /\ ir' = ir /\ curr_block' = curr_block /\ entry' = entry
      /\ \A i \in 1..Len(p) : Live(p[i]) => i \in 1..Len(q) /\ p[i] = q[i]
      /\ \A i \in 1..Len(q) : Live(q[i]) => i \in 1..Len(p) /\ p[i] = q[i]
  BY DEF IdleStep, SameLive
<1>2. /\ \A b \in Indices(ir) : BlockOK(ir, b)
      /\ \A i \in 1..Len(q) : PartBlocks(ir, q[i])
      /\ \A b \in entry..(ir.size - 1) : Stray(ir, b) => Expected(q, curr_block, ignore, b)
      /\ ignore /\ NoneDead(q) => ir.blocks[curr_block].op # "EMPTY"
  BY <1>1 DEF BlocksInv
<1> HIDE DEF p
<1>3. \A i \in 1..Len(p) : PartBlocks(ir, p[i])
  BY <1>1, <1>2 DEF PartBlocks, Entered
<1>4. \A b : Expected(q, curr_block, ignore, b) => Expected(p, curr_block, ignore, b)
  BY <1>1 DEF Expected, AwaitedIn, Awaited, Kept
<1>5. NoneDead(p) => NoneDead(q)
  BY <1>1 DEF NoneDead
<1>6. /\ \A b \in Indices(ir') : BlockOK(ir', b)
      /\ \A i \in 1..Len(p) : PartBlocks(ir', p[i])
      /\ \A b \in entry'..(ir'.size - 1) : Stray(ir', b) => Expected(p, curr_block', ignore', b)
      /\ ignore' /\ NoneDead(p) => ir'.blocks[curr_block'].op # "EMPTY"
  BY <1>1, <1>2, <1>3, <1>4, <1>5
<1> QED
  BY <1>6 DEF BlocksInv, p

LEMMA EmittedBlocks ==
  ASSUME BlocksInv, NEW op \in {"EMPTY", "RET"}, Emitted(op), ignore' <=> op = "RET", FlowInv'
  PROVE  BlocksInv'
<1> DEFINE c == curr_block
           J == ir'
<1>1. /\ Parsing /\ ~ignore /\ curr_block' = c /\ entry' = entry /\ frames' = frames
      /\ IRType(J) /\ J.size = ir.size /\ OnlyIn(ir, J, {c})
      /\ Is(J, c, Append(ir.blocks[c].code, pos), <<>>, op, J.blocks[c].larg,
            ir.blocks[c].rarg, op = "RET")
  BY DEF Emitted
<1>2. /\ FlowInv /\ Ready(ir, c) /\ c \in Indices(ir) /\ ir.size \in Nat /\ IRType(ir)
      /\ c \in 0..(ir.size - 1) /\ BlockOK(ir, c) /\ pos \in Nat
  BY <1>1, FStateFacts DEF BlocksInv
<1>3. \A b \in Indices(ir) : ir.blocks[b].code # <<>> => J.blocks[b].code # <<>>
  <2>1. ir.blocks[c].code \in Seq(Nat)
    BY <1>2, BlockFields
  <2>2. Append(ir.blocks[c].code, pos) # <<>>
    BY <1>2, <2>1, AppendNotEmpty
  <2>3. \A b \in Indices(ir) : b \in 0..(ir.size - 1)
    BY <1>2 DEF Indices
  <2> QED
    BY <1>1, <2>2, <2>3 DEF OnlyIn, Alike, Is
<1>4. BlockOK(J, c)
  <2>1. Len(<<>>) = 0
    OBVIOUS
  <2> QED
    BY <1>1, <1>2, <2>1 DEF Is, BlockOK, Ready, will_return
<1>5. \A b \in Indices(ir) : BlockOK(J, b)
  <2>1. J.size \in Nat /\ ir.size <= J.size /\ OnlyIn(ir, J, {c})
    BY <1>1, <1>2
  <2> HIDE DEF J
  <2>2. \A b \in Indices(ir) : b \notin {c} => BlockOK(J, b)
    BY <1>3, <2>1, BlocksStay
  <2> QED
    BY <1>4, <2>2
<1>6. \A i \in 1..Len(frames) : PartBlocks(J, frames[i])
  BY <1>1, <1>2, LiveUntouched, PartBlocksStay DEF BlocksInv
<1>7. \A b \in entry..(ir.size - 1) : Stray(J, b) => Expected(frames, c, ignore', b)
  <2> SUFFICES ASSUME NEW b \in entry..(ir.size - 1), Stray(J, b)
               PROVE  Expected(frames, c, ignore', b)
    OBVIOUS
  <2>1. CASE b = c
    BY <1>1, <2>1 DEF Stray, Is, Expected
  <2>2. CASE b # c
    <3>1. Expected(frames, c, ignore, b)
      BY <1>1, <2>2, StraysStay
    <3> QED
      BY <2>2, <3>1 DEF Expected
  <2> QED
    BY <2>1, <2>2
<1>8. ignore' => J.blocks[c].op # "EMPTY"
  BY <1>1 DEF Is
<1>9. Indices(J) = Indices(ir)
  BY <1>1 DEF Indices
<1> HIDE DEF J
<1>10. /\ \A b \in Indices(J) : BlockOK(J, b)
       /\ \A i \in 1..Len(frames') : PartBlocks(J, frames'[i])
       /\ \A b \in entry'..(J.size - 1) : Stray(J, b) => Expected(frames', curr_block', ignore', b)
       /\ ignore' /\ NoneDead(frames') => J.blocks[curr_block'].op # "EMPTY"
  BY <1>1, <1>5, <1>6, <1>7, <1>8, <1>9
<1> QED
  BY <1>10 DEF BlocksInv, J


\* The parts that wait go on to wait when a construct begins.
LEMMA AwaitedPushed ==
  ASSUME NEW q \in Seq(Frames), NEW f \in Frames, NEW b, AwaitedIn(q, b) \/ Awaited(f, b)
  PROVE  AwaitedIn(Append(q, f), b)
<1> DEFINE p == Append(q, f)
<1>1. /\ Len(p) = Len(q) + 1 /\ Len(q) \in Nat /\ p[Len(q) + 1] = f
      /\ \A i \in 1..Len(q) : p[i] = q[i]
  OBVIOUS
<1> HIDE DEF p
<1>2. AwaitedIn(p, b)
  BY <1>1 DEF AwaitedIn
<1> QED
  BY <1>2 DEF p

LEMMA PushedBlocks ==
  ASSUME FlowInv, Parsing, NEW J, NEW f \in Frames, PartBlocks(J, f),
         \A i \in 1..Len(frames) : PartBlocks(J, frames[i]), frames' = Append(frames, f)
  PROVE  \A i \in 1..Len(frames') : PartBlocks(J, frames'[i])
<1>1. /\ Len(frames') = Len(frames) + 1
      /\ \A i \in 1..(Len(frames) + 1) :
           /\ i = Len(frames) + 1 => frames'[i] = f
           /\ i # Len(frames) + 1 => i \in 1..Len(frames) /\ frames'[i] = frames[i]
  BY PushedAt, FStateFacts
<1> QED
  BY <1>1

\* Only the current block has changed and it leads on now.
LEMMA LiveStep ==
  ASSUME BlocksInv, Parsing, ~ignore, NEW J, IRType(J), OnlyIn(ir, J, {curr_block}),
         ir.size <= J.size, ir.blocks[curr_block].code # <<>> => J.blocks[curr_block].code # <<>>,
         BlockOK(J, curr_block), ~Stray(J, curr_block)
  PROVE  /\ \A b \in Indices(ir) : BlockOK(J, b)
         /\ \A i \in 1..Len(frames) : PartBlocks(J, frames[i])
         /\ \A b \in entry..(ir.size - 1) : Stray(J, b) => AwaitedIn(frames, b)
<1>1. /\ FlowInv /\ ir.size \in Nat /\ J.size \in Nat
      /\ \A i \in 1..Len(frames) : PartBlocks(ir, frames[i])
  BY FStateFacts DEF BlocksInv, IRType
<1>2. \A b \in Indices(ir) : ir.blocks[b].code # <<>> => J.blocks[b].code # <<>>
  <2>1. \A b \in Indices(ir) : b \in 0..(ir.size - 1)
    BY <1>1 DEF Indices
  <2> QED
    BY <2>1 DEF OnlyIn, Alike
<1>3. \A b \in Indices(ir) : BlockOK(J, b)
  <2>1. \A b \in Indices(ir) : b \notin {curr_block} => BlockOK(J, b)
    BY <1>1, <1>2, BlocksStay
  <2> QED
    BY <2>1
<1>4. \A i \in 1..Len(frames) : PartBlocks(J, frames[i])
  BY <1>1, LiveUntouched, PartBlocksStay
<1>5. ASSUME NEW b \in entry..(ir.size - 1), Stray(J, b)
      PROVE  AwaitedIn(frames, b)
  <2>1. b # curr_block
    BY <1>5
  <2>2. Expected(frames, curr_block, ignore, b)
    BY <1>5, <2>1, StraysStay
  <2> QED
    BY <2>1, <2>2 DEF Expected
<1> QED
  BY <1>3, <1>4, <1>5

LEMMA IndicesGrow ==
  ASSUME NEW I, NEW J, I.size \in Nat \ {0}, NEW e \in Nat
  PROVE  /\ J.size = I.size => Indices(J) = Indices(I) /\ e..(J.size - 1) = e..(I.size - 1)
         /\ J.size = I.size + 1 => /\ Indices(J) = Indices(I) \union {I.size}
                                   /\ e..(J.size - 1) \subseteq (e..(I.size - 1)) \union {I.size}
         /\ J.size = I.size + 2 =>
              /\ Indices(J) = Indices(I) \union {I.size, I.size + 1}
              /\ e..(J.size - 1) \subseteq (e..(I.size - 1)) \union {I.size, I.size + 1}
BY DEF Indices

LEMMA BlocksFacts ==
  ASSUME BlocksInv
  PROVE  /\ FlowInv /\ ir.size \in Nat \ {0} /\ entry \in Nat /\ pos \in Nat
         /\ \A b \in Indices(ir) : BlockOK(ir, b)
         /\ Parsing =>
              /\ \A i \in 1..Len(frames) : PartBlocks(ir, frames[i])
              /\ ~ignore => /\ Ready(ir, curr_block) /\ BlockOK(ir, curr_block)
                            /\ ir.blocks[curr_block].rarg = None
                            /\ Append(ir.blocks[curr_block].code, pos) # <<>>
<1>1. FlowInv /\ \A b \in Indices(ir) : BlockOK(ir, b)
  BY DEF BlocksInv
<1>2. /\ IRType(ir) /\ entry \in Nat /\ pos \in Nat
      /\ Parsing => /\ curr_block \in Indices(ir) /\ curr_block \in 0..(ir.size - 1)
                    /\ ~ignore => Ready(ir, curr_block)
  <2>1. Inv
    BY <1>1, FStateFacts
  <2>2. entry \in Nat
    BY <2>1 DEF Inv, TypeOK
  <2> QED
    BY <1>1, <2>2, FStateFacts
<1>3. Parsing => Append(ir.blocks[curr_block].code, pos) # <<>>
  BY <1>2, BlockFields, AppendNotEmpty
<1>4. Parsing => \A i \in 1..Len(frames) : PartBlocks(ir, frames[i])
  BY DEF BlocksInv
<1>5. ir.size \in Nat \ {0}
  BY <1>2 DEF IRType
<1>6. Parsing /\ ~ignore => /\ BlockOK(ir, curr_block)
                           /\ ir.blocks[curr_block].rarg = None
  BY <1>1, <1>2 DEF Ready, BlockOK
<1> QED
  BY <1>1, <1>2, <1>3, <1>4, <1>5, <1>6

LEMMA BranchedBlocks ==
  ASSUME BlocksInv, Branched, FlowInv'
  PROVE  BlocksInv'
<1> DEFINE c == curr_block
           n == ir.size
           J == ir'
           f == Frame("if", "NEITHER", c)
<1>1. /\ Parsing /\ ~ignore /\ ~ignore' /\ entry' = entry /\ frames' = Append(frames, f)
      /\ IRType(J) /\ J.size = n + 1 /\ OnlyIn(ir, J, {c})
      /\ Is(J, c, Append(ir.blocks[c].code, pos), <<n>>, "Bcc", None, ir.blocks[c].rarg, FALSE)
      /\ Fresh(J, n) /\ curr_block' = n
  BY DEF Branched, Begun
<1>2. /\ FlowInv /\ ir.blocks[c].rarg = None /\ Append(ir.blocks[c].code, pos) # <<>>
      /\ n \in Nat \ {0} /\ entry \in Nat /\ frames \in Seq(Frames) /\ c \in Nat
  BY <1>1, BlocksFacts, FStateFacts
<1>3. BlockOK(J, c) /\ ~Stray(J, c) /\ J.blocks[c].code # <<>>
  <2>1. Len(<<n>>) = 1
    OBVIOUS
  <2> QED
    BY <1>1, <1>2, <2>1 DEF Is, BlockOK, Stray
<1> HIDE DEF J
<1>4. /\ \A b \in Indices(ir) : BlockOK(J, b)
      /\ \A i \in 1..Len(frames) : PartBlocks(J, frames[i])
      /\ \A b \in entry..(ir.size - 1) : Stray(J, b) => AwaitedIn(frames, b)
  <2>1. ir.size <= J.size
    BY <1>1, <1>2
  <2> QED
    BY <1>1, <1>3, <2>1, LiveStep
<1>5. BlockOK(J, n)
  BY <1>1, FreshBlock
<1>6. f \in Frames /\ f.cond = c /\ ~f.in_else
  BY <1>2, NewFrameFlow DEF Relation
<1> HIDE DEF f
<1>7. PartBlocks(J, f)
  <2>1. Len(J.blocks[c].successors) = 1
    BY <1>1 DEF Is
  <2> QED
    BY <1>3, <1>6, <2>1 DEF PartBlocks
<1>8. \A i \in 1..Len(frames') : PartBlocks(J, frames'[i])
  BY <1>1, <1>2, <1>4, <1>6, <1>7, PushedBlocks
<1>9. \A b \in entry..(J.size - 1) : Stray(J, b) => Expected(frames', n, FALSE, b)
  <2>1. \A b : AwaitedIn(frames, b) => AwaitedIn(frames', b)
    BY <1>1, <1>2, <1>6, AwaitedPushed
  <2> QED
    BY <1>1, <1>2, <1>4, <2>1, IndicesGrow DEF Expected
<1>10. \A b \in Indices(J) : BlockOK(J, b)
  BY <1>1, <1>2, <1>4, <1>5, IndicesGrow
<1>11. /\ \A b \in entry'..(J.size - 1) : Stray(J, b) => Expected(frames', curr_block', ignore', b)
       /\ ~(ignore' /\ NoneDead(frames'))
  BY <1>1, <1>9 DEF Expected
<1> QED
  BY <1>8, <1>10, <1>11 DEF BlocksInv, J


LEMMA FoldedBlocks ==
  ASSUME BlocksInv, NEW r, Folded(r), FlowInv'
  PROVE  BlocksInv'
<1> DEFINE c == curr_block
           f == Frame("if", r, c)
<1>1. /\ Parsing /\ ~ignore /\ (ignore' <=> r = "TRUE") /\ entry' = entry
      /\ frames' = Append(frames, f) /\ ir' = ir /\ curr_block' = c /\ r \in {"TRUE", "FALSE"}
  BY DEF Folded, Begun
<1>2. /\ FlowInv /\ frames \in Seq(Frames) /\ c \in Nat
      /\ \A b \in Indices(ir) : BlockOK(ir, b)
      /\ \A i \in 1..Len(frames) : PartBlocks(ir, frames[i])
      /\ \A b \in entry..(ir.size - 1) : Stray(ir, b) => Expected(frames, c, ignore, b)
  BY <1>1, BlocksFacts, FStateFacts DEF BlocksInv
<1>3. /\ f \in Frames /\ Live(f) /\ f.cond = c /\ f.result = r /\ f.kind = "if" /\ ~f.in_else
      /\ DeadPart(f) <=> r = "TRUE"
  BY <1>1, <1>2, NewFrameFlow DEF Relation
<1> HIDE DEF f
<1>4. PartBlocks(ir, f)
  BY <1>1, <1>3 DEF PartBlocks, Entered, Branching
<1>5. \A i \in 1..Len(frames') : PartBlocks(ir, frames'[i])
  BY <1>1, <1>2, <1>3, <1>4, PushedBlocks
<1>6. \A b \in entry..(ir.size - 1) : Stray(ir, b) => Expected(frames', c, ignore', b)
  <2>1. \A b : AwaitedIn(frames, b) \/ Awaited(f, b) => AwaitedIn(frames', b)
    BY <1>1, <1>2, <1>3, AwaitedPushed
  <2>2. r = "TRUE" => Awaited(f, c)
    BY <1>3 DEF Awaited
  <2> QED
    BY <1>1, <1>2, <2>1, <2>2 DEF Expected
<1>7. ~(ignore' /\ NoneDead(frames'))
  <2>1. Len(frames) + 1 \in 1..Len(frames') /\ frames'[Len(frames) + 1] = f
    BY <1>1, <1>2, <1>3
  <2> QED
    BY <1>1, <1>3, <2>1 DEF NoneDead
<1>8. /\ \A b \in Indices(ir') : BlockOK(ir', b)
      /\ \A i \in 1..Len(frames') : PartBlocks(ir', frames'[i])
      /\ \A b \in entry'..(ir'.size - 1) : Stray(ir', b) => Expected(frames', curr_block', ignore', b)
  BY <1>1, <1>2, <1>5, <1>6
<1> QED
  BY <1>7, <1>8 DEF BlocksInv

LEMMA LoopedBlocks ==
  ASSUME BlocksInv, NEW r \in Relation, Looped(r), FlowInv'
  PROVE  BlocksInv'
<1> DEFINE c == curr_block
           h == ir.size
           J == ir'
           f == Frame("while", r, h)
<1>1. /\ Parsing /\ ~ignore /\ (ignore' <=> r = "TRUE") /\ entry' = entry
      /\ frames' = Append(frames, f)
      /\ IRType(J) /\ OnlyIn(ir, J, {c})
      /\ Is(J, c, ir.blocks[c].code, <<h>>, "EMPTY", ir.blocks[c].larg, ir.blocks[c].rarg, FALSE)
      /\ r = "TRUE" => /\ J.size = h + 1 /\ curr_block' = h
                       /\ Is(J, h, <<pos>>, <<>>, "EMPTY", None, None, FALSE)
      /\ r # "TRUE" => /\ J.size = h + 2 /\ curr_block' = h + 1
                       /\ Is(J, h, <<pos>>, <<h + 1>>, HeaderOp(r), None, None, FALSE)
                       /\ Fresh(J, h + 1)
  BY DEF Looped, Begun
<1>2. /\ FlowInv /\ ir.blocks[c].rarg = None /\ h \in Nat \ {0} /\ entry \in Nat
      /\ frames \in Seq(Frames)
  BY <1>1, BlocksFacts, FStateFacts
<1>3. f \in Frames /\ Live(f) /\ f.cond = h /\ f.result = r /\ ~f.in_else /\ (DeadPart(f) <=> r = "TRUE")
  BY <1>2, NewFrameFlow
<1> HIDE DEF f, J
<1>4. BlockOK(J, c) /\ ~Stray(J, c) /\ (ir.blocks[c].code # <<>> => J.blocks[c].code # <<>>)
  <2>1. Len(<<h>>) = 1
    OBVIOUS
  <2> QED
    BY <1>1, <1>2, <2>1 DEF Is, BlockOK, Stray, will_return
<1>5. /\ \A b \in Indices(ir) : BlockOK(J, b)
      /\ \A i \in 1..Len(frames) : PartBlocks(J, frames[i])
      /\ \A b \in entry..(ir.size - 1) : Stray(J, b) => AwaitedIn(frames, b)
  <2>1. ir.size <= J.size
    <3>1. J.size = h + 1 \/ J.size = h + 2
      BY <1>1, Zenon
    <3> QED
      BY <1>2, <3>1
  <2> QED
    BY <1>1, <1>4, <2>1, LiveStep
<1>6. /\ BlockOK(J, h) /\ PartBlocks(J, f)
      /\ r # "TRUE" => BlockOK(J, h + 1) /\ ~Stray(J, h)
  <2>1. Len(<<h + 1>>) = 1 /\ Len(<<>>) = 0 /\ <<pos>> # <<>> /\ <<h + 1>> # <<>>
    OBVIOUS
  <2>2. \/ Is(J, h, <<pos>>, <<>>, "EMPTY", None, None, FALSE) /\ r = "TRUE"
        \/ Is(J, h, <<pos>>, <<h + 1>>, HeaderOp(r), None, None, FALSE) /\ Fresh(J, h + 1)
    BY <1>1, Zenon
  <2>3. HeaderOp(r) = "Bcc" \/ HeaderOp(r) = "EMPTY"
    BY DEF HeaderOp
  <2>4. /\ BlockOK(J, h) /\ J.blocks[h].code # <<>>
        /\ r # "TRUE" => ~Stray(J, h) /\ Len(J.blocks[h].successors) = 1
    <3>1. CASE Is(J, h, <<pos>>, <<>>, "EMPTY", None, None, FALSE) /\ r = "TRUE"
      BY <2>1, <3>1 DEF Is, BlockOK, will_return
    <3>2. CASE Is(J, h, <<pos>>, <<h + 1>>, HeaderOp(r), None, None, FALSE)
      <4>1. J.blocks[h].successors = <<h + 1>> /\ J.blocks[h].code = <<pos>>
        BY <3>2 DEF Is
      <4>2. Len(J.blocks[h].successors) = 1 /\ J.blocks[h].successors # <<>>
            /\ J.blocks[h].code # <<>>
        BY <2>1, <4>1, Zenon
      <4> QED
        BY <2>3, <3>2, <4>2 DEF Is, BlockOK, Stray, will_return
    <3> QED
      BY <2>2, <3>1, <3>2
  <2>5. PartBlocks(J, f)
    <3>1. r \in {"TRUE", "FALSE", "NEITHER"}
      BY DEF Relation
    <3> QED
      BY <1>3, <2>4, <3>1 DEF PartBlocks
  <2>6. r # "TRUE" => BlockOK(J, h + 1)
    BY <2>2, FreshBlock
  <2> QED
    BY <2>4, <2>5, <2>6
<1>7. \A i \in 1..Len(frames') : PartBlocks(J, frames'[i])
  BY <1>1, <1>2, <1>3, <1>5, <1>6, PushedBlocks
<1>8. \A b \in Indices(J) : BlockOK(J, b)
  <2>1. \/ J.size = h + 1 /\ BlockOK(J, h)
        \/ J.size = h + 2 /\ BlockOK(J, h) /\ BlockOK(J, h + 1)
    BY <1>1, <1>6, Zenon
  <2>2. \/ Indices(J) = Indices(ir) \union {h} /\ BlockOK(J, h)
        \/ Indices(J) = Indices(ir) \union {h, h + 1} /\ BlockOK(J, h) /\ BlockOK(J, h + 1)
    BY <1>2, <2>1, IndicesGrow, Zenon
  <2> QED
    BY <1>5, <2>2
<1>9. \A b \in entry..(J.size - 1) : Stray(J, b) => Expected(frames', curr_block', ignore', b)
  <2>1. \A b : AwaitedIn(frames, b) \/ Awaited(f, b) => AwaitedIn(frames', b)
    BY <1>1, <1>2, <1>3, AwaitedPushed
  <2>2. r = "TRUE" => Awaited(f, h)
    BY <1>3 DEF Awaited
  <2>3. CASE r = "TRUE"
    <3>1. entry..(J.size - 1) \subseteq (entry..(ir.size - 1)) \union {h}
      BY <1>1, <1>2, <2>3, IndicesGrow
    <3> QED
      BY <1>5, <2>1, <2>2, <2>3, <3>1 DEF Expected
  <2>4. CASE r # "TRUE"
    <3>1. entry..(J.size - 1) \subseteq (entry..(ir.size - 1)) \union {h, h + 1}
      BY <1>1, <1>2, <2>4, IndicesGrow
    <3>2. curr_block' = h + 1 /\ ~ignore' /\ ~Stray(J, h)
      BY <1>1, <1>6, <2>4
    <3> QED
      BY <1>5, <2>1, <3>1, <3>2 DEF Expected
  <2> QED
    BY <2>3, <2>4
<1>10. ~(ignore' /\ NoneDead(frames'))
  <2>1. Len(frames) + 1 \in 1..Len(frames') /\ frames'[Len(frames) + 1] = f
    BY <1>1, <1>2, <1>3
  <2> QED
    BY <1>1, <1>3, <2>1 DEF NoneDead
<1>11. \A b \in entry'..(J.size - 1) : Stray(J, b) => Expected(frames', curr_block', ignore', b)
  BY <1>1, <1>9
<1> QED
  BY <1>7, <1>8, <1>10, <1>11 DEF BlocksInv, J


\* The innermost frame has been replaced, the others are the same.
LEMMA TurnedParts ==
  ASSUME FlowInv, Parsing, NEW J, Len(frames') = Len(frames),
         \A i \in 1..(Len(frames) - 1) : frames'[i] = frames[i] /\ PartBlocks(J, frames[i]),
         PartBlocks(J, frames'[Len(frames)])
  PROVE  \A i \in 1..Len(frames') : PartBlocks(J, frames'[i])
<1>1. \A i \in 1..Len(frames) : i = Len(frames) \/ i \in 1..(Len(frames) - 1)
  BY FStateFacts
<1> QED
  BY <1>1

LEMMA AwaitedInner ==
  ASSUME FlowInv, Parsing, frames # <<>>, NEW b, AwaitedIn(frames, b)
  PROVE  Awaited(Top, b) \/ \E i \in 1..(Len(frames) - 1) : Awaited(frames[i], b)
<1>1. \A i \in 1..Len(frames) : i = Len(frames) \/ i \in 1..(Len(frames) - 1)
  BY FStateFacts
<1> QED
  BY <1>1 DEF AwaitedIn, Top

LEMMA OuterAwaited ==
  ASSUME FlowInv, Parsing, frames # <<>>, NEW i \in 1..(Len(frames) - 1), NEW b, NEW q,
         Len(q) = Len(frames) \/ Len(q) = Len(frames) - 1, q[i] = frames[i], Awaited(frames[i], b)
  PROVE  AwaitedIn(q, b)
<1>1. i \in 1..Len(q)
  BY FStateFacts
<1> QED
  BY <1>1 DEF AwaitedIn

LEMMA AppendedSecond ==
  ASSUME NEW s \in Seq(Nat), NEW n \in Nat, Len(s) = 1
  PROVE  Len(Append(s, n)) = 2 /\ Append(s, n)[2] = n /\ Append(s, n)[1] = s[1]
<1>1. Len(Append(s, n)) = Len(s) + 1 /\ Append(s, n)[Len(s) + 1] = n
  OBVIOUS
<1>2. \A i \in 1..Len(s) : Append(s, n)[i] = s[i]
  OBVIOUS
<1>3. 1 \in 1..Len(s)
  OBVIOUS
<1> QED
  BY <1>1, <1>2, <1>3

LEMMA TurnedNewBlocks ==
  ASSUME BlocksInv, TurnedNew, FlowInv'
  PROVE  BlocksInv'
<1> DEFINE k == Len(frames)
           n == ir.size
           d == Top.cond
           J == ir'
           f == frames'[k]
<1>1. /\ Parsing /\ frames # <<>> /\ Live(Top) /\ ~Top.in_else /\ entry' = entry
      /\ Len(frames') = k /\ \A i \in 1..(k - 1) : frames'[i] = frames[i]
      /\ f.kind = "if" /\ f.in_else /\ f.result = "NEITHER" /\ f.cond = d
      /\ f.then_block = curr_block /\ f.og_else_block = n /\ Top.result = "NEITHER"
      /\ curr_block' = n /\ ~ignore'
  BY DEF TurnedNew, Turned
<1>2. /\ IRType(J) /\ J.size = n + 1 /\ OnlyIn(ir, J, {d}) /\ OneMore(ir, J, d) /\ Fresh(J, n)
  BY DEF TurnedNew
<1>3. /\ FlowInv /\ n \in Nat \ {0} /\ entry \in Nat
      /\ \A b \in Indices(ir) : BlockOK(ir, b)
      /\ \A i \in 1..k : PartBlocks(ir, frames[i])
  BY <1>1, BlocksFacts
<1>4. /\ d \in 0..(n - 1) /\ d \in Indices(ir) /\ Top = frames[k] /\ k \in 1..k
      /\ ir.blocks[d].op = "Bcc" /\ Above(ir, d, d) /\ IROK(ir)
  <2>1. Entered(Top)
    BY <1>1 DEF Entered, Branching
  <2>2. Top = frames[k] /\ k \in 1..k
    BY <1>1, <1>3, TopFacts
  <2>3. d \in Indices(ir)
    BY <1>3, <2>1, <2>2, RememberedIsBlock DEF Remembers
  <2> QED
    BY <1>1, <1>3, <2>2, <2>3, TopFacts, FStateFacts DEF PartFlow
<1>5. PartBlocks(ir, Top) /\ BlockOK(ir, d)
  BY <1>3, <1>4
<1>6. /\ ir.blocks[d].code # <<>> /\ Len(ir.blocks[d].successors) = 1 /\ ir.blocks[d].rarg = None
      /\ ir.blocks[d].successors \in Seq(Nat)
  <2>1. Entered(Top)
    BY <1>1 DEF Entered, Branching
  <2>2. Len(ir.blocks[d].successors) = 1
    BY <1>1, <1>5 DEF PartBlocks
  <2>3. ir.blocks[d].rarg = None
    BY <1>4, <1>5, <2>2 DEF BlockOK
  <2> QED
    BY <1>3, <1>4, <1>5, <2>1, <2>2, <2>3, BlockFields, FStateFacts DEF PartBlocks
<1> HIDE DEF f, J, d
<1>7. /\ J.blocks[d].op = "Bcc" /\ J.blocks[d].code = ir.blocks[d].code /\ J.blocks[d].rarg = None
      /\ Len(J.blocks[d].successors) = 2 /\ J.blocks[d].successors[2] = n
  <2>1. /\ J.blocks[d].successors = Append(ir.blocks[d].successors, n)
        /\ J.blocks[d].op = ir.blocks[d].op /\ J.blocks[d].code = ir.blocks[d].code
        /\ J.blocks[d].rarg = ir.blocks[d].rarg
    BY <1>2 DEF OneMore, Is
  <2>2. n \in Nat
    BY <1>3
  <2> QED
    BY <1>4, <1>6, <2>1, <2>2, AppendedSecond
<1>8. BlockOK(J, d) /\ ~Stray(J, d)
  BY <1>6, <1>7 DEF BlockOK, Stray
<1>9. \A b \in Indices(ir) : ir.blocks[b].code # <<>> => J.blocks[b].code # <<>>
  <2>1. \A b \in Indices(ir) : b \in 0..(ir.size - 1)
    BY <1>3 DEF Indices
  <2> QED
    BY <1>2, <1>7, <2>1 DEF OnlyIn, Alike
<1>10. \A b \in Indices(J) : BlockOK(J, b)
  <2>1. J.size \in Nat /\ ir.size <= J.size
    BY <1>2, <1>3
  <2>2. \A b \in Indices(ir) : b \notin {d} => BlockOK(J, b)
    BY <1>2, <1>9, <2>1, BlocksStay
  <2>3. BlockOK(J, n)
    BY <1>2, FreshBlock
  <2>4. Indices(J) = Indices(ir) \union {n}
    BY <1>2, <1>3, IndicesGrow
  <2> QED
    BY <1>8, <2>2, <2>3, <2>4
<1>11. \A i \in 1..Len(frames') : PartBlocks(J, frames'[i])
  <2>1. {d} \in SUBSET (0..(ir.size - 1)) /\ \A p \in {d} : Above(ir, Top.cond, p)
    BY <1>4 DEF d
  <2>2. \A i \in 1..(k - 1) : i \in 1..k /\ Untouched(J, frames[i])
    BY <1>1, <1>2, <1>3, <2>1, OuterUntouched
  <2>3. \A i \in 1..(k - 1) : PartBlocks(J, frames[i])
    BY <1>3, <2>2, PartBlocksStay
  <2>4. PartBlocks(J, f)
    BY <1>1, <1>6, <1>7 DEF PartBlocks
  <2> QED
    BY <1>1, <1>3, <2>3, <2>4, TurnedParts DEF f
<1>12. \A b \in entry..(J.size - 1) : Stray(J, b) => Expected(frames', n, FALSE, b)
  <2> SUFFICES ASSUME NEW b \in entry..(J.size - 1), Stray(J, b), b # n
               PROVE  AwaitedIn(frames', b)
    BY DEF Expected
  <2>1. b \in entry..(ir.size - 1) /\ b # d
    BY <1>2, <1>3, <1>8, IndicesGrow
  <2>2. b = curr_block \/ AwaitedIn(frames, b)
    BY <1>1, <1>2, <2>1, StraysStay DEF Expected
  <2>3. Awaited(f, curr_block)
    BY <1>1 DEF Awaited, Kept, Live, d
  <2>4. ~Awaited(Top, b)
    BY <1>1 DEF Awaited, Kept
  <2>5. AwaitedIn(frames, b) => AwaitedIn(frames', b)
    BY <1>1, <1>3, <2>4, AwaitedInner, OuterAwaited
  <2>6. Awaited(f, b) => AwaitedIn(frames', b)
    BY <1>1, <1>4 DEF AwaitedIn, f
  <2> QED
    BY <2>2, <2>3, <2>5, <2>6
<1>13. /\ \A b \in entry'..(J.size - 1) : Stray(J, b) => Expected(frames', curr_block', ignore', b)
       /\ ~(ignore' /\ NoneDead(frames'))
  BY <1>1, <1>12 DEF Expected
<1> QED
  BY <1>10, <1>11, <1>13 DEF BlocksInv, J

LEMMA TurnedFoldedBlocks ==
  ASSUME BlocksInv, TurnedFolded, FlowInv'
  PROVE  BlocksInv'
<1> DEFINE k == Len(frames)
           f == frames'[k]
<1>1. /\ Parsing /\ frames # <<>> /\ Live(Top) /\ ~Top.in_else /\ entry' = entry
      /\ Len(frames') = k /\ \A i \in 1..(k - 1) : frames'[i] = frames[i]
      /\ f.kind = "if" /\ f.in_else /\ f.result = Top.result /\ f.cond = Top.cond
      /\ f.then_block = curr_block /\ Top.result # "NEITHER" /\ ir' = ir
      /\ curr_block' = Top.cond /\ (ignore' <=> Top.result = "FALSE")
  BY DEF TurnedFolded, Turned
<1>2. /\ FlowInv /\ \A b \in Indices(ir) : BlockOK(ir, b)
      /\ \A i \in 1..k : PartBlocks(ir, frames[i])
      /\ \A b \in entry..(ir.size - 1) : Stray(ir, b) => Expected(frames, curr_block, ignore, b)
  BY <1>1, BlocksFacts DEF BlocksInv
<1>3. /\ Top = frames[k] /\ k \in 1..k /\ Top.result \in {"TRUE", "FALSE", "NEITHER"}
      /\ Top.result = "TRUE" => ignore
  BY <1>1, <1>2, TopFacts DEF DeadPart, Frames, Relation
<1> HIDE DEF f
<1>4. Live(f)
  BY <1>1 DEF Live
<1>5. \A i \in 1..Len(frames') : PartBlocks(ir, frames'[i])
  <2>1. PartBlocks(ir, f)
    BY <1>1 DEF PartBlocks, Entered, Branching
  <2>2. \A i \in 1..(k - 1) : i \in 1..k
    BY <1>2, FStateFacts
  <2> QED
    BY <1>1, <1>2, <2>1, <2>2, TurnedParts DEF f
<1>6. \A b \in entry..(ir.size - 1) : Stray(ir, b) => Expected(frames', curr_block', ignore', b)
  <2> SUFFICES ASSUME NEW b \in entry..(ir.size - 1), Stray(ir, b)
               PROVE  Expected(frames', curr_block', ignore', b)
    OBVIOUS
  <2>1. (~ignore /\ b = curr_block) \/ AwaitedIn(frames, b)
    BY <1>2 DEF Expected
  <2>2. CASE ~ignore /\ b = curr_block
    <3>1. Awaited(f, b)
      BY <1>1, <1>3, <1>4, <2>2 DEF Awaited, Kept
    <3> QED
      BY <1>1, <1>3, <3>1 DEF Expected, AwaitedIn, f
  <2>3. CASE Awaited(Top, b)
    <3>1. b = Top.cond /\ Top.result = "TRUE"
      BY <1>1, <2>3 DEF Awaited, Kept
    <3> QED
      BY <1>1, <3>1 DEF Expected
  <2>4. ASSUME NEW i \in 1..(k - 1), Awaited(frames[i], b)
        PROVE  AwaitedIn(frames', b)
    BY <1>1, <1>2, <2>4, OuterAwaited
  <2> QED
    BY <1>1, <1>2, <2>1, <2>2, <2>3, <2>4, AwaitedInner DEF Expected
<1>7. ~(ignore' /\ NoneDead(frames'))
  BY <1>1, <1>3, <1>4 DEF NoneDead, DeadPart, f
<1>8. /\ \A b \in Indices(ir') : BlockOK(ir', b)
      /\ \A i \in 1..Len(frames') : PartBlocks(ir', frames'[i])
      /\ \A b \in entry'..(ir'.size - 1) : Stray(ir', b) => Expected(frames', curr_block', ignore', b)
  BY <1>1, <1>2, <1>5, <1>6
<1> QED
  BY <1>7, <1>8 DEF BlocksInv


\* What is left of the parts that wait when a construct ends.
LEMMA StrayAtEnd ==
  ASSUME BlocksInv, Parsing, frames # <<>>, Live(Top), NEW J, NEW S, OnlyIn(ir, J, S),
         NEW b \in entry..(ir.size - 1), b \in S => Stray(ir, b), Stray(J, b)
  PROVE  \/ ~ignore /\ b = curr_block
         \/ b = Top.cond /\ Top.result = "TRUE" /\ ~Top.in_else
         \/ b = Top.then_block /\ Kept(Top) /\ Inner.out # {}
         \/ \E i \in 1..(Len(frames) - 1) : Awaited(frames[i], b)
<1>1. FlowInv /\ entry \in Nat /\ ir.size \in Nat /\ PartFlow(ir, Top, Inner)
  BY BlocksFacts, TopFacts
<1>2. Stray(ir, b)
  <2>1. b \in 0..(ir.size - 1)
    BY <1>1
  <2> QED
    BY <2>1 DEF OnlyIn, Alike, Stray
<1>3. (~ignore /\ b = curr_block) \/ AwaitedIn(frames, b)
  BY <1>2 DEF BlocksInv, Expected
<1>4. b \in Indices(ir)
  <2>1. entry # 0
    <3>1. Inv /\ phase # "decl"
      BY <1>1, FStateFacts DEF Parsing
    <3>2. entry \in Indices(ir)
      BY <1>1, <3>1, FStateFacts DEF Inv, IROK, GraphOK
    <3> QED
      BY <1>1, <3>2 DEF Indices
  <2> QED
    BY <1>1, <2>1 DEF Indices
<1>5. ~will_return(ir, b)
  BY <1>2, <1>4, BlocksFacts DEF BlockOK, Stray
<1>6. Awaited(Top, b) => \/ b = Top.cond /\ Top.result = "TRUE" /\ ~Top.in_else
                         \/ b = Top.then_block /\ Kept(Top) /\ Inner.out # {}
  BY <1>1, <1>5 DEF Awaited, PartFlow, Kept
<1> QED
  BY <1>1, <1>3, <1>6, AwaitedInner

\* A construct has ended.
LEMMA EndedBlocks ==
  ASSUME BlocksInv, NEW end, Ended(end), FlowInv', IRType(end.ir),
         end.ir.size = ir.size \/ (end.ir.size = ir.size + 1 /\ Fresh(end.ir, ir.size)
                                   /\ end.curr = ir.size /\ ~end.returns),
         NEW S \in SUBSET (0..(ir.size - 1)), \A p \in S : Above(ir, Top.cond, p),
         OnlyIn(ir, end.ir, S), \A p \in S : end.ir.blocks[p].code = ir.blocks[p].code,
         \A p \in S : p \in Indices(ir) => BlockOK(end.ir, p),
         \A b \in entry..(ir.size - 1) : Stray(end.ir, b) =>
           \/ ~end.returns /\ b = end.curr
           \/ \E i \in 1..(Len(frames) - 1) : Awaited(frames[i], b),
         end.returns => end.ir.blocks[end.curr].op # "EMPTY"
  PROVE  BlocksInv'
<1> DEFINE k == Len(frames)
           J == end.ir
<1>1. /\ Parsing /\ frames # <<>> /\ Live(Top) /\ entry' = entry
      /\ ir' = J /\ curr_block' = end.curr /\ (ignore' <=> end.returns)
      /\ Len(frames') = k - 1 /\ \A i \in 1..(k - 1) : frames'[i] = frames[i]
  BY DEF Ended
<1>2. /\ FlowInv /\ ir.size \in Nat \ {0} /\ ir.size \in Nat /\ entry \in Nat
      /\ \A i \in 1..k : PartBlocks(ir, frames[i])
  BY <1>1, BlocksFacts
<1> HIDE DEF J
<1>3. \A b \in Indices(ir) : ir.blocks[b].code # <<>> => J.blocks[b].code # <<>>
  <2>1. \A b \in Indices(ir) : b \in 0..(ir.size - 1)
    BY <1>2 DEF Indices
  <2> QED
    BY <2>1 DEF OnlyIn, Alike, J
<1>4. J.size \in Nat /\ ir.size <= J.size
  BY <1>2 DEF J
<1>5. \A b \in Indices(ir) : BlockOK(J, b)
  <2>1. \A b \in Indices(ir) : b \notin S => BlockOK(J, b)
    BY <1>3, <1>4, BlocksStay DEF J
  <2> QED
    BY <2>1 DEF J
<1>6. \A i \in 1..Len(frames') : PartBlocks(J, frames'[i])
  <2>1. \A i \in 1..(k - 1) : i \in 1..k /\ Untouched(J, frames[i])
    BY <1>1, <1>2, OuterUntouched DEF J
  <2>2. \A i \in 1..(k - 1) : PartBlocks(J, frames[i])
    BY <1>2, <2>1, PartBlocksStay
  <2> QED
    BY <1>1, <2>2
<1>7. \A b \in entry..(ir.size - 1) : Stray(J, b) => Expected(frames', curr_block', ignore', b)
  <2>1. ASSUME NEW b, NEW i \in 1..(k - 1), Awaited(frames[i], b)
        PROVE  AwaitedIn(frames', b)
    <3>1. Awaited(frames'[i], b) /\ i \in 1..Len(frames')
      BY <1>1, <2>1
    <3> QED
      BY <3>1 DEF AwaitedIn
  <2> QED
    BY <1>1, <2>1 DEF Expected, J
<1>8. /\ \A b \in Indices(J) : BlockOK(J, b)
      /\ \A b \in entry..(J.size - 1) : Stray(J, b) => Expected(frames', curr_block', ignore', b)
  <2>1. CASE J.size = ir.size
    <3>1. Indices(J) = Indices(ir) /\ entry..(J.size - 1) = entry..(ir.size - 1)
      BY <1>2, <2>1, IndicesGrow
    <3> QED
      BY <1>5, <1>7, <3>1
  <2>2. CASE J.size = ir.size + 1 /\ Fresh(J, ir.size) /\ end.curr = ir.size /\ ~end.returns
    <3>1. /\ Indices(J) = Indices(ir) \union {ir.size}
          /\ entry..(J.size - 1) \subseteq (entry..(ir.size - 1)) \union {ir.size}
      BY <1>2, <2>2, IndicesGrow
    <3>2. BlockOK(J, ir.size) /\ Expected(frames', curr_block', ignore', ir.size)
      BY <1>1, <2>2, FreshBlock DEF Expected
    <3> QED
      BY <1>5, <1>7, <3>1, <3>2
  <2> QED
    BY <2>1, <2>2 DEF J
<1>9. /\ \A b \in Indices(ir') : BlockOK(ir', b)
      /\ \A i \in 1..Len(frames') : PartBlocks(ir', frames'[i])
      /\ \A b \in entry'..(ir'.size - 1) : Stray(ir', b) => Expected(frames', curr_block', ignore', b)
      /\ ignore' => ir'.blocks[curr_block'].op # "EMPTY"
  BY <1>1, <1>6, <1>8 DEF J
<1> QED
  BY <1>9 DEF BlocksInv


\* The branch of an if gets its second location.
LEMMA LocatedBlock ==
  ASSUME BlocksInv, Parsing, frames # <<>>, Live(Top), Top.kind = "if", Top.in_else,
         NEW J, NEW returns, Located(ir, J, Top, returns),
         returns => ir.blocks[Top.cond].op # "EMPTY",
         OnlyIn(ir, J, {Top.cond, Top.then_block, curr_block}), J.size \in Nat, ir.size <= J.size,
         \A p \in 0..(ir.size - 1) : ir.blocks[p].code # <<>> => J.blocks[p].code # <<>>
  PROVE  /\ Top.cond \in Indices(ir) => BlockOK(J, Top.cond)
         /\ J.blocks[Top.cond].code = ir.blocks[Top.cond].code
         /\ Stray(J, Top.cond) => Stray(ir, Top.cond)
<1> DEFINE d == Top.cond
<1>1. /\ FlowInv /\ ir.size \in Nat /\ Top \in Frames
      /\ \A i \in 1..Len(frames) : PartBlocks(ir, frames[i])
      /\ d \in Indices(ir) => BlockOK(ir, d)
      /\ Len(frames) \in 1..Len(frames) /\ Top = frames[Len(frames)]
  BY BlocksFacts, TopFacts
<1>2. PartBlocks(ir, Top)
  BY <1>1
<1>3. /\ J.blocks[d].code = ir.blocks[d].code /\ J.blocks[d].successors = ir.blocks[d].successors
      /\ J.blocks[d].op = ir.blocks[d].op /\ J.blocks[d].larg = ir.blocks[d].larg
      /\ J.blocks[d].will_return = returns
      /\ Top.result = "NEITHER" => J.blocks[d].rarg = Top.og_else_block
      /\ Top.result # "NEITHER" => J.blocks[d].rarg = ir.blocks[d].rarg
  BY DEF Located, Is, ElseLocation
<1>4. ASSUME d \in Indices(ir)
      PROVE  BlockOK(J, d)
  <2>1. BlockOK(ir, d)
    BY <1>1, <1>4
  <2>2. CASE ir.blocks[d].op = "Bcc"
    <3>1. Top.result = "NEITHER" =>
            Len(ir.blocks[d].successors) = 2 /\ Top.og_else_block = ir.blocks[d].successors[2]
      BY <1>2 DEF PartBlocks
    <3> HIDE DEF d
    <3> QED
      BY <1>3, <2>1, <2>2, <3>1 DEF BlockOK
  <2>3. CASE ir.blocks[d].op = "EMPTY"
    <3>1. Top.result # "NEITHER"
      <4>1. PartFlow(ir, Top, Inner)
        BY <1>1, TopFacts
      <4> QED
        BY <2>3, <4>1 DEF PartFlow
    <3> HIDE DEF d
    <3> QED
      BY <1>3, <2>1, <2>3, <3>1 DEF BlockOK, will_return, d
  <2>4. CASE ir.blocks[d].op = "BRA"
    <3>1. ir.blocks[d].larg \in Indices(ir) /\ ir.blocks[d].larg \in 0..(ir.size - 1)
          /\ ir.blocks[d].larg \in Indices(J)
      BY <1>1, <2>1, <2>4 DEF BlockOK, Indices
    <3> HIDE DEF d
    <3> QED
      BY <1>3, <2>1, <2>4, <3>1 DEF BlockOK
  <2>5. ir.blocks[d].op \notin {"Bcc", "EMPTY", "BRA"} => BlockOK(J, d)
    <3> HIDE DEF d
    <3> QED
      BY <1>3 DEF BlockOK
  <2> QED
    BY <2>2, <2>3, <2>4, <2>5
<1>5. Stray(J, d) => Stray(ir, d)
  BY <1>3 DEF Stray
<1> QED
  BY <1>3, <1>4, <1>5

LEMMA FiBlocks ==
  ASSUME BlocksInv, ~FoldedReturns, CFi, Live(Top), FlowInv'
  PROVE  BlocksInv'
<1> DEFINE end == if_end(ir, Top, curr_block)
           d == Top.cond
           t == Top.then_block
           S == {d, t, curr_block}
           k == Len(frames)
<1>1. /\ FlowInv /\ ir.size \in Nat \ {0} /\ ir.size \in Nat
      /\ \A b \in Indices(ir) : BlockOK(ir, b)
  BY BlocksFacts
<1>2. /\ Ended(end) /\ FiCases(end) /\ Top.kind = "if" /\ Top.in_else
      /\ Parsing /\ frames # <<>> /\ Parsing' /\ ir' = end.ir
  <2>1. Ended(end) /\ FiCases(end) /\ Top.kind = "if" /\ Top.in_else
    BY <1>1, FiShape
  <2> QED
    BY <2>1 DEF Ended
<1>3. /\ d \in 0..(ir.size - 1) /\ t \in 0..(ir.size - 1) /\ curr_block \in 0..(ir.size - 1)
      /\ Above(ir, d, curr_block) /\ Above(ir, d, d) /\ Above(ir, d, t)
      /\ Top.result = "NEITHER" => ir.blocks[d].op = "Bcc" /\ d # curr_block
  BY <1>1, <1>2, TopFacts, FStateFacts DEF PartFlow
<1>4. S \in SUBSET (0..(ir.size - 1)) /\ \A p \in S : Above(ir, Top.cond, p)
  BY <1>3
<1>5. IRType(end.ir)
  <2>1. IRType(ir')
    BY DEF FlowInv, EInv, DInv, Inv, TypeOK
  <2> QED
    BY <1>2, <2>1
<1> HIDE DEF end
<1>6. ASSUME NEW c, OneGoesOn(ir, Top, c, end) \/ BothReturn(ir, Top, c, end),
             IF end.returns THEN ignore /\ Inner.out = {} /\ c = curr_block
             ELSE \/ c = curr_block /\ ~ignore /\ Inner.out = {}
                  \/ c = t /\ ignore /\ Inner.out # {}
      PROVE  BlocksInv'
  <2>1. /\ end.ir.size = ir.size /\ OnlyIn(ir, end.ir, {d})
        /\ \E returns : /\ Located(ir, end.ir, Top, returns)
                        /\ returns => will_return(ir, d) \/ end.returns
        /\ ~end.returns => end.curr = c
        /\ end.returns => end.curr = d
    <3>1. CASE OneGoesOn(ir, Top, c, end)
      BY <3>1 DEF OneGoesOn, will_return
    <3>2. CASE BothReturn(ir, Top, c, end)
      BY <3>2 DEF BothReturn
    <3> QED
      BY <1>6, <3>1, <3>2
  <2>2. PICK returns : /\ Located(ir, end.ir, Top, returns)
                       /\ returns => will_return(ir, d) \/ end.returns
    BY <2>1
  <2>3. d \in Indices(ir) /\ (will_return(ir, d) \/ end.returns => ir.blocks[d].op # "EMPTY")
    <3>1. end.returns => Top.result = "NEITHER" \/ will_return(ir, d)
      <4>1. end.returns => open = {} /\ Inner.out = {}
        BY <1>1, <1>2, <1>6, FStateFacts
      <4>2. FiInScope /\ Inner.alt = {}
        BY <1>1, <1>2, TopFacts DEF CFi, PartFlow
      <4> QED
        BY <4>1, <4>2 DEF FiInScope, AlwaysReturns
    <3>2. d \in Indices(ir)
      BY <1>1, <1>2, TopOfStack, TopFacts, InFunctionIsIndex, FStateFacts DEF FrameOK, Live, Inv
    <3>3. will_return(ir, d) => ir.blocks[d].op # "EMPTY"
      BY <1>1, <3>2 DEF BlockOK
    <3> QED
      BY <1>3, <3>1, <3>2, <3>3
  <2>4. OnlyIn(ir, end.ir, S) /\ end.ir.size \in Nat /\ ir.size <= end.ir.size
    BY <1>1, <2>1 DEF OnlyIn
  <2>5. \A p \in 0..(ir.size - 1) : end.ir.blocks[p].code = ir.blocks[p].code
    BY <2>1, <2>2 DEF OnlyIn, Alike, Located, Is
  <2>6. BlockOK(end.ir, d) /\ (Stray(end.ir, d) => Stray(ir, d))
    BY <1>2, <2>2, <2>3, <2>4, <2>5, LocatedBlock
  <2>7. {d} \in SUBSET (0..(ir.size - 1)) /\ \A p \in {d} : Above(ir, Top.cond, p)
    BY <1>3
  <2>8. ASSUME NEW b \in entry..(ir.size - 1), Stray(end.ir, b)
        PROVE  \/ ~end.returns /\ b = end.curr
               \/ \E i \in 1..(k - 1) : Awaited(frames[i], b)
    <3>1. \/ ~ignore /\ b = curr_block
          \/ b = t /\ Kept(Top) /\ Inner.out # {}
          \/ \E i \in 1..(k - 1) : Awaited(frames[i], b)
      BY <1>2, <2>1, <2>6, <2>8, StrayAtEnd
    <3> QED
      BY <1>6, <2>1, <3>1
  <2>9. end.returns => end.ir.blocks[end.curr].op # "EMPTY"
    BY <2>1, <2>2, <2>3 DEF Located, Is
  <2> QED
    BY <1>2, <1>5, <2>1, <2>3, <2>5, <2>6, <2>7, <2>8, <2>9, EndedBlocks
<1>7. ASSUME BothGoOn(ir, Top, curr_block, end), ~ignore, Top.result = "NEITHER",
             Ready(ir, t), t # curr_block, t # d
      PROVE  BlocksInv'
  <2> DEFINE c == curr_block
             n == ir.size
             J == end.ir
  <2>1. /\ ~end.returns /\ end.curr = n /\ J.size = n + 1 /\ OnlyIn(ir, J, S)
        /\ Located(ir, J, Top, ir.blocks[d].will_return) /\ Fresh(J, n)
        /\ Is(J, t, ir.blocks[t].code, Append(ir.blocks[t].successors, n), "BRA", n,
              ir.blocks[t].rarg, FALSE)
        /\ OneMore(ir, J, c)
    BY <1>7 DEF BothGoOn
  <2>2. /\ Ready(ir, c) /\ ir.blocks[c].rarg = None /\ d # c /\ BlockOK(ir, c)
    BY <1>2, <1>3, <1>7, BlocksFacts
  <2> HIDE DEF J, c, t, n
  <2>3. \A p \in S : J.blocks[p].code = ir.blocks[p].code
    <3>1. J.blocks[d].code = ir.blocks[d].code
      BY <2>1, Zenon DEF Located, Is
    <3>2. J.blocks[t].code = ir.blocks[t].code
      BY <2>1, Zenon DEF Is
    <3>3. J.blocks[c].code = ir.blocks[c].code
      BY <2>1, Zenon DEF OneMore, Is
    <3> QED
      BY <3>1, <3>2, <3>3, Zenon DEF c
  <2>4. \A p \in 0..(n - 1) : ir.blocks[p].code # <<>> => J.blocks[p].code # <<>>
    <3>1. \A p \in 0..(n - 1) : p \in S \/ J.blocks[p].code = ir.blocks[p].code
      BY <2>1, Zenon DEF OnlyIn, Alike, n
    <3> QED
      BY <2>3, <3>1, Zenon
  <2>5. d \in Indices(ir) => BlockOK(J, d)
    <3>1. J.size \in Nat /\ ir.size <= J.size
      BY <1>1, <2>1 DEF n
    <3>2. ir.blocks[d].will_return => ir.blocks[d].op # "EMPTY"
      BY <1>3, <1>7
    <3> QED
      BY <1>2, <2>1, <2>4, <3>1, <3>2, LocatedBlock DEF d, t, n
  <2>6. BlockOK(J, t) /\ ~Stray(J, t)
    <3>1. n \in Indices(J) /\ n > t
      BY <1>1, <1>3, <2>1 DEF Indices, n, t
    <3>2. J.blocks[t].op = "BRA" /\ J.blocks[t].larg = n
      BY <2>1, Zenon DEF Is
    <3> QED
      BY <3>1, <3>2 DEF BlockOK, Stray
  <2>7. BlockOK(J, c) /\ ~Stray(J, c)
    <3>1. Append(<<>>, n) = <<n>> /\ Len(<<n>>) = 1 /\ <<n>> # <<>>
      OBVIOUS
    <3>2. /\ J.blocks[c].successors = <<n>> /\ J.blocks[c].op = "EMPTY"
          /\ J.blocks[c].rarg = None /\ ~J.blocks[c].will_return
      <4>1. /\ J.blocks[c].successors = Append(ir.blocks[c].successors, n)
            /\ J.blocks[c].op = ir.blocks[c].op /\ J.blocks[c].rarg = ir.blocks[c].rarg
            /\ J.blocks[c].will_return = ir.blocks[c].will_return
        BY <2>1, Zenon DEF OneMore, Is, n
      <4> QED
        BY <2>2, <3>1, <4>1 DEF Ready, will_return
    <3>3. Len(J.blocks[c].successors) <= 1 /\ J.blocks[c].successors # <<>>
      BY <3>1, <3>2
    <3> QED
      BY <3>2, <3>3 DEF BlockOK, Stray, will_return
  <2>8. ~Stray(J, d)
    <3>1. J.blocks[d].op = ir.blocks[d].op
      BY <2>1, Zenon DEF Located, Is
    <3> QED
      BY <1>3, <1>7, <3>1, Zenon DEF Stray
  <2>9. \A p \in S : p \in Indices(ir) => BlockOK(J, p)
    BY <2>5, <2>6, <2>7, Zenon DEF c
  <2>10. ASSUME NEW b \in entry..(ir.size - 1), Stray(J, b)
         PROVE  \E i \in 1..(k - 1) : Awaited(frames[i], b)
    <3>1. b \notin S
      BY <2>6, <2>7, <2>8, <2>10, Zenon DEF c
    <3>2. \/ ~ignore /\ b = curr_block
          \/ b = t /\ Kept(Top) /\ Inner.out # {}
          \/ \E i \in 1..(k - 1) : Awaited(frames[i], b)
      <4> HIDE DEF S
      <4> QED
        BY <1>2, <2>1, <2>10, <3>1, StrayAtEnd DEF J, t
    <3> QED
      BY <3>1, <3>2, Zenon DEF c, t
  <2> HIDE DEF S
  <2> QED
    BY <1>2, <1>4, <1>5, <2>1, <2>3, <2>9, <2>10, EndedBlocks DEF J, n
<1> QED
  <2>1. BothReturn(ir, Top, curr_block, end) => end.returns
    BY DEF BothReturn
  <2>2. \A c : OneGoesOn(ir, Top, c, end) => ~end.returns
    BY DEF OneGoesOn
  <2> QED
    BY <1>2, <1>6, <1>7, <2>1, <2>2 DEF FiCases


\* The end of a loop's body jumps to the header.
LEMMA JumpedBlock ==
  ASSUME BlocksInv, Parsing, NEW J, NEW S, OnlyIn(ir, J, S), J.size \in Nat, ir.size <= J.size,
         \A p \in Indices(ir) : ir.blocks[p].code # <<>> => J.blocks[p].code # <<>>,
         NEW h \in Indices(J), J.blocks[h].code # <<>>, JumpsTo(ir, J, curr_block, h)
  PROVE  /\ BlockOK(J, curr_block) /\ J.blocks[curr_block].op # "EMPTY"
         /\ J.blocks[curr_block].code = ir.blocks[curr_block].code
<1> DEFINE c == curr_block
<1>1. c \in Indices(ir) /\ c \in 0..(ir.size - 1) /\ BlockOK(ir, c)
  BY BlocksFacts, FStateFacts
<1>2. CASE will_return(ir, c)
  <2>1. Alike(ir, J, c)
    BY <1>2 DEF JumpsTo
  <2>2. OnlyIn(ir, J, S \ {c}) /\ c \notin S \ {c}
    BY <2>1 DEF OnlyIn
  <2>3. BlockOK(J, c)
    BY <1>1, <2>2, BlocksStay
  <2>4. ir.blocks[c].op # "EMPTY"
    BY <1>1, <1>2 DEF BlockOK
  <2> QED
    BY <2>1, <2>3, <2>4 DEF Alike
<1>3. CASE ~will_return(ir, c)
  <2>1. Is(J, c, ir.blocks[c].code, ir.blocks[c].successors, "BRA", h, ir.blocks[c].rarg, FALSE)
    BY <1>3 DEF JumpsTo
  <2> QED
    BY <2>1 DEF Is, BlockOK
<1> QED
  BY <1>2, <1>3

LEMMA OdBlocks ==
  ASSUME BlocksInv, COd, Live(Top), FlowInv'
  PROVE  BlocksInv'
<1> DEFINE end == while_end(ir, Top, curr_block)
           d == Top.cond
           c == curr_block
           k == Len(frames)
<1>1. /\ FlowInv /\ ir.size \in Nat \ {0} /\ ir.size \in Nat
      /\ \A b \in Indices(ir) : BlockOK(ir, b)
  BY BlocksFacts
<1>2. /\ Ended(end) /\ OdCases(end) /\ Top.kind = "while"
      /\ Parsing /\ frames # <<>> /\ Parsing' /\ ir' = end.ir
  <2>1. Ended(end) /\ OdCases(end) /\ Top.kind = "while"
    BY <1>1, OdShape
  <2> QED
    BY <2>1 DEF Ended
<1>3. /\ d \in 0..(ir.size - 1) /\ c \in 0..(ir.size - 1) /\ c \in Indices(ir)
      /\ Above(ir, d, c) /\ Above(ir, d, d)
      /\ Top.result = "NEITHER" => ir.blocks[d].op = "Bcc" /\ d # c
      /\ ~Top.in_else /\ ~Kept(Top) /\ Top = frames[k] /\ k \in 1..k
  BY <1>1, <1>2, TopFacts, FStateFacts DEF PartFlow, Kept
<1>4. IRType(end.ir)
  <2>1. IRType(ir')
    BY DEF FlowInv, EInv, DInv, Inv, TypeOK
  <2> QED
    BY <1>2, <2>1
<1>5. Entered(Top) => d \in Indices(ir) /\ ir.blocks[d].code # <<>>
  <2>1. PartBlocks(ir, Top)
    BY <1>2, <1>3, BlocksFacts
  <2>2. Entered(Top) => Remembers(Top, d)
    BY DEF Remembers
  <2> QED
    BY <1>1, <1>2, <1>3, <2>1, <2>2, RememberedIsBlock DEF PartBlocks
<1> HIDE DEF end
<1>6. CASE ForeverEnds(end)
  <2> DEFINE J == end.ir
  <2>1. /\ Top.result = "FALSE" /\ end.returns /\ end.curr = c /\ J.size = ir.size
        /\ OnlyIn(ir, J, {c}) /\ JumpsTo(ir, J, c, d)
    BY <1>6 DEF ForeverEnds
  <2>2. d \in Indices(ir) /\ ir.blocks[d].code # <<>>
    BY <1>2, <1>5, <2>1 DEF Entered
  <2> HIDE DEF J, d, c
  <2>3. J.blocks[c].code = ir.blocks[c].code
    BY <2>1 DEF JumpsTo, Alike, Is
  <2>4. \A p \in Indices(ir) : J.blocks[p].code = ir.blocks[p].code
    <3>1. \A p \in Indices(ir) : p \in 0..(ir.size - 1)
      BY <1>1 DEF Indices
    <3> QED
      BY <2>1, <2>3, <3>1 DEF OnlyIn, Alike
  <2>5. J.size \in Nat /\ ir.size <= J.size /\ Indices(J) = Indices(ir)
    BY <1>1, <2>1 DEF Indices
  <2>6. BlockOK(J, c) /\ J.blocks[c].op # "EMPTY"
    <3>1. /\ d \in Indices(J) /\ J.blocks[d].code # <<>>
          /\ \A p \in Indices(ir) : ir.blocks[p].code # <<>> => J.blocks[p].code # <<>>
      BY <2>2, <2>4, <2>5
    <3> QED
      BY <1>2, <2>1, <2>5, <3>1, JumpedBlock DEF c
  <2>7. {c} \in SUBSET (0..(ir.size - 1)) /\ \A p \in {c} : Above(ir, Top.cond, p)
    BY <1>3 DEF d
  <2>8. ASSUME NEW b \in entry..(ir.size - 1), Stray(J, b)
        PROVE  \E i \in 1..(k - 1) : Awaited(frames[i], b)
    <3>1. b # c
      BY <2>6, <2>8 DEF Stray
    <3>2. \/ ~ignore /\ b = c
          \/ b = Top.cond /\ Top.result = "TRUE" /\ ~Top.in_else
          \/ b = Top.then_block /\ Kept(Top) /\ Inner.out # {}
          \/ \E i \in 1..(k - 1) : Awaited(frames[i], b)
      BY <1>2, <2>1, <2>8, <3>1, StrayAtEnd DEF c
    <3> QED
      BY <1>3, <2>1, <3>1, <3>2
  <2> QED
    BY <1>2, <1>4, <2>1, <2>3, <2>6, <2>7, <2>8, EndedBlocks DEF J
<1>7. CASE NeverEntered(end)
  <2>1. ignore /\ ~end.returns /\ end.curr = d /\ end.ir = ir
    BY <1>7 DEF NeverEntered
  <2>2. OnlyIn(ir, end.ir, {}) /\ {} \in SUBSET (0..(ir.size - 1))
    BY <2>1 DEF OnlyIn, Alike
  <2>3. ASSUME NEW b \in entry..(ir.size - 1), Stray(end.ir, b)
        PROVE  b = end.curr \/ \E i \in 1..(k - 1) : Awaited(frames[i], b)
    <3>1. \/ ~ignore /\ b = c
          \/ b = Top.cond /\ Top.result = "TRUE" /\ ~Top.in_else
          \/ b = Top.then_block /\ Kept(Top) /\ Inner.out # {}
          \/ \E i \in 1..(k - 1) : Awaited(frames[i], b)
      BY <1>2, <2>2, <2>3, StrayAtEnd
    <3> QED
      BY <1>3, <2>1, <3>1
  <2> QED
    BY <1>2, <1>4, <2>1, <2>2, <2>3, EndedBlocks
<1>8. CASE LoopEnds(end)
  <2> DEFINE J == end.ir
             n == ir.size
             S == {d, c}
  <2>1. /\ Top.result = "NEITHER" /\ ~end.returns /\ end.curr = n /\ J.size = n + 1
        /\ OnlyIn(ir, J, S) /\ JumpsTo(ir, J, c, d) /\ Fresh(J, n)
        /\ Is(J, d, ir.blocks[d].code, Append(ir.blocks[d].successors, n), ir.blocks[d].op,
              ir.blocks[d].larg, n, ir.blocks[d].will_return)
    BY <1>8, ZenonT(60) DEF LoopEnds
  <2>2. /\ d \in Indices(ir) /\ ir.blocks[d].code # <<>> /\ ir.blocks[d].op = "Bcc"
        /\ Len(ir.blocks[d].successors) = 1 /\ ir.blocks[d].successors \in Seq(Nat)
    <3>1. d \in Indices(ir) /\ ir.blocks[d].code # <<>>
      BY <1>2, <1>5, <2>1 DEF Entered, Branching
    <3>2. PartBlocks(ir, Top)
      BY <1>2, <1>3, BlocksFacts
    <3> QED
      BY <1>1, <1>2, <1>3, <2>1, <3>1, <3>2, BlockFields, FStateFacts DEF PartBlocks
  <2> HIDE DEF J, d, c, n
  <2>3. J.blocks[c].code = ir.blocks[c].code
    BY <2>1 DEF JumpsTo, Alike, Is
  <2>4. /\ J.blocks[d].code = ir.blocks[d].code /\ J.blocks[d].op = "Bcc"
        /\ J.blocks[d].successors = Append(ir.blocks[d].successors, n)
        /\ J.blocks[d].rarg = n
    BY <2>1, <2>2 DEF Is
  <2>5. n \in Nat
    BY <1>1 DEF n
  <2>6. BlockOK(J, d) /\ ~Stray(J, d)
    <3>1. Len(J.blocks[d].successors) = 2 /\ J.blocks[d].successors[2] = n
      BY <2>2, <2>4, <2>5, AppendedSecond
    <3> QED
      BY <2>2, <2>4, <3>1 DEF BlockOK, Stray
  <2>7. J.size \in Nat /\ ir.size <= J.size /\ d \in Indices(J)
    <3>1. d \in 1..(n - 1) /\ ir.size = n
      BY <2>2 DEF Indices, n
    <3> QED
      BY <2>1, <2>5, <3>1 DEF Indices
  <2>8. \A p \in Indices(ir) : ir.blocks[p].code # <<>> => J.blocks[p].code # <<>>
    <3>1. \A p \in Indices(ir) : p \in 0..(ir.size - 1)
      BY <1>1 DEF Indices
    <3>2. \A p \in Indices(ir) : p \notin S => Alike(ir, J, p)
      BY <2>1, <3>1, Zenon DEF OnlyIn
    <3> QED
      BY <2>3, <2>4, <3>2, Zenon DEF Alike
  <2>9. BlockOK(J, c) /\ J.blocks[c].op # "EMPTY"
    <3>1. J.blocks[d].code # <<>>
      BY <2>2, <2>4
    <3> HIDE DEF S
    <3> QED
      BY <1>2, <2>1, <2>7, <2>8, <3>1, JumpedBlock DEF c
  <2>10. S \in SUBSET (0..(ir.size - 1)) /\ \A p \in S : Above(ir, Top.cond, p)
    BY <1>3 DEF d, c
  <2>11. \A p \in S : /\ J.blocks[p].code = ir.blocks[p].code /\ BlockOK(J, p) /\ ~Stray(J, p)
    BY <2>3, <2>4, <2>6, <2>9 DEF Stray
  <2>12. c \in S
    OBVIOUS
  <2> HIDE DEF S
  <2>13. ASSUME NEW b \in entry..(ir.size - 1), Stray(J, b)
         PROVE  \E i \in 1..(k - 1) : Awaited(frames[i], b)
    <3>1. b \notin S
      BY <2>11, <2>13
    <3>2. \/ ~ignore /\ b = c
          \/ b = Top.cond /\ Top.result = "TRUE" /\ ~Top.in_else
          \/ b = Top.then_block /\ Kept(Top) /\ Inner.out # {}
          \/ \E i \in 1..(k - 1) : Awaited(frames[i], b)
      BY <1>2, <2>1, <2>13, <3>1, StrayAtEnd DEF c
    <3> QED
      BY <1>3, <2>1, <2>12, <3>1, <3>2
  <2> QED
    BY <1>2, <1>4, <2>1, <2>10, <2>11, <2>13, EndedBlocks DEF J, n
<1> QED
  BY <1>2, <1>6, <1>7, <1>8 DEF OdCases


\* A function begins and ends.
Started ==
  /\ ~Parsing /\ Parsing' /\ ~ignore' /\ frames' = <<>> /\ nest' = <<>>
  /\ entry' = ir.size /\ curr_block' = ir.size
  /\ IRType(ir') /\ ir'.size = ir.size + 1 /\ OnlyIn(ir, ir', {0})
  /\ Is(ir', ir.size, <<pos>>, <<>>, "EMPTY", None, None, FALSE)
  /\ edges' = {} /\ open' = {<<pos, "next">>}

LEMMA BeginShape ==
  ASSUME FlowInv, NEW kind \in {"function", "main"}, CBegin(kind)
  PROVE  Started
<1> DEFINE J == add_instruction(new_function(ir), ir.size, pos)
<1>1. /\ ~Parsing /\ Parsing' /\ ir' = J /\ curr_block' = ir.size /\ entry' = ir.size
      /\ UNCHANGED <<frames, ignore>> /\ open' = {<<pos, "next">>} /\ nest' = <<>> /\ edges' = {}
  BY DEF CBegin, Begin, SrcBegin, Parsing
<1>2. ~ignore /\ frames = <<>>
  BY <1>1, FStateFacts DEF FlowInv, Inv
<1>3. /\ IRType(J) /\ J.size = ir.size + 1 /\ OnlyIn(ir, J, {0})
      /\ Is(J, ir.size, <<pos>>, <<>>, "EMPTY", None, None, FALSE)
  BY FStateFacts, BeginEffect
<1> HIDE DEF J
<1> QED
  BY <1>1, <1>2, <1>3 DEF Started

Finale ==
  /\ Parsing /\ ~Parsing' /\ frames = <<>> /\ UNCHANGED entry
  /\ \/ ignore /\ ir' = ir
     \/ /\ ~ignore /\ IRType(ir') /\ ir'.size = ir.size /\ OnlyIn(ir, ir', {curr_block})
        /\ Is(ir', curr_block, Append(ir.blocks[curr_block].code, pos), <<>>, "RET", None,
              ir.blocks[curr_block].rarg, TRUE)
  /\ edges' = edges \union Arrive(pos)

LEMMA FunctionEndShape ==
  ASSUME BlocksInv, CFunctionEnd
  PROVE  Finale
<1> DEFINE J == set_branch_cond(add_instruction(ir, curr_block, pos), curr_block, "RET", None)
<1>1. /\ Parsing /\ ~Parsing' /\ frames = <<>> /\ UNCHANGED entry
      /\ ir' = IF ir.blocks[curr_block].op # "EMPTY" THEN ir ELSE J
      /\ edges' = edges \union Arrive(pos)
  BY DEF CFunctionEnd, FunctionEnd, SrcReturn, Parsing, has_branch_instruction
<1>2. FlowInv
  BY DEF BlocksInv
<1>3. NoneDead(frames)
  <2>1. Len(<<>>) = 0
    OBVIOUS
  <2> QED
    BY <1>1, <2>1 DEF NoneDead
<1>4. ignore => ir.blocks[curr_block].op # "EMPTY"
  BY <1>1, <1>3 DEF BlocksInv
<1>5. ~ignore => Ready(ir, curr_block)
  BY <1>1, <1>2, FStateFacts
<1>6. ~ignore =>
        /\ IRType(J) /\ J.size = ir.size /\ OnlyIn(ir, J, {curr_block})
        /\ Is(J, curr_block, Append(ir.blocks[curr_block].code, pos),
              ir.blocks[curr_block].successors, "RET", None,
              ir.blocks[curr_block].rarg, "RET" = "RET")
  BY <1>1, <1>2, FStateFacts, EmitEffect DEF BranchOp
<1> HIDE DEF J
<1>7. CASE ignore
  BY <1>1, <1>4, <1>7 DEF Finale
<1>8. CASE ~ignore
  <2>1. ir' = J /\ ir.blocks[curr_block].successors = <<>>
    BY <1>1, <1>5, <1>8 DEF Ready
  <2>2. Is(J, curr_block, Append(ir.blocks[curr_block].code, pos), <<>>, "RET", None,
           ir.blocks[curr_block].rarg, TRUE)
    BY <1>6, <1>8, <2>1 DEF Is
  <2> QED
    BY <1>1, <1>6, <1>8, <2>1, <2>2 DEF Finale
<1> QED
  BY <1>7, <1>8

LEMMA StartedBlocks ==
  ASSUME BlocksInv, Started, FlowInv'
  PROVE  BlocksInv'
<1> DEFINE n == ir.size
           J == ir'
<1>1. /\ ~ignore' /\ frames' = <<>> /\ entry' = n /\ curr_block' = n
      /\ IRType(J) /\ J.size = n + 1 /\ OnlyIn(ir, J, {0})
      /\ Is(J, n, <<pos>>, <<>>, "EMPTY", None, None, FALSE)
  BY DEF Started
<1>2. n \in Nat \ {0} /\ n \in Nat /\ FlowInv
  BY BlocksFacts
<1> HIDE DEF J
<1>3. Len(<<>>) = 0
  OBVIOUS
<1>4. \A b \in Indices(J) : BlockOK(J, b)
  <2>1. \A b \in Indices(ir) : b \in 0..(n - 1) /\ b \notin {0}
    BY <1>2 DEF Indices
  <2>2. \A b \in Indices(ir) : Alike(ir, J, b)
    BY <1>1, <2>1 DEF OnlyIn
  <2>3. \A b \in Indices(ir) : ir.blocks[b].code # <<>> => J.blocks[b].code # <<>>
    BY <2>2 DEF Alike
  <2>4. J.size \in Nat /\ ir.size <= J.size
    BY <1>1, <1>2
  <2>5. \A b \in Indices(ir) : BlockOK(J, b)
    BY <1>1, <2>1, <2>3, <2>4, BlocksStay
  <2>6. BlockOK(J, n)
    BY <1>1, <1>3 DEF BlockOK, Is, will_return
  <2>7. Indices(J) = Indices(ir) \union {n}
    BY <1>1, <1>2, IndicesGrow
  <2> QED
    BY <2>5, <2>6, <2>7
<1>5. \A b \in entry'..(J.size - 1) : b = n
  BY <1>1, <1>2
<1>6. /\ \A i \in 1..Len(frames') : PartBlocks(J, frames'[i])
      /\ \A b \in entry'..(J.size - 1) : Stray(J, b) => Expected(frames', curr_block', ignore', b)
  BY <1>1, <1>3, <1>5 DEF Expected
<1> QED
  BY <1>1, <1>4, <1>6 DEF BlocksInv, J

LEMMA FinaleBlocks ==
  ASSUME BlocksInv, Finale, FlowInv'
  PROVE  BlocksInv'
<1> DEFINE c == curr_block
           J == ir'
<1>1. Parsing /\ ~Parsing' /\ FlowInv /\ ir.size \in Nat /\ c \in 0..(ir.size - 1)
  BY BlocksFacts, FStateFacts DEF Finale
<1>2. CASE J = ir
  BY <1>1, <1>2 DEF BlocksInv
<1>3. CASE J # ir
  <2>1. /\ ~ignore /\ J.size = ir.size /\ OnlyIn(ir, J, {c})
        /\ Is(J, c, Append(ir.blocks[c].code, pos), <<>>, "RET", None, ir.blocks[c].rarg, TRUE)
    BY <1>3 DEF Finale
  <2>2. Append(ir.blocks[c].code, pos) # <<>>
    BY <1>1, <2>1, BlocksFacts
  <2> HIDE DEF J
  <2>3. \A b \in Indices(ir) : ir.blocks[b].code # <<>> => J.blocks[b].code # <<>>
    <3>1. \A b \in Indices(ir) : b \in 0..(ir.size - 1)
      BY <1>1 DEF Indices
    <3> QED
      BY <2>1, <2>2, <3>1 DEF OnlyIn, Alike, Is
  <2>4. \A b \in Indices(ir) : b \notin {c} => BlockOK(J, b)
    <3>1. J.size \in Nat /\ ir.size <= J.size
      BY <1>1, <2>1
    <3> QED
      BY <2>1, <2>3, <3>1, BlocksStay
  <2>5. BlockOK(J, c)
    BY <2>1 DEF BlockOK, Is
  <2>6. Indices(J) = Indices(ir)
    BY <2>1 DEF Indices
  <2> QED
    BY <1>1, <2>4, <2>5, <2>6 DEF BlocksInv, J
<1> QED
  BY <1>2, <1>3

LEMMA InitBlocks ==
  ASSUME CInit
  PROVE  BlocksInv
<1>1. FlowInv /\ ~Parsing
  BY InitFlow DEF CInit, Init, Parsing
<1>2. ir.size = 1
  BY DEF CInit, Init, EmptyIR
<1>3. Indices(ir) = {}
  BY <1>2 DEF Indices
<1> QED
  BY <1>1, <1>3 DEF BlocksInv

LEMMA NextBlocksInv ==
  ASSUME BlocksInv, ~NestedForever, ~FoldedReturns, [CNext]_all_vars
  PROVE  BlocksInv'
<1>1. FlowInv /\ FlowInv'
  BY NextFlow DEF BlocksInv
<1>2. ASSUME CFi \/ COd \/ CThenEnd, ~Live(Top)
      PROVE  BlocksInv'
  BY <1>1, <1>2, IgnoredEndIdle, IgnoredElseIdle, IdleBlocks
<1>3. ASSUME CSimple \/ CReturn
      PROVE  BlocksInv'
  <2>1. ignore => IdleStep
    BY <1>1, <1>3, IgnoredStatementIdle
  <2>2. ~ignore => (Emitted("EMPTY") /\ ~ignore') \/ (Emitted("RET") /\ ignore')
    BY <1>1, <1>3, SimpleShape, ReturnShape
  <2>3. ASSUME Emitted("EMPTY"), ~ignore'
        PROVE  BlocksInv'
    <3>1. (ignore' <=> "EMPTY" = "RET") /\ "EMPTY" \in {"EMPTY", "RET"}
      BY <2>3
    <3> QED
      BY <1>1, <2>3, <3>1, EmittedBlocks
  <2>4. ASSUME Emitted("RET"), ignore'
        PROVE  BlocksInv'
    <3>1. (ignore' <=> "RET" = "RET") /\ "RET" \in {"EMPTY", "RET"}
      BY <2>4
    <3> QED
      BY <1>1, <2>4, <3>1, EmittedBlocks
  <2> QED
    BY <1>1, <2>1, <2>2, <2>3, <2>4, IdleBlocks
<1>4. ASSUME CIfIgnored \/ CWhileIgnored
      PROVE  BlocksInv'
  <2>1. ignore
    BY <1>4 DEF CIfIgnored, CWhileIgnored, IfThenIgnored, WhileDoIgnored
  <2> QED
    BY <1>1, <1>4, <2>1, IgnoredConstructIdle, IdleBlocks
<1>5. ASSUME NEW r \in Relation, CIf(r)
      PROVE  BlocksInv'
  BY <1>1, <1>5, IfShape, BranchedBlocks, FoldedBlocks
<1>6. ASSUME NEW r \in Relation, CWhile(r)
      PROVE  BlocksInv'
  BY <1>1, <1>6, WhileShape, LoopedBlocks
<1>7. ASSUME CThenEnd, Live(Top)
      PROVE  BlocksInv'
  BY <1>1, <1>7, ThenEndShape, TurnedNewBlocks, TurnedFoldedBlocks
<1>8. ASSUME NEW kind \in {"function", "main"}, CBegin(kind)
      PROVE  BlocksInv'
  BY <1>1, <1>8, BeginShape, StartedBlocks
<1>9. ASSUME CFunctionEnd
      PROVE  BlocksInv'
  BY <1>1, <1>9, FunctionEndShape, FinaleBlocks
<1>10. ASSUME CMainEnd
       PROVE  BlocksInv'
  <2>1. ir' = ir /\ ~Parsing'
    BY <1>10 DEF CMainEnd, MainEnd, Parsing
  <2> QED
    BY <1>1, <2>1 DEF BlocksInv
<1>11. ASSUME UNCHANGED all_vars
       PROVE  BlocksInv'
  BY <1>1, <1>11 DEF all_vars, vars, BlocksInv, Parsing
<1>12. CNext => BlocksInv'
  BY <1>1, <1>2, <1>3, <1>4, <1>5, <1>6, <1>7, <1>8, <1>9, <1>10, FiBlocks, OdBlocks DEF CNext
<1> QED
  BY <1>11, <1>12


-----------------------------------------------------------------------------
(* Flow graphs: blocks F with the points C[b] in each, the ways D[b] on    *)
(* from it, and the ways out of points that arrive at it.                  *)

Hows == {"next", "then", "else"}

\* A function with another value at b, where it may have had none.
Put(f, b, v) == [x \in (DOMAIN f) \union {b} |-> IF x = b THEN v ELSE f[x]]

\* The ways out of block p: out of its last point, or, when it has no code, the
\* ways that arrive there.
OutOf(C, A, p, how) == IF C[p] = <<>> THEN A[p] ELSE {<<C[p][Len(C[p])], how>>}

ArrivesAt(F, C, D, A, b, x) ==
  \E p \in F : \E how \in Hows : <<how, b>> \in D[p] /\ x \in OutOf(C, A, p, how)

\* The edges between points, into block b and inside it.
Enters(C, A, b, t) == \E a \in A[b] : t = <<a[1], a[2], C[b][1]>>
Inside(C, b, t) == \E i \in 1..(Len(C[b]) - 1) : t = <<C[b][i], "next", C[b][i + 1]>>

PointEdge(F, C, A, t) == \E b \in F : C[b] # <<>> /\ (Enters(C, A, b, t) \/ Inside(C, b, t))

\* A holds what arrives at the blocks and E the edges between the points.
FlowTypes(F, C, D, A) ==
  C \in [F -> Seq(Nat)] /\ D \in [F -> SUBSET (Hows \X F)] /\ A \in [F -> SUBSET Exits]

Flows(F, C, D, A, E) ==
  /\ FlowTypes(F, C, D, A)
  /\ \A b \in F : \A x : x \in A[b] <=> ArrivesAt(F, C, D, A, b, x)
  /\ \A t : t \in E <=> PointEdge(F, C, A, t)

Entering(O, k) == {<<o[1], o[2], k>> : o \in O}

LEMMA OutOfType ==
  ASSUME NEW F, NEW C, NEW D, NEW A, FlowTypes(F, C, D, A), NEW p \in F, NEW how \in Hows
  PROVE  OutOf(C, A, p, how) \in SUBSET Exits
<1>1. C[p] \in Seq(Nat) /\ A[p] \in SUBSET Exits
  BY DEF FlowTypes
<1>2. C[p] # <<>> => C[p][Len(C[p])] \in Nat
  BY <1>1
<1> QED
  BY <1>1, <1>2 DEF OutOf, Exits, Hows

\* One more point at the end of a block that leads nowhere yet.
LEMMA AppendedEdges ==
  ASSUME NEW s \in Seq(Nat), NEW k \in Nat, NEW s2, s2 = Append(s, k)
  PROVE  /\ s2 \in Seq(Nat) /\ s2 # <<>> /\ Len(s2) = Len(s) + 1 /\ s2[Len(s2)] = k
         /\ s = <<>> => s2[1] = k /\ 1..(Len(s2) - 1) = {}
         /\ s # <<>> => /\ s2[1] = s[1] /\ Len(s) \in 1..(Len(s2) - 1)
                        /\ s2[Len(s)] = s[Len(s)] /\ s2[Len(s) + 1] = k
                        /\ \A i \in 1..(Len(s2) - 1) :
                             i # Len(s) => i \in 1..(Len(s) - 1) /\ s2[i] = s[i] /\ s2[i + 1] = s[i + 1]
                        /\ \A i \in 1..(Len(s) - 1) :
                             i \in 1..(Len(s2) - 1) /\ s2[i] = s[i] /\ s2[i + 1] = s[i + 1]
<1>1. /\ s2 \in Seq(Nat) /\ s2 # <<>> /\ Len(s2) = Len(s) + 1 /\ s2[Len(s) + 1] = k /\ Len(s) \in Nat
      /\ \A i \in 1..Len(s) : s2[i] = s[i]
  OBVIOUS
<1>2. s = <<>> => Len(s) = 0
  OBVIOUS
<1>3. s # <<>> => Len(s) >= 1
  OBVIOUS
<1> QED
  BY <1>1, <1>2, <1>3

LEMMA AppendedLast ==
  ASSUME NEW s \in Seq(Nat), NEW k \in Nat, NEW s2, s2 = Append(s, k)
  PROVE  s2 # <<>> /\ s2[Len(s2)] = k
<1>1. s2 # <<>> /\ Len(s2) = Len(s) + 1 /\ s2[Len(s) + 1] = k
  OBVIOUS
<1> QED
  BY <1>1

LEMMA AppendFlows ==
  ASSUME NEW F, NEW C, NEW D, NEW A, NEW E, Flows(F, C, D, A, E),
         NEW c \in F, D[c] = {}, NEW k \in Nat
  PROVE  Flows(F, Put(C, c, Append(C[c], k)), D, A, E \union Entering(OutOf(C, A, c, "next"), k))
<1> DEFINE s2 == Append(C[c], k)
           C2 == Put(C, c, s2)
           E2 == E \union Entering(OutOf(C, A, c, "next"), k)
<1>1. FlowTypes(F, C, D, A) /\ C[c] \in Seq(Nat)
  BY DEF Flows, FlowTypes
<1>2. s2 \in Seq(Nat)
  BY <1>1
<1>3. C2 \in [F -> Seq(Nat)] /\ C2[c] = s2 /\ \A x \in F : x # c => C2[x] = C[x]
  <2> HIDE DEF s2
  <2> QED
    BY <1>1, <1>2 DEF FlowTypes, Put
<1> HIDE DEF C2
<1>4. FlowTypes(F, C2, D, A)
  BY <1>1, <1>3 DEF FlowTypes
<1>5. \A b \in F : \A x : ArrivesAt(F, C2, D, A, b, x) <=> ArrivesAt(F, C, D, A, b, x)
  <2>1. \A p \in F : \A how \in Hows : \A b : <<how, b>> \in D[p] => OutOf(C2, A, p, how) = OutOf(C, A, p, how)
    BY <1>3 DEF OutOf
  <2> QED
    BY <2>1 DEF ArrivesAt
<1>6. \A t : t \in E2 <=> PointEdge(F, C2, A, t)
  <2> SUFFICES ASSUME NEW t
               PROVE  t \in E2 <=> PointEdge(F, C2, A, t)
    OBVIOUS
  <2> DEFINE Here(X) == X[c] # <<>> /\ (Enters(X, A, c, t) \/ Inside(X, c, t))
             There(X) == \E b \in F \ {c} : X[b] # <<>> /\ (Enters(X, A, b, t) \/ Inside(X, b, t))
  <2>1. PointEdge(F, C2, A, t) <=> Here(C2) \/ There(C2)
    BY DEF PointEdge
  <2>2. PointEdge(F, C, A, t) <=> Here(C) \/ There(C)
    BY DEF PointEdge
  <2>3. There(C2) <=> There(C)
    BY <1>3 DEF Enters, Inside
  <2>4. Here(C2) <=> Here(C) \/ t \in Entering(OutOf(C, A, c, "next"), k)
    <3>1. CASE C[c] = <<>>
      <4>1. s2 # <<>> /\ s2[1] = k /\ 1..(Len(s2) - 1) = {}
        <5> HIDE DEF s2
        <5> QED
          BY <1>1, <3>1, AppendedEdges DEF s2
      <4>2. Here(C2) <=> \E a \in A[c] : t = <<a[1], a[2], k>>
        <5> HIDE DEF s2
        <5> QED
          BY <1>3, <4>1 DEF Enters, Inside
      <4>3. OutOf(C, A, c, "next") = A[c]
        BY <3>1 DEF OutOf
      <4> QED
        BY <3>1, <4>2, <4>3 DEF Entering
    <3>2. CASE C[c] # <<>>
      <4> DEFINE s == C[c]
      <4> HIDE DEF s2
      <4>1. /\ s2 # <<>> /\ s2[1] = s[1] /\ Len(s) \in 1..(Len(s2) - 1)
            /\ s2[Len(s)] = s[Len(s)] /\ s2[Len(s) + 1] = k
            /\ \A i \in 1..(Len(s2) - 1) :
                 i # Len(s) => i \in 1..(Len(s) - 1) /\ s2[i] = s[i] /\ s2[i + 1] = s[i + 1]
            /\ \A i \in 1..(Len(s) - 1) :
                 i \in 1..(Len(s2) - 1) /\ s2[i] = s[i] /\ s2[i + 1] = s[i + 1]
        BY <1>1, <3>2, AppendedEdges DEF s2
      <4>2. Enters(C2, A, c, t) <=> Enters(C, A, c, t)
        BY <1>3, <4>1 DEF Enters
      <4>3. Inside(C2, c, t) <=> Inside(C, c, t) \/ t = <<s[Len(s)], "next", k>>
        <5>1. Inside(C, c, t) => Inside(C2, c, t)
          BY <1>3, <4>1 DEF Inside
        <5>2. t = <<s[Len(s)], "next", k>> => Inside(C2, c, t)
          BY <1>3, <4>1 DEF Inside
        <5>3. Inside(C2, c, t) => Inside(C, c, t) \/ t = <<s[Len(s)], "next", k>>
          BY <1>3, <4>1 DEF Inside
        <5> QED
          BY <5>1, <5>2, <5>3
      <4>4. t \in Entering(OutOf(C, A, c, "next"), k) <=> t = <<s[Len(s)], "next", k>>
        BY <3>2 DEF OutOf, Entering
      <4> QED
        BY <1>3, <3>2, <4>1, <4>2, <4>3, <4>4
    <3> QED
      BY <3>1, <3>2
  <2>5. t \in E <=> PointEdge(F, C, A, t)
    BY DEF Flows
  <2> QED
    BY <2>1, <2>2, <2>3, <2>4, <2>5
<1> QED
  BY <1>4, <1>5, <1>6 DEF Flows, C2

\* A new block that only block c leads to.
LEMMA LeadFlows ==
  ASSUME NEW F, NEW C, NEW D, NEW A, NEW E, Flows(F, C, D, A, E),
         NEW c \in F, NEW n, n \notin F, NEW how \in Hows
  PROVE  Flows(F \union {n}, Put(C, n, <<>>), Put(Put(D, n, {}), c, D[c] \union {<<how, n>>}),
               Put(A, n, OutOf(C, A, c, how)), E)
<1> DEFINE G == F \union {n}
           O == OutOf(C, A, c, how)
           d == D[c] \union {<<how, n>>}
           C2 == Put(C, n, <<>>)
           D1 == Put(D, n, {})
           D2 == Put(D1, c, d)
           A2 == Put(A, n, O)
<1>1. FlowTypes(F, C, D, A)
  BY DEF Flows
<1>2. O \in SUBSET Exits
  BY <1>1, OutOfType
<1> HIDE DEF O
<1>3. C2 \in [G -> Seq(Nat)] /\ C2[n] = <<>> /\ \A x \in F : C2[x] = C[x]
  BY <1>1 DEF FlowTypes, Put
<1>4. A2 \in [G -> SUBSET Exits] /\ A2[n] = O /\ \A x \in F : A2[x] = A[x]
  BY <1>1, <1>2 DEF FlowTypes, Put
<1>5. D \in [F -> SUBSET (Hows \X G)] /\ d \in SUBSET (Hows \X G)
  BY <1>1 DEF FlowTypes
<1> HIDE DEF d
<1>6. D1 \in [G -> SUBSET (Hows \X G)] /\ D1[n] = {} /\ \A x \in F : D1[x] = D[x]
  BY <1>5 DEF Put
<1> HIDE DEF D1
<1>7. D2 \in [G -> SUBSET (Hows \X G)] /\ D2[n] = {} /\ D2[c] = d /\ \A x \in F : x # c => D2[x] = D[x]
  <2>1. c \in G /\ n # c
    OBVIOUS
  <2>2. /\ Put(D1, c, d) \in [G \union {c} -> SUBSET (Hows \X G)]
        /\ Put(D1, c, d)[c] = d
        /\ \A x \in G : x # c => Put(D1, c, d)[x] = D1[x]
        /\ c \in G => G \union {c} = G
    BY <1>5, <1>6 DEF Put
  <2> QED
    BY <1>6, <2>1, <2>2
<1> HIDE DEF C2, A2, D2
<1>8. FlowTypes(G, C2, D2, A2)
  BY <1>3, <1>4, <1>7 DEF FlowTypes
<1>9. \A p \in F : \A w : OutOf(C2, A2, p, w) = OutOf(C, A, p, w)
  BY <1>3, <1>4 DEF OutOf
<1>10. \A p \in F : \A w : <<w, n>> \notin D[p]
  BY <1>1 DEF FlowTypes
<1>11. \A b \in F : \A p \in F : \A w : <<w, b>> \in D2[p] <=> <<w, b>> \in D[p]
  BY <1>7 DEF d
<1>12. \A b \in F : \A x : x \in A2[b] <=> ArrivesAt(G, C2, D2, A2, b, x)
  <2> SUFFICES ASSUME NEW b \in F, NEW x
               PROVE  x \in A2[b] <=> ArrivesAt(G, C2, D2, A2, b, x)
    OBVIOUS
  <2>1. x \in A2[b] <=> ArrivesAt(F, C, D, A, b, x)
    BY <1>4 DEF Flows
  <2>2. ArrivesAt(G, C2, D2, A2, b, x) <=>
          \E p \in F : \E w \in Hows : <<w, b>> \in D2[p] /\ x \in OutOf(C2, A2, p, w)
    BY <1>7 DEF ArrivesAt
  <2> QED
    BY <1>9, <1>11, <2>1, <2>2 DEF ArrivesAt
<1>13. \A x : x \in A2[n] <=> ArrivesAt(G, C2, D2, A2, n, x)
  <2> SUFFICES ASSUME NEW x
               PROVE  x \in O <=> ArrivesAt(G, C2, D2, A2, n, x)
    BY <1>4
  <2>1. \A p \in G : \A w \in Hows : <<w, n>> \in D2[p] <=> p = c /\ w = how
    <3>1. \A w : <<w, n>> \in d <=> w = how
      BY <1>10 DEF d
    <3> QED
      BY <1>7, <1>10, <3>1
  <2>2. O = OutOf(C2, A2, c, how)
    BY <1>9 DEF O
  <2> QED
    BY <2>1, <2>2 DEF ArrivesAt
<1>14. \A t : t \in E <=> PointEdge(G, C2, A2, t)
  <2> SUFFICES ASSUME NEW t
               PROVE  t \in E <=> PointEdge(G, C2, A2, t)
    OBVIOUS
  <2>1. t \in E <=> PointEdge(F, C, A, t)
    BY DEF Flows
  <2>2. \A b \in F : /\ Enters(C2, A2, b, t) <=> Enters(C, A, b, t)
                     /\ Inside(C2, b, t) <=> Inside(C, b, t)
    BY <1>3, <1>4 DEF Enters, Inside
  <2> QED
    BY <1>3, <2>1, <2>2 DEF PointEdge
<1>15. Flows(G, C2, D2, A2, E)
  BY <1>8, <1>12, <1>13, <1>14 DEF Flows
<1> QED
  BY <1>15 DEF C2, D2, D1, A2, O, d, G

\* One more edge, to a block with code or to one that leads nowhere yet.
LEMMA EdgeFlows ==
  ASSUME NEW F, NEW C, NEW D, NEW A, NEW E, Flows(F, C, D, A, E),
         NEW c \in F, NEW h \in F, NEW how \in Hows, C[h] # <<>> \/ (D[h] = {} /\ h # c)
  PROVE  Flows(F, C, Put(D, c, D[c] \union {<<how, h>>}), Put(A, h, A[h] \union OutOf(C, A, c, how)),
               IF C[h] = <<>> THEN E ELSE E \union Entering(OutOf(C, A, c, how), C[h][1]))
<1> DEFINE O == OutOf(C, A, c, how)
           d == D[c] \union {<<how, h>>}
           a == A[h] \union O
           D2 == Put(D, c, d)
           A2 == Put(A, h, a)
           E2 == IF C[h] = <<>> THEN E ELSE E \union Entering(O, C[h][1])
<1>1. FlowTypes(F, C, D, A)
  BY DEF Flows
<1>2. O \in SUBSET Exits
  BY <1>1, OutOfType
<1> HIDE DEF O
<1>3. A2 \in [F -> SUBSET Exits] /\ A2[h] = A[h] \union O /\ \A x \in F : x # h => A2[x] = A[x]
  <2>1. a \in SUBSET Exits
    BY <1>1, <1>2 DEF FlowTypes
  <2> HIDE DEF a
  <2>2. A2 \in [F -> SUBSET Exits] /\ A2[h] = a /\ \A x \in F : x # h => A2[x] = A[x]
    BY <1>1, <2>1 DEF FlowTypes, Put
  <2> QED
    BY <2>2 DEF a
<1>4. D2 \in [F -> SUBSET (Hows \X F)] /\ D2[c] = d /\ \A x \in F : x # c => D2[x] = D[x]
  <2>1. d \in SUBSET (Hows \X F)
    BY <1>1 DEF FlowTypes
  <2> HIDE DEF d
  <2> QED
    BY <1>1, <2>1 DEF FlowTypes, Put
<1> HIDE DEF A2, D2, a
<1>5. FlowTypes(F, C, D2, A2)
  BY <1>1, <1>3, <1>4 DEF FlowTypes
<1>6. \A p \in F : \A w : \A b : <<w, b>> \in D2[p] => OutOf(C, A2, p, w) = OutOf(C, A, p, w)
  BY <1>3, <1>4 DEF OutOf
<1>7. \A b \in F : \A x : x \in A2[b] <=> ArrivesAt(F, C, D2, A2, b, x)
  <2> SUFFICES ASSUME NEW b \in F, NEW x
               PROVE  x \in A2[b] <=> ArrivesAt(F, C, D2, A2, b, x)
    OBVIOUS
  <2>1. x \in A[b] <=> ArrivesAt(F, C, D, A, b, x)
    BY DEF Flows
  <2>2. ArrivesAt(F, C, D2, A2, b, x) <=>
          \E p \in F : \E w \in Hows : <<w, b>> \in D2[p] /\ x \in OutOf(C, A, p, w)
    BY <1>6 DEF ArrivesAt
  <2>3. \A p \in F : \A w : <<w, b>> \in D2[p] <=> <<w, b>> \in D[p] \/ (p = c /\ w = how /\ b = h)
    BY <1>4 DEF d
  <2>4. ArrivesAt(F, C, D2, A2, b, x) <=> ArrivesAt(F, C, D, A, b, x) \/ (b = h /\ x \in O)
    BY <2>2, <2>3 DEF ArrivesAt, O
  <2> QED
    BY <1>3, <2>1, <2>4
<1>8. \A t : t \in E2 <=> PointEdge(F, C, A2, t)
  <2> SUFFICES ASSUME NEW t
               PROVE  t \in E2 <=> PointEdge(F, C, A2, t)
    OBVIOUS
  <2>1. t \in E <=> PointEdge(F, C, A, t)
    BY DEF Flows
  <2>2. \A b \in F : b # h => (Enters(C, A2, b, t) <=> Enters(C, A, b, t))
    BY <1>3 DEF Enters
  <2>3. Enters(C, A2, h, t) <=> Enters(C, A, h, t) \/ t \in Entering(O, C[h][1])
    BY <1>3 DEF Enters, Entering
  <2> QED
    BY <2>1, <2>2, <2>3 DEF PointEdge
<1>9. Flows(F, C, D2, A2, E2)
  BY <1>5, <1>7, <1>8 DEF Flows
<1> QED
  BY <1>9 DEF D2, A2, E2, O, d, a

\* The first block of a function.
LEMMA StartFlows ==
  ASSUME NEW e, NEW k \in Nat
  PROVE  Flows({e}, [b \in {e} |-> <<k>>], [b \in {e} |-> {}], [b \in {e} |-> {}], {})
<1> DEFINE C == [b \in {e} |-> <<k>>]
           D == [b \in {e} |-> {}]
           A == [b \in {e} |-> {}]
<1>1. C[e] = <<k>> /\ D[e] = {} /\ A[e] = {} /\ FlowTypes({e}, C, D, A)
  BY DEF FlowTypes
<1>2. Len(<<k>>) - 1 = 0 /\ 1..0 = {}
  OBVIOUS
<1> HIDE DEF C, D, A
<1>3. \A b \in {e} : \A x : x \in A[b] <=> ArrivesAt({e}, C, D, A, b, x)
  BY <1>1 DEF ArrivesAt
<1>4. \A t : ~PointEdge({e}, C, A, t)
  BY <1>1, <1>2 DEF PointEdge, Enters, Inside
<1>5. Flows({e}, C, D, A, {})
  BY <1>1, <1>3, <1>4 DEF Flows
<1> QED
  BY <1>5 DEF C, D, A



-----------------------------------------------------------------------------
(* The points that are executed first.                                     *)

\* What the first points f must be, of n blocks with the code C that lead on
\* as next says.
FirstPoints(n, C, next, f) ==
  [b \in 0..n |-> IF b = n THEN {Exit}
                  ELSE IF C[b] # <<>> THEN {C[b][1]} ELSE UNION {f[d[2]] : d \in next[b]}]

\* They exist: the least sets that contain what they must.
LEMMA FirstPointsExist ==
  ASSUME NEW n \in Nat, NEW C \in [0..(n - 1) -> Seq(Nat)], NEW next,
         \A b \in 0..(n - 1) : C[b] = <<>> => \A d \in next[b] : d[2] \in 0..n
  PROVE  \E f : f = FirstPoints(n, C, next, f)
<1> DEFINE B == 0..n
           S == [B -> SUBSET Nat]
           G(f) == FirstPoints(n, C, next, f)
           Full(f) == \A b \in B : G(f)[b] \subseteq f[b]
           least == [b \in B |-> {x \in Nat : \A f \in S : Full(f) => x \in f[b]}]
<1>1. least \in S
  OBVIOUS
<1>2. \A f : /\ G(f)[n] = {Exit} /\ DOMAIN G(f) = B /\ G(f) = [b \in B |-> G(f)[b]]
             /\ \A b \in 0..(n - 1) : G(f)[b] = IF C[b] # <<>> THEN {C[b][1]}
                                               ELSE UNION {f[d[2]] : d \in next[b]}
  BY DEF FirstPoints
<1>3. n \in B /\ \A b \in B : b # n => b \in 0..(n - 1)
  OBVIOUS
<1>4. \A f \in S : G(f) \in S
  <2> SUFFICES ASSUME NEW f \in S, NEW b \in B
               PROVE  G(f)[b] \in SUBSET Nat
    BY <1>2
  <2>1. CASE b = n
    BY <1>2, <2>1 DEF Exit
  <2>2. CASE b # n /\ C[b] # <<>>
    <3>1. C[b] \in Seq(Nat)
      BY <1>3, <2>2
    <3>2. C[b][1] \in Nat
      BY <2>2, <3>1
    <3> QED
      BY <1>2, <1>3, <2>2, <3>2
  <2>3. CASE b # n /\ C[b] = <<>>
    BY <1>2, <1>3, <2>3
  <2> QED
    BY <2>1, <2>2, <2>3
<1>5. \A f, g \in S : (\A b \in B : f[b] \subseteq g[b]) => \A b \in B : G(f)[b] \subseteq G(g)[b]
  <2> SUFFICES ASSUME NEW f \in S, NEW g \in S, \A b \in B : f[b] \subseteq g[b], NEW b \in B
               PROVE  G(f)[b] \subseteq G(g)[b]
    OBVIOUS
  <2>1. b = n => G(f)[b] = {Exit} /\ G(g)[b] = {Exit}
    BY <1>2
  <2>2. b # n /\ C[b] # <<>> => G(f)[b] = G(g)[b]
    BY <1>2, <1>3
  <2>3. ASSUME b # n, C[b] = <<>>, NEW x \in G(f)[b]
        PROVE  x \in G(g)[b]
    <3>1. /\ G(f)[b] = UNION {f[d[2]] : d \in next[b]}
          /\ G(g)[b] = UNION {g[d[2]] : d \in next[b]}
      BY <1>2, <1>3, <2>3
    <3>2. PICK d \in next[b] : x \in f[d[2]]
      BY <2>3, <3>1
    <3>3. d[2] \in B
      BY <1>3, <2>3
    <3>4. x \in g[d[2]]
      BY <3>2, <3>3
    <3> QED
      BY <3>1, <3>4
  <2> QED
    BY <2>1, <2>2, <2>3
<1>6. \A f \in S : Full(f) => \A b \in B : least[b] \subseteq f[b]
  OBVIOUS
<1>7. \A b \in B, x \in Nat : (\A f \in S : Full(f) => x \in f[b]) => x \in least[b]
  OBVIOUS
<1> HIDE DEF least, G, S
<1>8. Full(least)
  <2> SUFFICES ASSUME NEW b \in B, NEW x \in G(least)[b]
               PROVE  x \in least[b]
    OBVIOUS
  <2>1. x \in Nat
    BY <1>1, <1>4 DEF S
  <2>2. ASSUME NEW f \in S, Full(f)
        PROVE  x \in f[b]
    <3>1. G(least)[b] \subseteq G(f)[b]
      BY <1>1, <1>5, <1>6, <2>2
    <3> QED
      BY <2>2, <3>1
  <2> QED
    BY <1>7, <2>1, <2>2
<1>9. \A b \in B : least[b] \subseteq G(least)[b]
  <2>1. G(least) \in S
    BY <1>1, <1>4
  <2>2. Full(G(least))
    BY <1>1, <1>5, <1>8, <2>1
  <2> QED
    BY <1>6, <2>1, <2>2
<1>10. least = G(least)
  <2>1. least = [b \in B |-> least[b]]
    BY <1>1 DEF S
  <2> QED
    BY <1>2, <1>8, <1>9, <2>1
<1> QED
  BY <1>10 DEF G

\* Reading the flow of a graph from the first points gives back its edges.
\* Blocks without code lead to later blocks or to blocks with code.
LeadsDown(C, D, b) ==
  C[b] = <<>> => \A d \in D[b] : d[2] > b \/ C[d[2]] # <<>>

FirstAt(C, D, f, b) ==
  f[b] = IF C[b] # <<>> THEN {C[b][1]} ELSE UNION {f[d[2]] : d \in D[b]}

Leaves(C, D, f, b, t) ==
  \E d \in D[b] : \E m \in f[d[2]] : t = <<C[b][Len(C[b])], d[1], m>>

LEMMA ReadingStays ==
  ASSUME NEW e \in Nat, NEW n \in Nat, NEW C, NEW D, NEW A, NEW E, Flows(e..n, C, D, A, E),
         NEW f, \A b \in e..n : FirstAt(C, D, f, b) /\ LeadsDown(C, D, b),
         NEW b \in e..n, NEW a \in A[b], NEW m \in f[b]
  PROVE  <<a[1], a[2], m>> \in E
<1> DEFINE F == e..n
           Wrong(x) == \E y \in A[x] : \E z \in f[x] : <<y[1], y[2], z>> \notin E
<1>1. /\ FlowTypes(F, C, D, A)
      /\ \A x \in F : \A y : y \in A[x] <=> ArrivesAt(F, C, D, A, x, y)
      /\ \A t : t \in E <=> PointEdge(F, C, A, t)
  BY DEF Flows
<1>2. \A x \in F : C[x] # <<>> => ~Wrong(x)
  <2> SUFFICES ASSUME NEW x \in F, C[x] # <<>>, NEW y \in A[x], NEW z \in f[x]
               PROVE  <<y[1], y[2], z>> \in E
    OBVIOUS
  <2>1. z = C[x][1]
    BY DEF FirstAt
  <2>2. Enters(C, A, x, <<y[1], y[2], z>>)
    BY <2>1 DEF Enters
  <2> QED
    BY <1>1, <2>2 DEF PointEdge
<1>3. \A x \in F : ~Wrong(x)
  <2> DEFINE S == {k \in Nat : n - k \in F /\ Wrong(n - k)}
  <2> SUFFICES ASSUME NEW w \in F, Wrong(w)
               PROVE  FALSE
    OBVIOUS
  <2>1. n - w \in S
    <3>1. n - (n - w) = w /\ n - w \in Nat
      OBVIOUS
    <3> QED
      BY <3>1
  <2>2. PICK k \in S : \A j \in S : k <= j
    <3>1. S \subseteq Nat /\ S # {}
      BY <2>1
    <3> HIDE DEF S
    <3> QED
      BY <3>1, LeastNumber
  <2> DEFINE x == n - k
  <2>3. x \in F /\ Wrong(x) /\ k \in Nat /\ x \in Nat
    BY <2>2
  <2>4. \A y \in F : y > x => ~Wrong(y)
    <3> SUFFICES ASSUME NEW y \in F, y > x, Wrong(y)
                 PROVE  FALSE
      OBVIOUS
    <3>1. n - (n - y) = y /\ n - y \in Nat /\ n - y < k
      BY <2>3
    <3>2. n - y \in S
      BY <3>1
    <3> QED
      BY <2>2, <2>3, <3>1, <3>2
  <2> HIDE DEF x, S
  <2>5. C[x] = <<>>
    BY <1>2, <2>3
  <2>6. PICK y \in A[x], z \in f[x] : <<y[1], y[2], z>> \notin E
    BY <2>3
  <2>7. PICK d \in D[x] : z \in f[d[2]]
    <3>1. f[x] = UNION {f[d[2]] : d \in D[x]}
      BY <2>3, <2>5 DEF FirstAt
    <3>2. z \in UNION {f[d[2]] : d \in D[x]}
      BY <3>1
    <3> QED
      BY <3>2
  <2>8. d[1] \in Hows /\ d[2] \in F /\ d = <<d[1], d[2]>>
    BY <1>1, <2>3 DEF FlowTypes
  <2>9. y \in A[d[2]]
    <3>1. y \in OutOf(C, A, x, d[1])
      BY <2>5 DEF OutOf
    <3> QED
      BY <1>1, <2>3, <2>8, <3>1 DEF ArrivesAt
  <2>10. ~Wrong(d[2])
    BY <1>2, <2>3, <2>4, <2>5, <2>8 DEF LeadsDown
  <2> QED
    BY <2>6, <2>7, <2>9, <2>10
<1> QED
  BY <1>3

LEMMA ReadingFinds ==
  ASSUME NEW e \in Nat, NEW n \in Nat, NEW C, NEW D, NEW A, NEW E, Flows(e..n, C, D, A, E),
         NEW f, \A b \in e..n : FirstAt(C, D, f, b) /\ LeadsDown(C, D, b),
         NEW b \in e..n, NEW a \in A[b], NEW m \in f[b]
  PROVE  \E p \in e..n : C[p] # <<>> /\ Leaves(C, D, f, p, <<a[1], a[2], m>>)
<1> DEFINE F == e..n
           Found(y, z) == \E p \in F : C[p] # <<>> /\ Leaves(C, D, f, p, <<y[1], y[2], z>>)
           Wrong(x) == \E y \in A[x] : \E z \in f[x] : ~Found(y, z)
<1>1. /\ FlowTypes(F, C, D, A)
      /\ \A x \in F : \A y : y \in A[x] <=> ArrivesAt(F, C, D, A, x, y)
  BY DEF Flows
<1>2. ASSUME NEW x \in F, NEW y \in A[x], NEW z \in f[x], ~Found(y, z)
      PROVE  \E p \in F : \E d \in D[p] : C[p] = <<>> /\ d[2] = x /\ y \in A[p] /\ z \in f[p]
  <2>1. PICK p \in F, how \in Hows : <<how, x>> \in D[p] /\ y \in OutOf(C, A, p, how)
    BY <1>1 DEF ArrivesAt
  <2>2. C[p] = <<>>
    <3> SUFFICES ASSUME C[p] # <<>>
                 PROVE  FALSE
      OBVIOUS
    <3>1. y = <<C[p][Len(C[p])], how>>
      BY <2>1 DEF OutOf
    <3>2. y[1] = C[p][Len(C[p])] /\ y[2] = how
      BY <3>1
    <3>3. Leaves(C, D, f, p, <<y[1], y[2], z>>)
      <4>1. <<how, x>>[1] = how /\ <<how, x>>[2] = x
        OBVIOUS
      <4> QED
        BY <2>1, <3>2, <4>1 DEF Leaves
    <3> QED
      BY <1>2, <3>3
  <2>3. y \in A[p]
    BY <2>1, <2>2 DEF OutOf
  <2>4. <<how, x>>[2] = x
    OBVIOUS
  <2>5. z \in f[p]
    <3>1. f[p] = UNION {f[d[2]] : d \in D[p]}
      BY <2>2 DEF FirstAt
    <3>2. z \in UNION {f[d[2]] : d \in D[p]}
      BY <2>1, <2>4
    <3> QED
      BY <3>1, <3>2
  <2> QED
    BY <2>1, <2>2, <2>3, <2>4, <2>5
<1> HIDE DEF Found
<1>3. \A x \in F : C[x] = <<>> => ~Wrong(x)
  <2> DEFINE S == {k \in F : C[k] = <<>> /\ Wrong(k)}
  <2> SUFFICES ASSUME NEW w \in F, C[w] = <<>>, Wrong(w)
               PROVE  FALSE
    OBVIOUS
  <2>1. PICK x \in S : \A j \in S : x <= j
    <3>1. S \subseteq Nat /\ w \in S
      OBVIOUS
    <3> HIDE DEF S
    <3> QED
      BY <3>1, LeastNumber
  <2>2. PICK y \in A[x], z \in f[x] : ~Found(y, z)
    OBVIOUS
  <2>3. PICK p \in F : \E d \in D[p] : C[p] = <<>> /\ d[2] = x /\ y \in A[p] /\ z \in f[p]
    BY <1>2, <2>2
  <2>4. p \in S
    BY <2>2, <2>3
  <2>5. x > p
    BY <2>3 DEF LeadsDown
  <2> QED
    BY <2>1, <2>4, <2>5
<1>4. Found(a, m)
  BY <1>2, <1>3
<1> QED
  BY <1>4 DEF Found

LEMMA EdgesReadBack ==
  ASSUME NEW e \in Nat, NEW n \in Nat, NEW C, NEW D, NEW A, NEW E, Flows(e..n, C, D, A, E),
         NEW f, \A b \in e..n : FirstAt(C, D, f, b) /\ LeadsDown(C, D, b), NEW t
  PROVE  t \in E <=> \E b \in e..n : C[b] # <<>> /\ (Inside(C, b, t) \/ Leaves(C, D, f, b, t))
<1> DEFINE F == e..n
<1>1. /\ FlowTypes(F, C, D, A)
      /\ \A x \in F : \A y : y \in A[x] <=> ArrivesAt(F, C, D, A, x, y)
      /\ t \in E <=> PointEdge(F, C, A, t)
  BY DEF Flows
<1>2. ASSUME NEW b \in F, C[b] # <<>>, Leaves(C, D, f, b, t)
      PROVE  t \in E
  <2>1. PICK d \in D[b] : \E m \in f[d[2]] : t = <<C[b][Len(C[b])], d[1], m>>
    BY <1>2 DEF Leaves
  <2>2. d[1] \in Hows /\ d[2] \in F /\ d = <<d[1], d[2]>>
    BY <1>1 DEF FlowTypes
  <2> DEFINE y == <<C[b][Len(C[b])], d[1]>>
  <2>3. y \in A[d[2]]
    <3>1. y \in OutOf(C, A, b, d[1])
      BY <1>2 DEF OutOf
    <3>2. ArrivesAt(F, C, D, A, d[2], y)
      BY <2>2, <3>1 DEF ArrivesAt
    <3> QED
      BY <1>1, <2>2, <3>2
  <2>4. y[1] = C[b][Len(C[b])] /\ y[2] = d[1]
    OBVIOUS
  <2> HIDE DEF y
  <2>5. \A m \in f[d[2]] : <<y[1], y[2], m>> \in E
    BY <2>2, <2>3, ReadingStays
  <2> QED
    BY <2>1, <2>4, <2>5
<1>3. ASSUME NEW b \in F, C[b] # <<>>, Enters(C, A, b, t)
      PROVE  \E p \in F : C[p] # <<>> /\ Leaves(C, D, f, p, t)
  <2>1. PICK a \in A[b] : t = <<a[1], a[2], C[b][1]>>
    BY <1>3 DEF Enters
  <2>2. C[b][1] \in f[b]
    BY <1>3 DEF FirstAt
  <2> QED
    BY <2>1, <2>2, ReadingFinds
<1> QED
  BY <1>1, <1>2, <1>3 DEF PointEdge


-----------------------------------------------------------------------------
(* The flow graph of the function that is being compiled.                  *)

\* The ways on from a block with this branch instruction and these successors.
DrawnBy(op, larg, s) ==
  CASE op = "EMPTY" -> {<<"next", s[i]>> : i \in 1..Len(s)}
    [] op = "BRA" -> {<<"next", larg>>}
    [] op = "RET" -> {}
    [] op = "Bcc" -> {<<IF i = 1 THEN "then" ELSE "else", s[i]>> : i \in 1..Len(s)}

WaysOn(I, b) == DrawnBy(I.blocks[b].op, I.blocks[b].larg, I.blocks[b].successors)

Codes(I, e) == [b \in e..(I.size - 1) |-> I.blocks[b].code]
Draws(I, e) == [b \in e..(I.size - 1) |-> WaysOn(I, b)]

Out(I, A, p, how) ==
  IF I.blocks[p].code = <<>> THEN A[p]
  ELSE {<<I.blocks[p].code[Len(I.blocks[p].code)], how>>}

Carried(I, e, A, E) == Flows(e..(I.size - 1), Codes(I, e), Draws(I, e), A, E)

\* What an activation remembers of the flow is in its blocks.
PartCarried(I, A, f, n) ==
  /\ Entered(f) /\ f.kind = "while" => n.point = I.blocks[f.cond].code[1]
  /\ Live(f) /\ f.result = "NEITHER" /\ ~f.in_else => n.alt = Out(I, A, f.cond, "else")
  /\ Live(f) /\ f.result = "TRUE" /\ ~f.in_else => n.alt = Out(I, A, f.cond, "next")
  /\ Kept(f) /\ n.out # {} => n.out = Out(I, A, f.then_block, "next")

CarriedBy(A) ==
  /\ Carried(ir, entry, A, edges)
  /\ ~ignore => open = Out(ir, A, curr_block, "next")
  /\ \A i \in 1..Len(frames) : PartCarried(ir, A, frames[i], nest[i])

Carrying == \E A : CarriedBy(A)

\* A finished function as FlowEdges reads it: its last block may fall to the
\* exit of the program, which is past all blocks.
ReadBy(op, larg, rarg, fall) ==
  CASE op = "RET" -> {}
    [] op = "BRA" -> {<<"next", larg>>}
    [] op = "Bcc" -> {<<"then", fall>>, <<"else", rarg>>}
    [] op = "EMPTY" -> {<<"next", fall>>}

FallOf(s, past) == IF s = <<>> THEN past ELSE s[1]

WaysRead(I, b) ==
  IF b = I.size THEN {}
  ELSE ReadBy(I.blocks[b].op, I.blocks[b].larg, I.blocks[b].rarg,
              FallOf(I.blocks[b].successors, I.size))

CodeRead(I, b) == IF b = I.size THEN <<Exit>> ELSE I.blocks[b].code

Readable(I, e, n, A, E) ==
  /\ n \in {I.size - 1, I.size}
  /\ Flows(e..n, [b \in e..n |-> CodeRead(I, b)], [b \in e..n |-> WaysRead(I, b)], A, E)

CarryInv ==
  /\ BlocksInv
  /\ ir.blocks[0].op = "EMPTY"
  /\ Parsing => Carrying
  /\ Complete => \E n, A : Readable(ir, entry, n, A, edges)

LEMMA DrawnWays ==
  ASSUME NEW larg, NEW n
  PROVE  /\ DrawnBy("EMPTY", larg, <<>>) = {} /\ DrawnBy("RET", larg, <<>>) = {}
         /\ DrawnBy("EMPTY", larg, <<n>>) = {<<"next", n>>}
         /\ DrawnBy("Bcc", larg, <<n>>) = {<<"then", n>>}
         /\ \A s : DrawnBy("BRA", larg, s) = {<<"next", larg>>}
<1>1. Len(<<>>) = 0 /\ Len(<<n>>) = 1 /\ 1..0 = {} /\ 1..1 = {1} /\ <<n>>[1] = n
  OBVIOUS
<1>2. DrawnBy("EMPTY", larg, <<>>) = {} /\ DrawnBy("RET", larg, <<>>) = {}
  BY <1>1 DEF DrawnBy
<1>3. DrawnBy("EMPTY", larg, <<n>>) = {<<"next", n>>}
  BY <1>1 DEF DrawnBy
<1>4. DrawnBy("Bcc", larg, <<n>>) = {<<"then", n>>}
  BY <1>1 DEF DrawnBy
<1>5. \A s : DrawnBy("BRA", larg, s) = {<<"next", larg>>}
  BY DEF DrawnBy
<1> QED
  BY <1>2, <1>3, <1>4, <1>5

LEMMA DrawnElse ==
  ASSUME NEW larg, NEW s \in Seq(Nat), Len(s) = 1, NEW n \in Nat
  PROVE  DrawnBy("Bcc", larg, Append(s, n)) = DrawnBy("Bcc", larg, s) \union {<<"else", n>>}
<1> DEFINE s2 == Append(s, n)
<1>1. Len(s2) = 2 /\ s2[2] = n /\ s2[1] = s[1]
  BY AppendedSecond
<1>2. 1..2 = {1, 2} /\ 1..1 = {1} /\ 1 # 2
  OBVIOUS
<1> HIDE DEF s2
<1>3. DrawnBy("Bcc", larg, s2) = {<<"then", s2[1]>>, <<"else", s2[2]>>}
  BY <1>1, <1>2 DEF DrawnBy
<1>4. DrawnBy("Bcc", larg, s) = {<<"then", s[1]>>}
  BY <1>2 DEF DrawnBy
<1> QED
  BY <1>1, <1>3, <1>4 DEF s2

LEMMA AlikeWays ==
  ASSUME NEW I, NEW J, NEW b, Alike(I, J, b)
  PROVE  J.blocks[b].code = I.blocks[b].code /\ WaysOn(J, b) = WaysOn(I, b)
BY DEF Alike, WaysOn

\* Where the blocks of the function are.
LEMMA FunctionBlocks ==
  ASSUME FlowInv, Parsing
  PROVE  /\ entry \in Nat \ {0} /\ ir.size \in Nat \ {0} /\ entry \in 0..(ir.size - 1)
         /\ curr_block \in entry..(ir.size - 1)
         /\ \A b : InFunction(ir, b) => b \in entry..(ir.size - 1)
         /\ \A i \in 1..Len(frames) : \A b : Remembers(frames[i], b) => b \in entry..(ir.size - 1)
<1>1. /\ Inv /\ IROK(ir) /\ entry \in Succs(ir, 0) /\ InFunction(ir, curr_block)
      /\ IRType(ir) /\ ir.size \in Nat
      /\ \A i \in 1..Len(frames) : FrameOK(ir, frames[i])
  BY FStateFacts DEF Inv, Parsing
<1>2. entry \in Indices(ir) /\ ir.size \in Nat \ {0}
  BY <1>1 DEF IROK, GraphOK, IRType
<1>3. \A b : InFunction(ir, b) => b \in entry..(ir.size - 1)
  BY <1>1, <1>2 DEF InFunction, Indices
<1>4. \A i \in 1..Len(frames) : \A b : Remembers(frames[i], b) => InFunction(ir, b)
  <2> SUFFICES ASSUME NEW i \in 1..Len(frames), NEW b, Remembers(frames[i], b)
               PROVE  InFunction(ir, b)
    OBVIOUS
  <2>1. FrameOK(ir, frames[i])
    BY <1>1
  <2> QED
    BY <2>1 DEF Remembers, FrameOK, Entered, Kept, Live
<1> QED
  BY <1>1, <1>2, <1>3, <1>4 DEF Indices

\* The ways that arrive are new only at blocks with code.
Keeps(A, A2) == \A b \in entry..(ir.size - 1) : ir.blocks[b].code = <<>> => A2[b] = A[b]

LEMMA PartCarriedStays ==
  ASSUME FlowInv, Parsing, NEW A, NEW A2, Keeps(A, A2), NEW J, NEW i \in 1..Len(frames),
         Untouched(J, frames[i]), NEW n, PartCarried(ir, A, frames[i], n)
  PROVE  PartCarried(J, A2, frames[i], n)
<1> DEFINE f == frames[i]
<1>1. \A b : Remembers(f, b) => /\ J.blocks[b].code = ir.blocks[b].code
                                /\ \A how : Out(J, A2, b, how) = Out(ir, A, b, how)
  <2> SUFFICES ASSUME NEW b, Remembers(f, b)
               PROVE  /\ J.blocks[b].code = ir.blocks[b].code
                      /\ \A how : Out(J, A2, b, how) = Out(ir, A, b, how)
    OBVIOUS
  <2>1. b \in entry..(ir.size - 1)
    BY FunctionBlocks
  <2>2. Alike(ir, J, b)
    BY DEF Untouched
  <2> QED
    BY <2>1, <2>2 DEF Keeps, Alike, Out
<1>2. /\ Entered(f) \/ (Live(f) /\ f.result = "NEITHER")
         \/ (Live(f) /\ f.result = "TRUE" /\ ~f.in_else) => Remembers(f, f.cond)
      /\ Kept(f) => Remembers(f, f.then_block)
  BY DEF Remembers, Entered, Branching
<1> HIDE DEF f
<1>3. PartCarried(J, A2, f, n)
  BY <1>1, <1>2 DEF PartCarried, f
<1> QED
  BY <1>3 DEF f


LEMMA CarriedNext ==
  ASSUME NEW A, Carried(ir', entry', A, edges'),
         ~ignore' => open' = Out(ir', A, curr_block', "next"),
         \A i \in 1..Len(frames') : PartCarried(ir', A, frames'[i], nest'[i])
  PROVE  Carrying'
BY DEF Carrying, CarriedBy

LEMMA EnteringArrives ==
  ASSUME NEW k
  PROVE  Entering(open, k) = Arrive(k)
BY DEF Entering, Arrive

\* Parsing goes on in a block that leads nowhere yet.
LEMMA LiveFacts ==
  ASSUME FlowInv, Parsing, ~ignore
  PROVE  /\ Ready(ir, curr_block) /\ WaysOn(ir, curr_block) = {}
         /\ curr_block \in entry..(ir.size - 1) /\ curr_block \in 0..(ir.size - 1)
         /\ entry \in Nat /\ ir.size \in Nat \ {0} /\ pos \in Nat /\ open # {}
         /\ frames \in Seq(Frames) /\ nest \in Seq(Constructs) /\ Len(nest) = Len(frames)
<1>1. Ready(ir, curr_block)
  BY FStateFacts
<1>2. WaysOn(ir, curr_block) = {}
  BY <1>1, DrawnWays DEF Ready, WaysOn
<1>3. open # {}
  BY FStateFacts
<1> QED
  BY <1>1, <1>2, <1>3, FStateFacts, FunctionBlocks

LEMMA LiveParts ==
  ASSUME FlowInv, Parsing, ~ignore, NEW A, CarriedBy(A), NEW A2, Keeps(A, A2),
         NEW J, OnlyIn(ir, J, {curr_block})
  PROVE  \A i \in 1..Len(frames) : PartCarried(J, A2, frames[i], nest[i])
<1> SUFFICES ASSUME NEW i \in 1..Len(frames)
             PROVE  PartCarried(J, A2, frames[i], nest[i])
  OBVIOUS
<1>1. Untouched(J, frames[i])
  BY LiveUntouched
<1>2. PartCarried(ir, A, frames[i], nest[i])
  BY DEF CarriedBy
<1> QED
  BY <1>1, <1>2, PartCarriedStays

LEMMA PushedParts ==
  ASSUME FlowInv, Parsing, NEW J, NEW A, NEW f \in Frames, NEW m \in Constructs,
         PartCarried(J, A, f, m),
         \A i \in 1..Len(frames) : PartCarried(J, A, frames[i], nest[i]),
         frames' = Append(frames, f), nest' = Append(nest, m)
  PROVE  \A i \in 1..Len(frames') : PartCarried(J, A, frames'[i], nest'[i])
<1>1. Len(nest) = Len(frames) /\ frames \in Seq(Frames) /\ nest \in Seq(Constructs)
  BY FStateFacts
<1>2. /\ Len(frames') = Len(frames) + 1
      /\ \A i \in 1..(Len(frames) + 1) :
           /\ i = Len(frames) + 1 => frames'[i] = f
           /\ i # Len(frames) + 1 => i \in 1..Len(frames) /\ frames'[i] = frames[i]
  BY <1>1, PushedAt
<1>3. /\ nest'[Len(frames) + 1] = m
      /\ \A i \in 1..Len(frames) : nest'[i] = nest[i]
  BY <1>1
<1> QED
  BY <1>2, <1>3

LEMMA IdleCarry ==
  ASSUME Carrying, IdleStep
  PROVE  Carrying'
<1>1. PICK A : CarriedBy(A)
  BY DEF Carrying
<1>2. /\ ignore' /\ ir' = ir /\ entry' = entry /\ edges' = edges
      /\ \A i \in 1..Len(frames') : Live(frames'[i]) =>
           i \in 1..Len(frames) /\ frames'[i] = frames[i] /\ nest'[i] = nest[i]
  BY DEF IdleStep, SameLive
<1>3. \A i \in 1..Len(frames') : PartCarried(ir, A, frames'[i], nest'[i])
  <2> SUFFICES ASSUME NEW i \in 1..Len(frames')
               PROVE  PartCarried(ir, A, frames'[i], nest'[i])
    OBVIOUS
  <2>1. CASE Live(frames'[i])
    BY <1>1, <1>2, <2>1 DEF CarriedBy
  <2>2. CASE ~Live(frames'[i])
    BY <2>2 DEF PartCarried, Entered, Kept
  <2> QED
    BY <2>1, <2>2
<1>4. Carried(ir', entry', A, edges')
  BY <1>1, <1>2 DEF CarriedBy
<1> QED
  BY <1>2, <1>3, <1>4, CarriedNext

\* The growth of the graph, block by block.
Same(I, J, b) == J.blocks[b].code = I.blocks[b].code /\ WaysOn(J, b) = WaysOn(I, b)

LEMMA AppendCarried ==
  ASSUME NEW I, NEW J, NEW e, NEW A, NEW E, Carried(I, e, A, E), J.size = I.size,
         NEW c \in e..(I.size - 1), NEW k \in Nat, WaysOn(I, c) = {}, WaysOn(J, c) = {},
         J.blocks[c].code = Append(I.blocks[c].code, k),
         \A b \in e..(I.size - 1) : b # c => Same(I, J, b)
  PROVE  Carried(J, e, A, E \union Entering(Out(I, A, c, "next"), k))
<1> DEFINE F == e..(I.size - 1)
           C == Codes(I, e)
           D == Draws(I, e)
           s == Append(C[c], k)
           C2 == Put(C, c, s)
           E2 == E \union Entering(Out(I, A, c, "next"), k)
<1>1. F = e..(I.size - 1)
  OBVIOUS
<1> HIDE DEF F, C, D
<1>2. /\ Flows(F, C, D, A, E)
      /\ \A b \in F : C[b] = I.blocks[b].code /\ D[b] = WaysOn(I, b)
      /\ DOMAIN C = F /\ DOMAIN D = F
      /\ OutOf(C, A, c, "next") = Out(I, A, c, "next")
  <2>1. Flows(F, C, D, A, E)
    BY <1>1 DEF Carried, C, D
  <2>2. /\ \A b \in F : C[b] = I.blocks[b].code /\ D[b] = WaysOn(I, b)
        /\ DOMAIN C = F /\ DOMAIN D = F
    BY <1>1 DEF Codes, Draws, C, D
  <2> QED
    BY <1>1, <2>1, <2>2 DEF OutOf, Out
<1>3. c \in F /\ F = e..(J.size - 1)
  BY <1>1
<1>4. s = J.blocks[c].code
  BY <1>2, <1>3
<1>5. Flows(F, C2, D, A, E2)
  <2>1. D[c] = {}
    BY <1>2, <1>3
  <2>2. Flows(F, C2, D, A, E \union Entering(OutOf(C, A, c, "next"), k))
    BY <1>2, <1>3, <2>1, AppendFlows
  <2> QED
    BY <1>2, <2>2
<1> HIDE DEF s
<1>6. C2[c] = s /\ \A b \in F : b # c => C2[b] = C[b]
  BY <1>2 DEF Put
<1> HIDE DEF C2, E2
<1>7. \A b \in F : C2[b] = J.blocks[b].code /\ D[b] = WaysOn(J, b)
  BY <1>1, <1>2, <1>3, <1>4, <1>6 DEF Same
<1>8. Carried(J, e, A, E2)
  <2>1. C2 = [b \in F |-> C2[b]] /\ D = [b \in F |-> D[b]]
    BY <1>5 DEF Flows, FlowTypes
  <2>2. C2 = [b \in F |-> J.blocks[b].code] /\ D = [b \in F |-> WaysOn(J, b)]
    BY <1>7, <2>1
  <2>3. C2 = Codes(J, e) /\ D = Draws(J, e)
    BY <1>3, <2>2 DEF Codes, Draws
  <2> QED
    BY <1>3, <1>5, <2>3 DEF Carried
<1> QED
  BY <1>8 DEF E2

LEMMA LeadCarried ==
  ASSUME NEW I, NEW J, NEW e \in Nat, NEW A, NEW E, Carried(I, e, A, E),
         I.size \in Nat, J.size = I.size + 1, NEW n, n = I.size,
         NEW c \in e..(I.size - 1), NEW how \in Hows,
         J.blocks[n].code = <<>>, WaysOn(J, n) = {},
         J.blocks[c].code = I.blocks[c].code, WaysOn(J, c) = WaysOn(I, c) \union {<<how, n>>},
         \A b \in e..(I.size - 1) : b # c => Same(I, J, b)
  PROVE  Carried(J, e, Put(A, n, Out(I, A, c, how)), E)
<1> DEFINE F == e..(I.size - 1)
           G == F \union {n}
           C == Codes(I, e)
           D == Draws(I, e)
           d == D[c] \union {<<how, n>>}
           C2 == Put(C, n, <<>>)
           D1 == Put(D, n, {})
           D2 == Put(D1, c, d)
           A2 == Put(A, n, Out(I, A, c, how))
<1>1. F = e..(I.size - 1) /\ n \notin F /\ c \in F /\ n # c
  OBVIOUS
<1>2. G = e..(J.size - 1)
  OBVIOUS
<1> HIDE DEF F, C, D
<1>3. /\ Flows(F, C, D, A, E)
      /\ \A b \in F : C[b] = I.blocks[b].code /\ D[b] = WaysOn(I, b)
      /\ DOMAIN C = F /\ DOMAIN D = F
      /\ OutOf(C, A, c, how) = Out(I, A, c, how)
  <2>1. Flows(F, C, D, A, E)
    BY <1>1 DEF Carried, C, D
  <2>2. /\ \A b \in F : C[b] = I.blocks[b].code /\ D[b] = WaysOn(I, b)
        /\ DOMAIN C = F /\ DOMAIN D = F
    BY <1>1 DEF Codes, Draws, C, D
  <2> QED
    BY <1>1, <2>1, <2>2 DEF OutOf, Out
<1>4. Flows(G, C2, D2, A2, E)
  <2>1. Flows(G, C2, D2, Put(A, n, OutOf(C, A, c, how)), E)
    BY <1>1, <1>3, LeadFlows
  <2> QED
    BY <1>3, <2>1
<1>5. C2[n] = <<>> /\ \A b \in F : C2[b] = C[b]
  BY <1>1, <1>3 DEF Put
<1>6. D1[n] = {} /\ DOMAIN D1 = G /\ \A b \in F : D1[b] = D[b]
  BY <1>1, <1>3 DEF Put
<1>7. d = WaysOn(J, c)
  BY <1>1, <1>3
<1> HIDE DEF D1, d
<1>8. D2[c] = d /\ \A b \in DOMAIN D1 : b # c => D2[b] = D1[b]
  BY DEF Put
<1> HIDE DEF C2, D2, A2
<1>9. \A b \in G : C2[b] = J.blocks[b].code /\ D2[b] = WaysOn(J, b)
  <2> SUFFICES ASSUME NEW b \in G
               PROVE  C2[b] = J.blocks[b].code /\ D2[b] = WaysOn(J, b)
    OBVIOUS
  <2>1. CASE b = n
    BY <1>1, <1>5, <1>6, <1>8, <2>1
  <2>2. CASE b = c
    BY <1>1, <1>3, <1>5, <1>7, <1>8, <2>2
  <2>3. CASE b \in F /\ b # c
    BY <1>1, <1>3, <1>5, <1>6, <1>8, <2>3 DEF Same
  <2> QED
    BY <2>1, <2>2, <2>3
<1> HIDE DEF G
<1>10. Carried(J, e, A2, E)
  <2>1. C2 = [b \in G |-> C2[b]] /\ D2 = [b \in G |-> D2[b]]
    BY <1>4 DEF Flows, FlowTypes
  <2>2. C2 = [b \in G |-> J.blocks[b].code] /\ D2 = [b \in G |-> WaysOn(J, b)]
    BY <1>9, <2>1
  <2>3. C2 = Codes(J, e) /\ D2 = Draws(J, e)
    BY <1>2, <2>2 DEF Codes, Draws
  <2> QED
    BY <1>2, <1>4, <2>3 DEF Carried
<1> QED
  BY <1>10 DEF A2

LEMMA EdgeCarried ==
  ASSUME NEW I, NEW J, NEW e, NEW A, NEW E, Carried(I, e, A, E), J.size = I.size,
         NEW c \in e..(I.size - 1), NEW h \in e..(I.size - 1), NEW how \in Hows,
         I.blocks[h].code # <<>> \/ (WaysOn(I, h) = {} /\ h # c),
         J.blocks[c].code = I.blocks[c].code, WaysOn(J, c) = WaysOn(I, c) \union {<<how, h>>},
         \A b \in e..(I.size - 1) : b # c => Same(I, J, b)
  PROVE  Carried(J, e, Put(A, h, A[h] \union Out(I, A, c, how)),
                 IF I.blocks[h].code = <<>> THEN E
                 ELSE E \union Entering(Out(I, A, c, how), I.blocks[h].code[1]))
<1> DEFINE F == e..(I.size - 1)
           C == Codes(I, e)
           D == Draws(I, e)
           d == D[c] \union {<<how, h>>}
           D2 == Put(D, c, d)
           A2 == Put(A, h, A[h] \union Out(I, A, c, how))
           E2 == IF I.blocks[h].code = <<>> THEN E
                 ELSE E \union Entering(Out(I, A, c, how), I.blocks[h].code[1])
<1>1. F = e..(I.size - 1) /\ c \in F /\ h \in F /\ F = e..(J.size - 1)
  OBVIOUS
<1> HIDE DEF F, C, D
<1>2. /\ Flows(F, C, D, A, E)
      /\ \A b \in F : C[b] = I.blocks[b].code /\ D[b] = WaysOn(I, b)
      /\ DOMAIN D = F
      /\ OutOf(C, A, c, how) = Out(I, A, c, how)
  <2>1. Flows(F, C, D, A, E)
    BY <1>1 DEF Carried, C, D
  <2>2. /\ \A b \in F : C[b] = I.blocks[b].code /\ D[b] = WaysOn(I, b)
        /\ DOMAIN C = F /\ DOMAIN D = F
    BY <1>1 DEF Codes, Draws, C, D
  <2> QED
    BY <1>1, <2>1, <2>2 DEF OutOf, Out
<1>3. Flows(F, C, D2, A2, E2)
  <2>1. C[h] = I.blocks[h].code /\ (C[h] # <<>> \/ (D[h] = {} /\ h # c))
    BY <1>1, <1>2
  <2>2. Flows(F, C, D2, Put(A, h, A[h] \union OutOf(C, A, c, how)),
              IF C[h] = <<>> THEN E ELSE E \union Entering(OutOf(C, A, c, how), C[h][1]))
    BY <1>1, <1>2, <2>1, EdgeFlows
  <2> QED
    BY <1>2, <2>1, <2>2
<1>4. d = WaysOn(J, c)
  BY <1>1, <1>2
<1> HIDE DEF d
<1>5. D2[c] = d /\ \A b \in F : b # c => D2[b] = D[b]
  BY <1>2 DEF Put
<1> HIDE DEF D2, A2, E2
<1>6. \A b \in F : C[b] = J.blocks[b].code /\ D2[b] = WaysOn(J, b)
  BY <1>1, <1>2, <1>4, <1>5 DEF Same
<1>7. Carried(J, e, A2, E2)
  <2>1. C = [b \in F |-> C[b]] /\ D2 = [b \in F |-> D2[b]]
    BY <1>3 DEF Flows, FlowTypes
  <2>2. C = [b \in F |-> J.blocks[b].code] /\ D2 = [b \in F |-> WaysOn(J, b)]
    BY <1>6, <2>1
  <2>3. C = Codes(J, e) /\ D2 = Draws(J, e)
    BY <1>1, <2>2 DEF Codes, Draws
  <2> QED
    BY <1>1, <1>3, <2>3 DEF Carried
<1> QED
  BY <1>7 DEF A2, E2

LEMMA AppendLeadCarried ==
  ASSUME NEW I, NEW J, NEW e \in Nat, NEW A, NEW E, Carried(I, e, A, E),
         I.size \in Nat, J.size = I.size + 1, NEW n, n = I.size,
         NEW c \in e..(I.size - 1), NEW k \in Nat, NEW how \in Hows,
         WaysOn(I, c) = {}, I.blocks[c].code \in Seq(Nat),
         J.blocks[c].code = Append(I.blocks[c].code, k), WaysOn(J, c) = {<<how, n>>},
         J.blocks[n].code = <<>>, WaysOn(J, n) = {},
         \A b \in e..(I.size - 1) : b # c => Same(I, J, b)
  PROVE  Carried(J, e, Put(A, n, {<<k, how>>}), E \union Entering(Out(I, A, c, "next"), k))
<1> DEFINE s == Append(I.blocks[c].code, k)
           B == [b \in e..(I.size - 1) |->
                   IF b = c THEN [code |-> s, op |-> "RET", larg |-> None, successors |-> <<>>]
                   ELSE I.blocks[b]]
           K == [size |-> I.size, blocks |-> B]
           E2 == E \union Entering(Out(I, A, c, "next"), k)
           O == Out(K, A, c, how)
<1>1. s # <<>> /\ s[Len(s)] = k
  <2> DEFINE x == I.blocks[c].code
  <2>1. x \in Seq(Nat) /\ s = Append(x, k)
    OBVIOUS
  <2> HIDE DEF s, x
  <2> QED
    BY <2>1, AppendedLast
<1> HIDE DEF s
<1>2. K.size = I.size /\ K.blocks = B
  OBVIOUS
<1>3. /\ B[c].code = s /\ B[c].op = "RET" /\ B[c].successors = <<>>
      /\ \A b \in e..(I.size - 1) : b # c => B[b] = I.blocks[b]
  OBVIOUS
<1> HIDE DEF B, K
<1>4. /\ K.blocks[c].code = s /\ WaysOn(K, c) = {}
      /\ \A b \in e..(I.size - 1) : b # c => Same(I, K, b)
  <2>1. \A b \in e..(I.size - 1) : b # c => Same(I, K, b)
    BY <1>2, <1>3 DEF Same, WaysOn
  <2> QED
    BY <1>2, <1>3, <2>1, DrawnWays DEF WaysOn
<1>5. Carried(K, e, A, E2)
  <2>1. K.blocks[c].code = Append(I.blocks[c].code, k)
    BY <1>4 DEF s
  <2> QED
    BY <1>2, <1>4, <2>1, AppendCarried
<1>6. O = {<<k, how>>}
  BY <1>1, <1>4 DEF Out
<1> HIDE DEF E2
<1>7. Carried(J, e, Put(A, n, O), E2)
  <2>1. K.size \in Nat /\ J.size = K.size + 1 /\ n = K.size /\ c \in e..(K.size - 1)
    BY <1>2
  <2>2. J.blocks[c].code = K.blocks[c].code
    BY <1>4 DEF s
  <2>3. WaysOn(J, c) = WaysOn(K, c) \union {<<how, n>>}
    BY <1>4
  <2>4. \A b \in e..(K.size - 1) : b # c => Same(K, J, b)
    BY <1>2, <1>4 DEF Same
  <2> HIDE DEF O
  <2>5. Carried(J, e, Put(A, n, Out(K, A, c, how)), E2)
    BY <1>5, <2>1, <2>2, <2>3, <2>4, LeadCarried
  <2> QED
    BY <2>5 DEF O
<1> QED
  BY <1>6, <1>7 DEF E2

LEMMA PutKeeps ==
  ASSUME NEW A, NEW E, Carried(ir, entry, A, E), NEW n, NEW v,
         n \in entry..(ir.size - 1) => ir.blocks[n].code # <<>>
  PROVE  Keeps(A, Put(A, n, v)) /\ Put(A, n, v)[n] = v
<1>1. DOMAIN A = entry..(ir.size - 1)
  BY DEF Carried, Flows, FlowTypes
<1> QED
  BY <1>1 DEF Keeps, Put

LEMMA LeadsToOne ==
  ASSUME NEW I, NEW b, NEW n, I.blocks[b].successors = <<n>>
  PROVE  /\ I.blocks[b].op = "EMPTY" => WaysOn(I, b) = {<<"next", n>>}
         /\ I.blocks[b].op = "Bcc" => WaysOn(I, b) = {<<"then", n>>}
<1> DEFINE larg == I.blocks[b].larg
           s == <<n>>
<1>1. DrawnBy("EMPTY", larg, s) = {<<"next", n>>} /\ DrawnBy("Bcc", larg, s) = {<<"then", n>>}
  BY DrawnWays, Zenon
<1>2. I.blocks[b].successors = s
  OBVIOUS
<1> HIDE DEF s
<1> QED
  BY <1>1, <1>2 DEF WaysOn

LEMMA JumpsToOne ==
  ASSUME NEW I, NEW b, I.blocks[b].op = "BRA"
  PROVE  WaysOn(I, b) = {<<"next", I.blocks[b].larg>>}
<1> DEFINE l == I.blocks[b].larg
           s == I.blocks[b].successors
<1>1. DrawnBy("BRA", l, s) = {<<"next", l>>}
  BY DEF DrawnBy
<1> QED
  BY <1>1 DEF WaysOn

LEMMA AlikeSame ==
  ASSUME NEW J, NEW S, OnlyIn(ir, J, S), NEW b \in 0..(ir.size - 1), b \notin S
  PROVE  Same(ir, J, b)
<1>1. Alike(ir, J, b)
  BY DEF OnlyIn
<1> QED
  BY <1>1, AlikeWays DEF Same

LEMMA EmittedCarry ==
  ASSUME FlowInv, Carrying, NEW op \in {"EMPTY", "RET"}, Emitted(op),
         op = "EMPTY" => open' = Leave(pos, "next"), op = "RET" => ignore'
  PROVE  Carrying'
<1> DEFINE c == curr_block
           J == ir'
<1>1. /\ Parsing /\ ~ignore /\ curr_block' = c /\ entry' = entry
      /\ UNCHANGED <<frames, nest>> /\ J.size = ir.size /\ OnlyIn(ir, J, {c})
      /\ Is(J, c, Append(ir.blocks[c].code, pos), <<>>, op, J.blocks[c].larg,
            ir.blocks[c].rarg, op = "RET")
      /\ edges' = edges \union Arrive(pos)
  BY DEF Emitted
<1>2. PICK A : CarriedBy(A)
  BY DEF Carrying
<1>3. /\ c \in entry..(ir.size - 1) /\ WaysOn(ir, c) = {} /\ entry \in Nat /\ ir.size \in Nat
      /\ pos \in Nat /\ open # {}
      /\ \A b \in entry..(ir.size - 1) : b \in 0..(ir.size - 1)
  BY <1>1, LiveFacts
<1>4. /\ Carried(ir, entry, A, edges) /\ open = Out(ir, A, c, "next")
      /\ ir.blocks[c].code \in Seq(Nat)
  <2>1. c \in 0..(ir.size - 1) /\ IRType(ir)
    BY <1>1, <1>3, FStateFacts
  <2> QED
    BY <1>1, <1>2, <2>1, BlockFields DEF CarriedBy
<1> HIDE DEF J, c
<1>5. J.blocks[c].code = Append(ir.blocks[c].code, pos) /\ WaysOn(J, c) = {}
  BY <1>1, DrawnWays DEF Is, WaysOn
<1>6. \A b \in entry..(ir.size - 1) : b # c => Same(ir, J, b)
  BY <1>1, <1>3, AlikeSame
<1>7. Carried(J, entry, A, edges')
  <2>1. Carried(J, entry, A, edges \union Entering(Out(ir, A, c, "next"), pos))
    BY <1>1, <1>3, <1>4, <1>5, <1>6, AppendCarried
  <2> QED
    BY <1>1, <1>4, <2>1, EnteringArrives
<1>8. op = "EMPTY" => open' = Out(J, A, c, "next")
  <2> DEFINE x == J.blocks[c].code
             y == ir.blocks[c].code
  <2>1. x = Append(y, pos) /\ y \in Seq(Nat) /\ pos \in Nat
    BY <1>3, <1>4, <1>5
  <2> HIDE DEF x, y
  <2>2. x # <<>> /\ x[Len(x)] = pos
    BY <2>1, AppendedLast
  <2>3. Out(J, A, c, "next") = {<<pos, "next">>}
    BY <2>2 DEF Out, x
  <2> QED
    BY <1>3, <2>3 DEF Leave
<1>9. \A i \in 1..Len(frames) : PartCarried(J, A, frames[i], nest[i])
  BY <1>1, <1>2, LiveParts DEF c, Keeps
<1> QED
  BY <1>1, <1>7, <1>8, <1>9, CarriedNext DEF J, c

LEMMA BranchedCarry ==
  ASSUME FlowInv, Carrying, Branched
  PROVE  Carrying'
<1> DEFINE c == curr_block
           n == ir.size
           J == ir'
           f == Frame("if", "NEITHER", c)
           m == Construct(pos, Leave(pos, "else"))
<1>1. /\ Parsing /\ ~ignore /\ entry' = entry
      /\ frames' = Append(frames, f) /\ nest' = Append(nest, m)
      /\ J.size = n + 1 /\ OnlyIn(ir, J, {c})
      /\ Is(J, c, Append(ir.blocks[c].code, pos), <<n>>, "Bcc", None, ir.blocks[c].rarg, FALSE)
      /\ Is(J, n, <<>>, <<>>, "EMPTY", None, None, FALSE) /\ curr_block' = n
      /\ edges' = edges \union Arrive(pos) /\ open' = Leave(pos, "then")
  BY DEF Branched, Begun, Fresh
<1>2. PICK A : CarriedBy(A)
  BY DEF Carrying
<1>3. /\ c \in entry..(ir.size - 1) /\ WaysOn(ir, c) = {} /\ entry \in Nat /\ ir.size \in Nat
      /\ pos \in Nat /\ open # {} /\ c \in Nat
      /\ \A b \in entry..(ir.size - 1) : b \in 0..(ir.size - 1)
      /\ n \notin entry..(ir.size - 1)
  BY <1>1, LiveFacts
<1>4. /\ Carried(ir, entry, A, edges) /\ open = Out(ir, A, c, "next")
      /\ ir.blocks[c].code \in Seq(Nat)
  <2>1. c \in 0..(ir.size - 1) /\ IRType(ir)
    BY <1>1, <1>3, FStateFacts
  <2> QED
    BY <1>1, <1>2, <2>1, BlockFields DEF CarriedBy
<1>5. /\ f \in Frames /\ f.cond = c /\ f.result = "NEITHER" /\ f.kind = "if" /\ ~f.in_else
  BY <1>3, NewFrameFlow DEF Relation
<1>6. m \in Constructs /\ m.alt = {<<pos, "else">>} /\ m.out = {}
  <2>1. Leave(pos, "else") = {<<pos, "else">>} /\ Leave(pos, "else") \in SUBSET Exits
    BY <1>3, LeaveType DEF Leave
  <2> QED
    BY <1>3, <2>1, ConstructType
<1> DEFINE A2 == Put(A, n, {<<pos, "then">>})
<1> HIDE DEF J, c, f, m, n
<1>7. /\ J.blocks[c].code = Append(ir.blocks[c].code, pos) /\ WaysOn(J, c) = {<<"then", n>>}
      /\ J.blocks[n].code = <<>> /\ WaysOn(J, n) = {}
  <2>1. /\ J.blocks[c].code = Append(ir.blocks[c].code, pos) /\ WaysOn(J, c) = {<<"then", n>>}
    BY <1>1, LeadsToOne DEF Is
  <2> QED
    BY <1>1, <2>1, DrawnWays DEF Is, WaysOn
<1>8. \A b \in entry..(ir.size - 1) : b # c => Same(ir, J, b)
  BY <1>1, <1>3, AlikeSame
<1>9. Carried(J, entry, A2, edges')
  <2>1. Carried(J, entry, A2, edges \union Entering(Out(ir, A, c, "next"), pos))
    <3>1. n = ir.size /\ J.size = ir.size + 1 /\ "then" \in Hows
      BY <1>1 DEF n, Hows
    <3> QED
      BY <1>3, <1>4, <1>7, <1>8, <3>1, AppendLeadCarried
  <2> QED
    BY <1>1, <1>4, <2>1, EnteringArrives
<1>10. Keeps(A, A2) /\ A2[n] = {<<pos, "then">>}
  BY <1>3, <1>4, PutKeeps
<1>11. open' = Out(J, A2, n, "next")
  BY <1>1, <1>3, <1>7, <1>10 DEF Out, Leave
<1>12. Out(J, A2, c, "else") = {<<pos, "else">>}
  <2> DEFINE x == J.blocks[c].code
             y == ir.blocks[c].code
  <2>1. x = Append(y, pos) /\ y \in Seq(Nat) /\ pos \in Nat
    BY <1>3, <1>4, <1>7
  <2> HIDE DEF x, y
  <2>2. x # <<>> /\ x[Len(x)] = pos
    BY <2>1, AppendedLast
  <2> QED
    BY <2>2 DEF Out, x
<1> HIDE DEF A2
<1>13. PartCarried(J, A2, f, m)
  BY <1>5, <1>6, <1>12 DEF PartCarried, Kept
<1>14. \A i \in 1..Len(frames) : PartCarried(J, A2, frames[i], nest[i])
  BY <1>1, <1>2, <1>10, LiveParts DEF c
<1>15. \A i \in 1..Len(frames') : PartCarried(J, A2, frames'[i], nest'[i])
  BY <1>1, <1>5, <1>6, <1>13, <1>14, PushedParts
<1> QED
  BY <1>1, <1>9, <1>11, <1>15, CarriedNext DEF J, n

LEMMA FoldedCarry ==
  ASSUME FlowInv, Carrying, NEW r, Folded(r)
  PROVE  Carrying'
<1> DEFINE c == curr_block
           f == Frame("if", r, c)
           m == Construct(pos, IF r = "FALSE" THEN {} ELSE open)
<1>1. /\ Parsing /\ ~ignore /\ entry' = entry /\ (ignore' <=> r = "TRUE")
      /\ frames' = Append(frames, f) /\ nest' = Append(nest, m)
      /\ ir' = ir /\ curr_block' = c /\ edges' = edges /\ r \in {"TRUE", "FALSE"}
      /\ open' = IF r = "FALSE" THEN open ELSE {}
  BY DEF Folded, Begun
<1>2. PICK A : CarriedBy(A)
  BY DEF Carrying
<1>3. /\ c \in Nat /\ pos \in Nat /\ open \in SUBSET Exits
  BY <1>1, LiveFacts, FStateFacts
<1>4. Carried(ir, entry, A, edges) /\ open = Out(ir, A, c, "next")
  BY <1>1, <1>2 DEF CarriedBy
<1>5. /\ f \in Frames /\ f.cond = c /\ f.result = r /\ f.kind = "if" /\ ~f.in_else
  BY <1>1, <1>3, NewFrameFlow DEF Relation
<1>6. m \in Constructs /\ m.alt = (IF r = "FALSE" THEN {} ELSE open) /\ m.out = {}
  BY <1>3, ConstructType
<1> HIDE DEF f, m
<1>7. PartCarried(ir, A, f, m)
  BY <1>1, <1>4, <1>5, <1>6 DEF PartCarried, Entered, Branching, Kept
<1>8. \A i \in 1..Len(frames') : PartCarried(ir, A, frames'[i], nest'[i])
  <2>1. \A i \in 1..Len(frames) : PartCarried(ir, A, frames[i], nest[i])
    BY <1>2 DEF CarriedBy
  <2> QED
    BY <1>1, <1>5, <1>6, <1>7, <2>1, PushedParts
<1>9. Carried(ir', entry', A, edges') /\ (~ignore' => open' = Out(ir', A, curr_block', "next"))
  BY <1>1, <1>4
<1> QED
  BY <1>1, <1>8, <1>9, CarriedNext

LEMMA LoopedCarry ==
  ASSUME FlowInv, Carrying, NEW r \in Relation, Looped(r)
  PROVE  Carrying'
<1> DEFINE c == curr_block
           h == ir.size
           J == ir'
           f == Frame("while", r, h)
           m == Construct(pos, LoopAlt(r))
           how == IF r = "NEITHER" THEN "then" ELSE "next"
<1>1. /\ Parsing /\ ~ignore /\ (ignore' <=> r = "TRUE") /\ entry' = entry
      /\ frames' = Append(frames, f) /\ nest' = Append(nest, m)
      /\ OnlyIn(ir, J, {c})
      /\ Is(J, c, ir.blocks[c].code, <<h>>, "EMPTY", ir.blocks[c].larg, ir.blocks[c].rarg, FALSE)
      /\ \/ /\ r = "TRUE" /\ J.size = h + 1 /\ curr_block' = h
            /\ Is(J, h, <<pos>>, <<>>, "EMPTY", None, None, FALSE)
         \/ /\ r # "TRUE" /\ J.size = h + 2 /\ curr_block' = h + 1
            /\ Is(J, h, <<pos>>, <<h + 1>>, HeaderOp(r), None, None, FALSE)
            /\ Is(J, h + 1, <<>>, <<>>, "EMPTY", None, None, FALSE)
      /\ edges' = edges \union Arrive(pos)
  BY DEF Looped, Begun, Fresh
<1>2. PICK A : CarriedBy(A)
  BY DEF Carrying
<1>3. /\ c \in entry..(ir.size - 1) /\ WaysOn(ir, c) = {} /\ entry \in Nat /\ ir.size \in Nat
      /\ pos \in Nat /\ open # {} /\ c \in Nat /\ h \in Nat
      /\ \A b \in entry..(ir.size - 1) : b \in 0..(ir.size - 1) /\ b # h
      /\ h \notin entry..(ir.size - 1) /\ h + 1 \notin entry..h /\ h # h + 1
      /\ h + 1 \notin entry..(ir.size - 1) /\ entry..(ir.size - 1) \subseteq entry..h
      /\ h \in entry..((h + 1) - 1)
  BY <1>1, LiveFacts
<1>4. Carried(ir, entry, A, edges) /\ open = Out(ir, A, c, "next")
  BY <1>1, <1>2 DEF CarriedBy
<1>5. f \in Frames /\ f.cond = h /\ f.result = r /\ f.kind = "while" /\ ~f.in_else
  BY <1>3, NewFrameFlow
<1>6. /\ m \in Constructs /\ m.point = pos /\ m.out = {}
      /\ r = "NEITHER" => m.alt = {<<pos, "else">>} /\ open' = {<<pos, "then">>}
      /\ r = "FALSE" => open' = {<<pos, "next">>}
      /\ r = "TRUE" => m.alt = {<<pos, "next">>}
  <2>1. \A w \in Hows : Leave(pos, w) = {<<pos, w>>} /\ Leave(pos, w) \in SUBSET Exits
    BY <1>3, LeaveType DEF Leave, Hows
  <2>2. /\ LoopAlt(r) \in SUBSET Exits
        /\ r = "NEITHER" => LoopAlt(r) = {<<pos, "else">>}
        /\ r = "TRUE" => LoopAlt(r) = {<<pos, "next">>}
    BY <2>1 DEF LoopAlt, Relation, Hows
  <2>3. /\ r = "NEITHER" => open' = Leave(pos, "then")
        /\ r = "FALSE" => open' = Leave(pos, "next")
    BY DEF Looped
  <2> QED
    BY <1>3, <2>1, <2>2, <2>3, ConstructType DEF Hows
<1> DEFINE A1 == Put(A, h, open)
<1> HIDE DEF J, f, m, how
<1>7. /\ J.blocks[c].code = ir.blocks[c].code /\ WaysOn(J, c) = {<<"next", h>>}
      /\ \A b \in entry..(ir.size - 1) : b # c => Same(ir, J, b)
  <2>1. WaysOn(J, c) = {<<"next", h>>} /\ J.blocks[c].code = ir.blocks[c].code
    BY <1>1, LeadsToOne DEF Is
  <2> QED
    BY <1>1, <1>3, <2>1, AlikeSame
<1> DEFINE B == [b \in entry..h |->
                   IF b = h THEN [code |-> <<>>, op |-> "RET", larg |-> None, successors |-> <<>>]
                   ELSE J.blocks[b]]
           K == [size |-> h + 1, blocks |-> B]
<1>8. K.size = h + 1 /\ K.blocks = B
  OBVIOUS
<1>9. /\ B[h].code = <<>> /\ B[h].op = "RET" /\ B[h].successors = <<>>
      /\ \A b \in entry..(ir.size - 1) : B[b] = J.blocks[b]
  BY <1>3
<1> HIDE DEF B, K
<1>10. /\ K.blocks[h].code = <<>> /\ WaysOn(K, h) = {}
       /\ \A b \in entry..(ir.size - 1) : Same(J, K, b) /\ Same(K, J, b)
  BY <1>8, <1>9, DrawnWays DEF Same, WaysOn
<1>11. Carried(K, entry, A1, edges)
  <2>1. /\ K.blocks[c].code = ir.blocks[c].code
        /\ WaysOn(K, c) = WaysOn(ir, c) \union {<<"next", h>>}
        /\ \A b \in entry..(ir.size - 1) : b # c => Same(ir, K, b)
    BY <1>3, <1>7, <1>10 DEF Same
  <2>2. h = ir.size /\ K.size = ir.size + 1 /\ "next" \in Hows
    BY <1>8 DEF Hows
  <2> HIDE DEF h
  <2> QED
    BY <1>3, <1>4, <1>10, <2>1, <2>2, LeadCarried
<1>12. Keeps(A, A1) /\ A1[h] = open
  BY <1>3, <1>4, PutKeeps
<1> HIDE DEF A1, c
<1>13. Out(K, A1, h, "next") = open
  BY <1>10, <1>12 DEF Out
<1>14. Append(<<>>, pos) = <<pos>> /\ <<pos>>[1] = pos /\ Len(<<pos>>) = 1 /\ <<pos>> # <<>>
  OBVIOUS
<1>15. \A b \in entry..(K.size - 1) : b # h => Same(K, J, b)
  <2>1. \A b \in entry..(K.size - 1) : b = h \/ b \in entry..(ir.size - 1)
    BY <1>3, <1>8
  <2> QED
    BY <1>10, <2>1
<1> DEFINE E2 == edges \union Entering(Out(K, A1, h, "next"), pos)
<1>16. E2 = edges'
  BY <1>1, <1>13, EnteringArrives
<1> HIDE DEF E2
<1>17. CASE r = "TRUE"
  <2>1. J.blocks[h].code = <<pos>> /\ WaysOn(J, h) = {} /\ J.size = h + 1 /\ curr_block' = h
    BY <1>1, <1>17, DrawnWays DEF Is, WaysOn
  <2>2. Carried(J, entry, A1, E2)
    <3>1. J.size = K.size /\ h \in entry..(K.size - 1)
      BY <1>3, <1>8, <2>1
    <3>2. J.blocks[h].code = Append(K.blocks[h].code, pos)
      BY <1>10, <1>14, <2>1
    <3> HIDE DEF h
    <3> QED
      BY <1>3, <1>10, <1>11, <1>15, <2>1, <3>1, <3>2, AppendCarried DEF E2
  <2>3. Out(J, A1, h, "next") = {<<pos, "next">>}
    BY <1>14, <2>1 DEF Out
  <2> HIDE DEF h
  <2>4. PartCarried(J, A1, f, m)
    BY <1>5, <1>6, <1>17, <2>3 DEF PartCarried, Entered, Branching, Kept
  <2>5. \A i \in 1..Len(frames) : PartCarried(J, A1, frames[i], nest[i])
    BY <1>1, <1>2, <1>12, LiveParts DEF c
  <2>6. \A i \in 1..Len(frames') : PartCarried(J, A1, frames'[i], nest'[i])
    BY <1>1, <1>5, <1>6, <2>4, <2>5, PushedParts
  <2> QED
    BY <1>1, <1>16, <1>17, <2>2, <2>6, CarriedNext DEF J
<1>18. CASE r # "TRUE"
  <2> DEFINE n == h + 1
             A2 == Put(A1, n, {<<pos, how>>})
  <2>1. /\ J.blocks[h].code = <<pos>> /\ J.blocks[h].successors = <<n>>
        /\ J.blocks[h].op = HeaderOp(r) /\ J.size = h + 2 /\ curr_block' = n
        /\ J.blocks[n].code = <<>> /\ WaysOn(J, n) = {}
    BY <1>1, <1>18, DrawnWays DEF Is, WaysOn
  <2>2. how \in Hows /\ WaysOn(J, h) = {<<how, n>>}
    <3> HIDE DEF n
    <3>1. \/ HeaderOp(r) = "Bcc" /\ how = "then"
          \/ HeaderOp(r) = "EMPTY" /\ how = "next"
      BY DEF HeaderOp, how
    <3> QED
      BY <2>1, <3>1, LeadsToOne DEF Hows
  <2>3. Carried(J, entry, A2, E2)
    <3>1. /\ K.size \in Nat /\ J.size = K.size + 1 /\ h \in entry..(K.size - 1) /\ n = K.size
      BY <1>3, <1>8, <2>1
    <3>2. J.blocks[h].code = Append(K.blocks[h].code, pos) /\ K.blocks[h].code \in Seq(Nat)
      <4>1. <<>> \in Seq(Nat)
        OBVIOUS
      <4> QED
        BY <1>10, <1>14, <2>1, <4>1
    <3> HIDE DEF h, n
    <3> QED
      BY <1>3, <1>10, <1>11, <1>15, <2>1, <2>2, <3>1, <3>2, AppendLeadCarried DEF E2
  <2>4. DOMAIN A1 = entry..h
    <3>1. DOMAIN A1 = entry..(K.size - 1)
      BY <1>11 DEF Carried, Flows, FlowTypes
    <3>2. K.size - 1 = h
      BY <1>3, <1>8
    <3> QED
      BY <3>1, <3>2
  <2>5. A2[n] = {<<pos, how>>} /\ \A b \in entry..h : A2[b] = A1[b]
    BY <1>3, <2>4 DEF Put
  <2> HIDE DEF A2
  <2>6. Keeps(A, A2)
    BY <1>3, <1>12, <2>5 DEF Keeps
  <2>7. ~ignore' => open' = Out(J, A2, n, "next")
    <3>1. open' = {<<pos, how>>}
      BY <1>6, <1>18 DEF Relation, how
    <3> QED
      BY <2>1, <2>5, <3>1 DEF Out
  <2>8. Out(J, A2, h, "else") = {<<pos, "else">>} /\ J.blocks[h].code[1] = pos
    BY <1>14, <2>1 DEF Out
  <2> HIDE DEF h
  <2>9. PartCarried(J, A2, f, m)
    BY <1>5, <1>6, <1>18, <2>8 DEF PartCarried, Entered, Branching, Kept
  <2>10. \A i \in 1..Len(frames) : PartCarried(J, A2, frames[i], nest[i])
    BY <1>1, <1>2, <2>6, LiveParts DEF c
  <2>11. \A i \in 1..Len(frames') : PartCarried(J, A2, frames'[i], nest'[i])
    BY <1>1, <1>5, <1>6, <2>9, <2>10, PushedParts
  <2> QED
    BY <1>1, <1>16, <2>1, <2>3, <2>7, <2>11, CarriedNext DEF J
<1> QED
  BY <1>17, <1>18

LEMMA OuterCarried ==
  ASSUME FlowInv, Parsing, frames # <<>>, Live(Top), NEW J,
         NEW S \in SUBSET (0..(ir.size - 1)), \A p \in S : Above(ir, Top.cond, p),
         OnlyIn(ir, J, S), NEW A, CarriedBy(A), NEW A2, Keeps(A, A2)
  PROVE  \A i \in 1..(Len(frames) - 1) : PartCarried(J, A2, frames[i], nest[i])
<1> SUFFICES ASSUME NEW i \in 1..(Len(frames) - 1)
             PROVE  PartCarried(J, A2, frames[i], nest[i])
  OBVIOUS
<1>1. i \in 1..Len(frames) /\ Untouched(J, frames[i])
  BY OuterUntouched
<1>2. PartCarried(ir, A, frames[i], nest[i])
  BY <1>1 DEF CarriedBy
<1> QED
  BY <1>1, <1>2, PartCarriedStays

\* The innermost activation has been replaced, the others are the same.
LEMMA TurnedCarried ==
  ASSUME FlowInv, Parsing, NEW J, NEW A, Len(frames') = Len(frames),
         \A i \in 1..(Len(frames) - 1) : /\ frames'[i] = frames[i] /\ nest'[i] = nest[i]
                                         /\ PartCarried(J, A, frames[i], nest[i]),
         PartCarried(J, A, frames'[Len(frames)], nest'[Len(frames)])
  PROVE  \A i \in 1..Len(frames') : PartCarried(J, A, frames'[i], nest'[i])
<1>1. \A i \in 1..Len(frames) : i = Len(frames) \/ i \in 1..(Len(frames) - 1)
  BY FStateFacts
<1> QED
  BY <1>1

LEMMA TopCarried ==
  ASSUME FlowInv, Parsing, frames # <<>>, Live(Top), NEW A, CarriedBy(A)
  PROVE  /\ Carried(ir, entry, A, edges) /\ PartCarried(ir, A, Top, Inner)
         /\ entry \in Nat /\ ir.size \in Nat \ {0} /\ open \in SUBSET Exits
         /\ curr_block \in entry..(ir.size - 1)
         /\ \A b \in entry..(ir.size - 1) : b \in 0..(ir.size - 1)
         /\ ir.size \notin entry..(ir.size - 1)
         /\ \A b : Remembers(Top, b) => b \in entry..(ir.size - 1)
         /\ Top.result \in {"TRUE", "FALSE", "NEITHER"} /\ Top.kind \in {"if", "while"}
         /\ ~ignore <=> open # {}
         /\ ~ignore => open = Out(ir, A, curr_block, "next")
<1>1. /\ Top \in Frames /\ Top = frames[Len(frames)] /\ Len(frames) \in 1..Len(frames)
      /\ Inner = nest[Len(frames)] /\ open \in SUBSET Exits /\ ir.size \in Nat
      /\ ~ignore <=> open # {}
  BY TopFacts, FStateFacts
<1>2. /\ entry \in Nat \ {0} /\ ir.size \in Nat \ {0}
      /\ curr_block \in entry..(ir.size - 1)
      /\ \A b : Remembers(Top, b) => b \in entry..(ir.size - 1)
  BY <1>1, FunctionBlocks
<1>3. /\ \A b \in entry..(ir.size - 1) : b \in 0..(ir.size - 1)
      /\ ir.size \notin entry..(ir.size - 1)
  BY <1>1, <1>2
<1>4. Carried(ir, entry, A, edges) /\ (~ignore => open = Out(ir, A, curr_block, "next"))
  BY DEF CarriedBy
<1>5. PartCarried(ir, A, Top, Inner)
  BY <1>1 DEF CarriedBy
<1>6. Top.result \in {"TRUE", "FALSE", "NEITHER"} /\ Top.kind \in {"if", "while"}
  BY <1>1 DEF Frames, Relation
<1> QED
  BY <1>1, <1>2, <1>3, <1>4, <1>5, <1>6

LEMMA TurnedNewCarry ==
  ASSUME BlocksInv, Carrying, TurnedNew
  PROVE  Carrying'
<1> DEFINE k == Len(frames)
           n == ir.size
           d == Top.cond
           J == ir'
           f == frames'[k]
           m == nest'[k]
<1>1. /\ Parsing /\ frames # <<>> /\ Live(Top) /\ ~Top.in_else /\ entry' = entry
      /\ edges' = edges /\ open' = Inner.alt /\ Top.result = "NEITHER" /\ Top.kind = "if"
      /\ Len(frames') = k
      /\ \A i \in 1..(k - 1) : frames'[i] = frames[i] /\ nest'[i] = nest[i]
      /\ f.kind = "if" /\ f.in_else /\ f.then_block = curr_block /\ m.out = open
      /\ curr_block' = n
      /\ J.size = n + 1 /\ OnlyIn(ir, J, {d}) /\ OneMore(ir, J, d)
      /\ Is(J, n, <<>>, <<>>, "EMPTY", None, None, FALSE)
  BY DEF TurnedNew, Turned, Fresh
<1>2. PICK A : CarriedBy(A)
  BY DEF Carrying
<1>3. FlowInv
  BY DEF BlocksInv
<1>4. /\ Carried(ir, entry, A, edges) /\ PartCarried(ir, A, Top, Inner)
      /\ entry \in Nat /\ n \in Nat /\ n = ir.size /\ curr_block \in entry..(ir.size - 1)
      /\ \A b \in entry..(ir.size - 1) : b \in 0..(ir.size - 1)
      /\ n \notin entry..(ir.size - 1)
      /\ \A b : Remembers(Top, b) => b \in entry..(ir.size - 1)
      /\ ~ignore <=> open # {}
      /\ ~ignore => open = Out(ir, A, curr_block, "next")
  BY <1>1, <1>2, <1>3, TopCarried
<1>5. /\ d \in entry..(ir.size - 1) /\ d \in 0..(ir.size - 1) /\ d # curr_block
      /\ ir.blocks[d].op = "Bcc" /\ Above(ir, d, d)
      /\ Len(ir.blocks[d].successors) = 1 /\ ir.blocks[d].successors \in Seq(Nat)
  <2>1. Remembers(Top, d)
    BY <1>1 DEF Remembers, Entered, Branching
  <2>2. PartFlow(ir, Top, Inner) /\ Above(ir, d, d) /\ d # curr_block /\ IRType(ir)
        /\ k \in 1..k /\ Top = frames[k]
    BY <1>1, <1>3, TopFacts, FStateFacts
  <2>3. PartBlocks(ir, Top)
    BY <1>1, <2>2, BlocksFacts
  <2>4. d \in entry..(ir.size - 1) /\ d \in 0..(ir.size - 1)
    BY <1>4, <2>1
  <2> QED
    BY <1>1, <2>2, <2>3, <2>4, BlockFields DEF PartFlow, PartBlocks
<1>6. Inner.alt = Out(ir, A, d, "else")
  BY <1>1, <1>4 DEF PartCarried
<1> DEFINE A2 == Put(A, n, Out(ir, A, d, "else"))
<1> HIDE DEF J, f, m, d, n
<1>7. /\ J.blocks[d].code = ir.blocks[d].code
      /\ WaysOn(J, d) = WaysOn(ir, d) \union {<<"else", n>>}
  <2> DEFINE s == ir.blocks[d].successors
             larg == ir.blocks[d].larg
  <2>1. /\ J.blocks[d].successors = Append(s, n) /\ J.blocks[d].op = "Bcc"
        /\ J.blocks[d].larg = larg /\ J.blocks[d].code = ir.blocks[d].code
    BY <1>1, <1>4, <1>5 DEF OneMore, Is
  <2>2. s \in Seq(Nat) /\ Len(s) = 1 /\ n \in Nat
    BY <1>4, <1>5
  <2>3. WaysOn(J, d) = DrawnBy("Bcc", larg, Append(s, n))
    BY <2>1 DEF WaysOn
  <2>4. WaysOn(ir, d) = DrawnBy("Bcc", larg, s)
    BY <1>5 DEF WaysOn
  <2> HIDE DEF s, larg
  <2> QED
    BY <2>1, <2>2, <2>3, <2>4, DrawnElse
<1>8. \A b \in entry..(ir.size - 1) : b # d => Same(ir, J, b)
  BY <1>1, <1>4, AlikeSame
<1>9. J.blocks[n].code = <<>> /\ WaysOn(J, n) = {}
  BY <1>1, DrawnWays DEF Is, WaysOn
<1>10. Carried(J, entry, A2, edges')
  <2>1. "else" \in Hows /\ J.size = ir.size + 1
    BY <1>1, <1>4 DEF Hows
  <2> QED
    BY <1>1, <1>4, <1>5, <1>7, <1>8, <1>9, <2>1, LeadCarried
<1>11. Keeps(A, A2) /\ A2[n] = Inner.alt
  BY <1>4, <1>6, PutKeeps
<1> HIDE DEF A2
<1>12. open' = Out(J, A2, n, "next")
  BY <1>1, <1>9, <1>11 DEF Out
<1>13. PartCarried(J, A2, f, m)
  <2>1. ~ignore => Out(J, A2, curr_block, "next") = Out(ir, A, curr_block, "next")
    <3>1. J.blocks[curr_block].code = ir.blocks[curr_block].code
      BY <1>4, <1>5, <1>8 DEF Same
    <3> QED
      BY <1>4, <1>11, <3>1 DEF Out, Keeps
  <2> QED
    BY <1>1, <1>4, <2>1 DEF PartCarried
<1>14. \A i \in 1..(k - 1) : PartCarried(J, A2, frames[i], nest[i])
  <2>1. {d} \in SUBSET (0..(ir.size - 1)) /\ \A p \in {d} : Above(ir, Top.cond, p)
    BY <1>5 DEF d
  <2> QED
    BY <1>1, <1>2, <1>3, <1>11, <2>1, OuterCarried
<1>15. \A i \in 1..Len(frames') : PartCarried(J, A2, frames'[i], nest'[i])
  BY <1>1, <1>3, <1>13, <1>14, TurnedCarried DEF f, m
<1> QED
  BY <1>1, <1>10, <1>12, <1>15, CarriedNext DEF J

LEMMA TurnedFoldedCarry ==
  ASSUME FlowInv, Carrying, TurnedFolded
  PROVE  Carrying'
<1> DEFINE k == Len(frames)
           f == frames'[k]
           m == nest'[k]
<1>1. /\ Parsing /\ frames # <<>> /\ Live(Top) /\ ~Top.in_else /\ entry' = entry
      /\ edges' = edges /\ open' = Inner.alt /\ Top.result # "NEITHER" /\ ir' = ir
      /\ Len(frames') = k
      /\ \A i \in 1..(k - 1) : frames'[i] = frames[i] /\ nest'[i] = nest[i]
      /\ f.kind = "if" /\ f.in_else /\ f.then_block = curr_block /\ m.out = open
      /\ curr_block' = Top.cond /\ (ignore' <=> Top.result = "FALSE")
  BY DEF TurnedFolded, Turned
<1>2. PICK A : CarriedBy(A)
  BY DEF Carrying
<1>3. /\ Carried(ir, entry, A, edges) /\ PartCarried(ir, A, Top, Inner)
      /\ Top.result \in {"TRUE", "FALSE", "NEITHER"}
      /\ ~ignore <=> open # {}
      /\ ~ignore => open = Out(ir, A, curr_block, "next")
  BY <1>1, <1>2, TopCarried
<1> HIDE DEF f, m
<1>4. ~ignore' => open' = Out(ir, A, curr_block', "next")
  BY <1>1, <1>3 DEF PartCarried
<1>5. PartCarried(ir, A, f, m)
  BY <1>1, <1>3 DEF PartCarried
<1>6. \A i \in 1..(k - 1) : PartCarried(ir, A, frames[i], nest[i])
  <2>1. \A i \in 1..(k - 1) : i \in 1..k
    BY FStateFacts
  <2> QED
    BY <1>2, <2>1 DEF CarriedBy
<1>7. \A i \in 1..Len(frames') : PartCarried(ir, A, frames'[i], nest'[i])
  BY <1>1, <1>5, <1>6, TurnedCarried DEF f, m
<1>8. Carried(ir', entry', A, edges')
  BY <1>1, <1>3
<1> QED
  BY <1>1, <1>4, <1>7, <1>8, CarriedNext

LEMMA SameCarried ==
  ASSUME NEW I, NEW J, NEW e, NEW A, NEW E, Carried(I, e, A, E), J.size = I.size,
         \A b \in e..(I.size - 1) : Same(I, J, b)
  PROVE  Carried(J, e, A, E)
<1>1. e..(J.size - 1) = e..(I.size - 1)
  OBVIOUS
<1>2. Codes(J, e) = Codes(I, e) /\ Draws(J, e) = Draws(I, e)
  BY <1>1 DEF Codes, Draws, Same
<1> QED
  BY <1>1, <1>2 DEF Carried

\* A construct has ended.
LEMMA EndedCarry ==
  ASSUME FlowInv, NEW end, Ended(end), NEW A, CarriedBy(A), NEW A2, Keeps(A, A2),
         Carried(end.ir, entry, A2, edges'),
         ~end.returns => open' = Out(end.ir, A2, end.curr, "next"),
         NEW S \in SUBSET (0..(ir.size - 1)), \A p \in S : Above(ir, Top.cond, p),
         OnlyIn(ir, end.ir, S)
  PROVE  Carrying'
<1>1. /\ Parsing /\ frames # <<>> /\ Live(Top) /\ entry' = entry
      /\ ir' = end.ir /\ curr_block' = end.curr /\ (ignore' <=> end.returns)
      /\ Len(frames') = Len(frames) - 1
      /\ \A i \in 1..(Len(frames) - 1) : frames'[i] = frames[i] /\ nest'[i] = nest[i]
  BY DEF Ended
<1>2. \A i \in 1..(Len(frames) - 1) : PartCarried(end.ir, A2, frames[i], nest[i])
  BY <1>1, OuterCarried
<1>3. \A i \in 1..Len(frames') : PartCarried(end.ir, A2, frames'[i], nest'[i])
  BY <1>1, <1>2
<1> QED
  BY <1>1, <1>3, CarriedNext

LEMMA FiCarry ==
  ASSUME BlocksInv, ~FoldedReturns, Carrying, CFi, Live(Top)
  PROVE  Carrying'
<1> DEFINE end == if_end(ir, Top, curr_block)
           d == Top.cond
           t == Top.then_block
           c == curr_block
           n == ir.size
           J == end.ir
           S == {d, t, c}
<1>1. FlowInv
  BY DEF BlocksInv
<1>2. /\ Ended(end) /\ FiCases(end) /\ Top.kind = "if" /\ Top.in_else
      /\ Parsing /\ frames # <<>> /\ edges' = edges /\ open' = open \union Inner.out
  <2>1. /\ Ended(end) /\ FiCases(end) /\ Top.kind = "if" /\ Top.in_else
        /\ edges' = edges /\ open' = open \union Inner.out
    BY <1>1, FiShape
  <2> QED
    BY <2>1 DEF Ended
<1>3. /\ d \in 0..(ir.size - 1) /\ t \in 0..(ir.size - 1) /\ c \in 0..(ir.size - 1)
      /\ Above(ir, d, c) /\ Above(ir, d, d) /\ Above(ir, d, t)
  BY <1>1, <1>2, TopFacts, FStateFacts
<1>4. PICK A : CarriedBy(A)
  BY DEF Carrying
<1>5. /\ Carried(ir, entry, A, edges) /\ PartCarried(ir, A, Top, Inner)
      /\ entry \in Nat /\ n \in Nat /\ n = ir.size /\ c \in entry..(ir.size - 1)
      /\ \A b \in entry..(ir.size - 1) : b \in 0..(ir.size - 1)
      /\ n \notin entry..(ir.size - 1)
      /\ \A b : Remembers(Top, b) => b \in entry..(ir.size - 1)
      /\ ~ignore <=> open # {}
      /\ ~ignore => open = Out(ir, A, c, "next")
  BY <1>1, <1>2, <1>4, TopCarried
<1>6. Inner.out # {} /\ Top.result # "TRUE" => /\ Inner.out = Out(ir, A, t, "next")
                                               /\ t \in entry..(ir.size - 1)
  BY <1>2, <1>5 DEF PartCarried, Kept, Remembers
<1>7. Keeps(A, A)
  BY DEF Keeps
<1> HIDE DEF end
<1>8. ASSUME NEW x, OneGoesOn(ir, Top, x, end) \/ BothReturn(ir, Top, x, end),
             IF end.returns THEN TRUE
             ELSE \/ x = c /\ ~ignore /\ Inner.out = {}
                  \/ x = t /\ ignore /\ Inner.out # {} /\ Top.result # "TRUE"
      PROVE  Carrying'
  <2>1. /\ J.size = ir.size /\ OnlyIn(ir, J, {d})
        /\ \E returns : Located(ir, J, Top, returns)
        /\ ~end.returns => end.curr = x
    <3>1. CASE OneGoesOn(ir, Top, x, end)
      BY <3>1 DEF OneGoesOn
    <3>2. CASE BothReturn(ir, Top, x, end)
      BY <3>2 DEF BothReturn
    <3> QED
      BY <1>8, <3>1, <3>2
  <2> HIDE DEF J
  <2>2. Same(ir, J, d)
    BY <2>1 DEF Located, Is, Same, WaysOn, d
  <2>3. \A b \in 0..(ir.size - 1) : Same(ir, J, b)
    <3>1. \A b \in 0..(ir.size - 1) : b # d => Same(ir, J, b)
      BY <2>1, AlikeSame
    <3> QED
      BY <2>2, <3>1
  <2>4. Carried(J, entry, A, edges')
    BY <1>2, <1>5, <2>1, <2>3, SameCarried
  <2>5. ~end.returns => open' = Out(J, A, end.curr, "next")
    <3>1. Out(J, A, c, "next") = Out(ir, A, c, "next") /\ Out(J, A, t, "next") = Out(ir, A, t, "next")
      BY <1>3, <2>3 DEF Out, Same
    <3>2. CASE x = c /\ ~ignore /\ Inner.out = {}
      BY <1>2, <1>5, <2>1, <3>1, <3>2
    <3>3. CASE x = t /\ ignore /\ Inner.out # {} /\ Top.result # "TRUE"
      BY <1>2, <1>5, <1>6, <2>1, <3>1, <3>3
    <3> QED
      BY <1>8, <3>2, <3>3
  <2>6. {d} \in SUBSET (0..(ir.size - 1)) /\ \A p \in {d} : Above(ir, Top.cond, p)
    BY <1>3
  <2> QED
    BY <1>1, <1>2, <1>4, <1>7, <2>1, <2>4, <2>5, <2>6, EndedCarry DEF J
<1>9. ASSUME BothGoOn(ir, Top, c, end), ~ignore, Inner.out # {}, Top.result = "NEITHER",
             Ready(ir, t), t # c, t # d
      PROVE  Carrying'
  <2>1. /\ ~end.returns /\ end.curr = n /\ J.size = n + 1 /\ OnlyIn(ir, J, S)
        /\ Located(ir, J, Top, ir.blocks[d].will_return)
        /\ Is(J, n, <<>>, <<>>, "EMPTY", None, None, FALSE)
        /\ Is(J, t, ir.blocks[t].code, Append(ir.blocks[t].successors, n), "BRA", n,
              ir.blocks[t].rarg, FALSE)
        /\ OneMore(ir, J, c)
    BY <1>9 DEF BothGoOn, Fresh
  <2>2. /\ ir.blocks[c].successors = <<>> /\ ir.blocks[c].op = "EMPTY"
        /\ ir.blocks[t].successors = <<>> /\ ir.blocks[t].op = "EMPTY" /\ d # c
    BY <1>1, <1>2, <1>9, TopFacts, FStateFacts DEF Ready
  <2> HIDE DEF J, S
  <2>3. /\ J.blocks[c].code = ir.blocks[c].code /\ WaysOn(J, c) = {<<"next", n>>}
        /\ WaysOn(ir, c) = {}
    <3>1. Append(<<>>, n) = <<n>>
      OBVIOUS
    <3>2. /\ J.blocks[c].successors = Append(ir.blocks[c].successors, ir.size)
          /\ J.blocks[c].op = ir.blocks[c].op /\ J.blocks[c].code = ir.blocks[c].code
      BY <2>1, Zenon DEF OneMore, Is
    <3>3. J.blocks[c].successors = <<n>> /\ J.blocks[c].op = "EMPTY"
      BY <2>2, <3>1, <3>2
    <3>4. WaysOn(J, c) = {<<"next", n>>}
      BY <3>3, LeadsToOne
    <3> QED
      BY <2>2, <3>2, <3>4, DrawnWays DEF WaysOn
  <2>4. /\ J.blocks[t].code = ir.blocks[t].code /\ WaysOn(J, t) = {<<"next", n>>}
        /\ WaysOn(ir, t) = {}
    <3>1. J.blocks[t].op = "BRA" /\ J.blocks[t].larg = n /\ J.blocks[t].code = ir.blocks[t].code
      BY <2>1, Zenon DEF Is
    <3>2. WaysOn(J, t) = {<<"next", n>>}
      BY <3>1, JumpsToOne
    <3> QED
      BY <2>2, <3>1, <3>2, DrawnWays DEF WaysOn
  <2>5. Same(ir, J, d)
    BY <2>1 DEF Located, Is, Same, WaysOn, d
  <2>6. \A b \in entry..(ir.size - 1) : b # c /\ b # t => Same(ir, J, b)
    <3>1. \A b \in entry..(ir.size - 1) : b \notin S => Same(ir, J, b)
      BY <1>5, <2>1, AlikeSame
    <3> QED
      BY <2>5, <3>1 DEF S
  <2>7. J.blocks[n].code = <<>> /\ WaysOn(J, n) = {}
    <3>1. J.blocks[n].code = <<>> /\ J.blocks[n].op = "EMPTY" /\ J.blocks[n].successors = <<>>
      BY <2>1, Zenon DEF Is
    <3> QED
      BY <3>1, DrawnWays DEF WaysOn
  <2> DEFINE B == [b \in entry..n |-> IF b = c THEN ir.blocks[c] ELSE J.blocks[b]]
             K == [size |-> n + 1, blocks |-> B]
             A2 == Put(A, n, Out(ir, A, t, "next"))
             A3 == Put(A2, n, A2[n] \union Out(K, A2, c, "next"))
  <2>8. /\ t \in entry..(ir.size - 1) /\ Inner.out = Out(ir, A, t, "next")
        /\ n \in entry..n /\ n # c /\ n # t
    BY <1>5, <1>6, <1>9
  <2>9. K.size = n + 1 /\ K.blocks = B
    OBVIOUS
  <2>10. /\ B[c] = ir.blocks[c] /\ B[n] = J.blocks[n] /\ B[t] = J.blocks[t]
         /\ \A b \in entry..(ir.size - 1) : b # c => B[b] = J.blocks[b]
    <3>1. \A b \in entry..(ir.size - 1) : b \in entry..n
      BY <1>5
    <3>2. c \in entry..n
      BY <1>5, <3>1
    <3> HIDE DEF n
    <3> QED
      BY <1>9, <2>8, <3>1, <3>2
  <2> HIDE DEF B, K
  <2>11. /\ Same(ir, K, c) /\ Same(J, K, t)
         /\ K.blocks[n].code = <<>> /\ WaysOn(K, n) = {}
         /\ \A b \in entry..(ir.size - 1) : b # c => Same(J, K, b)
    BY <2>7, <2>9, <2>10 DEF Same, WaysOn
  <2>12. Carried(K, entry, A2, edges)
    <3>1. /\ K.blocks[t].code = ir.blocks[t].code
          /\ WaysOn(K, t) = WaysOn(ir, t) \union {<<"next", n>>}
          /\ \A b \in entry..(ir.size - 1) : b # t => Same(ir, K, b)
      BY <2>4, <2>6, <2>11 DEF Same
    <3>2. n = ir.size /\ K.size = ir.size + 1 /\ "next" \in Hows /\ ir.size \in Nat
      BY <1>5, <2>9 DEF Hows
    <3> HIDE DEF n, t
    <3> QED
      BY <1>5, <2>8, <2>11, <3>1, <3>2, LeadCarried
  <2>13. Keeps(A, A2) /\ A2[n] = Inner.out
    BY <1>5, <2>8, PutKeeps
  <2>14. DOMAIN A2 = entry..n
    <3>1. DOMAIN A2 = entry..(K.size - 1)
      BY <2>12 DEF Carried, Flows, FlowTypes
    <3>2. K.size - 1 = n
      BY <1>5, <2>9
    <3> QED
      BY <3>1, <3>2
  <2> HIDE DEF A2
  <2>15. Out(K, A2, c, "next") = open
    <3>1. K.blocks[c].code = ir.blocks[c].code
      BY <2>11 DEF Same
    <3> QED
      BY <1>5, <1>9, <2>13, <3>1 DEF Out, Keeps
  <2>16. Carried(J, entry, A3, edges)
    <3>1. /\ J.size = K.size /\ c \in entry..(K.size - 1) /\ n \in entry..(K.size - 1)
          /\ "next" \in Hows /\ WaysOn(K, n) = {} /\ n # c
      BY <1>5, <2>1, <2>8, <2>9, <2>11 DEF Hows
    <3>2. /\ J.blocks[c].code = K.blocks[c].code
          /\ WaysOn(J, c) = WaysOn(K, c) \union {<<"next", n>>}
      BY <2>3, <2>11 DEF Same
    <3>3. \A b \in entry..(K.size - 1) : b # c => Same(K, J, b)
      <4>1. \A b \in entry..(K.size - 1) : b \in entry..(ir.size - 1) \/ b = n
        BY <1>5, <2>9
      <4>2. Same(K, J, n)
        BY <2>7, <2>11 DEF Same
      <4> QED
        BY <2>11, <4>1, <4>2 DEF Same
    <3> HIDE DEF n, c
    <3>4. Carried(J, entry, A3, IF K.blocks[n].code = <<>> THEN edges
                                ELSE edges \union Entering(Out(K, A2, c, "next"), K.blocks[n].code[1]))
      BY <2>12, <3>1, <3>2, <3>3, EdgeCarried
    <3> QED
      BY <2>11, <3>4
  <2>17. A3[n] = open' /\ \A b \in entry..(ir.size - 1) : A3[b] = A2[b]
    <3>1. \A b \in entry..(ir.size - 1) : b \in DOMAIN A2 /\ b # n
      BY <1>5, <2>14
    <3>2. A3[n] = A2[n] \union Out(K, A2, c, "next")
      BY DEF Put
    <3> QED
      BY <1>2, <2>13, <2>15, <3>1, <3>2 DEF Put
  <2> HIDE DEF A3
  <2>18. Keeps(A, A3)
    BY <2>13, <2>17 DEF Keeps
  <2>19. open' = Out(J, A3, n, "next")
    BY <2>7, <2>17 DEF Out
  <2>20. S \in SUBSET (0..(ir.size - 1)) /\ \A p \in S : Above(ir, Top.cond, p)
    BY <1>3 DEF S
  <2> QED
    BY <1>1, <1>2, <1>4, <2>1, <2>16, <2>18, <2>19, <2>20, EndedCarry DEF J
<1> QED
  <2>1. BothReturn(ir, Top, c, end) => end.returns
    BY DEF BothReturn
  <2> QED
    BY <1>2, <1>8, <1>9, <2>1 DEF FiCases

\* The jump at the end of a loop's body carries what falls out of the body.
LEMMA JumpCarried ==
  ASSUME FlowInv, Parsing, frames # <<>>, Live(Top), Top.kind = "while", Entered(Top),
         NEW A, CarriedBy(A), edges' = edges \union Arrive(Inner.point),
         ir.blocks[Top.cond].code # <<>>,
         NEW J, NEW K, JumpsTo(ir, J, curr_block, Top.cond),
         K.size = ir.size, Same(J, K, curr_block),
         \A b \in entry..(ir.size - 1) : b # curr_block => Same(ir, K, b)
  PROVE  \E A2 : Carried(K, entry, A2, edges') /\ Keeps(A, A2)
<1> DEFINE c == curr_block
           d == Top.cond
<1>1. /\ Carried(ir, entry, A, edges) /\ PartCarried(ir, A, Top, Inner)
      /\ entry \in Nat /\ c \in entry..(ir.size - 1)
      /\ \A b : Remembers(Top, b) => b \in entry..(ir.size - 1)
      /\ ~ignore <=> open # {}
      /\ ~ignore => open = Out(ir, A, c, "next")
  BY TopCarried
<1>2. Inner.point = ir.blocks[d].code[1] /\ d \in entry..(ir.size - 1)
  BY <1>1 DEF PartCarried, Remembers
<1>3. CASE ignore
  <2>1. will_return(ir, c)
    <3>1. PartFlow(ir, Top, Inner)
      BY TopFacts
    <3>2. ~DeadPart(Top)
      BY <3>1 DEF DeadPart, PartFlow, Entered, Branching
    <3> QED
      BY <1>3, <3>2, TopFacts
  <2>2. Same(ir, J, c)
    <3>1. Alike(ir, J, c)
      BY <2>1 DEF JumpsTo
    <3> QED
      BY <3>1, AlikeWays DEF Same
  <2>3. \A b \in entry..(ir.size - 1) : Same(ir, K, b)
    BY <2>2 DEF Same
  <2>4. Carried(K, entry, A, edges)
    BY <1>1, <2>3, SameCarried
  <2>5. edges' = edges
    BY <1>1, <1>3, ArriveNowhere
  <2>6. Keeps(A, A)
    BY DEF Keeps
  <2> QED
    BY <2>4, <2>5, <2>6
<1>4. CASE ~ignore
  <2>1. Ready(ir, c) /\ WaysOn(ir, c) = {}
    BY <1>4, LiveFacts
  <2>2. J.blocks[c].code = ir.blocks[c].code /\ WaysOn(J, c) = {<<"next", d>>}
    <3>1. /\ J.blocks[c].code = ir.blocks[c].code /\ J.blocks[c].op = "BRA"
          /\ J.blocks[c].larg = d
      BY <2>1 DEF JumpsTo, Is, Ready
    <3>2. WaysOn(J, c) = {<<"next", d>>}
      BY <3>1, DrawnWays, Zenon DEF WaysOn
    <3> QED
      BY <3>1, <3>2
  <2> DEFINE A2 == Put(A, d, A[d] \union Out(ir, A, c, "next"))
  <2>3. Keeps(A, A2)
    BY <1>1, PutKeeps
  <2> HIDE DEF c, d
  <2>4. Carried(K, entry, A2, IF ir.blocks[d].code = <<>> THEN edges
                              ELSE edges \union Entering(Out(ir, A, c, "next"), ir.blocks[d].code[1]))
    <3>1. /\ "next" \in Hows /\ K.blocks[c].code = ir.blocks[c].code
          /\ WaysOn(K, c) = WaysOn(ir, c) \union {<<"next", d>>}
      BY <2>1, <2>2 DEF Same, Hows, c
    <3>2. /\ ir.blocks[d].code # <<>>
          /\ \A b \in entry..(ir.size - 1) : b # c => Same(ir, K, b)
      BY DEF c, d
    <3> QED
      BY <1>1, <1>2, <3>1, <3>2, EdgeCarried DEF c, d
  <2>5. Carried(K, entry, A2, edges')
    <3>1. edges' = edges \union Entering(Out(ir, A, c, "next"), ir.blocks[d].code[1])
      <4>1. edges' = edges \union Entering(open, Inner.point)
        BY EnteringArrives
      <4> QED
        BY <1>1, <1>2, <1>4, <4>1 DEF c, d
    <3>2. ir.blocks[d].code # <<>>
      BY DEF d
    <3> QED
      BY <2>4, <3>1, <3>2
  <2> QED
    BY <2>3, <2>5
<1> QED
  BY <1>3, <1>4

LEMMA OdCarry ==
  ASSUME BlocksInv, Carrying, COd, Live(Top)
  PROVE  Carrying'
<1> DEFINE end == while_end(ir, Top, curr_block)
           d == Top.cond
           c == curr_block
           n == ir.size
           J == end.ir
<1>1. FlowInv
  BY DEF BlocksInv
<1>2. /\ Ended(end) /\ OdCases(end) /\ Top.kind = "while" /\ Parsing /\ frames # <<>>
      /\ edges' = edges \union Arrive(Inner.point) /\ open' = Inner.alt
  <2>1. /\ Ended(end) /\ OdCases(end) /\ Top.kind = "while"
        /\ edges' = edges \union Arrive(Inner.point) /\ open' = Inner.alt
    BY <1>1, OdShape
  <2> QED
    BY <2>1 DEF Ended
<1>3. /\ d \in 0..(ir.size - 1) /\ c \in 0..(ir.size - 1)
      /\ Above(ir, d, c) /\ Above(ir, d, d) /\ PartFlow(ir, Top, Inner)
      /\ Top.result = "NEITHER" => ir.blocks[d].op = "Bcc" /\ d # c
      /\ ~Top.in_else /\ Top = frames[Len(frames)] /\ Len(frames) \in 1..Len(frames)
      /\ IRType(ir)
  BY <1>1, <1>2, TopFacts, FStateFacts DEF PartFlow
<1>4. PICK A : CarriedBy(A)
  BY DEF Carrying
<1>5. /\ Carried(ir, entry, A, edges) /\ PartCarried(ir, A, Top, Inner)
      /\ entry \in Nat /\ n \in Nat /\ n = ir.size /\ c \in entry..(ir.size - 1)
      /\ \A b \in entry..(ir.size - 1) : b \in 0..(ir.size - 1)
      /\ n \notin entry..(ir.size - 1)
      /\ \A b : Remembers(Top, b) => b \in entry..(ir.size - 1)
      /\ ~ignore <=> open # {}
  BY <1>1, <1>2, <1>4, TopCarried
<1>6. Entered(Top) => ir.blocks[d].code # <<>>
  <2>1. PartBlocks(ir, Top)
    BY <1>2, <1>3, BlocksFacts
  <2> QED
    BY <2>1 DEF PartBlocks
<1> HIDE DEF end
<1>7. CASE ForeverEnds(end)
  <2>1. /\ Top.result = "FALSE" /\ end.returns /\ J.size = ir.size
        /\ OnlyIn(ir, J, {c}) /\ JumpsTo(ir, J, c, d)
    BY <1>7 DEF ForeverEnds
  <2>2. Entered(Top)
    BY <1>2, <2>1 DEF Entered
  <2> HIDE DEF J, c, d
  <2>3. Same(J, J, c) /\ \A b \in entry..(ir.size - 1) : b # c => Same(ir, J, b)
    BY <1>5, <2>1, AlikeSame DEF Same
  <2>4. PICK A2 : Carried(J, entry, A2, edges') /\ Keeps(A, A2)
    BY <1>1, <1>2, <1>4, <1>6, <2>1, <2>2, <2>3, JumpCarried DEF c, d
  <2>5. {c} \in SUBSET (0..(ir.size - 1)) /\ \A p \in {c} : Above(ir, Top.cond, p)
    BY <1>3 DEF d
  <2> QED
    BY <1>1, <1>2, <1>4, <2>1, <2>4, <2>5, EndedCarry DEF J
<1>8. CASE NeverEntered(end)
  <2>1. Top.result = "TRUE" /\ ignore /\ ~end.returns /\ end.curr = d /\ J = ir
    BY <1>8 DEF NeverEntered
  <2>2. OnlyIn(ir, J, {}) /\ {} \in SUBSET (0..(ir.size - 1)) /\ Keeps(A, A)
    BY <2>1 DEF OnlyIn, Alike, Keeps
  <2>3. edges' = edges
    BY <1>2, <1>5, <2>1, ArriveNowhere
  <2>4. Carried(J, entry, A, edges')
    BY <1>5, <2>1, <2>3
  <2>5. open' = Out(J, A, end.curr, "next")
    BY <1>2, <1>3, <1>5, <2>1 DEF PartCarried
  <2> QED
    BY <1>1, <1>2, <1>4, <2>2, <2>4, <2>5, EndedCarry
<1>9. CASE LoopEnds(end)
  <2> DEFINE S == {d, c}
  <2>1. /\ Top.result = "NEITHER" /\ ~end.returns /\ end.curr = n /\ J.size = n + 1
        /\ OnlyIn(ir, J, S) /\ JumpsTo(ir, J, c, d)
        /\ Is(J, n, <<>>, <<>>, "EMPTY", None, None, FALSE)
        /\ Is(J, d, ir.blocks[d].code, Append(ir.blocks[d].successors, n), ir.blocks[d].op,
              ir.blocks[d].larg, n, ir.blocks[d].will_return)
    BY <1>9, ZenonT(60) DEF LoopEnds, Fresh
  <2>2. /\ ir.blocks[d].code # <<>> /\ ir.blocks[d].op = "Bcc" /\ d # c
        /\ d \in entry..(ir.size - 1) /\ Entered(Top)
        /\ Len(ir.blocks[d].successors) = 1 /\ ir.blocks[d].successors \in Seq(Nat)
    <3>1. Entered(Top)
      BY <1>2, <2>1 DEF Entered, Branching
    <3>2. PartBlocks(ir, Top) /\ Remembers(Top, d)
      BY <1>2, <1>3, <3>1, BlocksFacts DEF Remembers
    <3>3. ir.blocks[d].successors \in Seq(Nat)
      BY <1>3, BlockFields
    <3> QED
      BY <1>2, <1>3, <1>5, <1>6, <2>1, <3>1, <3>2, <3>3 DEF PartBlocks
  <2> HIDE DEF J, S
  <2>3. /\ J.blocks[d].code = ir.blocks[d].code
        /\ WaysOn(J, d) = WaysOn(ir, d) \union {<<"else", n>>}
    <3> DEFINE s == ir.blocks[d].successors
               larg == ir.blocks[d].larg
    <3> HIDE DEF n, d
    <3>1. /\ J.blocks[d].successors = Append(s, n) /\ J.blocks[d].op = "Bcc"
          /\ J.blocks[d].larg = larg /\ J.blocks[d].code = ir.blocks[d].code
      BY <2>1, <2>2 DEF Is
    <3>2. s \in Seq(Nat) /\ Len(s) = 1 /\ n \in Nat
      BY <1>5, <2>2
    <3>3. WaysOn(J, d) = DrawnBy("Bcc", larg, Append(s, n))
      BY <3>1 DEF WaysOn
    <3>4. WaysOn(ir, d) = DrawnBy("Bcc", larg, s)
      BY <2>2 DEF WaysOn
    <3> HIDE DEF s, larg
    <3> QED
      BY <3>1, <3>2, <3>3, <3>4, DrawnElse
  <2>4. J.blocks[n].code = <<>> /\ WaysOn(J, n) = {}
    <3>1. J.blocks[n].code = <<>> /\ J.blocks[n].op = "EMPTY" /\ J.blocks[n].successors = <<>>
      BY <2>1, Zenon DEF Is
    <3> QED
      BY <3>1, DrawnWays DEF WaysOn
  <2>5. \A b \in entry..(ir.size - 1) : b # c /\ b # d => Same(ir, J, b)
    <3>1. \A b \in entry..(ir.size - 1) : b \notin S => Same(ir, J, b)
      BY <1>5, <2>1, AlikeSame
    <3> QED
      BY <3>1 DEF S
  <2> DEFINE B == [b \in entry..(ir.size - 1) |-> IF b = d THEN ir.blocks[d] ELSE J.blocks[b]]
             K == [size |-> n, blocks |-> B]
  <2>6. K.size = n /\ K.blocks = B
    OBVIOUS
  <2>7. /\ B[d] = ir.blocks[d]
        /\ \A b \in entry..(ir.size - 1) : b # d => B[b] = J.blocks[b]
    BY <2>2
  <2> HIDE DEF B, K, c, d
  <2>8. /\ Same(ir, K, d) /\ Same(J, K, c)
        /\ \A b \in entry..(ir.size - 1) : b # d => Same(K, J, b)
        /\ \A b \in entry..(ir.size - 1) : b # c => Same(ir, K, b)
    BY <1>5, <2>2, <2>5, <2>6, <2>7 DEF Same, WaysOn
  <2>9. PICK A2 : Carried(K, entry, A2, edges') /\ Keeps(A, A2)
    <3>1. K.size = ir.size
      BY <1>5, <2>6
    <3> HIDE DEF n
    <3> QED
      BY <1>1, <1>2, <1>4, <2>1, <2>2, <2>8, <3>1, JumpCarried DEF c, d
  <2> DEFINE A3 == Put(A2, n, Out(K, A2, d, "else"))
  <2>10. Carried(J, entry, A3, edges')
    <3>1. /\ K.size \in Nat /\ J.size = K.size + 1 /\ n = K.size /\ d \in entry..(K.size - 1)
          /\ "else" \in Hows
      BY <1>5, <2>1, <2>2, <2>6 DEF Hows
    <3>2. /\ J.blocks[d].code = K.blocks[d].code
          /\ WaysOn(J, d) = WaysOn(K, d) \union {<<"else", n>>}
          /\ \A b \in entry..(K.size - 1) : b # d => Same(K, J, b)
      BY <2>3, <2>6, <2>8 DEF Same
    <3> HIDE DEF n
    <3> QED
      BY <1>5, <2>4, <2>9, <3>1, <3>2, LeadCarried
  <2>11. DOMAIN A2 = entry..(ir.size - 1)
    <3>1. DOMAIN A2 = entry..(K.size - 1)
      BY <2>9 DEF Carried, Flows, FlowTypes
    <3> QED
      BY <2>6, <3>1
  <2>12. /\ A3[n] = Out(K, A2, d, "else")
         /\ \A b \in entry..(ir.size - 1) : A3[b] = A2[b]
    BY <1>5, <2>11 DEF Put
  <2> HIDE DEF A3
  <2>13. Keeps(A, A3)
    BY <2>9, <2>12 DEF Keeps
  <2>14. open' = Out(J, A3, end.curr, "next")
    <3>1. Inner.alt = Out(ir, A, d, "else")
      BY <1>2, <1>3, <1>5, <2>1 DEF PartCarried, d
    <3>2. Out(K, A2, d, "else") = Out(ir, A, d, "else")
      BY <2>2, <2>8 DEF Out, Same
    <3> QED
      BY <1>2, <2>1, <2>4, <2>12, <3>1, <3>2 DEF Out
  <2>15. S \in SUBSET (0..(ir.size - 1)) /\ \A p \in S : Above(ir, Top.cond, p)
    BY <1>3 DEF S, c, d
  <2> QED
    BY <1>1, <1>2, <1>4, <2>1, <2>10, <2>13, <2>14, <2>15, EndedCarry DEF J
<1> QED
  BY <1>2, <1>7, <1>8, <1>9 DEF OdCases

\* A function starts with the block of its first point.
LEMMA StartedCarry ==
  ASSUME BlocksInv, Started
  PROVE  Carrying'
<1> DEFINE n == ir.size
           J == ir'
           F == n..(J.size - 1)
           A == [b \in {n} |-> {}]
<1>1. /\ ~ignore' /\ frames' = <<>> /\ entry' = n /\ curr_block' = n
      /\ J.size = n + 1 /\ edges' = {} /\ open' = {<<pos, "next">>}
      /\ Is(J, n, <<pos>>, <<>>, "EMPTY", None, None, FALSE)
  BY DEF Started
<1>2. n \in Nat /\ pos \in Nat
  BY BlocksFacts
<1> HIDE DEF J, n
<1>3. J.blocks[n].code = <<pos>> /\ J.blocks[n].op = "EMPTY" /\ J.blocks[n].successors = <<>>
  BY <1>1, Zenon DEF Is
<1>4. WaysOn(J, n) = {}
  BY <1>3, DrawnWays DEF WaysOn
<1>5. F = {n}
  BY <1>1, <1>2
<1>6. Codes(J, n) = [b \in {n} |-> <<pos>>] /\ Draws(J, n) = [b \in {n} |-> {}]
  BY <1>3, <1>4, <1>5 DEF Codes, Draws
<1>7. Carried(J, n, A, {})
  BY <1>2, <1>5, <1>6, StartFlows DEF Carried
<1>8. Out(J, A, n, "next") = {<<pos, "next">>}
  <2> DEFINE x == <<pos>>
  <2>1. Len(x) = 1 /\ x[1] = pos /\ x # <<>> /\ J.blocks[n].code = x
    BY <1>3
  <2> HIDE DEF x
  <2> QED
    BY <2>1 DEF Out
<1> HIDE DEF A
<1>9. Len(<<>>) = 0
  OBVIOUS
<1> QED
  BY <1>1, <1>7, <1>8, <1>9, CarriedNext DEF J

\* No statement touches the branch instruction of the const block.
ConstOp == ir'.blocks[0].op = ir.blocks[0].op

LEMMA ConstApart ==
  ASSUME FlowInv, NEW S, OnlyIn(ir, ir', S), 0 \notin S
  PROVE  ConstOp
<1>1. 0 \in 0..(ir.size - 1)
  BY FStateFacts DEF IRType
<1> QED
  BY <1>1 DEF OnlyIn, Alike, ConstOp

LEMMA ConstStays ==
  ASSUME FlowInv, Parsing,
         \/ \E op : Emitted(op)
         \/ Branched
         \/ \E r : Looped(r)
         \/ TurnedNew
         \/ \E end : Ended(end) /\ FiCases(end) /\ Top.in_else
         \/ \E end : Ended(end) /\ OdCases(end)
  PROVE  ConstOp
<1>1. curr_block # 0
  BY FStateFacts DEF Indices
<1>2. frames # <<>> /\ Live(Top) =>
        Top.cond # 0 /\ (Top.in_else => Top.then_block # 0)
  <2> SUFFICES ASSUME frames # <<>>, Live(Top)
               PROVE  Top.cond # 0 /\ (Top.in_else => Top.then_block # 0)
    OBVIOUS
  <2>1. FrameOK(ir, Top)
    BY FStateFacts, TopOfStack DEF Inv, Top
  <2> QED
    BY <2>1 DEF FrameOK, Live, InFunction, Indices
<1>3. ASSUME (\E op : Emitted(op)) \/ Branched \/ (\E r : Looped(r))
      PROVE  ConstOp
  <2>1. OnlyIn(ir, ir', {curr_block})
    BY <1>3 DEF Emitted, Branched, Looped
  <2> QED
    BY <1>1, <2>1, ConstApart
<1>4. ASSUME TurnedNew
      PROVE  ConstOp
  <2>1. OnlyIn(ir, ir', {Top.cond}) /\ frames # <<>> /\ Live(Top)
    BY <1>4 DEF TurnedNew, Turned
  <2> QED
    BY <1>2, <2>1, ConstApart
<1>5. ASSUME NEW end, Ended(end), FiCases(end), Top.in_else
      PROVE  ConstOp
  <2>1. ir' = end.ir /\ frames # <<>> /\ Live(Top)
    BY <1>5 DEF Ended
  <2>2. \/ OnlyIn(ir, ir', {Top.cond})
        \/ OnlyIn(ir, ir', {Top.cond, Top.then_block, curr_block})
    BY <1>5, <2>1 DEF FiCases, BothReturn, OneGoesOn, BothGoOn
  <2> QED
    BY <1>1, <1>2, <1>5, <2>1, <2>2, ConstApart
<1>6. ASSUME NEW end, Ended(end), OdCases(end)
      PROVE  ConstOp
  <2>1. ir' = end.ir /\ frames # <<>> /\ Live(Top)
    BY <1>6 DEF Ended
  <2>2. \/ OnlyIn(ir, ir', {curr_block}) \/ ir' = ir
        \/ OnlyIn(ir, ir', {Top.cond, curr_block})
    BY <1>6, <2>1 DEF OdCases, ForeverEnds, NeverEntered, LoopEnds
  <2> QED
    BY <1>1, <1>2, <2>1, <2>2, ConstApart DEF ConstOp
<1> QED
  BY <1>3, <1>4, <1>5, <1>6

\* At its end, a function is read as it was drawn.
LEMMA ReadAsDrawn ==
  ASSUME NEW op \in BranchOp, NEW larg, NEW rarg, NEW s \in Seq(Nat), NEW past,
         op = "EMPTY" => Len(s) = 1,
         op = "Bcc" => Len(s) = 2 /\ rarg = s[2]
  PROVE  ReadBy(op, larg, rarg, FallOf(s, past)) = DrawnBy(op, larg, s)
<1>1. 1..1 = {1} /\ 1..2 = {1, 2} /\ 1 # 2
  OBVIOUS
<1>2. op \in {"EMPTY", "Bcc"} => s # <<>> /\ FallOf(s, past) = s[1]
  <2>1. op \in {"EMPTY", "Bcc"} => s # <<>>
    OBVIOUS
  <2> QED
    BY <2>1 DEF FallOf
<1> DEFINE fall == FallOf(s, past)
<1> HIDE DEF fall
<1>3. CASE op = "EMPTY"
  <2>1. DrawnBy(op, larg, s) = {<<"next", s[1]>>}
    BY <1>1, <1>3 DEF DrawnBy
  <2>2. ReadBy(op, larg, rarg, fall) = {<<"next", fall>>}
    BY <1>3 DEF ReadBy
  <2> QED
    BY <1>2, <1>3, <2>1, <2>2 DEF fall
<1>4. CASE op = "Bcc"
  <2>1. DrawnBy(op, larg, s) = {<<"then", s[1]>>, <<"else", s[2]>>}
    BY <1>1, <1>4 DEF DrawnBy
  <2>2. ReadBy(op, larg, rarg, fall) = {<<"then", fall>>, <<"else", rarg>>}
    BY <1>4 DEF ReadBy
  <2> QED
    BY <1>2, <1>4, <2>1, <2>2 DEF fall
<1>5. CASE op = "BRA"
  BY <1>5 DEF ReadBy, DrawnBy, fall
<1>6. CASE op = "RET"
  BY <1>6 DEF ReadBy, DrawnBy, fall
<1> QED
  BY <1>3, <1>4, <1>5, <1>6 DEF BranchOp, fall

\* The branch of the block was located.
Branches(I, b) == I.blocks[b].op = "Bcc" => I.blocks[b].rarg # None

LEMMA WaysReadBack ==
  ASSUME NEW I, IRType(I), NEW b \in 0..(I.size - 1), BlockOK(I, b), Branches(I, b), ~Stray(I, b)
  PROVE  WaysRead(I, b) = WaysOn(I, b)
<1> DEFINE s == I.blocks[b].successors
           rarg == I.blocks[b].rarg
           larg == I.blocks[b].larg
           op == I.blocks[b].op
<1>1. s \in Seq(Nat) /\ op \in BranchOp
  BY BlockFields
<1>2. op = "EMPTY" => Len(s) = 1
  <2>1. op = "EMPTY" => Len(s) <= 1 /\ s # <<>>
    BY DEF BlockOK, Stray
  <2> HIDE DEF s, op
  <2> DEFINE k == Len(s)
  <2>2. k \in Nat /\ (s # <<>> => k # 0)
    BY <1>1
  <2>3. op = "EMPTY" => k <= 1 /\ k # 0
    BY <2>1, <2>2
  <2> HIDE DEF k
  <2>4. op = "EMPTY" => k = 1
    BY <2>2, <2>3
  <2> QED
    BY <2>4 DEF k
<1>3. op = "Bcc" => Len(s) = 2 /\ rarg = s[2]
  BY DEF BlockOK, Branches
<1>4. b # I.size
  BY DEF IRType
<1>5. WaysRead(I, b) = ReadBy(op, larg, rarg, FallOf(s, I.size))
  BY <1>4 DEF WaysRead
<1>6. WaysOn(I, b) = DrawnBy(op, larg, s)
  BY DEF WaysOn
<1> HIDE DEF s, op, rarg, larg
<1> QED
  BY <1>1, <1>2, <1>3, <1>5, <1>6, ReadAsDrawn

LEMMA ReadableAll ==
  ASSUME NEW I, IRType(I), NEW e \in Nat, NEW A, NEW E, Carried(I, e, A, E),
         \A b \in e..(I.size - 1) : BlockOK(I, b) /\ Branches(I, b) /\ ~Stray(I, b)
  PROVE  Readable(I, e, I.size - 1, A, E)
<1>1. I.size \in Nat
  BY DEF IRType
<1> DEFINE F == e..(I.size - 1)
<1>2. \A b \in F : b \in 0..(I.size - 1) /\ b # I.size
  BY <1>1
<1>3. \A b \in F : WaysRead(I, b) = WaysOn(I, b)
  BY <1>2, WaysReadBack
<1>4. \A b \in F : CodeRead(I, b) = I.blocks[b].code
  BY <1>2 DEF CodeRead
<1>5. /\ [b \in F |-> CodeRead(I, b)] = Codes(I, e)
      /\ [b \in F |-> WaysRead(I, b)] = Draws(I, e)
  BY <1>3, <1>4 DEF Codes, Draws
<1> QED
  BY <1>5 DEF Carried, Readable

\* The main program may fall off its end, in block c.
LEMMA ReadableFalls ==
  ASSUME NEW I, IRType(I), NEW e \in Nat, NEW A, NEW E, Carried(I, e, A, E),
         NEW c \in e..(I.size - 1), Stray(I, c),
         \A b \in e..(I.size - 1) : /\ BlockOK(I, b) /\ Branches(I, b)
                                    /\ Stray(I, b) => b = c
  PROVE  \E A2 : Readable(I, e, I.size, A2, E \union Entering(Out(I, A, c, "next"), Exit))
<1> DEFINE n == I.size
           F == e..(n - 1)
           G == e..n
           empty == [code |-> <<>>, op |-> "EMPTY", larg |-> None, successors |-> <<>>]
           exit == [code |-> Append(<<>>, Exit), op |-> "EMPTY", larg |-> None, successors |-> <<>>]
           leads == [code |-> I.blocks[c].code, op |-> "EMPTY", larg |-> None, successors |-> <<n>>]
           B == [b \in G |-> IF b = n THEN empty ELSE IF b = c THEN leads ELSE I.blocks[b]]
           B2 == [b \in G |-> IF b = n THEN exit ELSE B[b]]
           K == [size |-> n + 1, blocks |-> B]
           J == [size |-> n + 1, blocks |-> B2]
           A2 == Put(A, n, Out(I, A, c, "next"))
           E2 == E \union Entering(Out(I, A, c, "next"), Exit)
<1>1. /\ n \in Nat /\ n \in G /\ c \in G /\ c # n /\ n + 1 - 1 = n
      /\ \A b \in F : b \in G /\ b # n /\ b \in 0..(n - 1)
      /\ \A b \in G : b # n => b \in F
  BY DEF IRType
<1>2. /\ B[n] = empty /\ B[c] = leads /\ B2[n] = exit
      /\ \A b \in F : b # c => B[b] = I.blocks[b]
      /\ \A b \in F : B2[b] = B[b]
      /\ K.size = n + 1 /\ J.size = n + 1 /\ K.blocks = B /\ J.blocks = B2
  BY <1>1
<1>3. /\ empty.code = <<>> /\ empty.op = "EMPTY" /\ empty.successors = <<>>
      /\ exit.code = Append(<<>>, Exit) /\ exit.op = "EMPTY" /\ exit.successors = <<>>
      /\ leads.code = I.blocks[c].code /\ leads.op = "EMPTY" /\ leads.successors = <<n>>
  OBVIOUS
<1> HIDE DEF K, J, B, B2, empty, exit, leads, F, G
<1>4. /\ WaysOn(I, c) = {} /\ WaysOn(K, c) = {<<"next", n>>}
      /\ WaysOn(K, n) = {} /\ WaysOn(J, n) = {}
  <2>1. WaysOn(I, c) = {}
    BY DrawnWays DEF Stray, WaysOn
  <2>2. WaysOn(K, c) = {<<"next", n>>}
    <3>1. K.blocks[c].successors = <<n>> /\ K.blocks[c].op = "EMPTY"
      BY <1>2, <1>3
    <3> QED
      BY <3>1, LeadsToOne
  <2> QED
    BY <1>2, <1>3, <2>1, <2>2, DrawnWays DEF WaysOn
<1>5. /\ \A b \in F : b # c => Same(I, K, b)
      /\ \A b \in F : Same(K, J, b)
  BY <1>2 DEF Same, WaysOn
<1>6. Carried(K, e, A2, E)
  <2>1. WaysOn(K, c) = WaysOn(I, c) \union {<<"next", n>>} /\ "next" \in Hows
    BY <1>4 DEF Hows
  <2>2. K.blocks[n].code = <<>> /\ K.blocks[c].code = I.blocks[c].code /\ K.size = I.size + 1
    BY <1>2, <1>3 DEF n
  <2>3. \A b \in e..(I.size - 1) : b # c => Same(I, K, b)
    BY <1>5 DEF F
  <2> QED
    BY <1>1, <1>4, <2>1, <2>2, <2>3, LeadCarried
<1>7. Out(K, A2, n, "next") = Out(I, A, c, "next")
  BY <1>2, <1>3 DEF Out, Put
<1> HIDE DEF A2
<1>8. Carried(J, e, A2, E2)
  <2>1. n \in e..(K.size - 1) /\ J.size = K.size
    BY <1>1, <1>2 DEF G
  <2>2. J.blocks[n].code = Append(K.blocks[n].code, Exit) /\ Exit \in Nat
    BY <1>2, <1>3 DEF Exit
  <2>3. \A b \in e..(K.size - 1) : b # n => Same(K, J, b)
    BY <1>1, <1>2, <1>5 DEF G
  <2>4. Carried(J, e, A2, E \union Entering(Out(K, A2, n, "next"), Exit))
    BY <1>4, <1>6, <2>1, <2>2, <2>3, AppendCarried
  <2> QED
    BY <1>7, <2>4
<1>9. \A b \in G : CodeRead(I, b) = J.blocks[b].code /\ WaysRead(I, b) = WaysOn(J, b)
  <2>1. CodeRead(I, n) = J.blocks[n].code /\ WaysRead(I, n) = WaysOn(J, n)
    <3>1. Append(<<>>, Exit) = <<Exit>>
      OBVIOUS
    <3> QED
      BY <1>2, <1>3, <1>4, <3>1 DEF CodeRead, WaysRead
  <2>2. CodeRead(I, c) = J.blocks[c].code /\ WaysRead(I, c) = WaysOn(J, c)
    <3>1. c # n /\ c \in F
      BY <1>1
    <3>2. I.blocks[c].op = "EMPTY" /\ I.blocks[c].successors = <<>>
      BY DEF Stray
    <3>3. FallOf(I.blocks[c].successors, n) = n
      BY <3>2 DEF FallOf
    <3>4. WaysRead(I, c) = {<<"next", n>>}
      BY <3>1, <3>2, <3>3 DEF WaysRead, ReadBy
    <3>5. Same(K, J, c) /\ K.blocks[c].code = I.blocks[c].code
      BY <1>2, <1>3, <1>5, <3>1
    <3> QED
      BY <1>4, <3>1, <3>4, <3>5 DEF CodeRead, Same
  <2>3. ASSUME NEW b \in F, b # c
        PROVE  CodeRead(I, b) = J.blocks[b].code /\ WaysRead(I, b) = WaysOn(J, b)
    <3>1. b \in 0..(I.size - 1) /\ b # n /\ b \in e..(I.size - 1)
      BY <1>1 DEF F
    <3>2. WaysRead(I, b) = WaysOn(I, b)
      BY <2>3, <3>1, WaysReadBack
    <3>3. Same(I, K, b) /\ Same(K, J, b)
      BY <1>5, <2>3
    <3> QED
      BY <3>1, <3>2, <3>3 DEF CodeRead, Same
  <2> QED
    BY <1>1, <2>1, <2>2, <2>3
<1>10. /\ [b \in G |-> CodeRead(I, b)] = Codes(J, e)
       /\ [b \in G |-> WaysRead(I, b)] = Draws(J, e)
  <2>1. e..(J.size - 1) = G
    BY <1>1, <1>2 DEF G
  <2> QED
    BY <1>9, <2>1 DEF Codes, Draws
<1>11. Readable(I, e, n, A2, E2)
  <2>1. e..(J.size - 1) = G
    BY <1>1, <1>2 DEF G
  <2>2. Flows(G, [b \in G |-> CodeRead(I, b)], [b \in G |-> WaysRead(I, b)], A2, E2)
    BY <1>8, <1>10, <2>1 DEF Carried
  <2> QED
    BY <2>2 DEF Readable, G
<1> QED
  BY <1>11

\* A function ends.
LEMMA AllBranches ==
  ASSUME FlowInv, frames = <<>>
  PROVE  \A b \in Indices(ir) : Branches(ir, b)
<1>1. OpenIn(ir, Owing(frames))
  BY DEF FlowInv, EInv, DInv, Sound
<1>2. Owing(frames) = {}
  <2>1. Len(<<>>) = 0 /\ \A k : k \notin 1..0
    OBVIOUS
  <2> QED
    BY <2>1 DEF Owing
<1> QED
  BY <1>1, <1>2 DEF OpenIn, Branches

LEMMA StrayAtFinale ==
  ASSUME BlocksInv, Parsing, frames = <<>>, NEW b \in entry..(ir.size - 1), Stray(ir, b)
  PROVE  ~ignore /\ b = curr_block
<1>1. Expected(frames, curr_block, ignore, b)
  BY DEF BlocksInv
<1>2. Len(<<>>) = 0 /\ \A k : k \notin 1..0
  OBVIOUS
<1> QED
  BY <1>1, <1>2 DEF Expected, AwaitedIn

LEMMA NoStrayLeft ==
  ASSUME BlocksInv, Finale
  PROVE  ir'.size = ir.size /\ \A b \in entry..(ir.size - 1) : ~Stray(ir', b)
<1> DEFINE J == ir'
           c == curr_block
<1>1. Parsing /\ frames = <<>> /\ FlowInv
  BY DEF Finale, BlocksInv
<1>2. ir.size \in Nat /\ entry \in Nat
  BY <1>1, FunctionBlocks, FStateFacts
<1> HIDE DEF J
<1>3. \A b \in entry..(ir.size - 1) : Stray(ir, b) => ~ignore /\ b = c
  BY <1>1, StrayAtFinale
<1>4. CASE ignore
  <2>1. J = ir
    BY <1>4 DEF Finale, J
  <2> QED
    BY <1>3, <1>4, <2>1 DEF J
<1>5. CASE ~ignore
  <2>1. J.size = ir.size /\ OnlyIn(ir, J, {c}) /\ J.blocks[c].op = "RET"
    BY <1>5, Zenon DEF Finale, Is, J
  <2>2. ~Stray(J, c)
    BY <2>1 DEF Stray
  <2>3. \A b \in entry..(ir.size - 1) : b # c => Alike(ir, J, b)
    BY <1>2, <2>1 DEF OnlyIn
  <2>4. \A b \in entry..(ir.size - 1) : b # c => ~Stray(J, b)
    BY <1>3, <2>3 DEF Alike, Stray
  <2> QED
    BY <2>1, <2>2, <2>4 DEF J
<1> QED
  BY <1>4, <1>5

LEMMA FinaleReadable ==
  ASSUME BlocksInv, Finale, BlocksInv', frames' = <<>>, Carrying
  PROVE  \E n, A : Readable(ir', entry', n, A, edges')
<1> DEFINE J == ir'
           c == curr_block
<1>1. /\ Parsing /\ frames = <<>> /\ entry' = entry /\ edges' = edges \union Arrive(pos)
      /\ FlowInv
  BY DEF Finale, BlocksInv
<1>2. PICK A : CarriedBy(A)
  BY DEF Carrying
<1>3. /\ Carried(ir, entry, A, edges) /\ entry \in Nat /\ entry # 0 /\ c \in entry..(ir.size - 1)
      /\ ~ignore => open = Out(ir, A, c, "next")
      /\ ignore <=> open = {}
      /\ ir.size \in Nat /\ pos \in Nat
  BY <1>1, <1>2, FunctionBlocks, FStateFacts DEF CarriedBy
<1>4. /\ IRType(J) /\ \A b \in Indices(J) : Branches(J, b) /\ BlockOK(J, b)
  <2>1. FlowInv'
    BY DEF BlocksInv
  <2>2. IRType(J)
    BY <2>1 DEF FlowInv, EInv, DInv, Inv, TypeOK
  <2>3. OpenIn(ir, Owing(frames))'
    BY <2>1 DEF FlowInv, EInv, DInv, Sound
  <2>4. Owing(frames)' = {}
    <3>1. Len(<<>>) = 0 /\ \A k : k \notin 1..0
      OBVIOUS
    <3> QED
      BY <3>1 DEF Owing
  <2>5. \A b \in Indices(J) : Branches(J, b)
    BY <2>3, <2>4 DEF OpenIn, Branches
  <2>6. \A b \in Indices(J) : BlockOK(J, b)
    BY DEF BlocksInv
  <2> QED
    BY <2>2, <2>5, <2>6
<1> HIDE DEF J
<1>5. ASSUME Carried(J, entry, A, edges'), J.size = ir.size,
             \A b \in entry..(ir.size - 1) : ~Stray(J, b)
      PROVE  \E n, A2 : Readable(J, entry, n, A2, edges')
  <2>1. \A b \in entry..(J.size - 1) : b \in Indices(J)
    BY <1>3, <1>5 DEF Indices
  <2>2. Readable(J, entry, J.size - 1, A, edges')
    BY <1>3, <1>4, <1>5, <2>1, ReadableAll
  <2> QED
    BY <2>2
<1>6. CASE ignore
  <2>1. J = ir
    BY <1>6 DEF Finale, J
  <2>2. edges' = edges
    BY <1>1, <1>3, <1>6, ArriveNowhere
  <2>3. \A b \in entry..(ir.size - 1) : ~Stray(J, b)
    BY NoStrayLeft DEF J
  <2> QED
    BY <1>1, <1>3, <1>5, <2>1, <2>2, <2>3 DEF J
<1>7. CASE ~ignore
  <2>1. /\ J.size = ir.size /\ OnlyIn(ir, J, {c})
        /\ J.blocks[c].code = Append(ir.blocks[c].code, pos)
        /\ J.blocks[c].op = "RET"
    BY <1>7, Zenon DEF Finale, Is, J
  <2>2. WaysOn(ir, c) = {}
    BY <1>1, <1>7, LiveFacts
  <2>3. WaysOn(J, c) = {}
    BY <2>1 DEF WaysOn, DrawnBy
  <2>4. \A b \in entry..(ir.size - 1) : b # c => Alike(ir, J, b)
    BY <1>3, <2>1 DEF OnlyIn
  <2>5. \A b \in entry..(ir.size - 1) : b # c => Same(ir, J, b)
    BY <2>4, AlikeWays DEF Same
  <2>6. Carried(J, entry, A, edges \union Entering(Out(ir, A, c, "next"), pos))
    BY <1>3, <2>1, <2>2, <2>3, <2>5, AppendCarried
  <2>7. edges' = edges \union Entering(Out(ir, A, c, "next"), pos)
    BY <1>1, <1>3, <1>7, EnteringArrives
  <2>8. \A b \in entry..(ir.size - 1) : ~Stray(J, b)
    BY NoStrayLeft DEF J
  <2> QED
    BY <1>1, <1>5, <2>1, <2>6, <2>7, <2>8 DEF J
<1> QED
  BY <1>6, <1>7

LEMMA MainReadable ==
  ASSUME BlocksInv, CMainEnd, Carrying
  PROVE  \E n, A : Readable(ir', entry', n, A, edges')
<1> DEFINE c == curr_block
<1>1. /\ Parsing /\ frames = <<>> /\ entry' = entry /\ ir' = ir
      /\ edges' = edges \union Arrive(Exit) /\ FlowInv
  BY DEF CMainEnd, MainEnd, SrcReturn, Parsing, BlocksInv
<1>2. PICK A : CarriedBy(A)
  BY DEF Carrying
<1>3. /\ Carried(ir, entry, A, edges) /\ entry \in Nat /\ entry # 0 /\ c \in entry..(ir.size - 1)
      /\ ~ignore => open = Out(ir, A, c, "next")
      /\ ignore <=> open = {}
      /\ ir.size \in Nat /\ IRType(ir)
  BY <1>1, <1>2, FunctionBlocks, FStateFacts DEF CarriedBy
<1>4. \A b \in entry..(ir.size - 1) : BlockOK(ir, b) /\ Branches(ir, b)
  <2>1. \A b \in entry..(ir.size - 1) : b \in Indices(ir)
    BY <1>3 DEF Indices
  <2> QED
    BY <1>1, <2>1, BlocksFacts, AllBranches
<1>5. CASE \E b \in entry..(ir.size - 1) : Stray(ir, b)
  <2>1. ~ignore /\ Stray(ir, c) /\ \A b \in entry..(ir.size - 1) : Stray(ir, b) => b = c
    BY <1>1, <1>5, StrayAtFinale
  <2>2. edges' = edges \union Entering(Out(ir, A, c, "next"), Exit)
    BY <1>1, <1>3, <2>1, EnteringArrives
  <2>3. \E A2 : Readable(ir, entry, ir.size, A2, edges \union Entering(Out(ir, A, c, "next"), Exit))
    BY <1>3, <1>4, <2>1, ReadableFalls
  <2> QED
    BY <1>1, <2>2, <2>3
<1>6. CASE \A b \in entry..(ir.size - 1) : ~Stray(ir, b)
  <2>1. ignore
    <3> SUFFICES ASSUME ~ignore
                 PROVE  FALSE
      OBVIOUS
    <3>1. Stray(ir, c)
      BY <1>1, LiveFacts DEF Ready, Stray
    <3> QED
      BY <1>3, <1>6, <3>1
  <2>2. edges' = edges
    BY <1>1, <1>3, <2>1, ArriveNowhere
  <2>3. Readable(ir, entry, ir.size - 1, A, edges)
    BY <1>3, <1>4, <1>6, ReadableAll
  <2> QED
    BY <1>1, <2>2, <2>3
<1> QED
  BY <1>5, <1>6

LEMMA BeginKeepsConst ==
  ASSUME FlowInv, NEW kind \in {"function", "main"}, CBegin(kind)
  PROVE  ConstOp
<1> DEFINE J == add_instruction(new_function(ir), ir.size, pos)
<1>1. ir' = J
  BY DEF CBegin, Begin
<1>2. OneMore(ir, J, 0)
  BY FStateFacts, BeginEffect
<1> HIDE DEF J
<1> QED
  BY <1>1, <1>2 DEF OneMore, Is, ConstOp

\* What a step does to a function that is being parsed, and goes on to be.
GoesOnCarrying == Parsing' /\ Carrying' /\ ConstOp /\ phase' = phase

LEMMA PhaseGoesOn ==
  ASSUME Parsing,
         \/ CSimple \/ CReturn \/ (\E r \in Relation : CIf(r)) \/ CIfIgnored \/ CThenEnd \/ CFi
         \/ (\E r \in Relation : CWhile(r)) \/ CWhileIgnored \/ COd
  PROVE  Parsing' /\ phase' = phase
BY DEF Parsing, CSimple, CReturn, CIf, CIfIgnored, CThenEnd, CFi, CWhile, CWhileIgnored, COd,
       SimpleStatement, ReturnStatement, IfThen, IfThenIgnored, ThenEnd, Fi, WhileDo,
       WhileDoIgnored, Od, NextPoint

LEMMA IdleGoesOn ==
  ASSUME Carrying, IdleStep
  PROVE  Carrying' /\ ConstOp
BY IdleCarry DEF IdleStep, ConstOp

LEMMA StatementGoesOn ==
  ASSUME BlocksInv, Parsing, Carrying, ~FoldedReturns,
         \/ CSimple \/ CReturn \/ (\E r \in Relation : CIf(r)) \/ CIfIgnored \/ CThenEnd \/ CFi
         \/ (\E r \in Relation : CWhile(r)) \/ CWhileIgnored \/ COd
  PROVE  GoesOnCarrying
<1>1. FlowInv /\ Parsing' /\ phase' = phase
  BY PhaseGoesOn DEF BlocksInv
<1>2. ASSUME CFi \/ COd \/ CThenEnd, ~Live(Top)
      PROVE  Carrying' /\ ConstOp
  BY <1>1, <1>2, IgnoredEndIdle, IgnoredElseIdle, IdleGoesOn
<1>3. ASSUME CSimple \/ CReturn
      PROVE  Carrying' /\ ConstOp
  <2>1. ignore => IdleStep
    BY <1>1, <1>3, IgnoredStatementIdle
  <2>2. ~ignore => \/ Emitted("EMPTY") /\ open' = Leave(pos, "next")
                   \/ Emitted("RET") /\ ignore'
    BY <1>1, <1>3, SimpleShape, ReturnShape DEF CSimple, SrcSimple
  <2>3. ASSUME Emitted("EMPTY"), open' = Leave(pos, "next")
        PROVE  Carrying' /\ ConstOp
    <3>1. "EMPTY" # "RET" /\ "EMPTY" \in {"EMPTY", "RET"}
      OBVIOUS
    <3> QED
      BY <1>1, <2>3, <3>1, EmittedCarry, ConstStays
  <2>4. ASSUME Emitted("RET"), ignore'
        PROVE  Carrying' /\ ConstOp
    <3>1. "EMPTY" # "RET" /\ "RET" \in {"EMPTY", "RET"}
      OBVIOUS
    <3> QED
      BY <1>1, <2>4, <3>1, EmittedCarry, ConstStays
  <2> QED
    BY <1>1, <2>1, <2>2, <2>3, <2>4, IdleGoesOn
<1>4. ASSUME CIfIgnored \/ CWhileIgnored
      PROVE  Carrying' /\ ConstOp
  <2>1. ignore
    BY <1>4 DEF CIfIgnored, CWhileIgnored, IfThenIgnored, WhileDoIgnored
  <2> QED
    BY <1>1, <1>4, <2>1, IgnoredConstructIdle, IdleGoesOn
<1>5. ASSUME NEW r \in Relation, CIf(r)
      PROVE  Carrying' /\ ConstOp
  <2>1. Branched \/ Folded(r)
    BY <1>1, <1>5, IfShape
  <2>2. Folded(r) => Carrying' /\ ConstOp
    BY <1>1, FoldedCarry DEF Folded, ConstOp
  <2> QED
    BY <1>1, <2>1, <2>2, BranchedCarry, ConstStays
<1>6. ASSUME NEW r \in Relation, CWhile(r)
      PROVE  Carrying' /\ ConstOp
  <2>1. Looped(r)
    BY <1>1, <1>6, WhileShape
  <2> QED
    BY <1>1, <2>1, LoopedCarry, ConstStays
<1>7. ASSUME CThenEnd, Live(Top)
      PROVE  Carrying' /\ ConstOp
  <2>1. TurnedNew \/ TurnedFolded
    BY <1>1, <1>7, ThenEndShape
  <2>2. TurnedFolded => Carrying' /\ ConstOp
    BY <1>1, TurnedFoldedCarry DEF TurnedFolded, ConstOp
  <2> QED
    BY <1>1, <2>1, <2>2, TurnedNewCarry, ConstStays
<1>8. ASSUME CFi, Live(Top)
      PROVE  Carrying' /\ ConstOp
  <2>1. \E end : Ended(end) /\ FiCases(end) /\ Top.in_else
    BY <1>1, <1>8, FiShape
  <2> QED
    BY <1>1, <1>8, <2>1, FiCarry, ConstStays
<1>9. ASSUME COd, Live(Top)
      PROVE  Carrying' /\ ConstOp
  <2>1. \E end : Ended(end) /\ OdCases(end)
    BY <1>1, <1>9, OdShape
  <2> QED
    BY <1>1, <1>9, <2>1, OdCarry, ConstStays
<1> QED
  BY <1>1, <1>2, <1>3, <1>4, <1>5, <1>6, <1>7, <1>8, <1>9 DEF GoesOnCarrying

LEMMA InitCarry ==
  ASSUME CInit
  PROVE  CarryInv
<1>1. BlocksInv /\ ~Parsing /\ entry = 0 /\ ir = EmptyIR
  BY InitBlocks DEF CInit, Init, Parsing
<1>2. ir.blocks[0].op = "EMPTY"
  BY <1>1 DEF EmptyIR, BasicBlock
<1> QED
  BY <1>1, <1>2 DEF CarryInv, Complete

LEMMA NextCarry ==
  ASSUME CarryInv, ~NestedForever, ~FoldedReturns, [CNext]_all_vars
  PROVE  CarryInv'
<1>1. BlocksInv /\ BlocksInv' /\ FlowInv
  BY NextBlocksInv DEF CarryInv, BlocksInv
<1>2. ASSUME GoesOnCarrying
      PROVE  CarryInv'
  BY <1>1, <1>2 DEF GoesOnCarrying, CarryInv, ConstOp, Complete, Parsing
<1>3. ASSUME Parsing,
             \/ CSimple \/ CReturn \/ (\E r \in Relation : CIf(r)) \/ CIfIgnored \/ CThenEnd
             \/ CFi \/ (\E r \in Relation : CWhile(r)) \/ CWhileIgnored \/ COd
      PROVE  CarryInv'
  BY <1>1, <1>2, <1>3, StatementGoesOn DEF CarryInv
<1>4. ASSUME NEW kind \in {"function", "main"}, CBegin(kind)
      PROVE  CarryInv'
  <2>1. Started
    BY <1>1, <1>4, BeginShape
  <2>2. Carrying' /\ ConstOp /\ Parsing'
    BY <1>1, <1>4, <2>1, StartedCarry, BeginKeepsConst DEF Started
  <2>3. ~Complete'
    BY <2>2 DEF Complete, Parsing
  <2> QED
    BY <1>1, <2>2, <2>3 DEF CarryInv, ConstOp
<1>5. ASSUME CFunctionEnd
      PROVE  CarryInv'
  <2>1. Finale /\ frames' = <<>> /\ ~Parsing'
    BY <1>1, <1>5, FunctionEndShape DEF CFunctionEnd, FunctionEnd, Finale
  <2>2. ConstOp
    <3>1. Parsing /\ (ir' = ir \/ OnlyIn(ir, ir', {curr_block}))
      BY <2>1 DEF Finale
    <3>2. curr_block # 0
      BY <1>1, <3>1, FStateFacts DEF Indices
    <3> QED
      BY <1>1, <3>1, <3>2, ConstApart DEF ConstOp
  <2>3. Carrying
    BY <2>1 DEF CarryInv, Finale
  <2>4. \E n, A : Readable(ir', entry', n, A, edges')
    BY <1>1, <2>1, <2>3, FinaleReadable
  <2> QED
    BY <1>1, <2>1, <2>2, <2>4 DEF CarryInv, ConstOp
<1>6. ASSUME CMainEnd
      PROVE  CarryInv'
  <2>1. Parsing /\ ~Parsing' /\ ir' = ir
    BY <1>6 DEF CMainEnd, MainEnd, Parsing
  <2>2. \E n, A : Readable(ir', entry', n, A, edges')
    BY <1>1, <1>6, <2>1, MainReadable DEF CarryInv
  <2> QED
    BY <1>1, <2>1, <2>2 DEF CarryInv
<1>7. ASSUME UNCHANGED all_vars
      PROVE  CarryInv'
  <2>1. /\ ir' = ir /\ entry' = entry /\ edges' = edges /\ phase' = phase /\ frames' = frames
        /\ nest' = nest /\ ignore' = ignore /\ open' = open /\ curr_block' = curr_block
    BY <1>7 DEF all_vars, vars, src_vars
  <2>2. Parsing => Carrying'
    BY <2>1 DEF CarryInv, Carrying, CarriedBy
  <2> QED
    BY <1>1, <2>1, <2>2 DEF CarryInv, Complete, Parsing
<1>8. ASSUME CSimple \/ CReturn \/ (\E r \in Relation : CIf(r)) \/ CIfIgnored \/ CThenEnd
             \/ CFi \/ (\E r \in Relation : CWhile(r)) \/ CWhileIgnored \/ COd
      PROVE  Parsing
  BY <1>8 DEF Parsing, CSimple, CReturn, CIf, CIfIgnored, CThenEnd, CFi, CWhile, CWhileIgnored,
              COd, SimpleStatement, ReturnStatement, IfThen, IfThenIgnored, ThenEnd, Fi,
              WhileDo, WhileDoIgnored, Od, NextPoint
<1>9. CNext => CarryInv'
  BY <1>3, <1>4, <1>5, <1>6, <1>8 DEF CNext
<1> QED
  BY <1>7, <1>9

-----------------------------------------------------------------------------
(* Reading the flow back.                                                  *)

\* Blocks without code lead to blocks, or past the last one.
LEMMA ReadingOn ==
  ASSUME CarryInv, NEW b \in 0..(ir.size - 1), ir.blocks[b].code = <<>>,
         NEW fall \in 0..Past, fall > b, NEW d \in NextBlocks(b, fall)
  PROVE  /\ d[2] \in 0..Past
         /\ b \in Indices(ir) => d[2] > b \/ (d[2] # Past /\ ir.blocks[d[2]].code # <<>>)
<1> DEFINE op == ir.blocks[b].op
           larg == ir.blocks[b].larg
<1>1. /\ ir.size \in Nat \ {0} /\ op \in BranchOp /\ Past = ir.size
      /\ \A k \in Indices(ir) : BlockOK(ir, k)
  <2>1. FlowInv
    BY DEF CarryInv, BlocksInv
  <2> QED
    BY <2>1, FStateFacts, BlocksFacts, BlockFields DEF CarryInv, Past
<1>2. b \in Indices(ir) \/ (b = 0 /\ op = "EMPTY")
  BY <1>1 DEF CarryInv, Indices
<1>3. CASE op = "EMPTY"
  <2>1. d = <<"next", fall>>
    BY <1>3 DEF NextBlocks
  <2> QED
    BY <2>1
<1>4. CASE op = "BRA"
  <2>1. d = <<"next", larg>> /\ b \in Indices(ir)
    BY <1>2, <1>4 DEF NextBlocks
  <2>2. BlockOK(ir, b)
    BY <1>1, <2>1
  <2>3. larg \in Indices(ir) /\ (larg > b \/ ir.blocks[larg].code # <<>>)
    BY <1>4, <2>2 DEF BlockOK
  <2> QED
    BY <1>1, <2>1, <2>3 DEF Indices
<1>5. op # "RET"
  BY DEF NextBlocks
<1>6. op # "Bcc"
  BY <1>1, <1>2 DEF BlockOK
<1> QED
  BY <1>1, <1>3, <1>4, <1>5, <1>6 DEF BranchOp

\* In the graph as in the text, execution falls to a later block.
LEMMA FallsDown ==
  ASSUME CarryInv, NEW b \in 0..(ir.size - 1)
  PROVE  /\ GraphFall(b) \in 0..Past /\ GraphFall(b) > b
         /\ LayoutFall(b) \in 0..Past /\ LayoutFall(b) > b
<1> DEFINE s == ir.blocks[b].successors
<1>1. IRType(ir) /\ GraphOK(ir) /\ ir.size \in Nat \ {0} /\ s \in Seq(Nat) /\ Past = ir.size
  <2>1. FlowInv
    BY DEF CarryInv, BlocksInv
  <2> QED
    BY <2>1, FStateFacts, BlocksFacts, BlockFields DEF CarryInv, IROK, Past
<1>2. b \in Indices(ir) \/ b = 0
  BY <1>1 DEF Indices
<1>3. LayoutFall(b) \in 0..Past /\ LayoutFall(b) > b
  BY <1>1 DEF LayoutFall
<1>4. GraphFall(b) = IF s = <<>> THEN Past ELSE s[1]
  BY DEF GraphFall
<1>5. s # <<>> => s[1] \in Indices(ir) /\ s[1] > b
  <2> SUFFICES ASSUME s # <<>>
               PROVE  s[1] \in Indices(ir) /\ s[1] > b
    OBVIOUS
  <2>1. s[1] \in Succs(ir, b)
    <3>1. 1 \in DOMAIN s
      BY <1>1
    <3> QED
      BY <3>1 DEF Succs, Range
  <2>2. s[1] \in Indices(ir) /\ (b \in Indices(ir) => b < s[1])
    BY <1>1, <1>2, <2>1 DEF GraphOK
  <2> HIDE DEF s
  <2>3. b = 0 => s[1] > b
    BY <2>2 DEF Indices
  <2> QED
    BY <1>2, <2>2, <2>3
<1> HIDE DEF s
<1>6. Indices(ir) \subseteq 0..Past /\ Past \in 0..Past /\ Past > b
  BY <1>1 DEF Indices
<1> QED
  BY <1>3, <1>4, <1>5, <1>6

\* The definitions inside FlowEdges, for a function next from a block to the
\* ways out of it.
Falling(next, Fall(_)) ==
  /\ next = [b \in 0..Past |-> NextBlocks(b, Fall(b))]
  /\ \A b \in 0..(ir.size - 1) : Fall(b) \in 0..Past /\ Fall(b) > b

FirstHere(next, f) ==
  f = [b \in 0..Past |->
         IF b = Past THEN {Exit}
         ELSE IF ir.blocks[b].code # <<>> THEN {ir.blocks[b].code[1]}
         ELSE UNION {f[n[2]] : n \in next[b]}]

FirstBy(Fall(_), f) ==
  f = [b \in 0..Past |->
         IF b = Past THEN {Exit}
         ELSE IF ir.blocks[b].code # <<>> THEN {ir.blocks[b].code[1]}
         ELSE UNION {f[n[2]] : n \in NextBlocks(b, Fall(b))}]

Coded(b) == b \in entry..(ir.size - 1) /\ ir.blocks[b].code # <<>>

InsideHere(b, t) ==
  \E i \in 1..(Len(ir.blocks[b].code) - 1) :
    t = <<ir.blocks[b].code[i], "next", ir.blocks[b].code[i + 1]>>

LeavesHere(next, f, b, t) ==
  \E n \in next[b] : \E m \in f[n[2]] :
    t = <<ir.blocks[b].code[Len(ir.blocks[b].code)], n[1], m>>

ReadAs(next, f, E) ==
  /\ FirstHere(next, f)
  /\ \A t : t \in E <=> \E b : Coded(b) /\ (InsideHere(b, t) \/ LeavesHere(next, f, b, t))

LEMMA FirstHereExists ==
  ASSUME CarryInv, NEW next,
         \A b \in 0..(ir.size - 1) : ir.blocks[b].code = <<>> => \A d \in next[b] : d[2] \in 0..Past
  PROVE  \E f : FirstHere(next, f)
<1> DEFINE N == ir.size
           C == [b \in 0..(N - 1) |-> ir.blocks[b].code]
<1>1. /\ N \in Nat /\ Past = N /\ C \in [0..(N - 1) -> Seq(Nat)]
      /\ \A b \in 0..N : b # N => b \in 0..(N - 1) /\ C[b] = ir.blocks[b].code
  <2>1. FlowInv
    BY DEF CarryInv, BlocksInv
  <2>2. IRType(ir) /\ N \in Nat /\ Past = N
    BY <2>1, FStateFacts DEF Past
  <2>3. \A b \in 0..(N - 1) : ir.blocks[b].code \in Seq(Nat)
    BY <2>2, BlockFields
  <2> QED
    BY <2>2, <2>3
<1>2. \A b \in 0..(N - 1) : C[b] = <<>> => \A d \in next[b] : d[2] \in 0..N
  BY <1>1
<1> HIDE DEF N, C
<1>3. PICK f : f = FirstPoints(N, C, next, f)
  BY <1>1, <1>2, FirstPointsExist
<1>4. FirstHere(next, f)
  <2>1. \A b \in 0..N :
          (IF b = N THEN {Exit} ELSE IF C[b] # <<>> THEN {C[b][1]}
           ELSE UNION {f[d[2]] : d \in next[b]})
          = (IF b = Past THEN {Exit}
             ELSE IF ir.blocks[b].code # <<>> THEN {ir.blocks[b].code[1]}
             ELSE UNION {f[n[2]] : n \in next[b]})
    BY <1>1
  <2>2. f = [b \in 0..N |-> IF b = N THEN {Exit} ELSE IF C[b] # <<>> THEN {C[b][1]}
                            ELSE UNION {f[d[2]] : d \in next[b]}]
    BY <1>3 DEF FirstPoints
  <2> QED
    BY <1>1, <2>1, <2>2 DEF FirstHere
<1> QED
  BY <1>4

LEMMA GraphEdges ==
  ASSUME CarryInv, NEW next, Falling(next, GraphFall)
  PROVE  \E f : ReadAs(next, f, FlowEdges(GraphFall))
<1> DEFINE first == CHOOSE f : FirstBy(GraphFall, f)
           inside(b) == {<<ir.blocks[b].code[i], "next", ir.blocks[b].code[i + 1]>> :
                           i \in 1..(Len(ir.blocks[b].code) - 1)}
           last(b) == ir.blocks[b].code[Len(ir.blocks[b].code)]
           leaving(b) == UNION {{<<last(b), n[1], m>> : m \in first[n[2]]} :
                                  n \in NextBlocks(b, GraphFall(b))}
           coded == {b \in entry..(ir.size - 1) : ir.blocks[b].code # <<>>}
<1>1. /\ ir.size \in Nat /\ Past = ir.size /\ entry \in Nat
      /\ \A b \in 0..Past : next[b] = NextBlocks(b, GraphFall(b))
  BY BlocksFacts DEF CarryInv, Past, Falling
<1>2. FirstHere(next, first)
  <2>1. \A f : FirstHere(next, f) <=> FirstBy(GraphFall, f)
    <3> SUFFICES ASSUME NEW f
                 PROVE  FirstHere(next, f) <=> FirstBy(GraphFall, f)
      OBVIOUS
    <3>1. \A b \in 0..Past : UNION {f[n[2]] : n \in next[b]}
                             = UNION {f[n[2]] : n \in NextBlocks(b, GraphFall(b))}
      BY <1>1
    <3> QED
      BY <3>1 DEF FirstHere, FirstBy
  <2>2. \E f : FirstHere(next, f)
    <3>1. \A b \in 0..(ir.size - 1) : ir.blocks[b].code = <<>> => \A d \in next[b] : d[2] \in 0..Past
      BY <1>1, ReadingOn DEF Falling
    <3> QED
      BY <3>1, FirstHereExists
  <2> QED
    BY <2>1, <2>2
<1>3. FlowEdges(GraphFall) = UNION {inside(b) \union leaving(b) : b \in coded}
  BY DEF FlowEdges, FirstBy
<1> HIDE DEF first
<1>4. \A b, t : t \in inside(b) <=> InsideHere(b, t)
  BY DEF InsideHere
<1>5. \A b \in coded : \A t : t \in leaving(b) <=> LeavesHere(next, first, b, t)
  <2> SUFFICES ASSUME NEW b \in coded, NEW t
               PROVE  t \in leaving(b) <=> LeavesHere(next, first, b, t)
    OBVIOUS
  <2>1. next[b] = NextBlocks(b, GraphFall(b))
    BY <1>1
  <2>2. ASSUME t \in leaving(b)
        PROVE  LeavesHere(next, first, b, t)
    <3>1. PICK n \in next[b] : t \in {<<last(b), n[1], m>> : m \in first[n[2]]}
      BY <2>1, <2>2
    <3> QED
      BY <3>1 DEF LeavesHere
  <2>3. ASSUME LeavesHere(next, first, b, t)
        PROVE  t \in leaving(b)
    <3>1. PICK n \in next[b] : \E m \in first[n[2]] : t = <<last(b), n[1], m>>
      BY <2>3 DEF LeavesHere
    <3>2. t \in {<<last(b), n[1], m>> : m \in first[n[2]]}
      BY <3>1
    <3> QED
      BY <2>1, <3>2
  <2> QED
    BY <2>2, <2>3
<1>6. \A b : b \in coded <=> Coded(b)
  BY DEF Coded
<1> HIDE DEF inside, leaving, coded
<1>7. \A t : t \in FlowEdges(GraphFall) <=>
        \E b : Coded(b) /\ (InsideHere(b, t) \/ LeavesHere(next, first, b, t))
  <2>1. \A t : t \in FlowEdges(GraphFall) <=> \E b \in coded : t \in inside(b) \union leaving(b)
    BY <1>3
  <2> QED
    BY <1>4, <1>5, <1>6, <2>1
<1> QED
  BY <1>2, <1>7 DEF ReadAs

LEMMA LayoutEdges ==
  ASSUME CarryInv, NEW next, Falling(next, LayoutFall)
  PROVE  \E f : ReadAs(next, f, FlowEdges(LayoutFall))
<1> DEFINE first == CHOOSE f : FirstBy(LayoutFall, f)
           inside(b) == {<<ir.blocks[b].code[i], "next", ir.blocks[b].code[i + 1]>> :
                           i \in 1..(Len(ir.blocks[b].code) - 1)}
           last(b) == ir.blocks[b].code[Len(ir.blocks[b].code)]
           leaving(b) == UNION {{<<last(b), n[1], m>> : m \in first[n[2]]} :
                                  n \in NextBlocks(b, LayoutFall(b))}
           coded == {b \in entry..(ir.size - 1) : ir.blocks[b].code # <<>>}
<1>1. /\ ir.size \in Nat /\ Past = ir.size /\ entry \in Nat
      /\ \A b \in 0..Past : next[b] = NextBlocks(b, LayoutFall(b))
  BY BlocksFacts DEF CarryInv, Past, Falling
<1>2. FirstHere(next, first)
  <2>1. \A f : FirstHere(next, f) <=> FirstBy(LayoutFall, f)
    <3> SUFFICES ASSUME NEW f
                 PROVE  FirstHere(next, f) <=> FirstBy(LayoutFall, f)
      OBVIOUS
    <3>1. \A b \in 0..Past : UNION {f[n[2]] : n \in next[b]}
                             = UNION {f[n[2]] : n \in NextBlocks(b, LayoutFall(b))}
      BY <1>1
    <3> QED
      BY <3>1 DEF FirstHere, FirstBy
  <2>2. \E f : FirstHere(next, f)
    <3>1. \A b \in 0..(ir.size - 1) : ir.blocks[b].code = <<>> => \A d \in next[b] : d[2] \in 0..Past
      BY <1>1, ReadingOn DEF Falling
    <3> QED
      BY <3>1, FirstHereExists
  <2> QED
    BY <2>1, <2>2
<1>3. FlowEdges(LayoutFall) = UNION {inside(b) \union leaving(b) : b \in coded}
  BY DEF FlowEdges, FirstBy
<1> HIDE DEF first
<1>4. \A b, t : t \in inside(b) <=> InsideHere(b, t)
  BY DEF InsideHere
<1>5. \A b \in coded : \A t : t \in leaving(b) <=> LeavesHere(next, first, b, t)
  <2> SUFFICES ASSUME NEW b \in coded, NEW t
               PROVE  t \in leaving(b) <=> LeavesHere(next, first, b, t)
    OBVIOUS
  <2>1. next[b] = NextBlocks(b, LayoutFall(b))
    BY <1>1
  <2>2. ASSUME t \in leaving(b)
        PROVE  LeavesHere(next, first, b, t)
    <3>1. PICK n \in next[b] : t \in {<<last(b), n[1], m>> : m \in first[n[2]]}
      BY <2>1, <2>2
    <3> QED
      BY <3>1 DEF LeavesHere
  <2>3. ASSUME LeavesHere(next, first, b, t)
        PROVE  t \in leaving(b)
    <3>1. PICK n \in next[b] : \E m \in first[n[2]] : t = <<last(b), n[1], m>>
      BY <2>3 DEF LeavesHere
    <3>2. t \in {<<last(b), n[1], m>> : m \in first[n[2]]}
      BY <3>1
    <3> QED
      BY <2>1, <3>2
  <2> QED
    BY <2>2, <2>3
<1>6. \A b : b \in coded <=> Coded(b)
  BY DEF Coded
<1> HIDE DEF inside, leaving, coded
<1>7. \A t : t \in FlowEdges(LayoutFall) <=>
        \E b : Coded(b) /\ (InsideHere(b, t) \/ LeavesHere(next, first, b, t))
  <2>1. \A t : t \in FlowEdges(LayoutFall) <=> \E b \in coded : t \in inside(b) \union leaving(b)
    BY <1>3
  <2> QED
    BY <1>4, <1>5, <1>6, <2>1
<1> QED
  BY <1>2, <1>7 DEF ReadAs

\* What can be read gives back the edges of the source.
LEMMA ReadableMatches ==
  ASSUME CarryInv, entry \in Nat, entry # 0, NEW n, NEW A, Readable(ir, entry, n, A, edges),
         NEW next, NEW f, NEW E, ReadAs(next, f, E),
         \A b \in entry..(ir.size - 1) :
           /\ next[b] = WaysRead(ir, b)
           /\ ir.blocks[b].code = <<>> =>
                \A d \in next[b] : d[2] > b \/ (d[2] # Past /\ ir.blocks[d[2]].code # <<>>)
  PROVE  E = edges
<1> DEFINE N == ir.size
           F == entry..n
           C == [b \in F |-> CodeRead(ir, b)]
           D == [b \in F |-> WaysRead(ir, b)]
<1>1. /\ FirstHere(next, f)
      /\ \A t : t \in E <=> \E b : Coded(b) /\ (InsideHere(b, t) \/ LeavesHere(next, f, b, t))
  BY DEF ReadAs
<1>2. /\ N \in Nat \ {0} /\ Past = N /\ n \in {N - 1, N} /\ n \in Nat
      /\ Flows(F, C, D, A, edges)
  <2>1. N \in Nat \ {0}
    BY BlocksFacts DEF CarryInv
  <2> QED
    BY <2>1 DEF Readable, Past
<1>3. /\ \A b \in F : b \in 0..N /\ (b # N => b \in 0..(N - 1) /\ b \in entry..(N - 1))
      /\ \A b \in entry..(N - 1) : b \in F /\ b # N
  BY <1>2
<1>4. \A b \in F : b # N => C[b] = ir.blocks[b].code /\ D[b] = next[b]
  BY <1>3 DEF CodeRead
<1>5. N \in F => C[N] = <<Exit>> /\ D[N] = {}
  BY DEF CodeRead, WaysRead
<1> HIDE DEF C, D, F
<1>6. \A b \in F : FirstAt(C, D, f, b) /\ LeadsDown(C, D, b)
  <2>1. N \in F => FirstAt(C, D, f, N) /\ LeadsDown(C, D, N)
    <3>1. f[N] = {Exit}
      BY <1>1, <1>2 DEF FirstHere
    <3> DEFINE x == <<Exit>>
    <3>2. x # <<>> /\ x[1] = Exit
      OBVIOUS
    <3>3. N \in F => C[N] = x
      BY <1>5
    <3> HIDE DEF x
    <3> QED
      BY <3>1, <3>2, <3>3 DEF FirstAt, LeadsDown
  <2>2. ASSUME NEW b \in F, b # N
        PROVE  FirstAt(C, D, f, b)
    <3>1. f[b] = IF ir.blocks[b].code # <<>> THEN {ir.blocks[b].code[1]}
                 ELSE UNION {f[d[2]] : d \in next[b]}
      BY <1>1, <1>2, <1>3, <2>2 DEF FirstHere
    <3>2. C[b] = ir.blocks[b].code /\ D[b] = next[b]
      BY <1>4, <2>2
    <3> QED
      BY <3>1, <3>2 DEF FirstAt
  <2>3. ASSUME NEW b \in F, b # N
        PROVE  LeadsDown(C, D, b)
    <3> SUFFICES ASSUME C[b] = <<>>, NEW d \in D[b]
                 PROVE  d[2] > b \/ C[d[2]] # <<>>
      BY DEF LeadsDown
    <3>1. ir.blocks[b].code = <<>> /\ d \in next[b]
      BY <1>4, <2>3
    <3>2. d[2] > b \/ (d[2] # Past /\ ir.blocks[d[2]].code # <<>>)
      BY <1>3, <2>3, <3>1, ReadingOn
    <3>3. d[2] \in F
      BY <1>2 DEF Flows, FlowTypes
    <3> QED
      BY <1>2, <1>4, <3>2, <3>3
  <2> QED
    BY <2>1, <2>2, <2>3
<1>7. \A t : t \in edges <=>
        \E b \in F : C[b] # <<>> /\ (Inside(C, b, t) \/ Leaves(C, D, f, b, t))
  <2>1. entry \in Nat /\ n \in Nat /\ Flows(entry..n, C, D, A, edges)
    BY <1>2 DEF F
  <2>2. \A b \in entry..n : FirstAt(C, D, f, b) /\ LeadsDown(C, D, b)
    BY <1>6 DEF F
  <2>3. \A t : t \in edges <=>
          \E b \in entry..n : C[b] # <<>> /\ (Inside(C, b, t) \/ Leaves(C, D, f, b, t))
    BY <2>1, <2>2, EdgesReadBack, Zenon
  <2> QED
    BY <2>3, Zenon DEF F
<1>8. \A b \in F : \A t : b # N =>
        /\ C[b] # <<>> <=> Coded(b)
        /\ Inside(C, b, t) <=> InsideHere(b, t)
        /\ Leaves(C, D, f, b, t) <=> LeavesHere(next, f, b, t)
  <2> SUFFICES ASSUME NEW b \in F, NEW t, b # N
               PROVE  /\ C[b] # <<>> <=> Coded(b)
                      /\ Inside(C, b, t) <=> InsideHere(b, t)
                      /\ Leaves(C, D, f, b, t) <=> LeavesHere(next, f, b, t)
    OBVIOUS
  <2>1. b \in entry..(N - 1) /\ C[b] = ir.blocks[b].code /\ D[b] = next[b]
    BY <1>3, <1>4
  <2>2. C[b] # <<>> <=> Coded(b)
    BY <2>1, Zenon DEF Coded, N
  <2>3. Inside(C, b, t) <=> InsideHere(b, t)
    BY <2>1, Zenon DEF Inside, InsideHere
  <2>4. Leaves(C, D, f, b, t) <=> LeavesHere(next, f, b, t)
    BY <2>1, Zenon DEF Leaves, LeavesHere
  <2> QED
    BY <2>2, <2>3, <2>4
<1>9. \A t : N \in F => ~Inside(C, N, t) /\ ~Leaves(C, D, f, N, t)
  <2> DEFINE x == <<Exit>>
  <2>1. Len(x) - 1 = 0 /\ 1..0 = {} /\ (N \in F => C[N] = x)
    BY <1>5
  <2> HIDE DEF x
  <2> QED
    BY <1>5, <2>1 DEF Inside, Leaves
<1>10. \A b : Coded(b) => b \in F /\ b # N
  BY <1>3 DEF Coded
<1>11. \A t : t \in edges <=> \E b : Coded(b) /\ (InsideHere(b, t) \/ LeavesHere(next, f, b, t))
  <2> TAKE t
  <2>1. ASSUME NEW b \in F, C[b] # <<>>, Inside(C, b, t) \/ Leaves(C, D, f, b, t)
        PROVE  Coded(b) /\ (InsideHere(b, t) \/ LeavesHere(next, f, b, t))
    BY <1>8, <1>9, <2>1
  <2>2. ASSUME NEW b, Coded(b), InsideHere(b, t) \/ LeavesHere(next, f, b, t)
        PROVE  b \in F /\ C[b] # <<>> /\ (Inside(C, b, t) \/ Leaves(C, D, f, b, t))
    BY <1>8, <1>10, <2>2
  <2> QED
    BY <1>7, <2>1, <2>2
<1>12. \A t : t \in E <=> t \in edges
  BY <1>1, <1>11
<1> QED
  BY <1>12

LEMMA CarryMatches ==
  ASSUME CarryInv
  PROVE  GraphFlowMatches
<1> SUFFICES ASSUME Complete
             PROVE  FlowEdges(GraphFall) = edges
  BY DEF GraphFlowMatches
<1> DEFINE next == [b \in 0..Past |-> NextBlocks(b, GraphFall(b))]
<1>1. entry \in Nat /\ entry # 0 /\ ir.size \in Nat /\ Past = ir.size
  BY BlocksFacts DEF CarryInv, Complete, Past
<1>2. Falling(next, GraphFall)
  BY FallsDown DEF Falling
<1>3. \A b \in 0..(ir.size - 1) : next[b] = NextBlocks(b, GraphFall(b))
  BY <1>1
<1> HIDE DEF next
<1>4. PICK f : ReadAs(next, f, FlowEdges(GraphFall))
  BY <1>2, GraphEdges
<1>5. ASSUME NEW b \in entry..(ir.size - 1)
      PROVE  /\ next[b] = WaysRead(ir, b)
             /\ ir.blocks[b].code = <<>> =>
                  \A d \in next[b] : d[2] > b \/ (d[2] # Past /\ ir.blocks[d[2]].code # <<>>)
  <2>1. b \in 0..(ir.size - 1) /\ b # ir.size /\ b \in Indices(ir)
    BY <1>1 DEF Indices
  <2>2. FallOf(ir.blocks[b].successors, ir.size) = GraphFall(b)
    BY <1>1 DEF FallOf, GraphFall
  <2>3. WaysRead(ir, b) = ReadBy(ir.blocks[b].op, ir.blocks[b].larg, ir.blocks[b].rarg, GraphFall(b))
    BY <2>1, <2>2 DEF WaysRead
  <2>4. WaysRead(ir, b) = NextBlocks(b, GraphFall(b))
    BY <2>3 DEF ReadBy, NextBlocks
  <2> QED
    BY <1>3, <2>1, <2>4, FallsDown, ReadingOn
<1>6. \E n, A : Readable(ir, entry, n, A, edges)
  BY DEF CarryInv
<1> QED
  BY <1>1, <1>4, <1>5, <1>6, ReadableMatches

\* The blocks that statement_sequence, if_statement, while_statement and
\* function_declaration build have, read as a graph, exactly the control flow
\* of the source they were built from.
THEOREM GraphHasSourceFlow ==
  ASSUME ~NestedForever, ~FoldedReturns
  PROVE  CSpec => []GraphFlowMatches
<1>1. CInit => CarryInv
  BY InitCarry
<1>2. CarryInv /\ [CNext]_all_vars => CarryInv'
  BY NextCarry
<1>3. CarryInv => GraphFlowMatches
  BY CarryMatches
<1> QED
  BY <1>1, <1>2, <1>3, PTL DEF CSpec

-----------------------------------------------------------------------------
(* The order of the blocks.                                                *)

\* Execution falls from a block into the next one.
FallsNext(I, b) ==
  I.blocks[b].op \in {"EMPTY", "Bcc"} /\ I.blocks[b].successors # <<>> =>
    I.blocks[b].successors[1] = b + 1

InOrder(I, e) == \A b \in e..(I.size - 1) : FallsNext(I, b)

\* Parsing goes on, at once or after a part that is not compiled, in the last
\* block.
HeldLast(f, n, last) ==
  /\ Live(f) /\ f.result = "TRUE" /\ ~f.in_else => f.cond = last
  /\ Live(f) /\ f.result = "FALSE" /\ f.in_else /\ n.out # {} => f.then_block = last

OrderKept ==
  /\ InOrder(ir, entry)
  /\ ~ignore => curr_block = ir.size - 1
  /\ \A i \in 1..Len(frames) : HeldLast(frames[i], nest[i], ir.size - 1)

LayoutInv ==
  /\ CarryInv
  /\ Parsing /\ ~else_alone => OrderKept
  /\ Complete /\ ~else_alone =>
       /\ InOrder(ir, entry)
       /\ \A b \in entry..(ir.size - 1) : Stray(ir, b) => b = ir.size - 1

LEMMA NothingHeld ==
  ASSUME NEW f, ~DeadPart(f), NEW n, NEW last
  PROVE  HeldLast(f, n, last)
BY DEF DeadPart, HeldLast

LEMMA OrderStays ==
  ASSUME InOrder(ir, entry), entry \in Nat, ir.size \in Nat, NEW J, NEW S, OnlyIn(ir, J, S),
         J.size \in Nat,
         \A b \in S : FallsNext(J, b),
         \A b \in Nat : b >= ir.size => FallsNext(J, b) \/ b >= J.size
  PROVE  InOrder(J, entry)
<1> SUFFICES ASSUME NEW b \in entry..(J.size - 1)
             PROVE  FallsNext(J, b)
  BY DEF InOrder
<1>1. CASE b >= ir.size
  BY <1>1
<1>2. CASE b < ir.size /\ b \in S
  BY <1>2
<1>3. CASE b < ir.size /\ b \notin S
  <2>1. b \in entry..(ir.size - 1) /\ b \in 0..(ir.size - 1)
    BY <1>3
  <2>2. Alike(ir, J, b) /\ FallsNext(ir, b)
    BY <1>3, <2>1 DEF OnlyIn, InOrder
  <2> QED
    BY <2>2 DEF Alike, FallsNext
<1> QED
  BY <1>1, <1>2, <1>3

LEMMA FallsFree ==
  ASSUME NEW I, NEW b, I.blocks[b].successors = <<>> \/ I.blocks[b].op \in {"RET", "BRA"}
  PROVE  FallsNext(I, b)
BY DEF FallsNext

LEMMA FallsTo ==
  ASSUME NEW I, NEW b, I.blocks[b].successors = <<b + 1>>
  PROVE  FallsNext(I, b)
<1> DEFINE x == <<b + 1>>
<1>1. x[1] = b + 1 /\ I.blocks[b].successors = x
  OBVIOUS
<1> HIDE DEF x
<1> QED
  BY <1>1 DEF FallsNext

\* The first successor stays the first.
LEMMA FallsStill ==
  ASSUME NEW I, NEW J, NEW b, FallsNext(I, b), I.blocks[b].successors \in Seq(Nat),
         I.blocks[b].successors # <<>>, NEW n, J.blocks[b].op = I.blocks[b].op,
         J.blocks[b].successors = Append(I.blocks[b].successors, n)
  PROVE  FallsNext(J, b)
<1> DEFINE s == I.blocks[b].successors
           s2 == J.blocks[b].successors
<1>1. s \in Seq(Nat) /\ s # <<>> /\ s2 = Append(s, n)
  OBVIOUS
<1> HIDE DEF s, s2
<1>2. s2[1] = s[1]
  BY <1>1
<1> QED
  BY <1>1, <1>2 DEF FallsNext, s, s2

LEMMA LiveHeld ==
  ASSUME FlowInv, Parsing, ~ignore
  PROVE  \A i \in 1..Len(frames) : \A n, last : HeldLast(frames[i], n, last)
BY NoDeadPart, NothingHeld

LEMMA OuterHeld ==
  ASSUME FlowInv, Parsing, frames # <<>>, Live(Top)
  PROVE  \A i \in 1..(Len(frames) - 1) : \A n, last : HeldLast(frames[i], n, last)
<1>1. Len(frames) \in Nat
  BY FStateFacts
<1>2. \A i \in 1..(Len(frames) - 1) : i \in 1..Len(frames) /\ i < Len(frames)
  BY <1>1
<1> QED
  BY <1>2, NoDeadPart, NothingHeld

LEMMA PushedHeld ==
  ASSUME FlowInv, Parsing, ~ignore, NEW f \in Frames, NEW last, \A m : HeldLast(f, m, last),
         frames' = Append(frames, f)
  PROVE  \A i \in 1..Len(frames') : HeldLast(frames'[i], nest'[i], last)
<1>1. frames \in Seq(Frames)
  BY FStateFacts
<1>2. /\ Len(frames') = Len(frames) + 1
      /\ \A i \in 1..(Len(frames) + 1) :
           /\ i = Len(frames) + 1 => frames'[i] = f
           /\ i # Len(frames) + 1 => i \in 1..Len(frames) /\ frames'[i] = frames[i]
  BY <1>1, PushedAt
<1> QED
  BY <1>2, LiveHeld

\* The steps, one by one.
LEMMA IdleOrder ==
  ASSUME OrderKept, IdleStep
  PROVE  OrderKept'
<1>1. /\ ignore' /\ ir' = ir /\ entry' = entry
      /\ \A i \in 1..Len(frames') : Live(frames'[i]) =>
           i \in 1..Len(frames) /\ frames'[i] = frames[i] /\ nest'[i] = nest[i]
  BY DEF IdleStep, SameLive
<1>2. \A i \in 1..Len(frames') : HeldLast(frames'[i], nest'[i], ir.size - 1)
  <2> SUFFICES ASSUME NEW i \in 1..Len(frames')
               PROVE  HeldLast(frames'[i], nest'[i], ir.size - 1)
    OBVIOUS
  <2>1. CASE Live(frames'[i])
    BY <1>1, <2>1 DEF OrderKept
  <2>2. CASE ~Live(frames'[i])
    BY <2>2 DEF HeldLast
  <2> QED
    BY <2>1, <2>2
<1> QED
  BY <1>1, <1>2 DEF OrderKept

LEMMA EmittedOrder ==
  ASSUME FlowInv, OrderKept, NEW op, Emitted(op)
  PROVE  OrderKept'
<1> DEFINE c == curr_block
           J == ir'
<1>1. /\ Parsing /\ ~ignore /\ c' = c /\ entry' = entry /\ frames' = frames /\ nest' = nest
      /\ J.size = ir.size /\ OnlyIn(ir, J, {c}) /\ J.blocks[c].successors = <<>>
  BY Zenon DEF Emitted, Is
<1>2. ir.size \in Nat /\ entry \in Nat
  BY <1>1, FStateFacts, FunctionBlocks
<1> HIDE DEF J
<1>3. InOrder(J, entry)
  BY <1>1, <1>2, OrderStays, FallsFree DEF OrderKept
<1> QED
  BY <1>1, <1>3 DEF OrderKept, J

LEMMA BranchedOrder ==
  ASSUME FlowInv, OrderKept, Branched
  PROVE  OrderKept'
<1> DEFINE c == curr_block
           n == ir.size
           J == ir'
           f == Frame("if", "NEITHER", c)
<1>1. /\ Parsing /\ ~ignore /\ c' = n /\ entry' = entry /\ frames' = Append(frames, f)
      /\ J.size = n + 1 /\ OnlyIn(ir, J, {c})
      /\ J.blocks[c].successors = <<n>> /\ J.blocks[n].successors = <<>>
  BY Zenon DEF Branched, Begun, Is, Fresh
<1>2. n \in Nat /\ entry \in Nat /\ c \in Nat /\ c + 1 = n /\ n = ir.size
  <2>1. n \in Nat /\ entry \in Nat /\ c \in Nat
    BY <1>1, FStateFacts, FunctionBlocks
  <2>2. c = n - 1
    BY <1>1 DEF OrderKept
  <2> QED
    BY <2>1, <2>2
<1>3. f \in Frames /\ ~f.in_else /\ f.result = "NEITHER"
  BY <1>2, NewFrameFlow DEF Relation
<1>4. \A m : HeldLast(f, m, n)
  BY <1>3 DEF HeldLast
<1> HIDE DEF J, f, n
<1>5. FallsNext(J, c) /\ FallsNext(J, n)
  BY <1>1, <1>2, FallsTo, FallsFree
<1>6. J.size \in Nat /\ J.size - 1 = n /\ \A b \in Nat : b >= n => b = n \/ b >= J.size
  BY <1>1, <1>2
<1>7. InOrder(J, entry)
  <2>1. /\ \A b \in {c} : FallsNext(J, b)
        /\ \A b \in Nat : b >= ir.size => FallsNext(J, b) \/ b >= J.size
    BY <1>2, <1>5, <1>6
  <2>2. /\ InOrder(ir, entry) /\ OnlyIn(ir, J, {c}) /\ ir.size \in Nat
        /\ entry \in Nat /\ J.size \in Nat
    BY <1>1, <1>2, <1>6 DEF OrderKept
  <2> QED
    BY <2>1, <2>2, OrderStays
<1>8. \A i \in 1..Len(frames') : HeldLast(frames'[i], nest'[i], n)
  BY <1>1, <1>3, <1>4, PushedHeld
<1> QED
  BY <1>1, <1>6, <1>7, <1>8 DEF OrderKept, J

LEMMA FoldedOrder ==
  ASSUME FlowInv, OrderKept, NEW r, Folded(r)
  PROVE  OrderKept'
<1> DEFINE c == curr_block
           f == Frame("if", r, c)
<1>1. /\ Parsing /\ ~ignore /\ entry' = entry /\ frames' = Append(frames, f)
      /\ ir' = ir /\ curr_block' = c /\ r \in {"TRUE", "FALSE"}
  BY DEF Folded, Begun
<1>2. c \in Nat /\ c = ir.size - 1
  BY <1>1, LiveFacts DEF OrderKept
<1>3. f \in Frames /\ ~f.in_else /\ f.cond = c
  BY <1>1, <1>2, NewFrameFlow DEF Relation
<1> HIDE DEF f
<1>4. \A m : HeldLast(f, m, ir.size - 1)
  BY <1>2, <1>3 DEF HeldLast
<1>5. \A i \in 1..Len(frames') : HeldLast(frames'[i], nest'[i], ir.size - 1)
  BY <1>1, <1>3, <1>4, PushedHeld
<1> QED
  BY <1>1, <1>2, <1>5 DEF OrderKept

LEMMA LoopedOrder ==
  ASSUME FlowInv, OrderKept, NEW r \in Relation, Looped(r)
  PROVE  OrderKept'
<1> DEFINE c == curr_block
           h == ir.size
           J == ir'
           f == Frame("while", r, h)
<1>1. /\ Parsing /\ ~ignore /\ entry' = entry /\ frames' = Append(frames, f)
      /\ OnlyIn(ir, J, {c}) /\ J.blocks[c].successors = <<h>>
      /\ \/ r = "TRUE" /\ J.size = h + 1 /\ c' = h /\ J.blocks[h].successors = <<>>
         \/ /\ r # "TRUE" /\ J.size = h + 2 /\ c' = h + 1
            /\ J.blocks[h].successors = <<h + 1>> /\ J.blocks[h + 1].successors = <<>>
  BY Zenon DEF Looped, Begun, Is, Fresh
<1>2. h \in Nat /\ h + 1 \in Nat /\ entry \in Nat /\ c \in Nat /\ c + 1 = h /\ h = ir.size
  <2>1. h \in Nat /\ entry \in Nat /\ c \in Nat
    BY <1>1, FStateFacts, FunctionBlocks
  <2>2. c = h - 1
    BY <1>1 DEF OrderKept
  <2> QED
    BY <2>1, <2>2
<1>3. f \in Frames /\ ~f.in_else /\ f.result = r /\ f.cond = h
  BY <1>2, NewFrameFlow
<1> HIDE DEF J, f, h
<1>4. FallsNext(J, c)
  BY <1>1, <1>2, FallsTo
<1>5. CASE r = "TRUE"
  <2>1. J.size = h + 1 /\ c' = h /\ FallsNext(J, h)
    BY <1>1, <1>5, FallsFree
  <2>2. J.size \in Nat /\ J.size - 1 = h /\ \A b \in Nat : b >= h => b = h \/ b >= J.size
    BY <1>2, <2>1
  <2>3. InOrder(J, entry)
    <3>1. /\ \A b \in {c} : FallsNext(J, b)
          /\ \A b \in Nat : b >= ir.size => FallsNext(J, b) \/ b >= J.size
      BY <1>2, <1>4, <2>1, <2>2
    <3> QED
      BY <1>1, <1>2, <2>2, <3>1, OrderStays DEF OrderKept
  <2>4. \A m : HeldLast(f, m, h)
    BY <1>3 DEF HeldLast
  <2>5. \A i \in 1..Len(frames') : HeldLast(frames'[i], nest'[i], h)
    BY <1>1, <1>3, <2>4, PushedHeld
  <2> QED
    BY <1>1, <2>1, <2>2, <2>3, <2>5 DEF OrderKept, J
<1>6. CASE r # "TRUE"
  <2> DEFINE k == h + 1
  <2>1. J.size = h + 2 /\ c' = k /\ FallsNext(J, k) /\ FallsNext(J, h)
    BY <1>1, <1>6, FallsFree, FallsTo
  <2>2. /\ J.size \in Nat /\ J.size - 1 = k
        /\ \A b \in Nat : b >= h => b = h \/ b = k \/ b >= J.size
    BY <1>2, <2>1
  <2> HIDE DEF k
  <2>3. InOrder(J, entry)
    <3>1. /\ \A b \in {c} : FallsNext(J, b)
          /\ \A b \in Nat : b >= ir.size => FallsNext(J, b) \/ b >= J.size
      BY <1>2, <1>4, <2>1, <2>2
    <3> QED
      BY <1>1, <1>2, <2>2, <3>1, OrderStays DEF OrderKept
  <2>4. \A m : HeldLast(f, m, k)
    BY <1>3, <1>6 DEF HeldLast
  <2>5. \A i \in 1..Len(frames') : HeldLast(frames'[i], nest'[i], k)
    BY <1>1, <1>3, <2>4, PushedHeld
  <2> QED
    BY <1>1, <2>1, <2>2, <2>3, <2>5 DEF OrderKept, J
<1> QED
  BY <1>5, <1>6

LEMMA TurnedHeld ==
  ASSUME FlowInv, NEW c2, NEW flag2, Turned(c2, flag2), NEW last,
         HeldLast(frames'[Len(frames)], nest'[Len(frames)], last)
  PROVE  \A i \in 1..Len(frames') : HeldLast(frames'[i], nest'[i], last)
<1>1. /\ Parsing /\ frames # <<>> /\ Live(Top) /\ Len(frames') = Len(frames)
      /\ \A i \in 1..(Len(frames) - 1) : frames'[i] = frames[i]
  BY DEF Turned
<1>2. \A i \in 1..(Len(frames) - 1) : HeldLast(frames'[i], nest'[i], last)
  BY <1>1, OuterHeld
<1>3. \A i \in 1..Len(frames) : i = Len(frames) \/ i \in 1..(Len(frames) - 1)
  BY FStateFacts
<1> QED
  BY <1>1, <1>2, <1>3

LEMMA TurnedNewOrder ==
  ASSUME BlocksInv, OrderKept, TurnedNew
  PROVE  OrderKept'
<1> DEFINE d == Top.cond
           n == ir.size
           J == ir'
           f == frames'[Len(frames)]
<1>1. /\ FlowInv /\ Turned(n, FALSE) /\ Top.result = "NEITHER"
      /\ J.size = n + 1 /\ OnlyIn(ir, J, {d}) /\ OneMore(ir, J, d)
      /\ J.blocks[n].successors = <<>>
  <2>1. FlowInv
    BY DEF BlocksInv
  <2> QED
    BY <2>1, Zenon DEF TurnedNew, Fresh, Is
<1>2. /\ Parsing /\ frames # <<>> /\ Live(Top) /\ ~Top.in_else /\ entry' = entry
      /\ curr_block' = n /\ f.result = Top.result
  BY <1>1 DEF Turned
<1>3. /\ n \in Nat /\ entry \in Nat /\ d \in 0..(ir.size - 1)
      /\ ir.blocks[d].successors \in Seq(Nat) /\ n = ir.size
  BY <1>1, <1>2, FStateFacts, FunctionBlocks, TopFacts, BlockFields
<1>4. Len(ir.blocks[d].successors) = 1
  <2>1. PartBlocks(ir, Top)
    BY <1>1, <1>2, BlocksFacts, TopFacts
  <2> QED
    BY <1>1, <1>2, <2>1 DEF PartBlocks
<1>5. d \in entry..(ir.size - 1)
  <2>1. Remembers(Top, d)
    BY <1>1, <1>2 DEF Remembers, Entered, Branching
  <2> QED
    BY <1>1, <1>2, <2>1, FunctionBlocks, TopFacts
<1> HIDE DEF J, n, d, f
<1>6. FallsNext(J, d)
  <2> DEFINE s == ir.blocks[d].successors
  <2>1. s # <<>>
    <3>1. Len(s) = 1 /\ Len(<<>>) = 0
      BY <1>4
    <3> HIDE DEF s
    <3> QED
      BY <3>1
  <2>2. J.blocks[d].op = ir.blocks[d].op /\ J.blocks[d].successors = Append(s, n)
    BY <1>1, <1>3 DEF OneMore, Is
  <2>3. FallsNext(ir, d)
    BY <1>5 DEF OrderKept, InOrder
  <2> QED
    BY <1>3, <2>1, <2>2, <2>3, FallsStill
<1>7. J.size \in Nat /\ J.size - 1 = n /\ \A b \in Nat : b >= n => b = n \/ b >= J.size
  BY <1>1, <1>3
<1>8. InOrder(J, entry)
  <2>1. FallsNext(J, n)
    BY <1>1, FallsFree
  <2>2. /\ \A b \in {d} : FallsNext(J, b)
        /\ \A b \in Nat : b >= ir.size => FallsNext(J, b) \/ b >= J.size
    BY <1>3, <1>6, <1>7, <2>1
  <2>3. /\ InOrder(ir, entry) /\ OnlyIn(ir, J, {d}) /\ ir.size \in Nat
        /\ entry \in Nat /\ J.size \in Nat
    BY <1>1, <1>3, <1>7 DEF OrderKept
  <2> HIDE DEF d
  <2> QED
    BY <2>2, <2>3, OrderStays
<1>9. \A i \in 1..Len(frames') : HeldLast(frames'[i], nest'[i], n)
  <2>1. HeldLast(f, nest'[Len(frames)], n)
    BY <1>1, <1>2 DEF HeldLast
  <2> QED
    BY <1>1, <2>1, TurnedHeld DEF f
<1> QED
  BY <1>2, <1>7, <1>8, <1>9 DEF OrderKept, J

LEMMA TurnedFoldedOrder ==
  ASSUME FlowInv, OrderKept, TurnedFolded
  PROVE  OrderKept'
<1> DEFINE f == frames'[Len(frames)]
           m == nest'[Len(frames)]
<1>1. /\ Turned(Top.cond, Top.result = "FALSE") /\ Top.result # "NEITHER" /\ ir' = ir
  BY DEF TurnedFolded
<1>2. /\ Parsing /\ frames # <<>> /\ Live(Top) /\ ~Top.in_else /\ entry' = entry
      /\ curr_block' = Top.cond /\ (ignore' <=> Top.result = "FALSE")
      /\ f.in_else /\ f.result = Top.result /\ f.then_block = curr_block /\ m.out = open
  BY <1>1 DEF Turned
<1>3. /\ Top = frames[Len(frames)] /\ Len(frames) \in 1..Len(frames) /\ Top \in Frames
      /\ open # {} => ~ignore
  BY <1>2, TopFacts, FStateFacts
<1>4. ~ignore' => curr_block' = ir.size - 1
  <2>1. Top.result \in Relation
    BY <1>3 DEF Frames
  <2>2. ~ignore' => Top.result = "TRUE"
    BY <1>1, <1>2, <2>1 DEF Relation
  <2>3. HeldLast(Top, nest[Len(frames)], ir.size - 1)
    BY <1>3 DEF OrderKept
  <2> QED
    BY <1>2, <2>2, <2>3 DEF HeldLast
<1> HIDE DEF f, m
<1>5. HeldLast(f, m, ir.size - 1)
  BY <1>2, <1>3 DEF HeldLast, OrderKept
<1>6. \A i \in 1..Len(frames') : HeldLast(frames'[i], nest'[i], ir.size - 1)
  BY <1>1, <1>5, TurnedHeld DEF f, m
<1> QED
  BY <1>1, <1>2, <1>4, <1>6 DEF OrderKept

LEMMA EndedOrder ==
  ASSUME FlowInv, NEW end, Ended(end), InOrder(end.ir, entry),
         ~end.returns => end.curr = end.ir.size - 1
  PROVE  OrderKept'
<1>1. /\ Parsing /\ frames # <<>> /\ Live(Top) /\ entry' = entry
      /\ ir' = end.ir /\ curr_block' = end.curr /\ (ignore' <=> end.returns)
      /\ Len(frames') = Len(frames) - 1
      /\ \A i \in 1..(Len(frames) - 1) : frames'[i] = frames[i]
  BY DEF Ended
<1>2. \A i \in 1..Len(frames') : HeldLast(frames'[i], nest'[i], end.ir.size - 1)
  BY <1>1, OuterHeld
<1> QED
  BY <1>1, <1>2 DEF OrderKept

LEMMA FiOrder ==
  ASSUME BlocksInv, ~FoldedReturns, OrderKept, CFi, Live(Top), ~else_alone'
  PROVE  OrderKept'
<1> DEFINE end == if_end(ir, Top, curr_block)
           d == Top.cond
           t == Top.then_block
           c == curr_block
           n == ir.size
           J == end.ir
<1>1. FlowInv
  BY DEF BlocksInv
<1>2. /\ Ended(end) /\ FiCases(end) /\ Top.kind = "if" /\ Top.in_else
      /\ Parsing /\ frames # <<>>
  <2>1. Ended(end) /\ FiCases(end) /\ Top.kind = "if" /\ Top.in_else
    BY <1>1, FiShape
  <2> QED
    BY <2>1 DEF Ended
<1>3. /\ n \in Nat /\ n = ir.size /\ entry \in Nat /\ d \in 0..(ir.size - 1) /\ c \in Nat
      /\ Top = frames[Len(frames)] /\ Len(frames) \in 1..Len(frames) /\ Top \in Frames
      /\ Inner = nest[Len(frames)] /\ PartFlow(ir, Top, Inner)
      /\ (ignore <=> open = {})
  BY <1>1, <1>2, FStateFacts, FunctionBlocks, TopFacts
<1> HIDE DEF end
<1>4. \A returns : Located(ir, J, Top, returns) =>
        J.blocks[d].op = ir.blocks[d].op /\ J.blocks[d].successors = ir.blocks[d].successors
  BY DEF Located, Is
<1>5. ASSUME NEW returns, Located(ir, J, Top, returns), J.size = ir.size, OnlyIn(ir, J, {d})
      PROVE  InOrder(J, entry)
  <2> HIDE DEF J, d
  <2>1. J.size \in Nat /\ \A b \in Nat : b >= ir.size => FallsNext(J, b) \/ b >= J.size
    BY <1>3, <1>5
  <2>2. FallsNext(ir, d) => FallsNext(J, d)
    BY <1>4, <1>5 DEF FallsNext
  <2>3. d \in entry..(ir.size - 1) => FallsNext(ir, d)
    BY DEF OrderKept, InOrder
  <2>4. CASE d \in entry..(ir.size - 1)
    BY <1>3, <1>5, <2>1, <2>2, <2>3, <2>4, OrderStays DEF OrderKept
  <2>5. CASE d \notin entry..(ir.size - 1)
    <3>1. \A b \in entry..(J.size - 1) : b # d /\ b \in 0..(ir.size - 1) /\ b \in entry..(ir.size - 1)
      BY <1>3, <1>5, <2>5
    <3>2. \A b \in entry..(J.size - 1) : Alike(ir, J, b) /\ FallsNext(ir, b)
      BY <1>5, <3>1 DEF OnlyIn, OrderKept, InOrder
    <3> QED
      BY <3>2 DEF Alike, FallsNext, InOrder
  <2> QED
    BY <2>4, <2>5
<1>6. CASE BothReturn(ir, Top, c, end)
  <2>1. end.returns /\ InOrder(J, entry)
    BY <1>5, <1>6 DEF BothReturn
  <2> QED
    BY <1>1, <1>2, <2>1, EndedOrder
<1>7. CASE OneGoesOn(ir, Top, c, end) /\ ~ignore
  <2>1. InOrder(J, entry) /\ J.size = ir.size /\ end.curr = c
    BY <1>5, <1>7 DEF OneGoesOn
  <2> QED
    BY <1>1, <1>2, <1>7, <2>1, EndedOrder DEF OrderKept
<1>8. CASE OneGoesOn(ir, Top, t, end) /\ ignore /\ Inner.out # {} /\ Top.result # "TRUE"
  <2>1. InOrder(J, entry) /\ J.size = ir.size /\ end.curr = t
    BY <1>5, <1>8 DEF OneGoesOn
  <2>2. Top.result = "FALSE"
    <3>1. Top.result # "NEITHER"
      <4>1. ~ElseAlone
        BY DEF CFi
      <4>2. ~AlwaysReturns
        BY <1>8 DEF AlwaysReturns
      <4> QED
        BY <1>3, <1>8, <4>1, <4>2 DEF ElseAlone
    <3>2. Top.result \in Relation
      BY <1>3 DEF Frames
    <3> QED
      BY <1>8, <3>1, <3>2 DEF Relation
  <2>3. t = ir.size - 1
    <3>1. HeldLast(Top, Inner, ir.size - 1)
      BY <1>3 DEF OrderKept
    <3> QED
      BY <1>2, <1>8, <2>2, <3>1 DEF HeldLast
  <2> QED
    BY <1>1, <1>2, <2>1, <2>3, EndedOrder
<1>9. CASE BothGoOn(ir, Top, c, end) /\ ~ignore /\ Top.result = "NEITHER"
  <2> DEFINE S == {d, t, c}
  <2>1. /\ end.curr = n /\ J.size = n + 1 /\ OnlyIn(ir, J, S)
        /\ J.blocks[d].op = ir.blocks[d].op /\ J.blocks[d].successors = ir.blocks[d].successors
        /\ J.blocks[t].op = "BRA" /\ J.blocks[n].successors = <<>>
        /\ J.blocks[c].successors = Append(ir.blocks[c].successors, n)
    <3>1. /\ end.curr = n /\ J.size = n + 1 /\ OnlyIn(ir, J, S)
          /\ J.blocks[t].op = "BRA" /\ J.blocks[n].successors = <<>>
          /\ J.blocks[c].successors = Append(ir.blocks[c].successors, n)
      BY <1>9, Zenon DEF BothGoOn, Is, OneMore, Fresh
    <3>2. Located(ir, J, Top, ir.blocks[d].will_return)
      BY <1>9 DEF BothGoOn
    <3> QED
      BY <1>4, <3>1, <3>2
  <2>2. ir.blocks[c].successors = <<>> /\ c + 1 = n /\ c = n - 1
    <3>1. Ready(ir, c)
      BY <1>1, <1>2, <1>9, LiveFacts
    <3>2. c = n - 1
      BY <1>9 DEF OrderKept
    <3> QED
      BY <1>3, <3>1, <3>2 DEF Ready
  <2>3. d \in entry..(ir.size - 1)
    <3>1. Remembers(Top, d)
      BY <1>2, <1>9 DEF Remembers, Entered, Branching, Ended
    <3> QED
      BY <1>1, <1>2, <1>3, <3>1, FunctionBlocks
  <2> HIDE DEF J, d, t, c, n
  <2>4. J.blocks[c].successors = <<n>>
    <3>1. Append(<<>>, n) = <<n>>
      OBVIOUS
    <3> QED
      BY <2>1, <2>2, <3>1
  <2>5. FallsNext(J, d) /\ FallsNext(J, t) /\ FallsNext(J, c) /\ FallsNext(J, n)
    <3>1. FallsNext(J, d)
      BY <2>1, <2>3 DEF FallsNext, OrderKept, InOrder
    <3> QED
      BY <2>1, <2>2, <2>4, <3>1, FallsTo, FallsFree
  <2>6. J.size \in Nat /\ J.size - 1 = n /\ \A b \in Nat : b >= n => b = n \/ b >= J.size
    BY <1>3, <2>1
  <2>7. InOrder(J, entry)
    <3>1. /\ \A b \in S : FallsNext(J, b)
          /\ \A b \in Nat : b >= ir.size => FallsNext(J, b) \/ b >= J.size
      BY <1>3, <2>5, <2>6
    <3> HIDE DEF S
    <3> QED
      BY <1>3, <2>1, <2>6, <3>1, OrderStays DEF OrderKept
  <2> QED
    BY <1>1, <1>2, <2>1, <2>6, <2>7, EndedOrder DEF J
<1> QED
  BY <1>2, <1>6, <1>7, <1>8, <1>9 DEF FiCases

LEMMA OdOrder ==
  ASSUME BlocksInv, OrderKept, COd, Live(Top)
  PROVE  OrderKept'
<1> DEFINE end == while_end(ir, Top, curr_block)
           d == Top.cond
           c == curr_block
           n == ir.size
           J == end.ir
<1>1. FlowInv
  BY DEF BlocksInv
<1>2. Ended(end) /\ OdCases(end) /\ Top.kind = "while" /\ Parsing /\ frames # <<>>
  <2>1. Ended(end) /\ OdCases(end) /\ Top.kind = "while"
    BY <1>1, OdShape
  <2> QED
    BY <2>1 DEF Ended
<1>3. /\ n \in Nat /\ n = ir.size /\ entry \in Nat /\ d \in 0..(ir.size - 1)
      /\ c \in entry..(ir.size - 1)
      /\ ir.blocks[d].successors \in Seq(Nat) /\ PartFlow(ir, Top, Inner)
      /\ Top = frames[Len(frames)] /\ Len(frames) \in 1..Len(frames) /\ ~Top.in_else
      /\ Live(Top)
  BY <1>1, <1>2, FStateFacts, FunctionBlocks, TopFacts, BlockFields DEF PartFlow
<1> HIDE DEF end
<1>4. JumpsTo(ir, J, c, d) => FallsNext(J, c)
  <2>1. CASE will_return(ir, c)
    <3>1. JumpsTo(ir, J, c, d) => Alike(ir, J, c)
      BY <2>1 DEF JumpsTo
    <3>2. FallsNext(ir, c)
      BY <1>3 DEF OrderKept, InOrder
    <3> QED
      BY <3>1, <3>2 DEF Alike, FallsNext
  <2>2. CASE ~will_return(ir, c)
    <3>1. JumpsTo(ir, J, c, d) => J.blocks[c].op = "BRA"
      BY <2>2 DEF JumpsTo, Is
    <3> QED
      BY <3>1, FallsFree
  <2> QED
    BY <2>1, <2>2
<1>5. CASE ForeverEnds(end)
  <2>1. end.returns /\ J.size = ir.size /\ OnlyIn(ir, J, {c}) /\ FallsNext(J, c)
    BY <1>4, <1>5 DEF ForeverEnds
  <2> HIDE DEF J, c
  <2>2. /\ J.size \in Nat /\ \A b \in Nat : b >= ir.size => FallsNext(J, b) \/ b >= J.size
        /\ \A b \in {c} : FallsNext(J, b)
    BY <1>3, <2>1
  <2>3. InOrder(J, entry)
    BY <1>3, <2>1, <2>2, OrderStays DEF OrderKept
  <2> QED
    BY <1>1, <1>2, <2>1, <2>3, EndedOrder DEF J
<1>6. CASE NeverEntered(end)
  <2>1. Top.result = "TRUE" /\ end.curr = d /\ J = ir
    BY <1>6 DEF NeverEntered
  <2>2. HeldLast(Top, nest[Len(frames)], ir.size - 1)
    BY <1>3 DEF OrderKept
  <2>3. d = ir.size - 1
    BY <1>3, <2>1, <2>2 DEF HeldLast
  <2> QED
    BY <1>1, <1>2, <2>1, <2>3, EndedOrder DEF OrderKept
<1>7. CASE LoopEnds(end)
  <2> DEFINE S == {d, c}
             s == ir.blocks[d].successors
  <2>1. /\ end.curr = n /\ J.size = n + 1 /\ OnlyIn(ir, J, S) /\ JumpsTo(ir, J, c, d)
        /\ J.blocks[n].successors = <<>> /\ Top.result = "NEITHER"
        /\ J.blocks[d].op = ir.blocks[d].op /\ J.blocks[d].successors = Append(s, n)
    <3>1. /\ Top.result = "NEITHER" /\ end.curr = n /\ J.size = n + 1 /\ OnlyIn(ir, J, S)
          /\ JumpsTo(ir, J, c, d) /\ Fresh(J, n)
      BY <1>7, Zenon DEF LoopEnds
    <3>2. Is(J, d, ir.blocks[d].code, Append(s, n), ir.blocks[d].op, ir.blocks[d].larg, n,
             ir.blocks[d].will_return)
      BY <1>7, Zenon DEF LoopEnds
    <3>3. J.blocks[n].successors = <<>>
      BY <3>1 DEF Fresh, Is
    <3>4. J.blocks[d].op = ir.blocks[d].op /\ J.blocks[d].successors = Append(s, n)
      BY <3>2, Zenon DEF Is
    <3> QED
      BY <3>1, <3>3, <3>4
  <2> HIDE DEF J, d, c, n, S
  <2>2. Len(s) = 1 /\ d \in entry..(ir.size - 1)
    <3>1. PartBlocks(ir, Top)
      <4>1. \A i \in 1..Len(frames) : PartBlocks(ir, frames[i])
        BY <1>2, BlocksFacts
      <4>2. Top = frames[Len(frames)] /\ Len(frames) \in 1..Len(frames)
        BY <1>3
      <4> QED
        BY <4>1, <4>2
    <3>2. Live(Top) /\ Top.result = "NEITHER" /\ ~Top.in_else
      BY <1>3, <2>1
    <3>3. Len(s) = 1
      BY <3>1, <3>2 DEF PartBlocks, d
    <3>4. d \in entry..(ir.size - 1)
      <4>1. \A i \in 1..Len(frames) :
              \A b : Remembers(frames[i], b) => b \in entry..(ir.size - 1)
        BY <1>1, <1>2, FunctionBlocks
      <4>2. Remembers(Top, d)
        BY <3>2 DEF Remembers, Entered, Branching, d
      <4>3. Top = frames[Len(frames)] /\ Len(frames) \in 1..Len(frames)
        BY <1>3
      <4> QED
        BY <4>1, <4>2, <4>3
    <3> QED
      BY <3>3, <3>4
  <2>3. FallsNext(J, d)
    <3>1. FallsNext(ir, d)
      BY <2>2 DEF OrderKept, InOrder
    <3>2. Len(s) = 1 /\ Len(<<>>) = 0
      BY <2>2
    <3>3. s # <<>>
      <4> HIDE DEF s
      <4> QED
        BY <3>2
    <3> QED
      BY <1>3, <2>1, <3>1, <3>3, FallsStill
  <2>4. J.size \in Nat /\ J.size - 1 = n /\ \A b \in Nat : b >= n => b = n \/ b >= J.size
    BY <1>3, <2>1
  <2>5. InOrder(J, entry)
    <3>1. FallsNext(J, n)
      BY <2>1, FallsFree
    <3>2. /\ \A b \in S : FallsNext(J, b)
          /\ \A b \in Nat : b >= ir.size => FallsNext(J, b) \/ b >= J.size
      BY <1>3, <1>4, <2>1, <2>3, <2>4, <3>1 DEF S
    <3>3. /\ InOrder(ir, entry) /\ OnlyIn(ir, J, S) /\ ir.size \in Nat
          /\ entry \in Nat /\ J.size \in Nat
      BY <1>3, <2>1, <2>4 DEF OrderKept, n
    <3> HIDE DEF s
    <3> QED
      BY <3>2, <3>3, OrderStays, Zenon
  <2> QED
    BY <1>1, <1>2, <2>1, <2>4, <2>5, EndedOrder DEF J
<1> QED
  BY <1>2, <1>5, <1>6, <1>7 DEF OdCases

LEMMA StartedOrder ==
  ASSUME Started, ir.size \in Nat
  PROVE  OrderKept'
<1> DEFINE n == ir.size
           J == ir'
<1>1. /\ frames' = <<>> /\ entry' = n /\ curr_block' = n /\ J.size = n + 1
      /\ J.blocks[n].successors = <<>>
  BY Zenon DEF Started, Is
<1> HIDE DEF J, n
<1>2. J.size - 1 = n /\ \A b \in n..(J.size - 1) : b = n
  BY <1>1 DEF n
<1>3. InOrder(J, n)
  BY <1>1, <1>2, FallsFree DEF InOrder
<1>4. Len(<<>>) = 0
  OBVIOUS
<1> QED
  BY <1>1, <1>2, <1>3, <1>4 DEF OrderKept, J

LEMMA FinaleOrder ==
  ASSUME BlocksInv, OrderKept, Finale
  PROVE  InOrder(ir', entry')
<1> DEFINE J == ir'
           c == curr_block
<1>1. Parsing /\ entry' = entry /\ FlowInv
  BY DEF Finale, BlocksInv
<1>2. ir.size \in Nat /\ entry \in Nat
  BY <1>1, FunctionBlocks, FStateFacts
<1>3. CASE ir' = ir
  BY <1>1, <1>3 DEF OrderKept
<1>4. CASE ~ignore
  <2>1. J.size = ir.size /\ OnlyIn(ir, J, {c}) /\ J.blocks[c].op = "RET"
    BY <1>4, Zenon DEF Finale, Is
  <2> HIDE DEF J
  <2>2. \A b \in {c} : FallsNext(J, b)
    BY <2>1, FallsFree
  <2>3. J.size \in Nat /\ \A b \in Nat : b >= ir.size => FallsNext(J, b) \/ b >= J.size
    BY <1>2, <2>1
  <2> QED
    BY <1>1, <1>2, <2>1, <2>2, <2>3, OrderStays DEF OrderKept, J
<1> QED
  BY <1>3, <1>4 DEF Finale

\* Once a function has such an if, it has it to its end.
LEMMA AloneStays ==
  ASSUME \/ CSimple \/ CReturn \/ (\E r \in Relation : CIf(r)) \/ CIfIgnored \/ CThenEnd \/ CFi
         \/ (\E r \in Relation : CWhile(r)) \/ CWhileIgnored \/ COd \/ CFunctionEnd \/ CMainEnd
  PROVE  else_alone => else_alone'
BY DEF CSimple, CReturn, CIf, CIfIgnored, CThenEnd, CFi, CWhile, CWhileIgnored, COd,
       CFunctionEnd, CMainEnd

LEMMA StatementOrder ==
  ASSUME BlocksInv, Parsing, OrderKept, ~FoldedReturns, ~else_alone',
         \/ CSimple \/ CReturn \/ (\E r \in Relation : CIf(r)) \/ CIfIgnored \/ CThenEnd \/ CFi
         \/ (\E r \in Relation : CWhile(r)) \/ CWhileIgnored \/ COd
  PROVE  OrderKept'
<1>1. FlowInv
  BY DEF BlocksInv
<1>2. ASSUME CFi \/ COd \/ CThenEnd, ~Live(Top)
      PROVE  OrderKept'
  BY <1>1, <1>2, IgnoredEndIdle, IgnoredElseIdle, IdleOrder
<1>3. ASSUME CSimple \/ CReturn
      PROVE  OrderKept'
  <2>1. ignore => IdleStep
    BY <1>1, <1>3, IgnoredStatementIdle
  <2>2. ~ignore => Emitted("EMPTY") \/ Emitted("RET")
    BY <1>1, <1>3, SimpleShape, ReturnShape
  <2> QED
    BY <1>1, <2>1, <2>2, EmittedOrder, IdleOrder
<1>4. ASSUME CIfIgnored \/ CWhileIgnored
      PROVE  OrderKept'
  <2>1. ignore
    BY <1>4 DEF CIfIgnored, CWhileIgnored, IfThenIgnored, WhileDoIgnored
  <2> QED
    BY <1>1, <1>4, <2>1, IgnoredConstructIdle, IdleOrder
<1>5. ASSUME NEW r \in Relation, CIf(r)
      PROVE  OrderKept'
  <2>1. Branched \/ Folded(r)
    BY <1>1, <1>5, IfShape
  <2> QED
    BY <1>1, <2>1, BranchedOrder, FoldedOrder
<1>6. ASSUME NEW r \in Relation, CWhile(r)
      PROVE  OrderKept'
  <2>1. Looped(r)
    BY <1>1, <1>6, WhileShape
  <2> QED
    BY <1>1, <2>1, LoopedOrder
<1>7. ASSUME CThenEnd, Live(Top)
      PROVE  OrderKept'
  <2>1. TurnedNew \/ TurnedFolded
    BY <1>1, <1>7, ThenEndShape
  <2> QED
    BY <1>1, <2>1, TurnedNewOrder, TurnedFoldedOrder
<1>8. ASSUME CFi, Live(Top)
      PROVE  OrderKept'
  BY <1>8, FiOrder
<1>9. ASSUME COd, Live(Top)
      PROVE  OrderKept'
  BY <1>9, OdOrder
<1> QED
  BY <1>2, <1>3, <1>4, <1>5, <1>6, <1>7, <1>8, <1>9

LEMMA InitLayout ==
  ASSUME CInit
  PROVE  LayoutInv
<1>1. CarryInv /\ ~Parsing /\ ~Complete
  BY InitCarry DEF CInit, Init, Parsing, Complete
<1> QED
  BY <1>1 DEF LayoutInv

LEMMA NextLayout ==
  ASSUME LayoutInv, ~NestedForever, ~FoldedReturns, [CNext]_all_vars
  PROVE  LayoutInv'
<1>1. CarryInv /\ CarryInv' /\ BlocksInv /\ FlowInv
  BY NextCarry DEF LayoutInv, CarryInv, BlocksInv
<1>2. ASSUME Parsing,
             \/ CSimple \/ CReturn \/ (\E r \in Relation : CIf(r)) \/ CIfIgnored \/ CThenEnd
             \/ CFi \/ (\E r \in Relation : CWhile(r)) \/ CWhileIgnored \/ COd
      PROVE  LayoutInv'
  <2>1. Parsing' /\ ~Complete'
    BY <1>2, PhaseGoesOn DEF Parsing, Complete
  <2>2. ~else_alone' => ~else_alone
    BY <1>2, AloneStays
  <2>3. ~else_alone' => OrderKept'
    BY <1>1, <1>2, <2>2, StatementOrder DEF LayoutInv
  <2> QED
    BY <1>1, <2>1, <2>3 DEF LayoutInv
<1>3. ASSUME NEW kind \in {"function", "main"}, CBegin(kind)
      PROVE  LayoutInv'
  <2>1. Started
    BY <1>1, <1>3, BeginShape
  <2>2. Parsing' /\ OrderKept'
    BY <1>1, <2>1, StartedOrder, FStateFacts DEF Started
  <2>3. ~Complete'
    BY <2>2 DEF Complete, Parsing
  <2> QED
    BY <1>1, <2>2, <2>3 DEF LayoutInv
<1>4. ASSUME CFunctionEnd
      PROVE  LayoutInv'
  <2>1. Finale /\ ~Parsing' /\ Parsing /\ entry' = entry
    BY <1>1, <1>4, FunctionEndShape DEF Finale
  <2>2. ~else_alone' => ~else_alone
    BY <1>4, AloneStays
  <2>3. ~else_alone' => InOrder(ir', entry')
    BY <1>1, <2>1, <2>2, FinaleOrder DEF LayoutInv
  <2>4. \A b \in entry'..(ir'.size - 1) : ~Stray(ir', b)
    BY <1>1, <2>1, NoStrayLeft
  <2> QED
    BY <1>1, <2>1, <2>3, <2>4 DEF LayoutInv
<1>5. ASSUME CMainEnd
      PROVE  LayoutInv'
  <2>1. Parsing /\ ~Parsing' /\ ir' = ir /\ entry' = entry /\ frames = <<>>
    BY <1>5 DEF CMainEnd, MainEnd, Parsing
  <2>2. ~else_alone' => ~else_alone
    BY <1>5, AloneStays
  <2>3. \A b \in entry..(ir.size - 1) : Stray(ir, b) => ~ignore /\ b = curr_block
    BY <1>1, <2>1, StrayAtFinale
  <2>4. ~else_alone' =>
          InOrder(ir, entry) /\ \A b \in entry..(ir.size - 1) : Stray(ir, b) => b = ir.size - 1
    BY <2>1, <2>2, <2>3 DEF LayoutInv, OrderKept
  <2> QED
    BY <1>1, <2>1, <2>4 DEF LayoutInv
<1>6. ASSUME UNCHANGED all_vars
      PROVE  LayoutInv'
  <2>1. /\ ir' = ir /\ entry' = entry /\ phase' = phase /\ frames' = frames /\ nest' = nest
        /\ ignore' = ignore /\ curr_block' = curr_block /\ else_alone' = else_alone
    BY <1>6 DEF all_vars, vars, src_vars
  <2>2. (Parsing' <=> Parsing) /\ (Complete' <=> Complete) /\ (OrderKept <=> OrderKept')
    BY <2>1 DEF Parsing, Complete, OrderKept
  <2> QED
    BY <1>1, <2>1, <2>2 DEF LayoutInv
<1>7. ASSUME CSimple \/ CReturn \/ (\E r \in Relation : CIf(r)) \/ CIfIgnored \/ CThenEnd
             \/ CFi \/ (\E r \in Relation : CWhile(r)) \/ CWhileIgnored \/ COd
      PROVE  Parsing
  BY <1>7 DEF Parsing, CSimple, CReturn, CIf, CIfIgnored, CThenEnd, CFi, CWhile, CWhileIgnored,
              COd, SimpleStatement, ReturnStatement, IfThen, IfThenIgnored, ThenEnd, Fi,
              WhileDo, WhileDoIgnored, Od, NextPoint
<1>8. CNext => LayoutInv'
  BY <1>2, <1>3, <1>4, <1>5, <1>7 DEF CNext
<1> QED
  BY <1>6, <1>8

\* In order, and with nothing but the last block left open, the blocks of a
\* finished function lead on to the next one where they lead on in the graph.
LEMMA InOrderRead ==
  ASSUME BlocksInv, Past = ir.size, NEW b \in Indices(ir), FallsNext(ir, b),
         Stray(ir, b) => b + 1 = ir.size
  PROVE  NextBlocks(b, LayoutFall(b)) = WaysRead(ir, b)
<1> DEFINE s == ir.blocks[b].successors
           op == ir.blocks[b].op
           larg == ir.blocks[b].larg
           rarg == ir.blocks[b].rarg
           fall == FallOf(s, ir.size)
<1>1. /\ ir.size \in Nat /\ b # ir.size /\ BlockOK(ir, b) /\ op \in BranchOp
      /\ s \in Seq(Nat) /\ b \in 0..(ir.size - 1)
  <2>1. ir.size \in Nat /\ BlockOK(ir, b) /\ IRType(ir)
    BY BlocksFacts, FStateFacts DEF BlocksInv
  <2>2. b # ir.size /\ b \in 0..(ir.size - 1)
    BY <2>1 DEF Indices
  <2> QED
    BY <2>1, <2>2, BlockFields
<1>2. WaysRead(ir, b) = ReadBy(op, larg, rarg, fall)
  BY <1>1 DEF WaysRead
<1>3. NextBlocks(b, LayoutFall(b)) = ReadBy(op, larg, rarg, LayoutFall(b))
  BY DEF ReadBy, NextBlocks
<1>4. op = "Bcc" => s # <<>>
  <2>1. op = "Bcc" => Len(s) \in 1..2
    BY <1>1 DEF BlockOK
  <2>2. Len(<<>>) = 0
    OBVIOUS
  <2> HIDE DEF s, op
  <2> QED
    BY <2>1, <2>2
<1>5. op \in {"EMPTY", "Bcc"} => fall = LayoutFall(b)
  <2>1. s # <<>> /\ op \in {"EMPTY", "Bcc"} => fall = LayoutFall(b)
    BY DEF FallOf, FallsNext, LayoutFall
  <2>2. s = <<>> /\ op = "EMPTY" => fall = LayoutFall(b)
    BY DEF FallOf, Stray, LayoutFall
  <2> QED
    BY <1>4, <2>1, <2>2
<1>6. op \in {"RET", "BRA"} => ReadBy(op, larg, rarg, fall) = ReadBy(op, larg, rarg, LayoutFall(b))
  BY DEF ReadBy
<1> QED
  BY <1>1, <1>2, <1>3, <1>5, <1>6 DEF BranchOp

LEMMA LayoutMatches ==
  ASSUME LayoutInv
  PROVE  LayoutFlowMatches
<1> SUFFICES ASSUME Complete, ~else_alone
             PROVE  FlowEdges(LayoutFall) = edges
  BY DEF LayoutFlowMatches
<1> DEFINE next == [b \in 0..Past |-> NextBlocks(b, LayoutFall(b))]
<1>1. /\ CarryInv /\ BlocksInv /\ entry \in Nat /\ entry # 0 /\ ir.size \in Nat /\ Past = ir.size
      /\ InOrder(ir, entry) /\ \A b \in entry..(ir.size - 1) : Stray(ir, b) => b = ir.size - 1
  BY BlocksFacts DEF LayoutInv, CarryInv, Complete, Past
<1>2. Falling(next, LayoutFall)
  BY <1>1, FallsDown DEF Falling
<1>3. \A b \in 0..(ir.size - 1) : next[b] = NextBlocks(b, LayoutFall(b))
  BY <1>1
<1> HIDE DEF next
<1>4. PICK f : ReadAs(next, f, FlowEdges(LayoutFall))
  BY <1>1, <1>2, LayoutEdges
<1>5. ASSUME NEW b \in entry..(ir.size - 1)
      PROVE  /\ next[b] = WaysRead(ir, b)
             /\ ir.blocks[b].code = <<>> =>
                  \A d \in next[b] : d[2] > b \/ (d[2] # Past /\ ir.blocks[d[2]].code # <<>>)
  <2>1. b \in 0..(ir.size - 1) /\ b \in Indices(ir)
    BY <1>1 DEF Indices
  <2>2. FallsNext(ir, b) /\ (Stray(ir, b) => b + 1 = ir.size)
    BY <1>1 DEF InOrder
  <2>3. NextBlocks(b, LayoutFall(b)) = WaysRead(ir, b)
    BY <1>1, <2>1, <2>2, InOrderRead
  <2> QED
    BY <1>1, <1>3, <2>1, <2>3, FallsDown, ReadingOn
<1>6. \E n, A : Readable(ir, entry, n, A, edges)
  BY <1>1 DEF CarryInv
<1> QED
  BY <1>1, <1>4, <1>5, <1>6, ReadableMatches

\* The text that emit_code writes, block after block and with a branch only
\* where a block has one, has the control flow of the source, in every function
\* without an if whose else part alone always returns.
THEOREM TextHasSourceFlow ==
  ASSUME ~NestedForever, ~FoldedReturns
  PROVE  CSpec => []LayoutFlowMatches
<1>1. CInit => LayoutInv
  BY InitLayout
<1>2. LayoutInv /\ [CNext]_all_vars => LayoutInv'
  BY NextLayout
<1>3. LayoutInv => LayoutFlowMatches
  BY LayoutMatches
<1> QED
  BY <1>1, <1>2, <1>3, PTL DEF CSpec

=============================================================================
