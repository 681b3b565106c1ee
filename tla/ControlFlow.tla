----------------------------- MODULE ControlFlow -----------------------------
(***************************************************************************)
(* The recursive-descent statement handlers of the Parser together with    *)
(* the control-flow graph they build in the IntermediateRepresentation.    *)
(*                                                                         *)
(* One action is one point of the source text at which a handler changes   *)
(* the IR.  The C++ call stack (one activation of if_statement or          *)
(* while_statement per enclosing construct) is the sequence "frames"; the  *)
(* token stream is the nondeterministic choice of the next action.         *)
(*                                                                         *)
(* Expressions, identifiers and instruction numbers are abstracted.  A     *)
(* statement is the number of its program point, a block carries the       *)
(* sequence of points whose code it holds, and a branch target is a block  *)
(* (the code stores the number of the target's first instruction, which    *)
(* first_instruction() creates when the block is still empty).             *)
(*                                                                         *)
(* The definitions named X_... in front of a definition X are faulty       *)
(* variants of it: putting one in the place of X must break a property.    *)
(***************************************************************************)
EXTENDS Integers, Sequences, Functions

CONSTANT MaxStatements     \* bound on the program points of one source text
ASSUME MaxStatementsAssumption == MaxStatements \in Nat

VARIABLES
  ir,          \* the IR under construction: its blocks and the doms vector
  curr_block,  \* the block the innermost live handler is appending to
  ignore,      \* IntermediateRepresentation::ignore, with statement_sequence's
  while_loop,  \* IntermediateRepresentation::while_loop
  frames,      \* the activations of if_statement and while_statement
  entry,       \* the first block of the function being parsed (0: none yet)
  phase,       \* where computation() is: "decl", "function", "main" or "done"
  pos          \* the number of the next program point

vars == <<ir, curr_block, ignore, while_loop, frames, entry, phase, pos>>

-----------------------------------------------------------------------------
(* The intermediate representation.                                        *)

None == -1

\* LOOP_HEADER is only ever passed to new_block: the block gets INVALID.
Blocktype == {"IF_FALLTHROUGH", "WHILE_FALLTHROUGH", "IF_BRANCH",
              "WHILE_BRANCH", "JOIN", "NONE", "INVALID"}

\* The opcode of a block's branch instruction.  The six conditional branches
\* are one value: which of them it is does not matter to the graph.
BranchOp == {"EMPTY", "Bcc", "BRA", "RET"}

\* The verdict of relation().  TRUE is "the branch is taken": the source
\* condition is constant and false.
Relation == {"TRUE", "FALSE", "NEITHER"}

BasicBlock(t, ps) ==
  [type |-> t, predecessors |-> ps, successors |-> <<>>, code |-> <<>>,
   op |-> "EMPTY", larg |-> None, rarg |-> None, will_return |-> FALSE,
   branch_block |-> None, loop_header |-> None]

\* Only the const block.
EmptyIR ==
  [size   |-> 1,
   blocks |-> [b \in {0} |-> BasicBlock("NONE", <<>>)],
   doms   |-> [b \in {0} |-> 0]]

\* No entry in doms for the new block.
new_block_helper_NoDom(I, t, ps, idom) ==
  [size   |-> I.size + 1,
   blocks |-> [b \in 0..I.size |->
                 IF b = I.size THEN BasicBlock(t, ps)
                 ELSE IF b \in Range(ps)
                      THEN [I.blocks[b] EXCEPT !.successors = Append(@, I.size)]
                      ELSE I.blocks[b]],
   doms   |-> I.doms]

\* Only the first predecessor learns of its successor.
new_block_helper_OneEdge(I, t, ps, idom) ==
  [size   |-> I.size + 1,
   blocks |-> [b \in 0..I.size |->
                 IF b = I.size THEN BasicBlock(t, ps)
                 ELSE IF b = ps[1]
                      THEN [I.blocks[b] EXCEPT !.successors = Append(@, I.size)]
                      ELSE I.blocks[b]],
   doms   |-> [b \in 0..I.size |-> IF b = I.size THEN idom ELSE I.doms[b]]]

\* The new block's index is I.size.
new_block_helper(I, t, ps, idom) ==
  [size   |-> I.size + 1,
   blocks |-> [b \in 0..I.size |->
                 IF b = I.size THEN BasicBlock(t, ps)
                 ELSE IF b \in Range(ps)
                      THEN [I.blocks[b] EXCEPT !.successors = Append(@, I.size)]
                      ELSE I.blocks[b]],
   doms   |-> [b \in 0..I.size |-> IF b = I.size THEN idom ELSE I.doms[b]]]

new_block(I, p, t) ==
  new_block_helper(I, IF t = "LOOP_HEADER" THEN "INVALID" ELSE t, <<p>>, p)

\* The first predecessor as the dominator.
new_join_FirstDom(I, p1, p2, idom) == new_block_helper(I, "JOIN", <<p1, p2>>, p1)

\* new_block(p1, p2, idom)
new_join(I, p1, p2, idom) == new_block_helper(I, "JOIN", <<p1, p2>>, idom)

new_function(I) == new_block_helper(I, "NONE", <<0>>, 0)

add_instruction(I, b, k) ==
  [I EXCEPT !.blocks[b] = [I.blocks[b] EXCEPT !.code = Append(I.blocks[b].code, k)]]

will_return(I, b) == I.blocks[b].will_return

has_branch_instruction(I, b) == I.blocks[b].op # "EMPTY"

set_return(I, b) == [I EXCEPT !.blocks[b] = [@ EXCEPT !.will_return = TRUE]]

\* Without the test of will_return.
set_branch_cond_Always(I, b, op, larg) ==
  [I EXCEPT !.blocks[b] =
     [@ EXCEPT !.op = op, !.larg = larg, !.will_return = (op = "RET")]]

\* A block that returns keeps its branch instruction.
set_branch_cond(I, b, op, larg) ==
  IF will_return(I, b) THEN I
  ELSE [I EXCEPT !.blocks[b] =
          [@ EXCEPT !.op = op, !.larg = larg, !.will_return = (op = "RET")]]

set_branch_location(I, b, rarg) ==
  [I EXCEPT !.blocks[b] = [@ EXCEPT !.rarg = rarg]]

\* The header does not learn of its branch-back block.
update_phi_NoHeader(I, loop_header, branch_back) ==
  [I EXCEPT !.blocks[branch_back] =
     [I.blocks[branch_back] EXCEPT !.loop_header = loop_header]]

\* The back edge is entered among the predecessors.
update_phi_Edge(I, loop_header, branch_back) ==
  [I EXCEPT !.blocks[loop_header] =
     [I.blocks[loop_header] EXCEPT
        !.branch_block = branch_back,
        !.predecessors = Append(I.blocks[loop_header].predecessors, branch_back)]]

\* The graph half of update_phi; its PHIs are not part of this module.
update_phi(I, loop_header, branch_back) ==
  LET J == [I EXCEPT !.blocks[loop_header] =
              [I.blocks[loop_header] EXCEPT !.branch_block = branch_back]]
  IN  [J EXCEPT !.blocks[branch_back] =
         [J.blocks[branch_back] EXCEPT !.loop_header = loop_header]]

-----------------------------------------------------------------------------
(* The parts of the handlers that end a construct: each returns the IR,    *)
(* the block parsing goes on in and the value of the handler.              *)

\* The else block jumps and the then block falls through.
join_Else(I, cond, then_block, else_block) ==
  set_branch_cond(new_join(I, then_block, else_block, cond),
                  else_block, "BRA", I.size)

join(I, cond, then_block, else_block) ==
  set_branch_cond(new_join(I, then_block, else_block, cond),
                  then_block, "BRA", I.size)

\* if_statement from "fi" on.
if_end(I, f, else_block) ==
  LET J == IF f.result = "NEITHER"
             THEN set_branch_location(I, f.cond, f.og_else_block) ELSE I
      then_returns == will_return(J, f.then_block)
      else_returns == will_return(J, else_block)
  IN CASE then_returns /\ else_returns ->
            [ir |-> set_return(J, f.cond), curr |-> f.cond, returns |-> TRUE]
       [] ~(then_returns /\ else_returns) /\ (then_returns \/ f.result = "TRUE") ->
            [ir |-> J, curr |-> else_block, returns |-> FALSE]
       [] ~then_returns /\ f.result # "TRUE"
          /\ (else_returns \/ f.result = "FALSE") ->
            [ir |-> J, curr |-> f.then_block, returns |-> FALSE]
       [] OTHER ->
            [ir |-> join(J, f.cond, f.then_block, else_block),
             curr |-> J.size, returns |-> FALSE]

\* The back edge of a loop whose body ends in while_block.
close_loop(I, header, while_block) ==
  set_branch_cond(update_phi(I, header, while_block), while_block, "BRA", header)

\* The header's branch is never given the way out.
branch_NoExit(I, header, while_block) ==
  new_block(close_loop(I, header, while_block), header, "WHILE_BRANCH")

\* branch(): the loop is left through a new WHILE_BRANCH block.
branch(I, header, while_block) ==
  LET J == close_loop(I, header, while_block)
  IN  set_branch_location(new_block(J, header, "WHILE_BRANCH"), header, J.size)

\* Parsing goes on in the loop body after the loop.
while_end_InBody(I, f, while_block) ==
  CASE f.result = "FALSE" ->
         [ir |-> close_loop(I, f.cond, while_block),
          curr |-> while_block, returns |-> TRUE]
    [] f.result = "TRUE" ->
         [ir |-> I, curr |-> f.cond, returns |-> FALSE]
    [] f.result = "NEITHER" ->
         [ir |-> branch(I, f.cond, while_block),
          curr |-> while_block, returns |-> FALSE]

\* A loop without an end counts as one that ends.
while_end_Ends(I, f, while_block) ==
  CASE f.result = "FALSE" ->
         [ir |-> close_loop(I, f.cond, while_block),
          curr |-> while_block, returns |-> FALSE]
    [] f.result = "TRUE" ->
         [ir |-> I, curr |-> f.cond, returns |-> FALSE]
    [] f.result = "NEITHER" ->
         [ir |-> branch(I, f.cond, while_block),
          curr |-> I.size, returns |-> FALSE]

\* while_statement from "od" on.
while_end(I, f, while_block) ==
  CASE f.result = "FALSE" ->
         [ir |-> close_loop(I, f.cond, while_block),
          curr |-> while_block, returns |-> TRUE]
    [] f.result = "TRUE" ->
         [ir |-> I, curr |-> f.cond, returns |-> FALSE]
    [] f.result = "NEITHER" ->
         [ir |-> branch(I, f.cond, while_block),
          curr |-> I.size, returns |-> FALSE]

-----------------------------------------------------------------------------
(* The activations on the C++ stack.  "cond" is the block the construct    *)
(* started in (if) or the loop header (while); None when the construct is  *)
(* parsed in ignore mode, where every handler works on the block -1.       *)

\* The flag of the enclosing loop is not saved.
Frame_NoFlag(kind, result, cond) ==
  [kind |-> kind, result |-> result, cond |-> cond, then_block |-> None,
   og_else_block |-> None, in_else |-> FALSE, prev_while_loop |-> FALSE]

Frame(kind, result, cond) ==
  [kind |-> kind, result |-> result, cond |-> cond, then_block |-> None,
   og_else_block |-> None, in_else |-> FALSE, prev_while_loop |-> while_loop]

Top == frames[Len(frames)]
Pop == SubSeq(frames, 1, Len(frames) - 1)
Live(f) == f.cond # None

Parsing == phase \in {"function", "main"}

\* The handler reads a statement that starts at a new program point.
NextPoint == /\ Parsing
             /\ pos <= MaxStatements
             /\ pos' = pos + 1

-----------------------------------------------------------------------------
(* Statements.                                                             *)

\* let, call: the code goes to the current block.
SimpleStatement ==
  /\ NextPoint
  /\ ir' = IF ignore THEN ir ELSE add_instruction(ir, curr_block, pos)
  /\ UNCHANGED <<curr_block, ignore, while_loop, frames, entry, phase>>

\* The code after a return is compiled.
ReturnStatement_GoOn ==
  /\ NextPoint
  /\ ir' = IF ignore THEN ir
           ELSE set_branch_cond(add_instruction(ir, curr_block, pos),
                                curr_block, "RET", None)
  /\ UNCHANGED <<ignore, curr_block, while_loop, frames, entry, phase>>

ReturnStatement ==
  /\ NextPoint
  /\ ir' = IF ignore THEN ir
           ELSE set_branch_cond(add_instruction(ir, curr_block, pos),
                                curr_block, "RET", None)
  /\ ignore' = TRUE
  /\ UNCHANGED <<curr_block, while_loop, frames, entry, phase>>

\* if_statement up to "then".  A folded relation leaves no code behind.
IfThen(r) ==
  /\ NextPoint
  /\ ~ignore
  /\ LET I == set_branch_cond(add_instruction(ir, curr_block, pos),
                              curr_block, "Bcc", None)
     IN IF r = "NEITHER"
          THEN /\ ir' = new_block(I, curr_block, "IF_FALLTHROUGH")
               /\ curr_block' = I.size
          ELSE UNCHANGED <<ir, curr_block>>
  /\ frames' = Append(frames, Frame("if", r, curr_block))
  /\ ignore' = (r = "TRUE")
  /\ UNCHANGED <<while_loop, entry, phase>>

IfThenIgnored ==
  /\ NextPoint
  /\ ignore
  /\ frames' = Append(frames, Frame("if", "NEITHER", None))
  /\ UNCHANGED <<ir, curr_block, ignore, while_loop, entry, phase>>

\* No block for the else part: an edge leads from the condition to the JOIN.
ThenEnd_NoElseBlock ==
  /\ Parsing
  /\ frames # <<>> /\ Top.kind = "if" /\ ~Top.in_else
  /\ curr_block' = IF Live(Top) THEN Top.cond ELSE curr_block
  /\ frames' = [frames EXCEPT ![Len(frames)] =
       [@ EXCEPT !.in_else = TRUE,
                 !.then_block = IF Live(Top) THEN curr_block ELSE None]]
  /\ ignore' = (~Live(Top) \/ Top.result = "FALSE")
  /\ UNCHANGED <<ir, while_loop, entry, phase, pos>>

\* The end of the then part, whether "else" follows or "fi" (an empty else
\* part): if_statement makes the else block in both cases.
ThenEnd ==
  /\ Parsing
  /\ frames # <<>> /\ Top.kind = "if" /\ ~Top.in_else
  /\ LET fresh == Live(Top) /\ Top.result = "NEITHER"
     IN /\ ir' = IF fresh THEN new_block(ir, Top.cond, "IF_BRANCH") ELSE ir
        /\ curr_block' = IF fresh THEN ir.size
                         ELSE IF Live(Top) THEN Top.cond ELSE curr_block
        /\ frames' = [frames EXCEPT ![Len(frames)] =
             [@ EXCEPT !.in_else = TRUE,
                       !.then_block = IF Live(Top) THEN curr_block ELSE None,
                       !.og_else_block = IF fresh THEN ir.size ELSE None]]
  /\ ignore' = (~Live(Top) \/ Top.result = "FALSE")
  /\ UNCHANGED <<while_loop, entry, phase, pos>>

Fi ==
  /\ Parsing
  /\ frames # <<>> /\ Top.kind = "if" /\ Top.in_else
  /\ IF Live(Top)
       THEN LET end == if_end(ir, Top, curr_block)
            IN ir' = end.ir /\ curr_block' = end.curr /\ ignore' = end.returns
       ELSE UNCHANGED <<ir, curr_block>> /\ ignore' = TRUE
  /\ frames' = Pop
  /\ UNCHANGED <<while_loop, entry, phase, pos>>

\* while_statement up to "do".  The point stands for the header's PHIs and,
\* unless the relation is folded, its CMP.
WhileDo(r) ==
  /\ NextPoint
  /\ ~ignore
  /\ LET header == ir.size
         H == add_instruction(new_block(ir, curr_block, "LOOP_HEADER"), header, pos)
         I == IF r = "NEITHER" THEN set_branch_cond(H, header, "Bcc", None) ELSE H
     IN /\ ir' = IF r = "TRUE" THEN I ELSE new_block(I, header, "WHILE_FALLTHROUGH")
        /\ curr_block' = IF r = "TRUE" THEN header ELSE I.size
        /\ frames' = Append(frames, Frame("while", r, header))
  /\ ignore' = (r = "TRUE")
  /\ while_loop' = TRUE
  /\ UNCHANGED <<entry, phase>>

WhileDoIgnored ==
  /\ NextPoint
  /\ ignore
  /\ frames' = Append(frames, Frame("while", "NEITHER", None))
  /\ while_loop' = TRUE
  /\ UNCHANGED <<ir, curr_block, ignore, entry, phase>>

Od ==
  /\ Parsing
  /\ frames # <<>> /\ Top.kind = "while"
  /\ IF Live(Top)
       THEN LET end == while_end(ir, Top, curr_block)
            IN ir' = end.ir /\ curr_block' = end.curr /\ ignore' = end.returns
       ELSE UNCHANGED <<ir, curr_block>> /\ ignore' = TRUE
  /\ while_loop' = Top.prev_while_loop
  /\ frames' = Pop
  /\ UNCHANGED <<entry, phase, pos>>

-----------------------------------------------------------------------------
(* Functions and main.                                                     *)

\* new_function(): a function's entry point holds its GETPARs.
Begin(kind) ==
  /\ phase = "decl"
  /\ pos <= MaxStatements
  /\ pos' = pos + 1
  /\ ir' = add_instruction(new_function(ir), ir.size, pos)
  /\ entry' = ir.size
  /\ curr_block' = ir.size
  /\ phase' = kind
  /\ UNCHANGED <<ignore, while_loop, frames>>

\* The end of function_body: a body that can fall off its end returns.
FunctionEnd ==
  /\ phase = "function"
  /\ frames = <<>>
  /\ pos' = pos + 1
  /\ ir' = IF has_branch_instruction(ir, curr_block) THEN ir
           ELSE set_branch_cond(add_instruction(ir, curr_block, pos),
                                curr_block, "RET", None)
  /\ ignore' = FALSE
  /\ phase' = "decl"
  /\ UNCHANGED <<curr_block, while_loop, frames, entry>>

\* The end of computation(): main gets no RET, the emitter appends the exit
\* system call to its last block.
MainEnd ==
  /\ phase = "main"
  /\ frames = <<>>
  /\ phase' = "done"
  /\ ignore' = FALSE
  /\ UNCHANGED <<ir, curr_block, while_loop, frames, entry, pos>>

-----------------------------------------------------------------------------
Init ==
  /\ ir = EmptyIR
  /\ curr_block = 0
  /\ ignore = FALSE
  /\ while_loop = FALSE
  /\ frames = <<>>
  /\ entry = 0
  /\ phase = "decl"
  /\ pos = 1

Next ==
  \/ SimpleStatement
  \/ ReturnStatement
  \/ \E r \in Relation : IfThen(r)
  \/ IfThenIgnored
  \/ ThenEnd
  \/ Fi
  \/ \E r \in Relation : WhileDo(r)
  \/ WhileDoIgnored
  \/ Od
  \/ \E kind \in {"function", "main"} : Begin(kind)
  \/ FunctionEnd
  \/ MainEnd

Spec == Init /\ [][Next]_vars

-----------------------------------------------------------------------------
(* What the CodeEmitter makes of the graph.                                *)

Indices(I) == 1..(I.size - 1)
Blocks == Indices(ir)

Preds(I, b) == Range(I.blocks[b].predecessors)
Succs(I, b) == Range(I.blocks[b].successors)

\* emit_code() takes a function's blocks from one successor of the const block
\* up to the next one.
SameFunction(I, b, c) == \A e \in Succs(I, 0) : e <= b <=> e <= c

is_loop_header(I, b) == I.blocks[b].branch_block # None
is_branch_back(I, b) == I.blocks[b].loop_header # None

\* block() writes a label in front of these blocks only.
Labelled(I, b) ==
  \/ I.blocks[b].type \in {"JOIN", "IF_BRANCH", "WHILE_BRANCH"}
  \/ is_branch_back(I, b)
  \/ is_loop_header(I, b)

\* The block a branch instruction jumps to: instruction() prints larg for BRA
\* and rarg for the conditional branches.
Target(I, b) == CASE I.blocks[b].op = "BRA" -> I.blocks[b].larg
                  [] I.blocks[b].op = "Bcc" -> I.blocks[b].rarg
                  [] OTHER -> None

-----------------------------------------------------------------------------
(* Dominators, from the definition and by the algorithm in the code.       *)

Flow(b) == Succs(ir, b)
             \union (IF ir.blocks[b].op = "BRA" THEN {ir.blocks[b].larg} ELSE {})

\* The blocks that can be reached from the const block without going through d.
ReachedAvoiding(d) ==
  LET reach[k \in 0..ir.size] ==
        IF k = 0 THEN {0} \ {d}
        ELSE LET before == reach[k - 1]
             IN  before \union ((UNION {Flow(b) : b \in before}) \ {d})
  IN  reach[ir.size]

-----------------------------------------------------------------------------
(* Properties.                                                             *)

BasicBlocks ==
  [type : Blocktype, predecessors : Seq(Nat), successors : Seq(Nat),
   code : Seq(Nat), op : BranchOp, larg : Int, rarg : Int,
   will_return : BOOLEAN, branch_block : Int, loop_header : Int]

Frames ==
  [kind : {"if", "while"}, result : Relation, cond : Int, then_block : Int,
   og_else_block : Int, in_else : BOOLEAN, prev_while_loop : BOOLEAN]

IRType(I) ==
  /\ I = [size |-> I.size, blocks |-> I.blocks, doms |-> I.doms]
  /\ I.size \in Nat \ {0}
  /\ I.blocks \in [0..(I.size - 1) -> BasicBlocks]
  /\ I.doms \in [0..(I.size - 1) -> Nat]

\* Types.
TypeOK ==
  /\ IRType(ir)
  /\ curr_block \in Nat
  /\ ignore \in BOOLEAN
  /\ while_loop \in BOOLEAN
  /\ frames \in Seq(Frames)
  /\ entry \in Nat
  /\ phase \in {"decl", "function", "main", "done"}
  /\ pos \in Nat \ {0}

\* The facts about the graph that the later passes rely on without a check.
\* CodeEmitter::block needs predecessors to come first and in the same slice;
\* the recursions of RegisterAllocator and commit_while along successors, and
\* the walk of search_cse along doms, end because of the order
\* of the indices; live ranges travel over predecessors and successors alike.
GraphOK(I) ==
  /\ \A s \in Succs(I, 0) : s \in Indices(I)
  /\ \A b \in Indices(I) :
       /\ I.doms[b] < b
       /\ Preds(I, b) # {}
       /\ \A p \in Preds(I, b) :
            p < b /\ b \in Succs(I, p) /\ (p = 0 \/ SameFunction(I, p, b))
       /\ \A s \in Succs(I, b) : s \in Indices(I) /\ b < s /\ b \in Preds(I, s)

WellFormedGraph == GraphOK(ir)

\* A branch location is a block of the same function that carries a label; an
\* unknown label would assemble as a jump with displacement 0.
LocationOK(I, b, t) ==
  t = None \/ (t \in Indices(I) /\ Labelled(I, t) /\ SameFunction(I, b, t))

BranchesLabelled ==
  \A b \in Blocks : LocationOK(ir, b, Target(ir, b))

\* A branch whose location is missing belongs to a construct that is still
\* being parsed: none is left behind when the statement is complete.
BranchesComplete ==
  \A b \in Blocks :
    ir.blocks[b].op \in {"BRA", "Bcc"} /\ Target(ir, b) = None =>
      \E i \in DOMAIN frames : frames[i].cond = b

\* Code inside any loop, live or not, is parsed with while_loop set (no CSE
\* and no folding of identifiers), code outside is not.
WhileLoopFlag ==
  while_loop <=> \E i \in DOMAIN frames : frames[i].kind = "while"

\* doms holds the immediate dominators of the flow graph, back edges included,
\* at every moment search_cse() may walk it.
DomsAreDominators ==
  LET reached == {<<d, ReachedAvoiding(d)>> : d \in 0..(ir.size - 1)}
      strict(b) == {r[1] : r \in {q \in reached : b \notin q[2]}} \ {b}
  IN Parsing => \A b \in Blocks :
       /\ ir.doms[b] \in strict(b)
       /\ strict(b) = strict(ir.doms[b]) \union {ir.doms[b]}

\* Nothing is appended to a block whose branch instruction returns.
NoCodeAfterReturn ==
  [][\A b \in Blocks : ir.blocks[b].op = "RET" =>
       /\ ir'.blocks[b].code = ir.blocks[b].code
       /\ ir'.blocks[b].successors = ir.blocks[b].successors]_vars

\* A branch-back block keeps its jump to its loop header.
BackEdgeStays ==
  [][\A b \in Blocks : is_branch_back(ir, b) /\ ir.blocks[b].op = "BRA" =>
       /\ ir'.blocks[b].op = "BRA"
       /\ ir'.blocks[b].larg = ir.blocks[b].larg]_vars

=============================================================================
