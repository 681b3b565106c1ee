------------------------------- MODULE Passes --------------------------------
(***************************************************************************)
(* The passes after the Parser, as far as they walk the block graph: the   *)
(* liveness analysis and the coloring of the RegisterAllocator, which are  *)
(* recursions that refuse a block when its neighbours are not ready, and   *)
(* the emission, which refuses a block for good.                           *)
(*                                                                         *)
(* The calls that are still to be made are the sequence "todo": a          *)
(* recursive call puts its own calls in front.  What a block holds is left *)
(* out but for its PHIs.  PHIs are copied on the edges into their block,   *)
(* the left argument on one edge and the right argument on the other; both *)
(* passes work out which from the shape of the graph.                      *)
(*                                                                         *)
(* The definitions named X_... in front of a definition X are faulty       *)
(* variants of it: putting one in the place of X must break a property.    *)
(***************************************************************************)
EXTENDS ControlFlow

VARIABLES
  pass,      \* the pass that is running
  todo,      \* the calls of its recursion that are still to be made
  index,     \* the next block of the loop in liveness_analysis()
  analyzed,  \* the blocks with their live_ins
  alive,     \* the PHI arguments made live at a block's end:
             \* <<block, block of the PHIs, side>>
  colored,   \* the blocks with their registers assigned
  copies,    \* the calls of insert_phi_copies: <<block, block of the PHIs, side>>
  text       \* the blocks in the order they are emitted

pass_vars == <<pass, todo, index, analyzed, alive, colored, copies, text>>
all_vars == <<vars, pass_vars>>

PassesInit ==
  /\ Init
  /\ pass = "parse"
  /\ todo = <<>> /\ index = 1 /\ text = <<>> /\ copies = <<>>
  /\ analyzed = {} /\ alive = {} /\ colored = {}

Parse == pass = "parse" /\ Next /\ UNCHANGED pass_vars

has_one_successor(b) == Len(ir.blocks[b].successors) = 1
OnlySuccessor(b) == ir.blocks[b].successors[1]

-----------------------------------------------------------------------------
(* RegisterAllocator::liveness_analysis: from the ends of the functions    *)
(* against the flow.                                                       *)

StartLiveness ==
  /\ pass = "parse" /\ phase = "done"
  /\ pass' = "liveness"
  /\ UNCHANGED <<vars, todo, index, analyzed, alive, colored, copies, text>>

\* The loop goes on to the next block without successors.
liveness_analysis ==
  /\ pass = "liveness" /\ todo = <<>> /\ index < ir.size
  /\ todo' = IF Succs(ir, index) = {} THEN <<index>> ELSE <<>>
  /\ index' = index + 1
  /\ UNCHANGED <<vars, pass, analyzed, alive, colored, copies, text>>

\* Whatever the block ends with, the arguments on the right.
get_phi_liveness_Right(b) ==
  IF is_branch_back(ir, b) THEN {<<b, ir.blocks[b].loop_header, "right">>}
  ELSE IF ~has_one_successor(b) THEN {}
  ELSE {<<b, OnlySuccessor(b),
          IF is_loop_header(ir, OnlySuccessor(b)) THEN "left" ELSE "right">>}

\* The arguments analyze_block() makes live at the end of b.
get_phi_liveness(b) ==
  IF is_branch_back(ir, b) THEN {<<b, ir.blocks[b].loop_header, "right">>}
  ELSE IF ~has_one_successor(b) THEN {}
  ELSE {<<b, OnlySuccessor(b),
          IF is_loop_header(ir, OnlySuccessor(b)) \/ has_branch_instruction(ir, b)
            THEN "left" ELSE "right">>}

\* A block that is analyzed, or that has a successor that is not.
analyze_refused(b) ==
  b \in analyzed \/ b = 0 \/ ~(Succs(ir, b) \subseteq analyzed)

SkipAnalysis ==
  /\ pass = "liveness" /\ todo # <<>> /\ analyze_refused(Head(todo))
  /\ todo' = Tail(todo)
  /\ UNCHANGED <<vars, pass, index, analyzed, alive, colored, copies, text>>

\* The recursion follows one predecessor.
analyze_block_OnePredecessor ==
  /\ pass = "liveness" /\ todo # <<>> /\ ~analyze_refused(Head(todo))
  /\ LET b == Head(todo)
     IN /\ analyzed' = analyzed \union {b}
        /\ alive' = alive \union get_phi_liveness(b)
        /\ todo' = <<ir.blocks[b].predecessors[1]>> \o Tail(todo)
  /\ UNCHANGED <<vars, pass, index, colored, copies, text>>

analyze_block ==
  /\ pass = "liveness" /\ todo # <<>> /\ ~analyze_refused(Head(todo))
  /\ LET b == Head(todo)
     IN /\ analyzed' = analyzed \union {b}
        /\ alive' = alive \union get_phi_liveness(b)
        /\ todo' = ir.blocks[b].predecessors \o Tail(todo)
  /\ UNCHANGED <<vars, pass, index, colored, copies, text>>

-----------------------------------------------------------------------------
(* RegisterAllocator::color_ir: every function from its entry with the     *)
(* flow, a block after its immediate dominator.                            *)

StartColoring ==
  /\ pass = "liveness" /\ todo = <<>> /\ index = ir.size
  /\ pass' = "coloring"
  /\ colored' = {0}
  /\ todo' = ir.blocks[0].successors
  /\ UNCHANGED <<vars, index, analyzed, alive, copies, text>>

\* implement_phi_copies(): the copies at the end of b for the PHIs of c.
implement_phi_copies(b, c) ==
  LET back == ir.blocks[c].branch_block = b /\ ir.blocks[b].loop_header = c
      into_loop == is_loop_header(ir, c) /\ ir.blocks[b].successors = <<c>>
  IN  <<b, c, IF ~back /\ (into_loop \/ has_branch_instruction(ir, b))
                THEN "left" ELSE "right">>

color_refused(b) == ir.doms[b] \notin colored \/ b \in colored

SkipColoring ==
  /\ pass = "coloring" /\ todo # <<>> /\ color_refused(Head(todo))
  /\ todo' = Tail(todo)
  /\ UNCHANGED <<vars, pass, index, analyzed, alive, colored, copies, text>>

\* The blocks of q that are in done, in their order.
Among(q, done) ==
  LET among[i \in 0..Len(q)] ==
        IF i = 0 THEN <<>>
        ELSE IF q[i] \in done THEN Append(among[i - 1], q[i]) ELSE among[i - 1]
  IN  among[Len(q)]

\* No copies for a successor that was colored first.
PhiCopies_NoSuccessors(b, done) ==
  LET into(p) == implement_phi_copies(p, b)
      colored_preds == Among(ir.blocks[b].predecessors, done)
  IN  (IF is_branch_back(ir, b)
         THEN <<implement_phi_copies(b, ir.blocks[b].loop_header)>> ELSE <<>>)
      \o [i \in DOMAIN colored_preds |-> into(colored_preds[i])]

\* The calls of implement_phi_copies() when b has got its registers: for its
\* loop, for the predecessors and for the successors that have theirs.
PhiCopies(b, done) ==
  LET into(p) == implement_phi_copies(p, b)
      out_of(s) == implement_phi_copies(b, s)
      colored_preds == Among(ir.blocks[b].predecessors, done)
      colored_succs == Among(ir.blocks[b].successors, done)
  IN  (IF is_branch_back(ir, b)
         THEN <<implement_phi_copies(b, ir.blocks[b].loop_header)>> ELSE <<>>)
      \o [i \in DOMAIN colored_preds |-> into(colored_preds[i])]
      \o [i \in DOMAIN colored_succs |-> out_of(colored_succs[i])]

\* The recursion does not go on behind a block with two successors.
color_block_OneWay ==
  /\ pass = "coloring" /\ todo # <<>> /\ ~color_refused(Head(todo))
  /\ LET b == Head(todo)
     IN /\ colored' = colored \union {b}
        /\ copies' = copies \o PhiCopies(b, colored')
        /\ LET succs == ir.blocks[b].successors
           IN  todo' = SelectSeq(succs, LAMBDA s : s = succs[1]) \o Tail(todo)
  /\ UNCHANGED <<vars, pass, index, analyzed, alive, text>>

color_block ==
  /\ pass = "coloring" /\ todo # <<>> /\ ~color_refused(Head(todo))
  /\ LET b == Head(todo)
     IN /\ colored' = colored \union {b}
        /\ copies' = copies \o PhiCopies(b, colored')
        /\ todo' = ir.blocks[b].successors \o Tail(todo)
  /\ UNCHANGED <<vars, pass, index, analyzed, alive, text>>

-----------------------------------------------------------------------------
(* CodeEmitter::emit_code: the blocks of main, which are the last ones,    *)
(* then those of the functions.                                            *)

\* The blocks of main start at "entry", the last function's first block.
EmissionOrder ==
  LET main_blocks == ir.size - entry
  IN  [i \in Blocks |-> IF i <= main_blocks THEN entry + i - 1 ELSE i - main_blocks]

StartEmission ==
  /\ pass = "coloring" /\ todo = <<>>
  /\ pass' = "emission"
  /\ todo' = EmissionOrder
  /\ UNCHANGED <<vars, index, analyzed, alive, colored, copies, text>>

\* block(): nothing is written for a block with a predecessor that is not
\* emitted yet, and nobody comes back to it.  The const block does not count.
block ==
  /\ pass = "emission" /\ todo # <<>>
  /\ LET b == Head(todo)
     IN text' = IF Preds(ir, b) \ {0} \subseteq Range(text)
                  THEN Append(text, b) ELSE text
  /\ todo' = Tail(todo)
  /\ UNCHANGED <<vars, pass, index, analyzed, alive, colored, copies>>

Finish ==
  /\ pass = "emission" /\ todo = <<>>
  /\ pass' = "done"
  /\ UNCHANGED <<vars, todo, index, analyzed, alive, colored, copies, text>>

PassesNext ==
  \/ Parse
  \/ StartLiveness \/ liveness_analysis \/ SkipAnalysis \/ analyze_block
  \/ StartColoring \/ SkipColoring \/ color_block
  \/ StartEmission \/ block \/ Finish

PassesSpec == PassesInit /\ [][PassesNext]_all_vars

-----------------------------------------------------------------------------
(* Properties.                                                             *)

\* The block got code or successors after a loop without an end, or after a
\* return, had finished it: what the runs on BackEdgeStays and on
\* IgnoreIffUnreachable show the Parser do.
Overrun(b) ==
  \/ is_branch_back(ir, b)
       /\ (ir.blocks[b].successors # <<>>
             \/ ir.blocks[ir.blocks[b].loop_header].branch_block # b)
  \/ Len(ir.blocks[b].successors) > (IF ir.blocks[b].op = "Bcc" THEN 2 ELSE 1)

\* The JOINs and loop headers none of whose edges starts in such a block.
Joins ==
  {b \in Blocks : ir.blocks[b].type = "JOIN"
                   /\ \A p \in Preds(ir, b) : ~Overrun(p)}

ClosedLoops ==
  {b \in Blocks : is_loop_header(ir, b)
     /\ ir.blocks[ir.blocks[b].branch_block].loop_header = b
     /\ \A p \in Preds(ir, b) \union {ir.blocks[b].branch_block} : ~Overrun(p)}

\* The edges PHIs are copied on, by the order of the arguments: in a JOIN the
\* left one comes from the first predecessor, in a loop header from before the
\* loop and the right one from the branch-back block.
PhiEdges ==
  LET first(b) == <<ir.blocks[b].predecessors[1], b, "left">>
      second(b) == <<ir.blocks[b].predecessors[2], b, "right">>
      back(b) == <<ir.blocks[b].branch_block, b, "right">>
  IN  {first(b) : b \in Joins \union ClosedLoops}
      \union {second(b) : b \in Joins} \union {back(b) : b \in ClosedLoops}

PhiBlocks == {e[2] : e \in PhiEdges}

\* No recursion leaves a block out although each of them gives up at a block
\* whose neighbours are not ready: liveness reaches all blocks, coloring reaches
\* all blocks, and every block is emitted.
EveryBlockAnalyzed == pass \in {"coloring", "emission", "done"} => analyzed = Blocks
EveryBlockColored == pass \in {"emission", "done"} => colored = Blocks \union {0}
EveryBlockEmitted == pass = "done" => Range(text) = Blocks

\* insert_phi_copies() runs exactly once for each edge into a block with PHIs,
\* in whatever order the two ends were colored, and takes the arguments that
\* belong to that edge.
EdgesCopiedOnce ==
  pass \in {"emission", "done"} =>
    /\ \A c \in Range(copies) : c[2] \in PhiBlocks => c \in PhiEdges
    /\ \A e \in PhiEdges : \E i \in DOMAIN copies :
         \A j \in DOMAIN copies : copies[j] = e <=> j = i

\* The arguments the copies of an edge read are the ones the liveness analysis
\* kept alive up to the end of the block they are inserted in.
CopiedArgumentsAlive ==
  pass \in {"emission", "done"} =>
    {c \in Range(copies) : c[2] \in PhiBlocks} \subseteq alive

\* Copies are put in blocks that lead nowhere but to the block of the PHIs: on
\* no other way can they destroy a value.
CopiesOnWayOnly ==
  pass \in {"emission", "done"} =>
    \A c \in Range(copies) : c[2] \in PhiBlocks /\ ~will_return(ir, c[1]) =>
      Flow(c[1]) = {c[2]}

=============================================================================
