------------------------------ MODULE Allocation -------------------------------
(***************************************************************************)
(* The RegisterAllocator: live ranges and registers for the instructions   *)
(* of a finished function, and the function executed on its registers.     *)
(*                                                                         *)
(* Which of the free registers an instruction gets is left open (the       *)
(* preferences only order them, and a new spill slot can always be had):   *)
(* an allocation says from which values an instruction was kept apart.     *)
(* Two values that were not kept apart may have one register, so that      *)
(* writing one of them destroys the other.                                 *)
(***************************************************************************)
EXTENDS SsaRun

VARIABLES
  alloc,   \* live_ins, death points and registers of the function
  kept,    \* the instructions whose register holds the value they had last
  lost     \* what was read from a register that did not hold it any more

alloc_vars == <<alloc, kept, lost>>

-----------------------------------------------------------------------------
(* Liveness.  live is live_ins, deaths the pairs <<instruction, number of  *)
(* the instruction it dies at>>.                                           *)

Numbers(S, b) == {S.insts[b][i].number : i \in DOMAIN S.insts[b]}

PhisAt(S, b) == {S.insts[b][i] : i \in {j \in DOMAIN S.insts[b] : S.insts[b][j].op = "PHI"}}

is_valid_instruction(n) == n # None

\* The arguments a register is needed for.
RegisterArgs(inst) ==
  {n \in {inst.larg, inst.rarg} : is_valid_instruction(n) /\ ~is_const_instruction(n)}

insert_death_point(L, n, at_) == [L EXCEPT !.deaths = @ \union {<<n, at_>>}]

propagate_live_ins(I, L, b) == UNION {L.live[s] : s \in Succs(I, b)}

\* The arguments the PHIs behind b take on the edge from b.
get_phi_liveness(I, S, b) ==
  LET back == is_branch_back(I, b)
      target == IF back THEN I.blocks[b].loop_header ELSE I.blocks[b].successors[1]
      left == ~back /\ (is_loop_header(I, target) \/ has_branch_instruction(I, b))
      args == {IF left THEN phi.larg ELSE phi.rarg : phi \in PhisAt(S, target)}
  IN IF back \/ Len(I.blocks[b].successors) = 1 THEN args \ {0} ELSE {}

\* An argument that is alive behind its use dies there all the same.
check_argument_deaths_Again(L, b, inst) ==
  [L EXCEPT !.live[b] = @ \union RegisterArgs(inst),
            !.deaths = @ \union {<<n, inst.number>> : n \in RegisterArgs(inst)}]

check_argument_deaths(L, b, inst) ==
  LET dying == RegisterArgs(inst) \ L.live[b]
  IN [L EXCEPT !.live[b] = @ \union dying,
               !.deaths = @ \union {<<n, inst.number>> : n \in dying}]

\* What an instruction computes stays alive before it.
analyze_instruction_Unborn(L, b, inst) ==
  LET noted == IF inst.number \in L.live[b] THEN L
               ELSE insert_death_point(L, inst.number, inst.number)
  IN CASE inst.op = "DELETED" -> L
       [] inst.op = "PHI" -> noted
       [] OTHER -> check_argument_deaths(noted, b, inst)

\* One instruction, against the flow: what it computes is born here, dead code
\* if nobody needs it; its arguments are alive before it.
analyze_instruction(L, b, inst) ==
  LET noted == IF inst.number \in L.live[b] THEN L
               ELSE insert_death_point(L, inst.number, inst.number)
      born == [noted EXCEPT !.live[b] = @ \ {inst.number}]
  IN CASE inst.op = "DELETED" -> L
       [] inst.op = "PHI" -> born
       [] OTHER -> check_argument_deaths(born, b, inst)

delete_deaths(L, S, blocks, alives) ==
  [L EXCEPT !.live = [b \in DOMAIN @ |-> IF b \in blocks THEN @[b] \union alives ELSE @[b]],
            !.deaths = {d \in @ : ~(d[1] \in alives
                                    /\ \E b \in blocks : d[2] \in Numbers(S, b))}]

\* Only the header learns that its live-ins outlive it.
propagate_death_deletions_Header(I, S, L, header) ==
  delete_deaths(L, S, {header}, L.live[header])

\* What is alive where a loop is entered must not die in the loop.
propagate_death_deletions(I, S, L, header) ==
  LET succs == I.blocks[header].successors
      fall_through == IF I.blocks[succs[1]].type = "WHILE_FALLTHROUGH"
                        THEN succs[1] ELSE succs[2]
  IN delete_deaths(L, S, {header} \union Reached(I, fall_through), L.live[header])

analyze_block(I, S, L, b) ==
  LET start == [L EXCEPT !.live[b] = propagate_live_ins(I, L, b)
                                       \union get_phi_liveness(I, S, b)]
      done == FoldRight(LAMBDA inst, M : analyze_instruction(M, b, inst),
                        S.insts[b], start)
  IN IF is_loop_header(I, b) THEN propagate_death_deletions(I, S, done, b) ELSE done

\* Every block after its successors.  Passes shows that the recursion comes to
\* all of them; in which order it does makes no difference.
liveness_analysis(I, S) ==
  FoldRight(LAMBDA b, L : analyze_block(I, S, L, b),
            [b \in Indices(I) |-> b],
            [live |-> [b \in 0..(I.size - 1) |-> {}], deaths |-> {}])

-----------------------------------------------------------------------------
(* Coloring.  C.occupied are the instructions whose registers are taken,   *)
(* C.apart the instructions that had theirs when one got its own.          *)

has_death_point(L, n, at_) == <<n, at_>> \in L.deaths

get_register(C, n) == [C EXCEPT !.apart = @ @@ (n :> C.occupied)]

Occupies(C, n) == [C EXCEPT !.occupied = @ \union {n}]

NeedsRegister(inst) == inst.op \in {"GETPAR", "READ", "JSR", "ADD"}

color_instruction(L, C, inst) ==
  LET dying == {n \in {inst.larg, inst.rarg} : has_death_point(L, n, inst.number)}
      free == [C EXCEPT !.occupied = @ \ dying]
      born == get_register(free, inst.number)
      dead == has_death_point(L, inst.number, inst.number)
  IN CASE inst.op \in {"DELETED", "PHI"} -> C
       [] inst.op \in {"CMP", "WRITE", "SETPAR"} -> free
       [] NeedsRegister(inst) -> IF dead THEN born ELSE Occupies(born, inst.number)

color_phi(C, inst) ==
  IF inst.op = "PHI" THEN Occupies(get_register(C, inst.number), inst.number) ELSE C

\* The registers of the values that are live at the beginning count as free.
color_block_Free(S, L, apart, b) ==
  LET phis == FoldLeft(color_phi, [occupied |-> {}, apart |-> apart], S.insts[b])
  IN FoldLeft(LAMBDA C, inst : color_instruction(L, C, inst), phis, S.insts[b]).apart

color_block(S, L, apart, b) ==
  LET phis == FoldLeft(color_phi, [occupied |-> L.live[b], apart |-> apart], S.insts[b])
  IN FoldLeft(LAMBDA C, inst : color_instruction(L, C, inst), phis, S.insts[b]).apart

color_ir(I, S, L) ==
  FoldLeft(LAMBDA apart, b : color_block(S, L, apart, b),
           <<>>, [b \in Indices(I) |-> b])

allocate_registers(I, S) ==
  LET L == liveness_analysis(I, S)
  IN [live |-> L.live, deaths |-> L.deaths, apart |-> color_ir(I, S, L)]

Unallocated == [live |-> <<>>, deaths |-> {}, apart |-> <<>>]

-----------------------------------------------------------------------------
(* Execution on the registers.                                             *)

\* The instructions whose value is gone when n is written.
Shares(n) ==
  {m \in DOMAIN alloc.apart \ {n} :
     n \in DOMAIN alloc.apart => m \notin alloc.apart[n] /\ n \notin alloc.apart[m]}

Reads(R, args, what) ==
  [R EXCEPT !.lost = IF args \subseteq R.kept THEN @ ELSE @ \union {what}]

Overwrites(R, ns) ==
  [R EXCEPT !.kept = (@ \union ns) \ UNION {Shares(n) : n \in ns}]

ExecuteOnRegisters(R, inst) ==
  CASE inst.op \in {"PHI", "DELETED"} -> R
    [] NeedsRegister(inst) ->
         Overwrites(Reads(R, RegisterArgs(inst), "argument"), {inst.number})
    [] OTHER -> Reads(R, RegisterArgs(inst), "argument")

\* The copies for the PHIs of b on the edge from pred act as one (PhiCopies).
CopiesOnRegisters(R, b, pred) ==
  LET args == {PhiArgument(phi, b, pred) : phi \in PhisAt(ssa, b)}
  IN Overwrites(Reads(R, args \ {0}, "copy"), {phi.number : phi \in PhisAt(ssa, b)})

RegistersBlock(b, pred) ==
  LET before == CopiesOnRegisters([kept |-> kept, lost |-> lost], b, pred)
      done == FoldLeft(ExecuteOnRegisters, before, ssa.insts[b])
  IN Reads(done, {ssa.result[b]} \ {None, 0}, "result")

-----------------------------------------------------------------------------
AInit == RInit /\ alloc = Unallocated /\ kept = {} /\ lost = {}

ACompile ==
  /\ Compile
  /\ alloc' = IF phase' = "decl" THEN allocate_registers(ir', ssa') ELSE Unallocated
  /\ UNCHANGED <<kept, lost>>

ARunBlock ==
  /\ RunBlock
  /\ LET R == RegistersBlock(at, from) IN kept' = R.kept /\ lost' = R.lost
  /\ UNCHANGED alloc

ANext == ACompile \/ ARunBlock

ASpec == AInit /\ [][ANext]_<<all_vars, ssa_vars, run_vars, alloc_vars>>

-----------------------------------------------------------------------------
(* Properties.                                                             *)

\* A loop that is never entered: the allocator does not know its header.
SkippedLoop == \E b \in Blocks : ir.blocks[b].type = "INVALID" /\ ~is_loop_header(ir, b)

\* color_block finds a register for every value that is live at the beginning of
\* a block: the value was computed in a block above it.
LiveInsHaveRegisters ==
  Complete /\ ~SkippedLoop =>
    \A b \in Blocks : \A n \in alloc.live[b] :
      n \in DOMAIN alloc.apart /\ AtEnd(ir.doms[b], n)

\* No two values that are live at the beginning of a block have one register, so
\* that the death of one of them never frees the register of another.
LiveInsApart ==
  Complete /\ ~SkippedLoop =>
    \A b \in Blocks : \A m, n \in alloc.live[b] \intersect DOMAIN alloc.apart :
      m # n => m \in alloc.apart[n] \/ n \in alloc.apart[m]

\* On every way through the function an instruction, or a copy for a PHI, finds
\* its arguments in their registers, whatever free registers were chosen.
ArgumentsInRegisters == ~SkippedLoop => lost \intersect {"argument", "copy"} = {}

\* "Check to see if it was alive before this - if it wasn't, it is considered
\* dead code": a value that is returned is not dead code.
ResultInRegister == ~SkippedLoop => "result" \notin lost

=============================================================================
