------------------------------- MODULE SsaRun ---------------------------------
(***************************************************************************)
(* The compiled function run against its source.  Once the Parser is done  *)
(* execution goes from block to block, the same way for both: the source   *)
(* executes the statements whose code a block holds on its variables, the  *)
(* IR the block's instructions on their numbers.  That the blocks hold the *)
(* right statements in the right order is what CompileFlow checks.         *)
(*                                                                         *)
(* Values are symbolic: 0, an input <<k>> (an argument or what the k-th    *)
(* read or call returns), or a sum of two values.  A branch may go either  *)
(* way.                                                                    *)
(***************************************************************************)
EXTENDS Ssa

CONSTANT MaxBlocks   \* bound on the blocks of one execution
ASSUME MaxBlocksAssumption == MaxBlocks \in Nat

VARIABLES
  at,       \* the block that is executed next, 0 before and after
  from,     \* the block executed before it
  steps,    \* the number of blocks executed
  source,   \* the variables of the source and what its last block did
  machine   \* the values of the instructions, and what they last did

run_vars == <<at, from, steps, source, machine>>

Zero == <<>>
Input(k) == <<k>>
Plus(v, w) == IF v = Zero /\ w = Zero THEN Zero ELSE <<v, w>>

\* The value of an instruction that has not been executed.
Garbage == <<-1>>

\* out: what the block wrote, passed to functions, compared and returned.
Machine(vals) == [vals |-> vals, inputs |-> 0, out |-> <<>>]

-----------------------------------------------------------------------------
(* The source.                                                             *)

Evaluate(s, e) ==
  CASE e.op = "CONST" -> Zero
    [] e.op = "IDENT" -> s.vals[e.args[1]]
    [] e.op \in {"READ", "CALL"} -> Input(s.inputs + 1)
    [] e.op = "ADD" -> Plus(s.vals[e.args[1]], s.vals[e.args[2]])

\* An argument is passed before anything else happens in a statement.
Passed(s, e) == IF e.op = "CALL" THEN [s EXCEPT !.out = Append(@, s.vals[e.args[1]])] ELSE s

Statement(before, k) ==
  LET t == text[k]
      s == Passed(before, t.expr)
      inputs == IF t.expr.op \in {"READ", "CALL"} THEN s.inputs + 1 ELSE s.inputs
  IN CASE t.kind = "begin" ->
            [s EXCEPT !.inputs = NumParams,
                      !.vals = [x \in Idents |-> IF x <= NumParams THEN Input(x) ELSE Zero]]
       [] t.kind = "let" ->
            [s EXCEPT !.inputs = inputs, !.vals[t.ident] = Evaluate(s, t.expr)]
       [] t.kind \in {"write", "cond", "return"} /\ t.expr # Nothing ->
            [s EXCEPT !.inputs = inputs, !.out = Append(@, Evaluate(s, t.expr))]
       [] OTHER -> s

SourceBlock(s, b) ==
  FoldLeft(Statement, [s EXCEPT !.out = <<>>], ir.blocks[b].code)

-----------------------------------------------------------------------------
(* The IR.                                                                 *)

ValueOf(m, n) == CASE n = 0 -> Zero
                   [] n # 0 /\ n \in DOMAIN m.vals -> m.vals[n]
                   [] OTHER -> Garbage

Sets(m, n, v) == [m EXCEPT !.vals = (n :> v) @@ @]

\* The argument of a PHI of b on the edge from pred.
PhiArgument(phi, b, pred) ==
  LET back == is_loop_header(ir, b) /\ pred = ir.blocks[b].branch_block
      right == back \/ (Len(ir.blocks[b].predecessors) = 2
                        /\ pred = ir.blocks[b].predecessors[2])
  IN IF right THEN phi.rarg ELSE phi.larg

\* The PHIs of a block all read their arguments before one of them is written.
PhisOf(m, b, pred) ==
  LET phis == {i \in DOMAIN ssa.insts[b] : ssa.insts[b][i].op = "PHI"}
      phi(n) == ssa.insts[b][CHOOSE i \in phis : ssa.insts[b][i].number = n]
  IN [m EXCEPT !.vals = [n \in {ssa.insts[b][i].number : i \in phis} |->
                           ValueOf(m, PhiArgument(phi(n), b, pred))] @@ @]

\* GETPAR pops the arguments, the last one first.
Execute(m, inst) ==
  CASE inst.op = "GETPAR" ->
         Sets([m EXCEPT !.inputs = @ + 1], inst.number, Input(NumParams - m.inputs))
    [] inst.op \in {"READ", "JSR"} ->
         Sets([m EXCEPT !.inputs = @ + 1], inst.number, Input(m.inputs + 1))
    [] inst.op = "ADD" ->
         Sets(m, inst.number, Plus(ValueOf(m, inst.larg), ValueOf(m, inst.rarg)))
    [] inst.op \in {"CMP", "WRITE", "SETPAR"} ->
         [m EXCEPT !.out = Append(@, ValueOf(m, inst.larg))]
    [] inst.op \in {"PHI", "DELETED"} -> m

MachineBlock(m, b, pred) ==
  LET done == FoldLeft(Execute, PhisOf([m EXCEPT !.out = <<>>], b, pred), ssa.insts[b])
  IN IF ssa.result[b] = None THEN done
     ELSE [done EXCEPT !.out = Append(@, ValueOf(done, ssa.result[b]))]

-----------------------------------------------------------------------------
RInit == /\ SInit
         /\ at = 0 /\ from = 0 /\ steps = 0
         /\ source = Machine([x \in Idents |-> Zero])
         /\ machine = Machine(<<>>)

Compile ==
  /\ SNext
  /\ at' = IF phase' = "decl" THEN entry ELSE 0
  /\ UNCHANGED <<from, steps, source, machine>>

RunBlock ==
  /\ at # 0
  /\ steps < MaxBlocks
  /\ steps' = steps + 1
  /\ source' = SourceBlock(source, at)
  /\ machine' = MachineBlock(machine, at, from)
  /\ from' = at
  /\ at' \in IF ir.blocks[at].op = "RET" THEN {0}
             ELSE {n[2] : n \in NextBlocks(at, GraphFall(at))}
  /\ UNCHANGED <<all_vars, ssa_vars>>

RNext == Compile \/ RunBlock

RSpec == RInit /\ [][RNext]_<<all_vars, ssa_vars, run_vars>>

-----------------------------------------------------------------------------
(* Properties.                                                             *)

\* What a block of the IR compares, writes and returns are the values its
\* statements have in the source, on every way through the function.
SameBehaviour == source.out = machine.out /\ source.inputs = machine.inputs

=============================================================================
