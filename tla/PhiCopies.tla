------------------------------ MODULE PhiCopies ------------------------------
(***************************************************************************)
(* RegisterAllocator::insert_phi_copies: the MOVs and SWAPs that replace   *)
(* the PHIs of a block on one of the edges into it.  The PHIs must act as  *)
(* one parallel copy (module ParallelCopy), the code is sequential: first  *)
(* MOVs into locations whose value nobody needs any more, then SWAPs along *)
(* the cycles that remain, then the constants.                             *)
(*                                                                         *)
(* The loops of the function are the actions.  Every instruction they add  *)
(* to the block takes its effect on "store" at once: what is in "store" at *)
(* the end is what the inserted code leaves when it runs.                  *)
(*                                                                         *)
(* The definitions named X_... in front of a definition X are faulty       *)
(* variants of it: putting one in the place of X must break a property.    *)
(***************************************************************************)
EXTENDS Integers, Sequences, FiniteSets, SequencesExt

CONSTANTS
  Reg,      \* machine registers
  Slot,     \* spill slots in the stack frame
  Const,    \* constants, and the undefined instruction 0
  MaxPhis   \* bound on the PHIs of one block

ASSUME LocationsAssumption ==
  /\ IsFiniteSet(Reg) /\ IsFiniteSet(Slot)
  /\ Reg \intersect Slot = {}
  /\ Const \intersect (Reg \union Slot) = {}
ASSUME MaxPhisAssumption == MaxPhis \in Nat

VARIABLES
  phis,        \* the PHIs by instruction number: assigned register, argument
  mov_instructs,  \* for the PHIs that still wait for a MOV or SWAP, the source
  to_out_degree,  \* how many of them each location is the source of
  queue,       \* zero_out_degree_instructions
  const_movs,  \* the PHIs that wait for a constant
  to, from, end,  \* the locals of the SWAP loop
  step,        \* the loop the function is in
  store        \* the value in every location, as in ParallelCopy

vars == <<phis, mov_instructs, to_out_degree, queue, const_movs, to, from, end,
          step, store>>

Loc == Reg \union Slot

\* The number no PHI has: what reg_map[] returns for a register it lacks.
Zero == 0

Phi == [reg : Loc, arg : Loc \union Const]

Pending == DOMAIN mov_instructs
Without(done) == [j \in Pending \ done |-> mov_instructs[j]]

\* The PHIs a MOV or SWAP is needed for.
Moved == {i \in DOMAIN phis : phis[i].arg \in Loc \ {phis[i].reg}}

reg_map(r) ==
  IF \E i \in Moved : phis[i].reg = r
    THEN CHOOSE i \in Moved : phis[i].reg = r ELSE Zero

-----------------------------------------------------------------------------
(* What the emitted instructions do.                                       *)

\* mov_instruction() takes %r11 between two spill slots.
Mov(dest, src) ==
  [store EXCEPT ![dest] = IF src \in Loc THEN store[src] ELSE src]

\* mov a, %r11; mov b, a; mov %r11, b.  No encoding of mov has two memory
\* operands: the assembler writes no bytes for the second instruction then.
Swap(a, b) ==
  [store EXCEPT ![a] = IF {a, b} \subseteq Slot THEN store[a] ELSE store[b],
                ![b] = store[a]]

-----------------------------------------------------------------------------
\* The PHIs of one block have different registers.
Init ==
  /\ \E n \in 0..MaxPhis : phis \in [1..n -> Phi]
  /\ \A i, j \in DOMAIN phis : phis[i].reg = phis[j].reg => i = j
  /\ mov_instructs = <<>>
  /\ to_out_degree = [l \in Loc |-> 0]
  /\ queue = <<>>
  /\ const_movs = {}
  /\ to = Zero /\ from = Zero /\ end = Zero
  /\ step = "collect"
  /\ store = [l \in Loc |-> l]

\* The queue before the first MOV: the PHIs whose location nobody reads, in
\* the order of their numbers.
QueueFilled(degree) ==
  /\ queue' \in SetToSeqs({i \in Moved : degree[phis[i].reg] = 0})
  /\ \A a, b \in DOMAIN queue' : a < b => queue'[a] < queue'[b]

\* The sources are not counted.
Collect_NoCount ==
  /\ step = "collect"
  /\ mov_instructs' = [i \in Moved |-> phis[i].arg]
  /\ to_out_degree' = [l \in Loc |-> 0]
  /\ const_movs' = {i \in DOMAIN phis : phis[i].arg \in Const}
  /\ QueueFilled(to_out_degree')
  /\ step' = "mov"
  /\ UNCHANGED <<phis, to, from, end, store>>

Collect ==
  /\ step = "collect"
  /\ mov_instructs' = [i \in Moved |-> phis[i].arg]
  /\ to_out_degree' = [l \in Loc |-> Cardinality({i \in Moved : phis[i].arg = l})]
  /\ const_movs' = {i \in DOMAIN phis : phis[i].arg \in Const}
  /\ QueueFilled(to_out_degree')
  /\ step' = "mov"
  /\ UNCHANGED <<phis, to, from, end, store>>

\* A location that becomes free is not queued.
MovNext_NoPush ==
  /\ step = "mov" /\ queue # <<>>
  /\ LET i == Head(queue)
         source == mov_instructs[i]
     IN IF i \in Pending
          THEN /\ store' = Mov(phis[i].reg, source)
               /\ to_out_degree' = [to_out_degree EXCEPT ![source] = @ - 1]
               /\ mov_instructs' = Without({i})
          ELSE UNCHANGED <<store, to_out_degree, mov_instructs>>
  /\ queue' = Tail(queue)
  /\ UNCHANGED <<phis, const_movs, to, from, end, step>>

\* A location is queued while another PHI still reads it.
MovNext_TooEarly ==
  /\ step = "mov" /\ queue # <<>>
  /\ LET i == Head(queue)
         source == mov_instructs[i]
     IN IF i \in Pending
          THEN /\ store' = Mov(phis[i].reg, source)
               /\ to_out_degree' = [to_out_degree EXCEPT ![source] = @ - 1]
               /\ mov_instructs' = Without({i})
               /\ queue' = Append(Tail(queue), reg_map(source))
          ELSE /\ queue' = Tail(queue)
               /\ UNCHANGED <<store, to_out_degree, mov_instructs>>
  /\ UNCHANGED <<phis, const_movs, to, from, end, step>>

\* Step 1 of the function.
MovNext ==
  /\ step = "mov" /\ queue # <<>>
  /\ LET i == Head(queue)
         source == mov_instructs[i]
     IN IF i \in Pending
          THEN /\ store' = Mov(phis[i].reg, source)
               /\ to_out_degree' = [to_out_degree EXCEPT ![source] = @ - 1]
               /\ mov_instructs' = Without({i})
               /\ queue' = IF to_out_degree'[source] = 0
                             THEN Append(Tail(queue), reg_map(source))
                             ELSE Tail(queue)
          ELSE /\ queue' = Tail(queue)
               /\ UNCHANGED <<store, to_out_degree, mov_instructs>>
  /\ UNCHANGED <<phis, const_movs, to, from, end, step>>

\* Step 2: the next cycle, from its PHI with the smallest number.
CycleStart ==
  /\ step = "mov" /\ queue = <<>> /\ Pending # {}
  /\ to' = CHOOSE i \in Pending : \A j \in Pending : i <= j
  /\ from' = mov_instructs[to']
  /\ end' = phis[to'].reg
  /\ step' = "swap"
  /\ UNCHANGED <<phis, mov_instructs, to_out_degree, queue, const_movs, store>>

\* The end of the cycle is recognised but its last PHI stays.
SwapNext_KeepLast ==
  /\ step = "swap"
  /\ store' = Swap(phis[to].reg, from)
  /\ mov_instructs' = Without({to})
  /\ to' = reg_map(from)
  /\ IF to' \notin Pending \ {to}
       THEN step' = "undefined" /\ UNCHANGED from
       ELSE /\ from' = mov_instructs[to']
            /\ step' = IF from' = end THEN "mov" ELSE "swap"
  /\ UNCHANGED <<phis, to_out_degree, queue, const_movs, end>>

\* find(to)->second of a PHI that is not there is undefined.
SwapNext ==
  /\ step = "swap"
  /\ store' = Swap(phis[to].reg, from)
  /\ to' = reg_map(from)
  /\ IF to' \notin Pending \ {to}
       THEN /\ step' = "undefined"
            /\ mov_instructs' = Without({to})
            /\ UNCHANGED from
       ELSE /\ from' = mov_instructs[to']
            /\ IF from' = end
                 THEN step' = "mov" /\ mov_instructs' = Without({to, to'})
                 ELSE step' = "swap" /\ mov_instructs' = Without({to})
  /\ UNCHANGED <<phis, to_out_degree, queue, const_movs, end>>

\* Step 3.
ConstStart ==
  /\ step = "mov" /\ queue = <<>> /\ Pending = {}
  /\ step' = IF const_movs = {} THEN "done" ELSE "const"
  /\ UNCHANGED <<phis, mov_instructs, to_out_degree, queue, const_movs, to, from,
                 end, store>>

\* One constant of const_movs, whatever the order of the PHIs in the block.
ConstNext ==
  /\ step = "const"
  /\ \E i \in const_movs :
       /\ store' = Mov(phis[i].reg, phis[i].arg)
       /\ const_movs' = const_movs \ {i}
  /\ step' = IF const_movs' = {} THEN "done" ELSE "const"
  /\ UNCHANGED <<phis, mov_instructs, to_out_degree, queue, to, from, end>>

Next == Collect \/ MovNext \/ CycleStart \/ SwapNext \/ ConstStart \/ ConstNext

\* The function is sequential code: it goes on as long as it can.
Spec == Init /\ [][Next]_vars /\ WF_vars(Next)

-----------------------------------------------------------------------------
(* Properties.                                                             *)

\* Types.
TypeOK ==
  /\ phis \in Seq(Phi) /\ Len(phis) <= MaxPhis
  /\ Pending \subseteq DOMAIN phis /\ mov_instructs \in [Pending -> Loc]
  /\ to_out_degree \in [Loc -> Nat]
  /\ queue \in Seq(DOMAIN phis \union {Zero})
  /\ const_movs \subseteq DOMAIN phis
  /\ to \in DOMAIN phis \union {Zero}
  /\ from \in Loc \union {Zero} /\ end \in Loc \union {Zero}
  /\ step \in {"collect", "mov", "swap", "const", "done", "undefined"}
  /\ store \in [Loc -> Loc \union Const]

\* When the MOVs are through, what is left are disjoint cycles: the sources
\* are the targets, each of them once.  The SWAP loop looks nothing up in vain.
OnlyCyclesLeft ==
  step = "mov" /\ queue = <<>> =>
    /\ {phis[i].reg : i \in Pending} = {mov_instructs[i] : i \in Pending}
    /\ \A i, j \in Pending : mov_instructs[i] = mov_instructs[j] => i = j

\* Read and written all at once, in the end: the sequential code implements the
\* parallel copy.
Promised == INSTANCE ParallelCopy WITH
  copies <- [l \in {phis[i].reg : i \in DOMAIN phis} |->
               phis[CHOOSE i \in DOMAIN phis : phis[i].reg = l].arg],
  store <- IF step = "done" THEN store ELSE [l \in Loc |-> l],
  done <- step = "done"

ImplementsParallelCopy == Promised!PCSpec

\* The loops over the queue and over the cycles end.
Terminates == <>(step = "done")

=============================================================================
