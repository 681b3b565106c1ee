# TLA+ models of Tiny-Compiler

The repository is a compiler for the language "tiny" (`let`, `if`, `while`,
`call`, `return`, functions with parameters, integers) to x86-64. It is a
sequential program: five passes that each run once, called one after the other
in `src/tests/compilertest_main.cpp:49-69`. Nothing runs concurrently, nothing is
persisted, no message is sent. What is hard is the **order** in which things
happen: the parser builds the control-flow graph while it reads, each later pass
is a recursion over that graph that silently gives up where the graph is not
what it expects, and several invariants between passes are written down only in
comments ("This is arguably unsafe due to it being a consequence of my parser
implementation", `src/src/registerallocator.cpp:307`).

The models therefore take as "input" the source text, as a nondeterministic
sequence of statements, and ask for every text what the passes do with it.

## 1. Inventory

| component | source | state it keeps | operations | modelled |
|---|---|---|---|---|
| Lexer | `lexer.cpp`, `token.cpp` | the input stream, the current character, the identifier and keyword table, the set of defined identifiers | `next`, `insert_ident`, `set_defined`, `check_all_defined`, `wipe`, constants and terminals | Declarations (the tables; not the automata) |
| Parser: statements | `parser.cpp:22-393` | the current block, the block variables of each activation on the C++ stack, `ignore` and `while_loop` (kept in the IR), the function table | `computation`, `function_body`, `statement_sequence`, one handler per statement | ControlFlow, CompileFlow |
| Parser: expressions | `parser.cpp:396-555` | nothing of its own | `expression`, `term`, `factor`, `relation`, constant folding, `function_statement`; declarations of variables, parameters and functions | Ssa (one literal, one operation, calls), Declarations |
| IR: the graph | `intermediaterepresentation.cpp`, `basicblock.cpp` | `basic_blocks` with predecessors, successors, branch instruction, `will_return`, `branch_block`, `loop_header`; `doms` | `new_block*`, `new_function`, `add_instruction`, `set_branch_cond`, `set_branch_location`, `set_return`, `update_phi`, `compute_dominators` | ControlFlow |
| IR: SSA values | same | instructions, `identifier_values` of each block, the CSE lists, the PHIs | `search_cse`, `commit_while`, `cse_replace`, `update_phi`, `update_ident_vals` | Ssa, SsaRun |
| RegisterAllocator: liveness | `registerallocator.cpp:27-203` | `live_ins`, death points, constraints, the `analyzed` flags | `analyze_block`, `get_phi_liveness`, `propagate_death_deletions` | Passes (traversal and PHI edges), Allocation (live ranges) |
| RegisterAllocator: coloring | `registerallocator.cpp:206-340`, `468-479` | assigned registers, preferences, `spill_count`, the `colored` flags | `color_block`, `implement_phi_copies`, `get_register` | Passes (traversal and PHI edges), Allocation (registers) |
| RegisterAllocator: PHI copies | `registerallocator.cpp:342-466` | the copy graph of one edge | `insert_phi_copies` | PhiCopies |
| CodeEmitter: blocks | `codeemitter.cpp:16-211` | the emitted flags, the text | `emit_code`, `block`, labels, branches | Passes, CompileFlow |
| CodeEmitter: calls, frames, instructions | `codeemitter.cpp:213-473` | the text, `prev_instruct` | `prologue`, JSR, RET, GETPAR, SETPAR, arithmetic | CallFrame, Machine, Activations; PhiCopies for the copies |
| CodeEmitter: library routines | `codeemitter.cpp:16-130` | none: text that `emit_code` puts in front of the program | `write`, `read`, `exit` | Library, Processor (assembled, decoded and executed) |
| Assembler: symbols, jumps | `assembler.cpp:140-345`, `1269-1291` | the symbol table, the position in the program | `read_symbols`, `read_program`, `read_data`, `create_jmpinstr` | Assembler, AssemblerProofs |
| Assembler: encodings, ELF | rest of `assembler.cpp`, `intelinstruction.cpp` | the bytes | `create_*`, `create_binary` | Encodings, X86, Assembler; Machine for what an instruction does |
| NonAllocator | `nonallocator.cpp` | | | no: nothing constructs it |
| Debug output | `instruction.cpp`, `to_string`, `to_dotlang` | none | | no |

How they interact. The Parser pulls tokens from the Lexer and drives the IR, which
it owns; `ignore` and `while_loop` live in the IR and are saved and restored by the
handlers. The IR is then moved into the RegisterAllocator, and a copy of it into
the CodeEmitter. The CodeEmitter writes text that the Assembler reads back twice.
Shared state between the passes is the IR alone: its graph, flags on its blocks,
and facts about block numbers nobody checks (a predecessor has a smaller number
than its successors; the blocks of a function are consecutive; main is last; a
block with two ways out never leads into a block with two ways in).

What makes each part correct:

* statements and graph: the graph of a function has the control flow of its source;
  ignore mode is on exactly in unreachable code; `doms` are the dominators whenever
  they are used; a block that is finished stays as it is;
* liveness, coloring, emission: no block is left out; both passes agree on which
  argument of a PHI belongs to which edge; copies are inserted once per edge and
  harm no other path;
* registers: two values that are live at once never share one;
* PHI copies: the sequential code acts as a parallel assignment;
* SSA: every use sees the definition the source means, also around loops;
* frames: caller and callee agree on the stack, `%rbp` and `%rsp` are restored;
* assembler: a label resolves to the position of the instruction it stands before;
  the processor decodes the bytes as the text that was written;
* names: an identifier means in every scope what was declared there, and a call
  reaches the function it names, also before that is declared.

## 2. Modules

```
TinySource      ControlFlow ---------------- Passes
      \         /       \                          \
      CompileFlow        ControlFlowProofs           \
        /     \  \                 \                  \
CompileFlowMC  \  \                 \                  \
                \  FlowProofs ---- EdgeProofs ---- PassesProofs
                 \
                   Ssa -- SsaRun -- Allocation -- SsaMC

ParallelCopy <- PhiCopies - PhiCopiesProofs

Words - Activations -\
  | \-- Machine ------- CallFrame - CallFrameMC
  |                          \----- CallFrameProofs
  |
  |--- X86 - Encodings - Assembler - AssemblerProofs
  |                            \
   \-- Library --------------- Processor - AssemblerMC

Declarations - DeclarationsProofs
```

Lines are EXTENDS, read from left to right and downwards; the arrow is a
refinement.

**ControlFlow** is the Parser's statement handlers with the part of the IR that
makes the graph. One action is one point of the source text at which a handler
changes something: `SimpleStatement` (let, call), `ReturnStatement`, `IfThen(r)`,
`ThenEnd`, `Fi`, `WhileDo(r)`, `Od`, their counterparts in ignore mode
(`IfThenIgnored`, `WhileDoIgnored`), and `Begin`, `FunctionEnd`, `MainEnd`. `r` is the
verdict of `relation()`: NEITHER, or TRUE (the branch is always taken, the source
condition is false) or FALSE. The C++ stack is the sequence `frames`, one record
with the local variables of each live `if_statement` or `while_statement`. `ir` is a
record of the blocks and `doms`; every method of the IR is an operator from an `ir`
to the next, so that a handler that calls three of them is one expression.
Abstracted: expressions and identifiers (a statement is the number of its point),
instruction numbers (a branch stores a block instead of the number of its first
instruction), PHIs.

**Passes** goes on where the Parser is done: liveness analysis, coloring and
emission as walks over the graph. `todo` is the stack of recursive calls still to be
made; a call either does its block and puts its own calls in front
(`analyze_block`, `color_block`, `block`) or is refused (`SkipAnalysis`,
`SkipColoring`, the ELSE of `block`). `index` is the variable of the loop in
`liveness_analysis`, which starts a recursion at every block without successors;
color_ir starts one at every function, and emit_code takes the blocks in a fixed
order, main's first (`EmissionOrder`). `alive` records which PHI arguments the
liveness analysis made live at the end of which block, `copies` which calls of
`insert_phi_copies` the coloring made, and both are compared with the shape of the
graph. Values and registers are not in this module.

**TinySource** is the abstract specification of the front end: what a source text
means, as a set of edges between its points, with no reference to blocks.
**CompileFlow** runs it in lockstep with ControlFlow and reads the edges back from
the blocks, once through `successors` (what liveness and coloring see) and once
through the emitted text (what the machine sees: a block that does not jump falls
into the next). Its two switches admit or leave out classes of texts on which
the compiler goes wrong (`NestedForever`, `FoldedReturns`). A third class, an if whose
else part alone returns, only spoils the emitted text, so it is not left out of the
texts: `else_alone` remembers that the function has one, and `LayoutFlowMatches` speaks
about the functions that have none.

**Ssa** adds the values to the handlers: each action of CompileFlow together with
what the handler does to the instructions. `ssa` holds, for every block, its
instructions, its `identifier_values` and the value its RET returns; the methods of
the IR are operators from one `ssa` to the next. The lets, written, compared and
returned expressions are constants, so that a run says which texts it reads.
A call is an operand: its SETPAR uses the argument, its JSR gives a value, and both
live on across other code like any instruction; which function it reaches is a question for
Declarations. `relation` is no longer a free choice here: `Verdicts` is what it may answer for the
value at hand. Opcodes that are treated alike are merged (ADD for the four
operations, CMP for a CMP and its branch); the only literal is 0, which shares
number 0 with variables nothing was assigned to; branches, literals and EMPTY
instructions take no number; affinity groups, which only steer the choice of
registers, are left out. The recursions over the loop body (`commit_while`,
`cse_replace`, `update_ident_vals_loop`) are folds over the blocks in the order they
are visited (`Visits`), or one update of all of them where the order cannot matter
(`Reached`).
**SsaRun** executes the finished function: block by block, the source's statements on
its variables and the IR's instructions on their numbers, with symbolic inputs and
branches that go either way.

**Allocation** is liveness analysis and coloring on these instructions. `live`, `deaths`
are `live_ins` and the death points, worked out as the code does: an instruction at a
time against the flow (`analyze_instruction`), the arguments of PHIs on the edge they
belong to (`get_phi_liveness`), and the deaths that are taken back because the value
outlives a loop (`propagate_death_deletions`). The order of the recursions is not
repeated here, Passes is about it. Coloring leaves open which free register an
instruction gets: the preferences only choose among the free ones, and `get_register`
makes a new slot when there is none. So an allocation is recorded as the set of
values each instruction was *kept apart* from (`apart`); any other two values may
share a register. The function is then executed block by block once more: writing a
value destroys every value that may share its register (`Shares`), and reading one
that was destroyed is noted in `lost`. One run thereby covers every order of
preferences and every number of registers. The recursions run in the state in which
the function ends, as one step: nothing can come between them.

**Activations** says what the instructions of the IR mean when functions call each
other: a stack of activations with locations of their own. **Machine** executes the
assembler text of the emitter on registers, memory and flags; **Words** are the values
both compute with, symbolic ones, of which the machine can overwrite an upper or a
lower half (a 32-bit store to a slot leaves a "mixed" word). The machine does what the
bytes of the Assembler do: `mov` between two memory operands does nothing, because
`create_mov` writes no bytes for it.
**CallFrame** is `CodeEmitter::instruction` with its helpers, every opcode an action: the
abstract instruction on the activation and the emitted text on the machine, in one
step. The instructions, their order and their locations are arbitrary, so nothing is
assumed of what the earlier passes put out, except: a function's GETPARs come first
and are as many as the SETPARs of its call, a location is read after it was written,
and a RET comes when no arguments wait for a call (an expression is parsed to its end
first). `Admit` names the classes of instructions that the emitted code is wrong for
(section 4); the pass run leaves them all out.

**ParallelCopy** is the abstract specification of PHIs on one edge: all arguments are
read, then all PHIs written. **PhiCopies** is `insert_phi_copies`, loop by loop, with
the effect of every MOV and SWAP it inserts on a store; it implements ParallelCopy
under the refinement mapping `Promised`.

**Encodings** is the `create_*` methods: an IntelInstruction is a record of its parts, and
`Bytecode` puts their bytes in a row. Operands the emitter never writes are left out
(listed in its header). **X86** is external: what the processor takes a row of bytes for,
written from the instruction set and not from the Assembler, so that the two can
disagree. **Assembler** is the two passes over the text, one line an action, and
`create_binary`; `offsets` remembers where the first pass put each line, which the
program does not. **Library** is the text of `write`, `read` and the end of main.
**Processor** goes on where `create_binary` is done: it fetches the instructions of `write`
and `read` from the bytes with `Decode` and executes them on registers, a stack and the two
buffers, several calls one after the other, with the system calls write and read
answered by a terminal. So the text of the routines, the encoding of their
instructions, the places of their labels and the addresses of their buffers are put
to the test together. It is the other side of what Machine takes for granted: a call
of a routine there prints or reads a number and makes the registers in `Overwritten`
junk, and `RoutinesDoTheirWork` says that the routines do just that. `Pipes` admits a
read that is answered with more than one line (section 4). Words are scaled down, and the
buffers with them: in the code 19 digits, a sign and a 0 fill the 21 bytes of `strResult`,
in the run 8 digits fill 10.
**AssemblerMC** gives the texts: every instruction the emitter can write, one to a text,
short texts of labels and jumps, and the library, and the numbers that are written and
typed.

**Declarations** is the life of a name: the identifier table of the Lexer, wiped and
filled again for every function and for main; the values that declarations,
parameters, lets and loops give to its indices; and the calls, which find their function by
the value of its name and, when there is none yet, in the end by a list
(`incomplete_func_calls`). Left out are ignored code, if (a JOIN keeps what both ways
agree on, Ssa is about it), expressions, and a name declared twice in one scope. Two
classes of programs are left out by name, see the end of section 4: a local variable
with the name of a function declared before ("local named as function") and a call
without parentheses, of a function declared later, with a keyword behind it
("bare early call").

**\*Proofs**: theorems, section 5. **\*MC**: the values of the constants for TLC.

Next to some definitions stands a faulty variant of it (`join_Else` before `join`,
for example). They are not part of any specification: they document which mistake
each property would catch, and every property of a passing run has one.

## 3. Runs

| run | bound | what it shows |
|---|---|---|
| cf_structure | every text of up to 5 points, all classes | graph, labels, flags, `doms` are the dominators; no pass leaves a block out; PHI copies once per edge, on an edge of their own, with live arguments |
| cf_flow | up to 6 points, without the classes NestedForever and FoldedReturns | graph and emitted text have the source's control flow, ignore mode is exact, finished blocks stay finished, an inner loop keeps its back edge |
| ssa_loops | one function of up to 5 points with 2 parameters and 1 local, 5 kinds of let, one of them a call, and reads; executions of up to 8 blocks; without ReturnsInLoops and CrossedPhis | the instructions compute what the source means on every path, arguments are computed before they are used, what is parsed after a loop finds nothing the loop deleted, and a loop rewrites only itself; live values have registers, apart from each other, and no argument is overwritten before its last use |
| frames | 5 locations (rax, rdx, a register no instruction needs, two slots), one constant, one instruction and one call, or two calls, with up to 2 arguments waiting, and any number of returns | every emitted text keeps every value of every activation, arguments and stack pointers are where caller and callee look for them |
| phi_copies | 3 registers, 1 spill slot, 1 constant, up to 4 PHIs | refinement of ParallelCopy, termination, only cycles are left for the SWAPs |
| assembler | every instruction the emitter can write, with every register and constants and offsets of one and four bytes; every text of up to 5 lines of labels, jumps, calls and instructions of different sizes; the library; a page of 16 bytes | both passes agree on every place, jumps reach their labels, the bytes decode to the text, code and data are loaded where they are used; the bytes of `write` and `read`, in words of 27 bits and buffers that just hold the smallest number, up to two calls with the numbers in `MCWritten` and `MCTyped` (also typed ahead), do their work, keep to their registers and buffers, and return |
| declarations | 3 names, up to 2 functions and main, 2 parameters and variables in each, 4 statements, without "local named as function" and "bare early call" | every call of a declared function reaches it, a name means what its declaration says in every loop, the warnings name exactly the variables nothing assigns |
| cf_else_return, cf_forever, ssa_stale, alloc_result, emit_sub | as small as the counterexample needs | the disagreements of section 4 |

*Why the bounds are enough.* `MaxStatements` counts the points of one text, function
entries included; nesting is bounded by it. With 5 points there are all nestings of
two constructs around a statement (an if in a loop in main, a return in either part
of an if beside a loop, two functions, ...), and with 6 those of three. The handlers
only ever look at their own activation and at the flags, so the interactions are
between two neighbouring constructs; the counterexamples of section 4 all need at
most 5 points. What is proved in section 5 does not depend on the bound. In
ssa_loops, 5 points hold two nested loops with two statements, or one loop with
three (an exchange of two variables takes three), and 8 blocks lead an execution
at least once around each of two nested loops. In
frames an instruction can only go wrong by the locations of its operands, their
being equal or not, and the prologue or a waiting argument around it; rax and rdx are
the only registers the texts treat specially, one other stands for the rest (the
scratch registers of `write` and `read` are overwritten and checked as a set), and two
slots give memory-to-memory. Two calls are a call inside a call, or one behind
another's return; the second call of a chain is where a frame pointer saved by
the first can be lost. In
phi_copies four locations give every shape a copy graph is built from: chains,
trees into a cycle, two disjoint cycles, a cycle with a spill slot in it. The encoding
of an instruction depends on nothing but its operands, so one instruction to a text
shows them all, and AssemblerProofs has no bound on numbers, offsets and lines. A
page of 16 bytes lets the short texts end before, with and behind a page. In
declarations, three names are enough for two functions and a variable and for every
one of them to be called before, in and behind its declaration, or to name a variable
of one scope and a function of another; 4 statements hold two nested loops with a call
inside, or a let between two calls.

*Deadlock* is not checked in any run, because every model ends: the text is
complete and emitted, the copies are inserted, the program has exited or is linked.

*Fairness.* Two specifications state any. PhiCopies has `WF_vars(Next)`, because the
function is sequential code with no blocking call, so it goes on while it can; it is
used for `Terminates` alone. Processor has `WF_all_vars(Step)`: a processor that is running
executes the next instruction; the program need never call a routine and nobody need
type anything. It is used for `RoutinesReturn`; a read is called only when its line has
been typed, because before that the system call waits. The other specifications have no liveness property: the source
text may simply stop, and for the later passes "every block is done when the pass
ends" is a safety property of the state in which the pass ends.

*Scope of the PHI properties.* `EdgesCopiedOnce`, `CopiedArgumentsAlive` and
`CopiesOnWayOnly` speak about the JOINs and loop headers whose edges do not start in
a block the Parser overran (`Overrun`): a block that got code or successors after a
return or an endless loop had finished it. That the Parser does so is shown by
cf_forever, and by cf_flow when the class FoldedReturns is admitted; what the later passes do to such a graph has no
meaning left to compare with. The properties of Allocation leave out functions with a
loop that is never entered (`SkippedLoop`), see the end of section 4; those of the
values run up to the blocks an execution reaches in `MaxBlocks`.

## 4. Where the code and its comments disagree

* **cf_else_return** (`parser.cpp:313`). When only the else part returns, the then
  part gets no jump over it: "If one of the blocks returns, no need to join." In the
  text the else block comes next, so the then part runs into it.
* **cf_forever** (`parser.cpp:357`). After `while <true> do ... od` parsing ignores the
  rest of the sequence, but the statement around it then sets its own branch in the
  same block and the loop loses its back edge.
* **ssa_stale** (`intermediaterepresentation.cpp:401`). "We want ALL references of that phi
  number to be replaced", but two kinds of reference to a redundant PHI are left: the
  other PHIs of the same header, when the loop copies a variable it does not change
  (`while x > 0 do let x <- y od`), and a RET inside the loop, because a branch
  instruction is not in the list of instructions. The register allocator then looks
  up a number that has no register and the compiler stops. RET is also missed by
  `cse_replace`.
* **alloc_result** (`registerallocator.cpp:82`). The liveness analysis goes through the
  instructions of a block; the RET is its `branch_instruction`. A returned value is
  therefore dead where it is computed ("if it wasn't, it is considered dead code"), and
  the next instruction may get its register.
* **emit_sub** (`codeemitter.cpp:278`). `parser.hpp:40` folds MINUS as `a - b`. When the
  right argument and the result of a SUB have the same register, the emitted text
  computes `b - a`.

Further places where the models showed the code to be wrong, without a sentence in
the repository that says otherwise; they are left out of the passing runs by name:

* with a folded relation, `else_block` (or `then_block`) is the block the if started in.
  When the live part returns in a later block, the handler reports that the if does
  not always return, and dead code is compiled into a finished block
  (`parser.cpp:304`; class `FoldedReturns`);
* SWAP between two spill slots contains a `mov` from memory to memory, for which the
  assembler writes nothing: with two slots `ImplementsParallelCopy` fails
  (`codeemitter.cpp:423`; `OneSlot`, class "swap of slots");
* for a call of a user function in ignored code `get_ident_value` answers -1, as for a
  function that is not declared, and the handler asks for the instructions of block -1,
  which throws (`parser.cpp:257`; Declarations has no ignored code);
* a call without parentheses of a function declared later, with a keyword right
  behind it, is noted under the keyword and never fixed (`parser.cpp:243`; class "bare
  early call");
* a local variable with the name of a function declared before is that function's
  entry instead of 0 until it is assigned (`parser.cpp:92`; class "local named as
  function");
* a function that is called before its declaration takes an index of its own in the
  table, and the scope's warnings list it as a variable that "is now defaulted to 0"
  (`lexer.cpp:131`; `WarningsMatch` speaks of variables only);
* `read` ignores the answer of the system call: when one answer holds two lines, as from a
  pipe, the second is lost (`codeemitter.cpp:83`; with `Pipes`, `RoutinesDoTheirWork` fails),
  and at the end of the input or with a line longer than the buffer its loop runs on
  behind the buffer (Processor types numbers that fit);
* a loop with a constantly false relation never gets a `branch_block`, so the later
  passes do not take its header for one and follow arguments that do not exist
  (`registerallocator.cpp:326`; `SkippedLoop`, `Overrun`);
* `prologue()` goes before the first instruction behind the GETPARs; when a function
  begins with a loop this is the loop's CMP, and the prologue runs once per iteration
  (`codeemitter.cpp:344`; CallFrame has no loops);
* a parameter in a slot is popped relative to the caller's frame pointer
  (`codeemitter.cpp:424`; class "spilled parameter"), a result in a slot is moved after
  the frame pointer is restored (`codeemitter.cpp:404`; class "spilled result");
* adding a constant to a slot changes its lower half only (`assembler.cpp:667`; class
  "constant to slot");
* the first spill slot is the place of the saved frame pointer (`codeemitter.cpp:470`;
  `Locations` has no `Slot(0)`).

## 5. Proofs

All theorems hold for every value of the constants that satisfies the named
assumptions; `tlapm` checks every step.

**ControlFlowProofs** (assumption: `MaxStatements \in Nat`).
`TypeCorrect`, `GraphWellFormed` and `BranchesHaveLabels` follow from `Invariance`, that
`Inv` always holds. The three are not inductive: a handler appends to the block it
remembered when its construct began, and nothing in them says that this block is
still one of the function being parsed. `Inv` adds

* that `curr_block` and the `cond`, `then_block` and `og_else_block` of every activation
  are blocks of the last function (`InFunction`, `FrameOK`), and that a remembered else
  block carries a label;
* that in the tree `doms` makes, the dominator of a block is above every predecessor
  of it (`DomsOK`). "Above" is said without paths or recursion: c is above p when every
  set of blocks that is closed under `doms` and contains p contains c. A JOIN gets the
  block its construct started in as its dominator, so this needs to be above both
  branches, and that needs every open construct to have started above the current
  block (`Nested`).

The argument has three layers: lemmas on each IR method say that it lets the graph
only grow (`Grows`: no block disappears, none loses its label or its dominator, the
function entries stay); lemmas on the handler tails (`Join`, `Branch`, `IfEnd`,
`WhileEnd`) compose them; one lemma per action shows that `Inv` is preserved, where
`GrowsKeepsFrame` and `GrowsKeepsAbove` carry what the outer activations remember
across the step. `NextInv` collects them.

The second half of the module is about the dominators and about the two fields a handler
sets late or puts back at its end. `DominatorsImmediate`: for every text `doms` is exactly
what the textbook calls the immediate dominators, computed in the property from the
graph alone by `ReachedAvoiding`. `BranchesGetLocations` and `WhileLoopFlagRight` are the
two fields. `Inv` says only half of the first: what is above a block in the tree
dominates it.
`DInv` adds the other half and what it needs:

* `Sound`: only what is above the dominator of a block is above all its predecessors, so
  `doms` names the nearest (`Tight`); a jump leads along an edge or back to a header above
  it (`JumpsOK`); and the branches without a location are those that the open activations
  owe one (`OpenIn`, `Owing`);
* `Sides`: what an if with two ways still holds open is parsed under one child of its
  start, and its then part ended under another, which makes the JOIN's dominator the start.

What `ReachedAvoiding` computes step by step is followed in the proof by the least
step at which it would fail (`LeastNumber`), which is how induction is done throughout: the
library's induction theorems take an operator. `FlagInv` says that every activation
remembers what `while_loop` was outside of it.

**EdgeProofs** (the same assumption) prepares FlowProofs and PassesProofs. `EInv` adds
to `DInv` what kinds of edges there are: only a JOIN has two predecessors, and a header
is older than the end of its loop (`EdgesOK`); the first predecessor of a JOIN jumps to
it and the second falls into it (`JoinsOK`); a branch has the blocks it chooses between
as soon as its statement is complete (`BranchesOK`). To keep that it needs that nothing
is parsed below a block that leads into a JOIN (`Apart`), and that the open loops have
headers of their own (`Opens`). No comment of the code says so, and `get_phi_liveness`
and `insert_phi_copies` rely on it.

**FlowProofs** (the same assumption, and in every theorem `~NestedForever` and
`~FoldedReturns`: without the two classes of texts section 4 shows to be wrong).
`GraphHasSourceFlow` and `TextHasSourceFlow`: for source texts of every length and
nesting the blocks that the handlers build have exactly the edges between statements
that the source means, read through `successors`, and read as the emitted text. On the
way, `IgnoredIsUnreachable`, `NothingAfterReturn` and `LoopsJumpBack`. Four invariants
are built on each other:

* `FlowInv`: the current block is `Ready`, empty of branches and successors, exactly
  when parsing is live; what each open activation remembers agrees with the abstract
  side (`PartFlow`: a part that returned or loops forever has no open end); inside an
  ignored part there are only dead activations (`DeadInside`), and an endless loop is
  outermost (`ForeverOutermost`).
* `BlocksInv`: the shape of every block of the function (`BlockOK`), and that the only
  blocks without a way out (`Stray`) are the current one and those an activation will
  come back to.
* `CarryInv`: there is an assignment A of sets of open ends to the blocks, "what arrives
  at block b", such that the edges of the source are those between what arrives at a
  block and its first statement and those inside of blocks, and every block hands what
  leaves it to the blocks it leads to (`Flows`). A is what makes blocks without code
  harmless: they pass on what arrives. The handlers let such a flow graph grow in four
  ways, with a lemma for each: append a statement (`AppendFlows`), lead an open end to a
  new block (`LeadFlows`), to one that exists (`EdgeFlows`), and begin (`StartFlows`).
* `LayoutInv`: the first successor of a block that falls through is the next block, and
  parsing goes on in the last one. This is false after an if whose else part alone
  returns, which is why the theorem leaves those out, and where it is needed.

Reading back (`EdgesReadBack`) is the converse: the first statements behind a block,
which `FlowEdges` computes by recursion through blocks without code, exist
(`FirstPointsExist`, as the least sets) and are right because such blocks lead
downwards, except to headers, which have code.

**PassesProofs** (the same assumption). `AllAnalyzed`, `AllColored` and `AllEmitted`: none
of the three passes leaves a block out, for no source text, although each gives up
at a block whose neighbours are not ready and nothing in the code checks the result.
`PassesInv` has one part for each pass.

* Liveness (`LivenessInv`): a block that is not analyzed is waiting in `todo`, or has a
  successor that is not analyzed, or the loop has not come to it. The call that
  completes a block's successors has it among its predecessors, so it calls it. At
  the end the last block left out would have a later one left out.
* Coloring (`ColoringInv`): the colored blocks are closed under `doms`, and an uncolored
  block with a colored predecessor is waiting. By `DomsOK` its dominator is then
  colored, so the waiting call is not refused. At the end the first block left out
  would have no predecessor.
* Emission (`EmissionInv`): the text holds exactly the blocks dealt with. Predecessors
  have smaller numbers and are in the same function (`GraphOK`), so they come earlier
  in `EmissionOrder`, also for the functions, which are emitted after main.

The last part is about the edges of PHIs: `CopiedOnce`, `ArgumentsAlive` and
`CopiedOnTheWay`, the properties of the register allocator, from `EdgeProofs`.
`CopyInv` says that at every moment of the coloring the calls of `insert_phi_copies`
made so far are exactly those for the edges between two colored blocks and for the loop
ends that are colored (`Copied`), each made once, so the order in which the recursion
meets the two ends of an edge does not matter; and `KeptAlive`, that the liveness
analysis, which decides by its own reading of the graph which argument belongs to an
edge, kept the same one alive (`GoodCall`).

**PhiCopiesProofs** (assumptions: registers and slots are finite sets, disjoint from
each other and from the constants; and `OneSlot`, at most one spill slot, without
which the claim is false, see section 4). `CopiesInParallel` proves that `Spec`
implements ParallelCopy, `CyclesOnly` that the SWAP loop only ever finds cycles,
so its unchecked `find(to)->second` is defined, and `PhiTypeCorrect` the types. The
inductive invariant `PhiInv` says what the store holds in each phase: settled PHIs
have their values, waiting PHIs still find their sources intact because a location is
written only when its out-degree is 0. The step from MOVs to SWAPs is a counting
argument (`Pigeonholes`): when no target has out-degree 0, there are as many sources
as targets, so they are the same set and every source is read once. Inside the SWAP
loop the value of `end` travels along the cycle.

**CallFrameProofs** (in every theorem `Admit = {}`, the instructions the emitted code is
right for, as in the run `frames`; assumptions: `FrameAssumption`, the bounds are numbers;
`StackAssumption`; `PlaceAssumption`, values are kept in the registers that calls save and
in the slots of the frame; and `RoomAssumption`, the stack holds a frame for every call
that `MaxInstructions` allows, since no emitted text looks whether there is room).
`FrameValuesKept`, `FrameArgumentsInPlace`, `FrameStackPointer` and `FrameSeenAsMeant`: the
four properties of the run for any locations and constants, any number of slots and
arguments, any bounds on the instructions and any nesting of calls. `FrameInvariant` is
the invariant they follow from. None of the four is inductive. They speak of what a
function looks for while it is running or waiting, and a return takes back what no
property names: the caller's registers, its frame pointer and its stack pointer, read
from words that the text addresses in three different ways (below its own stack
pointer, in the place of the saved frame pointer, and at the frame pointer); and a call
writes below the stack pointer, where nothing may be. `FrameInv` says there are cells
F[1] > F[2] > ... such that

* every activation j has its slots and then its waiting arguments below F[j], and what its
  call and its prologue saved for the caller above it: the frame pointer and stack pointer
  of the caller, its eleven registers with the values they had, and the return
  address with the place of the result at F[j] + 13 (`Below`, `SavedFor`);
* these parts do not meet, and below the last of them there is room for as many calls as
  may still come;
* the function that runs has F[Depth] in `rbp`, the end of its frame in `rsp` and its
  other values in the registers (`Body`); one that still takes its parameters has the frame
  pointer of its caller in `rbp`, its own frame to come in `r11`, and `rsp` at the
  arguments of its caller, which it takes one by one (`Entry`).

TLC found no state of the instance of `frames` that violates it before it was proved. The
proof goes upward:

* What it means to run a text. `Run` is a fold over the instructions of a text; as in
  DeclarationsProofs the function behind it is built step by step, and after that a text
  is run one instruction after the other and two texts one behind the other.
* What an instruction of the machine changes: `Same` and `Like` say which registers and
  cells are as they were. Pushes and pops in a row put down and take back what was
  there.
* What the text of one instruction of the IR does (`Keeps`): for every combination of
  registers, slots and constants that `mov`, `add`, `sub`, `imul`, `idiv`, `cmp`, the exchange,
  `write` and `read` distinguish, the result is in its place, and every other location
  and every cell above the stack pointer is as before. The places where the text borrows a
  register that an argument may be in (`rax` and `rdx` around a division, `rax` or `rdx` in
  a comparison with a constant on the left, `r11` anywhere) are cases here.
* What that does to a stack of frames, and `FrameInv` action by action. The hard ones are
  the prologue, which exchanges the saved frame pointer with the stack pointer of the
  caller, and the return, whose text behind the call reads eleven registers from below the
  stack pointer.
* That `FrameInv` puts everything where the properties look for it (`Located`):
  `FramePointer` is a recursion from the running function outwards and is shown to be
  F, again by the least number at which it would not.

**AssemblerProofs** (assumptions: `LayoutAssumption`, a page has a size and memory begins
with one; `TextAssumption`, lines have operands of the kinds the emitter writes, a label
stands once, the data comes last; `SizeAssumption`). `JumpsAlwaysReachLabels`: for every
text, of any length and with any number of labels, the second pass begins every line where
the first put it, and every jump leads to its label. The two passes make each
instruction with different tables (the first does not know labels further down) and
nothing in the code compares them. The argument: no `create_*` method chooses its
fields by what a symbol stands for, so two instructions made from the same line have
the same `Shape` (`WithPlaceShape` up to `InstructionShape`) and `Size` (`SameSize`); a
row of bytes is as long as `Size` says (`BytecodeLen`); and a jump, which subtracts its
own size from the distance, counts it like the rest (`JumpSize`). The inductive
invariant `PassesInv` says that the lines read so far have their places one behind the
other (`LinesPlaced`), that the table has every label of them (`LabelsPlaced`), and where
each pass stands (`FirstPass`, `SecondPass`).

`DataAlwaysLoaded` (with `LayoutAssumption` and `SizeAssumption`): for every text, page
size and size of the data, `create_binary` puts code and data where the headers of the
file say, on pages of their own. `DataInv` adds to `PassesInv` how much of the data each
pass has counted; the arithmetic of pages is in lemmas of its own (`LaterPage`,
`OnePage`, `ShiftedPages`, `EarlierPage`, `PaddingFillsPage`), because the solver does
not find facts about `%` and `\div` of symbolic numbers unless they are brought down to
products.

`TextAlwaysDecoded`: for every such text, with every register, every constant and offset
of 32 bits and any number of lines, the processor finds in the bytes the instructions of
the text, each with its operation, its width and its operands, jumps with the place behind
their label and data with its address, and nothing between them. It needs one assumption more,
`WrittenAssumption`: every line is one of the forms the emitter writes (`IsWritten`; the
operands of mov, add, sub, xor, cmp, push, pop, imulq and idivq are any that `reg_str`
can give, the lines of the routines are those in `default_text_section`), its numbers
are C++ ints, every jump has its label (`BranchesHaveLabels` of ControlFlowProofs), and
code and data end before addresses need more than 32 bits. TLC checks it on the texts of
the run. The argument has three layers:

* Reading back. A number is the sum of its bytes (`Signed` of X86 is a recursive function
  over their count; `Reads` says what it is after each byte, and induction is the least
  number at which that fails). What stands at a place stays there when it is found piece by
  piece (`Holds`, `HoldsConcat`): REX, opcode, ModRM, SIB, displacement and constant, in
  that order, each where the decoder looks for it. ModRM comes in the cases of the code:
  a register, a base with an offset of one or four bytes, `rsp` and `r12` with
  SIB, an address alone.
* One lemma on each `create_*` method: in every combination of operands its bytes, at any
  place in any code that holds them, decode to the instruction it was given
  (`InstructionFound` puts them together).
* `BytesInv`, inductive: `DataInv`, the bytes of every line written so far stand, whole,
  where the first pass put the line (`LinesWritten`), and places are at most 16 bytes a line
  apart (`LinesClose`, why jump distances fit into their 4 bytes). Jump distances and
  data addresses come from the other two theorems.

For mov, add, sub, xor and cmp of two places in memory, for which no bytes are written
(`HasBytes`), it says that none are; CallFrame and Machine say what that means.

**DeclarationsProofs** (assumptions: `NameAssumption`, and `Classes = {}` as in the run:
in each of the two classes of programs it leaves out one of the properties is false).
`CallsFindFunctions`, `NamesMeanDeclarations` and `WarningsOfScope`: the three properties
of the run for any number of names, functions, parameters, variables, loops and
statements. It took three layers:

* The program changes its table in loops over lists of names, which the model writes as
  folds. `FoldLeft` of the community modules is a recursive function over all subsets of
  the positions; `FoldingExists` builds that function one position after the other, and
  `NewIdentFold` to `PoppedFold` say, for each operator that is folded with, that the
  result after i names is one step from the result after i - 1. Once that is known,
  induction is again the least number at which something fails (`UpTo`).
* What each of these loops does to a table (`Extends`, `Inserted`, `Flagged`, `Pushed`), put
  together in `Filled`: when the declarations of a scope are read, the functions have
  the first indices, in their order, unless a parameter or a variable of main has taken
  the name; the variables are behind them; no two names share an index.
* `DeclInv`, action by action. `ScopeKept` and `ValuesKept` carry `Filled` through the
  body, where calls of functions declared later add names of their own to the table.
  `CallsKept` is why calls find their functions: the argument of every call so far
  `Waits` in `incomplete_func_calls`, or `Jumps` to its function, or `Turns`: it is the
  PHI of a loop that is still open. That the end of the loop turns it back, into the
  entry or into the PHI of the loop around, needs `LoopsKept`: the loops that are
  open begin one after the other, in instructions too. `NamesKept` is `NamesKeepMeaning` with the blocks around.

`Wiped`, the names of main in the order of the table, is a CHOOSE of the sorted list,
as the prover cannot unfold `SetToSortSeq`; `SortedExists` proves that there is one.

**Only model-checked:** `Terminates` and `RoutinesReturn` (liveness is beyond the
prover), and everything about Ssa, SsaRun and Allocation (`DefinitionsDominateUses`,
`ValuesUsable`, `SameBehaviour`, `LiveInsHaveRegisters`, `LiveInsApart`,
`ArgumentsInRegisters`): their operators are folds over blocks and instructions, and every
property needs what the folds compute for all inputs. Induction over numbers is possible,
as the least counterexample, where a definition is a recursive function
(`ReachedAvoiding`, `FlowEdges`); a fold of the community modules is one over all subsets
of its domain and takes an operator, so it needs such an argument for each operator it is
used with, as in DeclarationsProofs and CallFrameProofs. `RoutinesDoTheirWork` is about
the execution of bytes, with loops over the digits of a number whose invariants are about the
words of Words; `TextAlwaysDecoded` is its first half, as it says that the bytes
executed are the text of the routines.

## 6. Plan

Done: ControlFlow, TinySource, CompileFlow, ControlFlowProofs, ParallelCopy,
PhiCopies, PhiCopiesProofs, Passes, PassesProofs, Ssa, SsaRun, Allocation, Words,
Machine, Activations, CallFrame, X86, Encodings, Assembler, Library, AssemblerMC,
AssemblerProofs, Declarations, DeclarationsProofs, Processor, EdgeProofs, FlowProofs,
CallFrameProofs.

Next, in this order, the hazards in PROJECT.json without a property being the list
to work from:

1. *Expressions*: constant folding in 32 bits, division by zero.
2. *Scheduling of the copies*: the MOVs and SWAPs of PhiCopies as the instructions of
   CallFrame, with the slots they use.
3. *Ignored code* in Declarations, with the call that throws.

Theorems worth proving next: for Ssa `DefinitionsDominateUses`, from the dominators that
ControlFlowProofs has and from what the folds over the PHIs of a block compute.

Not modelled: NonAllocator (nothing constructs it), the debug output (`to_string`,
`to_dotlang`: text without state), the driver (it calls the passes once each, in
order), the Lexer's automata for constants and terminals (they keep no state from one
token to the next), and in `get_register` which of the free registers is preferred (any
choice is allowed for in Allocation).
