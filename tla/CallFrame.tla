------------------------------- MODULE CallFrame -------------------------------
(***************************************************************************)
(* The CodeEmitter: the text of every instruction, of calls and of         *)
(* returns, run on the Machine side by side with what the instructions     *)
(* mean (Activations).                                                     *)
(*                                                                         *)
(* An instruction comes with the locations of its arguments and of its     *)
(* result, which may be any (Allocation says which a program gets).        *)
(***************************************************************************)
EXTENDS Activations, Machine, FiniteSets

CONSTANTS
  SpillCount,   \* spill_count of the IR
  Admit,        \* classes of instructions the emitted code is wrong for
  Passed,       \* the operands that are passed as arguments and results
  Placed,       \* the locations of parameters and of the results of calls
  MaxSteps,     \* bound on the instructions that have to do with no call
  MaxInstructions,  \* bound on these and the calls together
  MaxArgs       \* bound on the arguments waiting for a call

Classes == {"sub in place", "constant to slot", "swap of slots",
            "spilled parameter", "spilled result"}

ASSUME FrameAssumption == {SpillCount, MaxSteps, MaxInstructions, MaxArgs} \subseteq Nat /\ Admit \subseteq Classes

\* Values are kept in the registers that calls save and in the slots of the frame.
ASSUME PlaceAssumption ==
  /\ Placed \subseteq Locations
  /\ \A l \in Locations : \/ \E i \in 1..REGISTER_COUNT : l = Reg(RegisterList[i])
                          \/ \E k \in 1..SpillCount : l = Mem("rbp", -k)
  /\ \A x \in Constants : x = Imm(x[2])

\* The stack holds as many frames as there may be calls.
ASSUME RoomAssumption ==
  StackSize >= (MaxInstructions + 1) * (SpillCount + MaxArgs + REGISTER_COUNT + 3)

VARIABLES
  m,       \* the machine
  text,    \* where in a function: "pars" before the prologue, "body", "exited"
  steps, calls

frame_vars == <<acts, inputs, seen, m, text, steps, calls>>

is_virtual_reg(x) == x[1] = "mem"
is_const_instruction(x) == x[1] = "imm"
Slot(k) == Mem("rbp", -k)

Rax == Reg("rax")
Rdx == Reg("rdx")
Rbp == Reg("rbp")
Rsp == Reg("rsp")
R11 == Reg("r11")

Pushes(registers) == [i \in DOMAIN registers |-> <<"push", Reg(registers[i])>>]
Pops(registers) == [i \in DOMAIN registers |-> <<"pop", Reg(registers[i])>>]

-----------------------------------------------------------------------------
(* The text of an instruction.                                             *)

mov_instruction(src, dest) ==
  IF src = dest THEN <<>>
  ELSE IF is_virtual_reg(src) /\ is_virtual_reg(dest)
    THEN <<<<"mov", src, R11>>, <<"mov", R11, dest>>>>
  ELSE IF is_const_instruction(src) /\ is_virtual_reg(dest)
    THEN <<<<"mov", src, UpperHalf(dest[2], dest[3])>>, <<"mov", src, dest>>>>
  ELSE <<<<"mov", src, dest>>>>

additive_instruction(left, right, operand) ==
  IF is_virtual_reg(left) /\ is_virtual_reg(right)
    THEN <<<<"mov", left, R11>>, <<operand, R11, right>>>>
    ELSE <<<<operand, left, right>>>>

additive(dest, larg, rarg, operand) ==
  IF larg = dest THEN additive_instruction(rarg, dest, operand)
  ELSE IF rarg = dest THEN additive_instruction(larg, dest, operand)
  ELSE mov_instruction(larg, dest) \o additive_instruction(rarg, dest, operand)

PopArgument(x) == IF is_const_instruction(x) THEN <<"add", Imm(1), Rsp>> ELSE <<"pop", x>>

scale(dest, larg, rarg, operator) ==
  <<<<"push", Rdx>>, <<"push", Rax>>, <<"push", larg>>, <<"push", rarg>>,
    <<"mov", Imm(0), Rdx>>, <<"mov", Mem("rsp", 1), Rax>>, <<"cqto">>,
    <<operator, Mem("rsp", 0)>>, <<"push", Rax>>, <<"add", Imm(1), Rsp>>,
    PopArgument(rarg), PopArgument(larg), <<"pop", Rax>>, <<"pop", Rdx>>,
    <<"mov", Mem("rsp", -5), R11>>, <<"mov", R11, dest>>>>

\* The register for a constant is always rax.
cmp_AlwaysRax(larg, rarg) ==
  LET left == IF is_const_instruction(larg) THEN Rax ELSE larg
      moved == is_const_instruction(rarg) \/ is_virtual_reg(rarg)
      right == IF moved THEN R11 ELSE rarg
      save == IF left = larg THEN <<>> ELSE <<<<"push", left>>, <<"mov", larg, left>>>>
      restore == IF left = larg THEN <<>> ELSE <<<<"pop", left>>>>
  IN save \o (IF moved THEN <<<<"mov", rarg, R11>>>> ELSE <<>>)
       \o <<<<"cmp", right, left>>>> \o restore

\* A constant on the left goes through a register that is saved around the
\* comparison; what is not a register on the right goes through r11.
cmp(larg, rarg) ==
  LET scratch == IF rarg = Rax THEN Rdx ELSE Rax
      left == IF is_const_instruction(larg) THEN scratch ELSE larg
      moved == is_const_instruction(rarg) \/ is_virtual_reg(rarg)
      right == IF moved THEN R11 ELSE rarg
      save == IF left = larg THEN <<>> ELSE <<<<"push", left>>, <<"mov", larg, left>>>>
      restore == IF left = larg THEN <<>> ELSE <<<<"pop", left>>>>
  IN save \o (IF moved THEN <<<<"mov", rarg, R11>>>> ELSE <<>>)
       \o <<<<"cmp", right, left>>>> \o restore

swap(larg, rarg) == <<<<"mov", larg, R11>>, <<"mov", rarg, larg>>, <<"mov", R11, rarg>>>>

WriteSaves == <<"rbx", "rcx", "rdx", "rdi", "rsi">>

write(larg, dies) ==
  LET calling == CASE larg = Rax /\ dies -> <<<<"write">>>>
                   [] larg = Rax /\ ~dies -> <<<<"push", Rax>>, <<"write">>, <<"pop", Rax>>>>
                   [] OTHER -> <<<<"push", Rax>>, <<"mov", larg, Rax>>, <<"write">>,
                                 <<"pop", Rax>>>>
  IN Pushes(WriteSaves) \o calling \o Pops(Reverse(WriteSaves))

ReadSaves == <<"rax", "rdi", "rsi", "rdx", "rcx">>

read(dest) ==
  Pushes(ReadSaves) \o <<<<"read">>, <<"mov", Rax, R11>>>>
    \o Pops(Reverse(ReadSaves)) \o <<<<"mov", R11, dest>>>>

NewLine == Pushes(ReadSaves) \o <<<<"newline">>>> \o Pops(Reverse(ReadSaves))

-----------------------------------------------------------------------------
(* The text of calls.                                                      *)

\* The stack pointer stays one word below the last argument.
FunctionEntry_OneLess ==
  <<<<"push", Rbp>>>> \o Pushes(RegisterList)
    \o <<<<"mov", Rsp, R11>>, <<"add", Imm(REGISTER_COUNT + 1), Rsp>>>>

\* At the beginning of a function: the registers go below the return address,
\* then the stack pointer goes back to the arguments.
FunctionEntry ==
  <<<<"push", Rbp>>>> \o Pushes(RegisterList)
    \o <<<<"mov", Rsp, R11>>, <<"add", Imm(REGISTER_COUNT + 2), Rsp>>>>

\* The saved frame pointer stays where it is and the stack pointer of the caller
\* is not saved.
prologue_NoSwap ==
  <<<<"mov", R11, Rsp>>, <<"push", Rbp>>, <<"mov", Rsp, Rbp>>,
    <<"add", Imm(-SpillCount), Rsp>>>>

\* Behind the parameters: the stack pointer of the caller takes the place of the
\* frame pointer, which is pushed again.
prologue ==
  <<<<"mov", Rsp, Rbp>>, <<"mov", R11, Rsp>>, <<"mov", Rbp, R11>>,
    <<"mov", Mem("rsp", REGISTER_COUNT), Rbp>>, <<"mov", R11, Mem("rsp", REGISTER_COUNT)>>,
    <<"push", Rbp>>, <<"mov", Rsp, Rbp>>, <<"add", Imm(-SpillCount), Rsp>>>>

\* The slots are not taken off the stack.
ret_NoSpills(larg) ==
  <<<<"pop", Rbp>>, <<"add", Imm(REGISTER_COUNT + 1), Rsp>>>>
    \o (IF larg = NoValue THEN <<>> ELSE <<<<"mov", larg, Rax>>>>)

\* The text before the ret.
ret(larg) ==
  <<<<"add", Imm(SpillCount), Rsp>>, <<"pop", Rbp>>, <<"add", Imm(REGISTER_COUNT + 1), Rsp>>>>
    \o (IF larg = NoValue THEN <<>> ELSE <<<<"mov", larg, Rax>>>>)

\* The text behind the call: the registers are still there, below the stack
\* pointer, and behind them its own value before the arguments were pushed.
AfterCall(dest) ==
  <<<<"add", Imm(-(REGISTER_COUNT + 2)), Rsp>>>> \o Pops(Reverse(Tail(RegisterList)))
    \o <<<<"mov", Rax, dest>>,
         IF dest = Rax THEN <<"add", Imm(1), Rsp>> ELSE <<"pop", Rax>>,
         <<"pop", R11>>, <<"mov", R11, Rsp>>>>

-----------------------------------------------------------------------------
(* Initially main is running and has read a number into every location.    *)

Numbered == CHOOSE f \in [Locations -> 1..Cardinality(Locations)] :
              \A k, l \in Locations : k # l => f[k] # f[l]

MainText == <<<<"push", Rbp>>, <<"mov", Rsp, Rbp>>, <<"add", Imm(-SpillCount), Rsp>>>>

Started ==
  [reg |-> [r \in MachineRegisters |-> IF r = "rsp" THEN Address(StackSize + 1) ELSE Junk],
   mem |-> [a \in 0..StackSize |-> Junk],
   flags |-> Junk, inputs |-> Cardinality(Locations) + 1, seen |-> Junk]

\* Slot k of main is the word k below the first one of the stack.
Filled(machine) ==
  [machine EXCEPT
     !.reg = [r \in DOMAIN @ |-> IF Reg(r) \in Locations THEN Input(Numbered[Reg(r)]) ELSE @[r]],
     !.mem = [a \in DOMAIN @ |-> IF Slot(StackSize - a) \in Locations
                                   THEN Input(Numbered[Slot(StackSize - a)]) ELSE @[a]]]

FInit ==
  /\ acts = <<[Activation(0) EXCEPT !.locals = [l \in Locations |-> Input(Numbered[l])]]>>
  /\ inputs = Cardinality(Locations) + 1 /\ seen = Junk
  /\ m = Filled(Run(Started, MainText))
  /\ text = "body" /\ steps = 0 /\ calls = 0

-----------------------------------------------------------------------------
(* Every instruction, with the prologue when it is the first behind the    *)
(* parameters, does to the machine what it means for the activation.       *)

Emitted(code) ==
  /\ m' = Run(m, (IF text = "pars" THEN prologue ELSE <<>>) \o code)
  /\ text' = "body"

Counted ==
  /\ steps < MaxSteps /\ steps + calls < MaxInstructions
  /\ steps' = steps + 1 /\ UNCHANGED calls

AdditiveAllowed(op, l, x, y) ==
  /\ op = "sub" /\ y = l /\ x # l => "sub in place" \in Admit
  /\ is_virtual_reg(l) /\ is_const_instruction(IF y = l THEN x ELSE y) =>
       "constant to slot" \in Admit

Additive(op, l, x, y) ==
  /\ AdditiveAllowed(op, l, x, y) /\ Counted
  /\ Compute(op, l, x, y) /\ Emitted(additive(l, x, y, op))

Scale(op, l, x, y) == Counted /\ Compute(op, l, x, y) /\ Emitted(scale(l, x, y, op))

FMov(l, x) == Counted /\ Copy(l, x) /\ Emitted(mov_instruction(x, l))

FSwap(k, l) ==
  /\ is_virtual_reg(k) /\ is_virtual_reg(l) => "swap of slots" \in Admit
  /\ Counted
  /\ Exchange(k, l) /\ Emitted(swap(k, l))

FRead(l) == Counted /\ Read(l) /\ Emitted(read(l))
FWrite(x) == Counted /\ Write(x) /\ Emitted(write(x, FALSE))
FWriteLast(x) == Counted /\ WriteLast(x) /\ Emitted(write(x, TRUE))
FNewLine == Counted /\ InBody /\ Emitted(NewLine) /\ UNCHANGED abstract_vars
FCompare(x, y) == Counted /\ Compare(x, y) /\ Emitted(cmp(x, y) \o <<<<"jcc">>>>)

FSetPar(x) ==
  Len(Top.args) < MaxArgs /\ SetPar(x) /\ Emitted(<<<<"push", x>>>>) /\ UNCHANGED <<steps, calls>>

FGetPar(l) ==
  /\ is_virtual_reg(l) => "spilled parameter" \in Admit
  /\ GetPar(l) /\ m' = pop(m, l) /\ UNCHANGED <<text, steps, calls>>

FCall(l, n) ==
  /\ steps + calls < MaxInstructions /\ calls' = calls + 1 /\ UNCHANGED steps
  /\ Call(l, n)
  /\ m' = Run(m, (IF text = "pars" THEN prologue ELSE <<>>)
                    \o (<<<<"call", l>>>> \o FunctionEntry))
  /\ text' = "pars"

\* Control goes to the code behind the call whose address is on the stack.
FReturn(x) ==
  /\ is_virtual_reg(x) => "spilled result" \in Admit
  /\ Return(x) /\ UNCHANGED <<steps, calls>>
  /\ LET done == Run(m, (IF text = "pars" THEN prologue ELSE <<>>) \o ret(x))
         back == ValueOf(done, Mem("rsp", 0))
     IN m' = IF back[1] = "after" THEN Run(Moved(done, 1), AfterCall(back[2])) ELSE done
  /\ text' = "body"

FExit == Exit /\ text' = "exited" /\ UNCHANGED <<m, steps, calls>>

FNext ==
  \/ \E l \in Locations :
       \/ FRead(l)
       \/ \E x \in Operands : FMov(l, x)
       \/ \E x, y \in Operands :
            \/ \E op \in Operations \intersect {"add", "sub"} : Additive(op, l, x, y)
            \/ \E op \in Operations \intersect {"imulq", "idivq"} : Scale(op, l, x, y)
  \/ \E l \in Placed : FGetPar(l) \/ \E n \in 0..MaxArgs : FCall(l, n)
  \/ \E k, l \in Operands \ Constants : FSwap(k, l)
  \/ \E x \in Operands : FWrite(x) \/ FWriteLast(x)
  \/ \E x \in Operands \intersect Passed : FSetPar(x) \/ FReturn(x)
  \/ \E x, y \in Operands : FCompare(x, y)
  \/ FNewLine \/ FReturn(NoValue) \/ FExit

FSpec == FInit /\ [][FNext]_frame_vars

-----------------------------------------------------------------------------
(* Where the text keeps what belongs to the activations.                   *)

AtEntry(j) == j = Depth /\ text = "pars"

\* The frame pointer of the activation j: the one that runs has it in rbp, the
\* others were saved by the activation they called.
FramePointer ==
  LET pointer[j \in 1..Depth] ==
        IF j = Depth \/ AtEntry(j + 1) THEN m.reg["rbp"] ELSE m.mem[Cell(pointer[j + 1], 0)]
  IN pointer

\* What the activation j saved for its caller begins here.
Saved(j) ==
  IF AtEntry(j) THEN m.reg["r11"] ELSE Arithmetic("add", FramePointer[j], Const(1))

Position(r) == CHOOSE i \in 1..REGISTER_COUNT : RegisterList[i] = r

Kept(j, l) ==
  CASE is_virtual_reg(l) -> m.mem[Cell(FramePointer[j], l[3])]
    [] l[1] = "reg" /\ j = Depth -> m.reg[l[2]]
    [] l[1] = "reg" /\ j < Depth ->
         m.mem[Cell(Saved(j + 1), REGISTER_COUNT - Position(l[2]))]

-----------------------------------------------------------------------------
(* Properties.                                                             *)

\* The machine holds every value of every activation where its function looks for
\* it, also while another function runs: no instruction, call or return destroys a
\* value or puts a result anywhere but where it belongs.
ValuesKept ==
  text # "exited" =>
    \A j \in 1..Depth : \A l \in DOMAIN acts[j].locals : Kept(j, l) = acts[j].locals[l]

\* The arguments of a call are where the GETPARs of the function pop them, in
\* their order, whatever was called between them.
ArgumentsInPlace ==
  text # "exited" =>
    \A j \in 1..Depth : \A i \in 1..Len(acts[j].args) :
      m.mem[Cell(FramePointer[j], -SpillCount - i)] = acts[j].args[i]

\* The stack pointer is below the frame of the running function and the
\* arguments that wait, so that a return finds its address and the next call does
\* not write over the frame.
StackPointerInFrame ==
  text # "exited" =>
    LET j == IF text = "pars" THEN Depth - 1 ELSE Depth
    IN /\ m.reg["rsp"] = Arithmetic("add", FramePointer[j],
                                   Const(-SpillCount - Len(acts[j].args)))
       /\ \A i \in 2..Depth :
            m.mem[Cell(Saved(i), REGISTER_COUNT + 1)] = <<"after", acts[i - 1].dest>>

\* What is written, compared and read is what the instructions mean.
SeenAsMeant == m.seen = seen /\ m.inputs = inputs

=============================================================================
