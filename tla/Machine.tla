-------------------------------- MODULE Machine --------------------------------
(***************************************************************************)
(* The machine the emitted text runs on: the registers, the stack and the  *)
(* instructions CodeEmitter writes, each with the operands and the width   *)
(* the Assembler encodes it with.                                          *)
(*                                                                         *)
(* The stack grows down, one cell for each word of 8 bytes; cell 0 stands  *)
(* for every address outside of it.                                        *)
(***************************************************************************)
EXTENDS Words

CONSTANT StackSize
ASSUME StackAssumption == StackSize \in Nat \ {0}

RegisterList == <<"rax", "rbx", "rcx", "rdx", "rsi", "rdi", "r8", "r9", "r10", "r14", "r15">>
REGISTER_COUNT == Len(RegisterList)
MachineRegisters == {RegisterList[i] : i \in 1..REGISTER_COUNT} \union {"rsp", "rbp", "r11"}

IsMemory(x) == x[1] \in {"mem", "upper"}

Cell(w, k) == IF w[1] = "address" /\ w[2] + k \in 1..StackSize THEN w[2] + k ELSE 0

ValueOf(m, x) ==
  CASE x[1] = "imm" -> Const(x[2])
    [] x[1] = "reg" -> m.reg[x[2]]
    [] IsMemory(x) -> m.mem[Cell(m.reg[x[2]], x[3])]

Store(m, x, w) ==
  IF x[1] = "reg" THEN [m EXCEPT !.reg[x[2]] = w]
                  ELSE [m EXCEPT !.mem[Cell(m.reg[x[2]], x[3])] = w]

-----------------------------------------------------------------------------
(* Instructions, source operand first.                                     *)

\* An immediate is stored in memory with 32 bits, into the half the address is
\* that of; between two operands in memory the Assembler writes no bytes.
mov(m, x, y) ==
  LET w == ValueOf(m, x)
      old == ValueOf(m, y)
  IN CASE IsMemory(x) /\ IsMemory(y) -> m
       [] x[1] = "imm" /\ y[1] = "mem" -> Store(m, y, Halves(Upper(old), w))
       [] y[1] = "upper" -> Store(m, y, Halves(w, Lower(old)))
       [] OTHER -> Store(m, y, w)

arithmetic(m, op, x, y) ==
  LET w == ValueOf(m, x)
      old == ValueOf(m, y)
      done == [m EXCEPT !.flags = Junk]
  IN CASE IsMemory(x) /\ IsMemory(y) -> m
       [] x[1] = "imm" /\ IsMemory(y) ->
            Store(done, y, Halves(Upper(old), Arithmetic(op, Lower(old), w)))
       [] OTHER -> Store(done, y, Arithmetic(op, old, w))

Moved(m, k) == [m EXCEPT !.reg["rsp"] = Arithmetic("add", @, Const(k))]

push_word(m, w) == Store(Moved(m, -1), Mem("rsp", 0), w)
push(m, x) == push_word(m, ValueOf(m, x))
pop(m, x) == Store(Moved(m, 1), x, ValueOf(m, Mem("rsp", 0)))

\* The address behind a call tells the location the result is wanted in.
call(m, dest) == push_word(m, <<"after", dest>>)

cqto(m) == [m EXCEPT !.reg["rdx"] = <<"sign", m.reg["rax"]>>]

\* imulq and idivq leave a second word in rdx, which no instruction uses.
imulq(m, x) ==
  [m EXCEPT !.reg["rax"] = Arithmetic("imulq", m.reg["rax"], ValueOf(m, x)),
            !.reg["rdx"] = Junk, !.flags = Junk]

\* The dividend is rdx:rax.
idivq(m, x) ==
  LET single == m.reg["rdx"] = <<"sign", m.reg["rax"]>>
      quotient == Arithmetic("idivq", m.reg["rax"], ValueOf(m, x))
  IN [m EXCEPT !.reg["rax"] = IF single THEN quotient ELSE Junk, !.reg["rdx"] = Junk,
               !.flags = Junk]

\* What the routines write and read and the code that writes a new line leave
\* behind: the registers they use, those of the system call, and everything below
\* the stack pointer.
Scratch(m, registers) ==
  [m EXCEPT !.reg = [r \in DOMAIN @ |-> IF r \in registers THEN Junk ELSE @[r]],
            !.mem = [a \in DOMAIN @ |->
                       IF a # 0 /\ a < Cell(m.reg["rsp"], 0) THEN Junk ELSE @[a]],
            !.flags = Junk]

call_write(m) ==
  [Scratch(m, Overwritten.write) EXCEPT !.seen = <<"write", m.reg["rax"]>>]

call_read(m) ==
  [Scratch(m, Overwritten.read) EXCEPT
     !.reg["rax"] = Input(m.inputs), !.inputs = @ + 1]

call_newline(m) == Scratch(m, {"rax", "rcx", "rdx", "rsi", "rdi", "r11"})

Execute(m, i) ==
  CASE i[1] = "mov" -> mov(m, i[2], i[3])
    [] i[1] \in {"add", "sub"} -> arithmetic(m, i[1], i[2], i[3])
    [] i[1] = "cqto" -> cqto(m)
    [] i[1] = "imulq" -> imulq(m, i[2])
    [] i[1] = "idivq" -> idivq(m, i[2])
    [] i[1] = "cmp" -> [m EXCEPT !.flags = <<ValueOf(m, i[3]), ValueOf(m, i[2])>>]
    [] i[1] = "jcc" -> [m EXCEPT !.seen = <<"branch", m.flags>>]
    [] i[1] = "push" -> push(m, i[2])
    [] i[1] = "pop" -> pop(m, i[2])
    [] i[1] = "call" -> call(m, i[2])
    [] i[1] = "write" -> call_write(m)
    [] i[1] = "read" -> call_read(m)
    [] i[1] = "newline" -> call_newline(m)

Run(m, text) == FoldLeft(Execute, m, text)

=============================================================================
