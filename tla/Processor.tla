------------------------------- MODULE Processor -------------------------------
(***************************************************************************)
(* The routines of the library at work: the Assembler makes the program,   *)
(* then the processor executes its bytes from the place of write or read   *)
(* until the routine returns.  Instructions are fetched from the bytes by  *)
(* Decode, so that the text, its encoding, the places of its labels and    *)
(* the addresses of its buffers are put to the test together.              *)
(*                                                                         *)
(* A word is a number from 0 to 2^WordSize - 1.  Only what the two         *)
(* routines need of the processor and of the system calls is here.  Bytes  *)
(* that are not in memory are 0, as create_binary writes them.             *)
(***************************************************************************)
EXTENDS Assembler, Library

CONSTANTS
  WordSize,   \* 64 in the processor
  Written,    \* numbers that are printed
  Typed,      \* numbers that are typed
  MaxCalls,   \* of routines, in one execution
  Pipes       \* admit a read that is answered with more than one line

Newline == 10
Minus == 45

\* The characters of a number.
Decimal(n) ==
  LET a == IF n < 0 THEN -n ELSE n
      digits == CHOOSE k \in 1..10 : (k = 10 \/ a < 10^k) /\ (k = 1 \/ a >= 10^(k - 1))
  IN (IF n < 0 THEN <<Minus>> ELSE <<>>) \o [i \in 1..digits |-> 48 + ((a \div 10^(digits - i)) % 10)]

\* A number has room for its sign and the 0 behind its digits in strResult, a line
\* for its end in buff; the addresses of both are words. 19 digits are 21 bytes.
ASSUME ProcessorAssumption ==
  /\ WordSize \in 9..28 /\ MaxCalls \in Nat /\ Pipes \in BOOLEAN
  /\ BufferSize = StrSize /\ DataSize = 2 * BufferSize
  /\ Written \subseteq -(2^(WordSize - 1))..(2^(WordSize - 1) - 1) /\ Typed \subseteq Int
  /\ \A n \in Written \union Typed : Len(Decimal(n)) < BufferSize
  /\ VADDR_START < 2^WordSize

VARIABLES
  cpu,      \* registers, the two numbers compared last, stack, the place of the next
            \* instruction (0: none), memory, what was printed
  stdin,    \* the characters typed and not yet read
  typed,    \* history: the numbers they stand for
  routine   \* history: the last routine called, its number, registers and memory then

machine_vars == <<cpu, stdin, typed, routine>>
all_vars == <<assembler_vars, machine_vars>>

Running == cpu.at # 0

-----------------------------------------------------------------------------
(* Words, registers and memory.                                            *)

Word(v) == v % 2^WordSize
SignedWord(w) == IF w < 2^(WordSize - 1) THEN w ELSE w - 2^WordSize

LowByteOf == [r \in Range(ByteNames) |->
  CASE r = "al" -> "rax" [] r = "cl" -> "rcx" [] r = "dl" -> "rdx" [] r = "bl" -> "rbx"]

ByteAt(memory, a) == IF a \in DOMAIN memory THEN memory[a] ELSE 0

AddressOf(c, x) == IF x[1] = "absolute" THEN x[2] ELSE Word(c.reg[x[2]] + x[3])

Fetched(c, x) ==
  CASE x[1] = "imm" -> Word(x[2])
    [] x[1] = "reg" /\ x[2] \in DOMAIN LowByteOf -> c.reg[LowByteOf[x[2]]] % 256
    [] x[1] = "reg" /\ x[2] \notin DOMAIN LowByteOf -> c.reg[x[2]]
    [] x[1] \in {"mem", "absolute"} -> ByteAt(c.memory, AddressOf(c, x))

Stored(c, x, v) ==
  CASE x[1] = "reg" /\ x[2] \in DOMAIN LowByteOf ->
         [c EXCEPT !.reg[LowByteOf[x[2]]] = @ - (@ % 256) + (v % 256)]
    [] x[1] = "reg" /\ x[2] \notin DOMAIN LowByteOf -> [c EXCEPT !.reg[x[2]] = v]
    [] x[1] \in {"mem", "absolute"} ->
         [c EXCEPT !.memory = Insert(@, AddressOf(c, x), v % 256)]

-----------------------------------------------------------------------------
(* Instructions.  flags are the two numbers whose comparison they are the  *)
(* outcome of; div and imulq leave them undefined.                         *)

Result(c, x, v) == [Stored(c, x, v) EXCEPT !.flags = <<SignedWord(v), 0>>]

Undefined == <<>>

div(c, x) ==
  LET dividend == c.reg["rdx"] * 2^WordSize + c.reg["rax"]
  IN [c EXCEPT !.reg["rax"] = dividend \div Fetched(c, x),
               !.reg["rdx"] = dividend % Fetched(c, x), !.flags = Undefined]

imulq(c, x) ==
  LET product == SignedWord(c.reg["rax"]) * SignedWord(Fetched(c, x))
  IN [c EXCEPT !.reg["rax"] = Word(product), !.reg["rdx"] = Word(product \div 2^WordSize),
               !.flags = Undefined]

Jumps(name, flags) ==
  CASE name = "jmp" -> TRUE
    [] name = "je" -> flags[1] = flags[2]
    [] name = "jne" -> flags[1] # flags[2]
    [] name = "jge" -> flags[1] >= flags[2]

\* What one read is answered with: as many bytes as were asked for, from a terminal
\* no more than the first line.
Answer(asked) ==
  LET available == IF Pipes THEN Len(stdin)
                   ELSE CHOOSE k \in DOMAIN stdin :
                          stdin[k] = Newline /\ \A j \in 1..(k - 1) : stdin[j] # Newline
  IN SubSeq(stdin, 1, IF asked < available THEN asked ELSE available)

\* The system calls write (1) and read (0), on the bytes from rsi on, rdx of them. The
\* processor itself leaves the place behind the syscall and the flags in registers.
syscall(c) ==
  LET from == c.reg["rsi"]
      size == c.reg["rdx"]
      answer == Answer(size)
      called == [c EXCEPT !.reg["rcx"] = c.at, !.reg["r11"] = 514]
  IN IF c.reg["rax"] = 1
       THEN [called EXCEPT !.reg["rax"] = size,
               !.output = [k \in 1..size |-> ByteAt(c.memory, from + k - 1)]]
       ELSE [called EXCEPT !.reg["rax"] = Len(answer),
               !.memory = [a \in DOMAIN @ \union {from + k - 1 : k \in DOMAIN answer} |->
                  IF a - from + 1 \in DOMAIN answer THEN answer[a - from + 1] ELSE @[a]]]

Execute(i) ==
  LET c == [cpu EXCEPT !.at = i.next]
      x == i.operands[1]
      y == i.operands[2]
  IN CASE i.name \in {"mov", "movb", "movzxb"} -> Stored(c, y, Fetched(c, x))
       [] i.name = "lea" -> Stored(c, y, AddressOf(c, x))
       [] i.name \in {"add", "addb"} -> Result(c, y, Word(Fetched(c, y) + Fetched(c, x)))
       [] i.name = "sub" -> Result(c, y, Word(Fetched(c, y) - Fetched(c, x)))
       [] i.name = "xor" /\ x = y -> Result(c, y, 0)
       [] i.name \in {"cmp", "cmpb"} ->
            [c EXCEPT !.flags = <<SignedWord(Fetched(c, y)), SignedWord(Fetched(c, x))>>]
       [] i.name = "test" /\ x = y -> [c EXCEPT !.flags = <<SignedWord(Fetched(c, x)), 0>>]
       [] i.name = "inc" -> Result(c, x, Word(Fetched(c, x) + 1))
       [] i.name = "dec" -> Result(c, x, Word(Fetched(c, x) - 1))
       [] i.name = "neg" -> Result(c, x, Word(-Fetched(c, x)))
       [] i.name = "div" -> div(c, x)
       [] i.name = "imulq" -> imulq(c, x)
       [] i.name = "push" -> [c EXCEPT !.stack = <<Fetched(c, x)>> \o @]
       [] i.name = "pop" -> Stored([c EXCEPT !.stack = Tail(@)], x, Head(c.stack))
       [] i.name = "ret" -> [c EXCEPT !.at = Head(c.stack), !.stack = Tail(@)]
       [] i.name \in {"jmp", "je", "jne", "jge"} ->
            IF Jumps(i.name, c.flags) THEN [c EXCEPT !.at = x[2]] ELSE c
       [] i.name = "syscall" -> syscall(c)

-----------------------------------------------------------------------------
(* The program around the routines.                                        *)

NoRoutine == [name |-> "none", number |-> 0, reg |-> <<>>, memory |-> <<>>, calls |-> 0]

MInit ==
  /\ Init
  /\ cpu = [reg |-> [r \in Range(Names) |-> Word(1001 * CHOOSE k \in 1..16 : Names[k] = r)],
            flags |-> Undefined, stack |-> <<>>, at |-> 0, memory |-> <<>>, output |-> <<>>]
  /\ stdin = <<>> /\ typed = <<>> /\ routine = NoRoutine

Assemble == Next /\ UNCHANGED machine_vars

\* pass is "running" from the first call on: the Assembler has left its file.
Idle == pass \in {"linked", "running"} /\ ~Running /\ {"write", "read"} \subseteq DOMAIN sym_table

Called(name, n, c) ==
  /\ Idle /\ routine.calls < MaxCalls
  /\ cpu' = [c EXCEPT !.at = sym_table[name] + 1, !.stack = <<0>> \o @, !.output = <<>>]
  /\ routine' = [name |-> name, number |-> n, reg |-> c.reg, memory |-> c.memory,
                 calls |-> routine.calls + 1]
  /\ pass' = "running"
  /\ UNCHANGED <<text, pos, curr_offset, sym_table, program_bytecode, binary, offsets>>

CallWrite(n) ==
  /\ Called("write", n, [cpu EXCEPT !.reg["rax"] = Word(n)])
  /\ UNCHANGED <<stdin, typed>>

\* A line is typed while the program is not reading, perhaps long before it does.
Type(n) ==
  /\ Idle /\ routine.calls + Len(typed) < MaxCalls
  /\ stdin' = stdin \o Decimal(n) \o <<Newline>>
  /\ typed' = Append(typed, n)
  /\ UNCHANGED <<assembler_vars, cpu, routine>>

CallRead ==
  /\ typed # <<>> /\ Called("read", Head(typed), cpu)
  /\ typed' = Tail(typed) /\ UNCHANGED stdin

Step ==
  /\ Running
  /\ \E i \in {Decode(program_bytecode, cpu.at)} :
        /\ cpu' = Execute(i)
        /\ stdin' = IF i.name = "syscall" /\ cpu.reg["rax"] = 0
                      THEN SubSeq(stdin, Len(Answer(cpu.reg["rdx"])) + 1, Len(stdin)) ELSE stdin
  /\ UNCHANGED <<assembler_vars, typed, routine>>

MNext ==
  \/ Assemble \/ (\E n \in Written : CallWrite(n)) \/ (\E n \in Typed : Type(n))
  \/ CallRead \/ Step

\* A processor that is running goes on. The program may call nothing more.
MSpec == MInit /\ [][MNext]_all_vars /\ WF_all_vars(Step)

-----------------------------------------------------------------------------
(* Properties.                                                             *)

OwnBuffer(name) ==
  LET first == DataAddress(IF name = "write" THEN "strResult" ELSE "buff")
  IN first..(first + BufferSize - 1)

\* When write has returned, the number it was called with is printed, all of its
\* digits, the smallest number with its sign too, and nothing of an earlier one; when
\* read has returned, the number on the next line that was typed is in rax. Each
\* routine leaves the stack as it was, and everything but the registers the callers
\* give up for it (Overwritten, which CallFrame relies on) and its own buffer.
RoutinesDoTheirWork ==
  routine.name # "none" /\ ~Running =>
    /\ routine.name = "write" => cpu.output = Decimal(routine.number)
    /\ routine.name = "read" => cpu.reg["rax"] = Word(routine.number)
    /\ cpu.stack = <<>>
    /\ \A r \in DOMAIN cpu.reg \ Overwritten[routine.name] : cpu.reg[r] = routine.reg[r]
    /\ \A a \in DOMAIN cpu.memory \ OwnBuffer(routine.name) :
         cpu.memory[a] = ByteAt(routine.memory, a)

\* A routine that was called returns: the loop over the digits ends when nothing is
\* left of the number, the one over the characters at the end of the line.
RoutinesReturn == Running ~> ~Running

=============================================================================
