---------------------------------- MODULE X86 ----------------------------------
(***************************************************************************)
(* The processor's side of the assembler: what it takes a sequence of      *)
(* bytes for, in 64-bit mode.  Nothing of it is in the repository; it is   *)
(* the part of the instruction set whose opcodes the Assembler writes.     *)
(*                                                                         *)
(* An instruction is its name, its width in bits and its operands, source  *)
(* first, as in the text; sizes and displacements are in bytes.            *)
(***************************************************************************)
EXTENDS Words

Bad == <<"bad">>

\* Operands a text cannot write in this form: an absolute address, and a place in
\* the code.
Absolute(a) == <<"absolute", a>>
To(a) == <<"to", a>>

Names == <<"rax", "rcx", "rdx", "rbx", "rsp", "rbp", "rsi", "rdi",
           "r8", "r9", "r10", "r11", "r12", "r13", "r14", "r15">>
ByteNames == <<"al", "cl", "dl", "bl">>

\* The bytes of a number, lowest first, and the number k bytes from place at mean;
\* the last of them carries the sign.
Little(v, k) ==
  LET rest[i \in 0..k] == IF i = 0 THEN v ELSE rest[i - 1] \div 256
  IN [i \in 1..k |-> rest[i - 1] % 256]

Byte(b, i) == IF i \in DOMAIN b THEN b[i] ELSE 0

Signed(b, at, k) ==
  LET top == Byte(b, at + k - 1)
      from[i \in 1..k] ==
        IF i = 1 THEN IF top >= 128 THEN top - 256 ELSE top
                 ELSE from[i - 1] * 256 + Byte(b, at + k - i)
  IN from[k]

-----------------------------------------------------------------------------
(* ModRM and SIB.                                                          *)

Mod(x) == x \div 64
Middle(x) == (x \div 8) % 8
Low(x) == x % 8

\* The operand that ModRM, at place p, describes, and where the bytes behind it
\* begin.  extended is the B bit of REX.
Place(b, p, extended, registers) ==
  LET modrm == Byte(b, p)
      sib == Byte(b, p + 1)
      through_sib == Low(modrm) = 4
      q == IF through_sib THEN p + 2 ELSE p + 1
      base == IF through_sib THEN Low(sib) ELSE Low(modrm)
      name == Names[base + 1 + 8 * extended]
  IN CASE Mod(modrm) = 3 /\ Low(modrm) + 8 * extended < Len(registers) ->
            <<Reg(registers[Low(modrm) + 1 + 8 * extended]), p + 1>>
       [] Mod(modrm) \in 0..2 /\ through_sib /\ Middle(sib) # 4 -> <<Bad, q>>
       [] Mod(modrm) = 0 /\ through_sib /\ base = 5 -> <<Absolute(Signed(b, q, 4)), q + 4>>
       [] Mod(modrm) = 0 /\ ~through_sib /\ base = 5 ->
            <<<<"rip", Signed(b, q, 4)>>, q + 4>>
       [] Mod(modrm) = 0 /\ base # 5 /\ (through_sib => Middle(sib) = 4) ->
            <<Mem(name, 0), q>>
       [] Mod(modrm) = 1 /\ (through_sib => Middle(sib) = 4) ->
            <<Mem(name, Signed(b, q, 1)), q + 1>>
       [] Mod(modrm) = 2 /\ (through_sib => Middle(sib) = 4) ->
            <<Mem(name, Signed(b, q, 4)), q + 4>>
       [] OTHER -> <<Bad, q>>

-----------------------------------------------------------------------------
(* Opcodes.                                                                *)

Instruction(name, width, operands, next) ==
  [name |-> name, width |-> width, operands |-> operands, next |-> next]

FromRegister == [x \in {\h01, \h29, \h31, \h39, \h85, \h89} |->
  CASE x = \h01 -> "add" [] x = \h29 -> "sub" [] x = \h31 -> "xor"
    [] x = \h39 -> "cmp" [] x = \h85 -> "test" [] x = \h89 -> "mov"]

ToRegister == [x \in {\h03, \h2b, \h33, \h3b, \h8b, \h8d} |->
  CASE x = \h03 -> "add" [] x = \h2b -> "sub" [] x = \h33 -> "xor"
    [] x = \h3b -> "cmp" [] x = \h8b -> "mov" [] x = \h8d -> "lea"]

\* Opcodes of which the middle bits of ModRM are a part.
Immediates == <<"add", "none", "none", "none", "none", "sub", "xor", "cmp">>
Unary == <<"none", "none", "none", "neg", "mul", "imulq", "div", "idivq">>
Counting == <<"inc", "dec", "none", "none", "none", "none", "push", "none">>

Conditions == [x \in {\h84, \h85, \h8c, \h8d, \h8e, \h8f} |->
  CASE x = \h84 -> "je" [] x = \h85 -> "jne" [] x = \h8c -> "jl"
    [] x = \h8d -> "jge" [] x = \h8e -> "jle" [] x = \h8f -> "jg"]

\* The instruction whose opcode is at place o of the bytes b, behind a REX byte with
\* the bits R and B if there is one.
Opcode(b, o, has_rex, width, R, B) ==
  LET opcode == Byte(b, o)
      second == Byte(b, o + 1)
      register == Reg(Names[Middle(second) + 1 + 8 * R])
      place == Place(b, o + 1, B, Names)
      byte_place == Place(b, o + 1, B, ByteNames)
      next == place[2]
      Jump(name, at) == Instruction(name, 64, <<To(at + 4 + Signed(b, at, 4))>>, at + 4)
  IN CASE opcode \in DOMAIN FromRegister ->
            Instruction(FromRegister[opcode], width, <<register, place[1]>>, next)
       [] opcode \in DOMAIN ToRegister ->
            Instruction(ToRegister[opcode], width, <<place[1], register>>, next)
       [] opcode = \h81 ->
            Instruction(Immediates[Middle(second) + 1], width,
                        <<Imm(Signed(b, next, 4)), place[1]>>, next + 4)
       [] opcode = \hc7 /\ Middle(second) = 0 ->
            Instruction("mov", width, <<Imm(Signed(b, next, 4)), place[1]>>, next + 4)
       [] opcode \in \hb8..\hbf /\ width = 64 ->
            Instruction("mov", width,
                        <<Imm(Signed(b, o + 1, 8)), Reg(Names[opcode - \hb8 + 1 + 8 * B])>>, o + 9)
       [] opcode = \hf7 -> Instruction(Unary[Middle(second) + 1], width, <<place[1]>>, next)
       [] opcode = \hff ->
            Instruction(Counting[Middle(second) + 1],
                        IF Middle(second) = 6 THEN 64 ELSE width, <<place[1]>>, next)
       [] opcode \in \h50..\h57 ->
            Instruction("push", 64, <<Reg(Names[opcode - \h50 + 1 + 8 * B])>>, o + 1)
       [] opcode \in \h58..\h5f ->
            Instruction("pop", 64, <<Reg(Names[opcode - \h58 + 1 + 8 * B])>>, o + 1)
       [] opcode = \h68 -> Instruction("push", 64, <<Imm(Signed(b, o + 1, 4))>>, o + 5)
       [] opcode = \h8f /\ Middle(second) = 0 -> Instruction("pop", 64, <<place[1]>>, next)
       [] opcode = \h99 /\ width = 64 -> Instruction("cqto", 64, <<>>, o + 1)
       [] opcode = \hc3 -> Instruction("ret", 64, <<>>, o + 1)
       [] opcode = \he8 -> Jump("call", o + 1)
       [] opcode = \he9 -> Jump("jmp", o + 1)
       [] opcode = \h0f /\ second \in DOMAIN Conditions -> Jump(Conditions[second], o + 2)
       [] opcode = \h0f /\ second = \h05 -> Instruction("syscall", 64, <<>>, o + 2)
       [] opcode = \h0f /\ second = \hb6 ->
            LET from == Place(b, o + 2, B, ByteNames)
            IN Instruction("movzxb", width,
                 <<from[1], Reg(Names[Middle(Byte(b, o + 2)) + 1 + 8 * R])>>, from[2])
       [] opcode = \h04 -> Instruction("addb", 8, <<Imm(Signed(b, o + 1, 1)), Reg("al")>>, o + 2)
       [] opcode = \h80 /\ Middle(second) = 7 ->
            Instruction("cmpb", 8, <<Imm(Signed(b, next, 1)), byte_place[1]>>, next + 1)
       [] opcode = \hc6 /\ Middle(second) = 0 ->
            Instruction("movb", 8, <<Imm(Signed(b, next, 1)), byte_place[1]>>, next + 1)
       [] opcode = \h88 /\ Middle(second) < 4 /\ ~has_rex ->
            Instruction("movb", 8, <<Reg(ByteNames[Middle(second) + 1]), byte_place[1]>>, next)
       [] OTHER -> Instruction("bad", 0, <<Bad>>, o + 1)

\* The instruction that begins at place p of the bytes b.
Decode(b, p) ==
  LET has_rex == Byte(b, p) \in \h40..\h4f
      rex == IF has_rex THEN Byte(b, p) - \h40 ELSE 0
      width == IF rex >= 8 THEN 64 ELSE 32
      o == IF has_rex THEN p + 1 ELSE p
  IN Opcode(b, o, has_rex, width, (rex \div 4) % 2, rex % 2)

=============================================================================
