------------------------------- MODULE Encodings -------------------------------
(***************************************************************************)
(* The create_* methods of the Assembler: the bytes of one instruction.    *)
(*                                                                         *)
(* An IntelInstruction is a record of its parts in the order they are      *)
(* written; a part whose used_fields are off has no bytes.  An instruction *)
(* of the text is <<name, operand, ...>>, source first.  Left out are      *)
(* operands the CodeEmitter never writes: a symbol in front of a register  *)
(* in brackets, and a symbol for imulq, idivq, push, pop and movb %al.     *)
(***************************************************************************)
EXTENDS X86

CONSTANTS
  PageSize,      \* 0x1000 in the code
  VADDR_START

ASSUME LayoutAssumption ==
  PageSize \in Nat \ {0} /\ VADDR_START \in Nat /\ VADDR_START % PageSize = 0

extended_registers == {"r8", "r9", "r10", "r11", "r12", "r13", "r14", "r15"}

registers ==
  [r \in {Names[i] : i \in 1..16} |-> ((CHOOSE i \in 1..16 : Names[i] = r) - 1) % 8]

get_optype(x) ==
  CASE x[1] = "imm" -> "IMM" [] x[1] = "reg" -> "REG"
    [] x[1] = "mem" -> "REGADDR" [] x[1] = "symbol" -> "ADDR"

-----------------------------------------------------------------------------
(* The parts of an instruction.                                            *)

Blank == [rex |-> {}, opcode |-> <<>>, modrm |-> <<>>, sib |-> <<>>,
          displacement |-> 0, disp_size |-> 0, immediate |-> 0, imm_size |-> 0]

REX(bits) ==
  LET bit(b, v) == IF b \in bits THEN v ELSE 0
  IN IF bits = {} THEN <<>> ELSE <<\h40 + bit("W", 8) + bit("R", 4) + bit("B", 1)>>

\* What used_fields adds up to.
Size(ii) ==
  Len(REX(ii.rex)) + Len(ii.opcode) + Len(ii.modrm) + Len(ii.sib) + ii.disp_size + ii.imm_size

Bytecode(ii) ==
  REX(ii.rex) \o ii.opcode \o ii.modrm \o ii.sib
    \o Little(ii.displacement, ii.disp_size) \o Little(ii.immediate, ii.imm_size)

setREXB(x) == IF x[1] \in {"reg", "mem"} /\ x[2] \in extended_registers THEN {"B"} ELSE {}
setREXR(x) == IF x[2] \in extended_registers THEN {"R"} ELSE {}

ModRM(mod, reg, rm) == <<mod * 64 + reg * 8 + rm>>
SIB(base) == <<4 * 8 + base>>

AddressIn(sym_table, s) ==
  IF s \in DOMAIN sym_table THEN VADDR_START + PageSize + sym_table[s] ELSE 0

\* The B bit of the base is forgotten.
WithPlace_NoB(rex, opcode, reg, x, sym_table) ==
  LET ii == [Blank EXCEPT !.rex = rex, !.opcode = <<opcode>>]
      rm == registers[x[2]]
  IN CASE get_optype(x) = "REG" -> [ii EXCEPT !.modrm = ModRM(3, reg, rm)]
       [] get_optype(x) = "REGADDR" ->
            [ii EXCEPT !.modrm = ModRM(2, reg, rm), !.sib = IF rm = 4 THEN SIB(rm) ELSE <<>>,
                       !.displacement = x[3], !.disp_size = 4]
       [] get_optype(x) = "ADDR" ->
            [ii EXCEPT !.modrm = ModRM(0, reg, 4), !.sib = SIB(5),
                       !.displacement = AddressIn(sym_table, x[2]), !.disp_size = 4]

\* An instruction with the operand x in ModRM, beside the register (or the rest of
\* the opcode) reg: the same lines in nearly every create_*.
WithPlace(rex, opcode, reg, x, sym_table) ==
  LET ii == [Blank EXCEPT !.rex = rex \union setREXB(x), !.opcode = <<opcode>>]
      rm == registers[x[2]]
  IN CASE get_optype(x) = "REG" -> [ii EXCEPT !.modrm = ModRM(3, reg, rm)]
       [] get_optype(x) = "REGADDR" ->
            [ii EXCEPT !.modrm = ModRM(2, reg, rm), !.sib = IF rm = 4 THEN SIB(rm) ELSE <<>>,
                       !.displacement = x[3], !.disp_size = 4]
       [] get_optype(x) = "ADDR" ->
            [ii EXCEPT !.modrm = ModRM(0, reg, 4), !.sib = SIB(5),
                       !.displacement = AddressIn(sym_table, x[2]), !.disp_size = 4]

InRegister(rex, opcode, reg, x) ==
  [Blank EXCEPT !.rex = rex \union setREXB(x), !.opcode = <<opcode>>,
                !.modrm = ModRM(3, reg, registers[x[2]])]

WithImmediate(ii, v, size) == [ii EXCEPT !.immediate = v, !.imm_size = size]

Plain(opcode) == [Blank EXCEPT !.opcode = opcode]

-----------------------------------------------------------------------------
(* One operator for each create_*.                                         *)

\* An immediate goes into memory with 32 bits; from memory to memory nothing is
\* written.
create_mov(x, y, sym_table) ==
  CASE get_optype(x) = "IMM" /\ get_optype(y) = "REG" ->
         WithImmediate([Plain(<<\hb8 + registers[y[2]]>>) EXCEPT !.rex = {"W"} \union setREXB(y)],
                       x[2], 8)
    [] get_optype(x) = "IMM" /\ get_optype(y) \in {"ADDR", "REGADDR"} ->
         WithImmediate(WithPlace({}, \hc7, 0, y, sym_table), x[2], 4)
    [] get_optype(x) = "REG" /\ get_optype(y) \in {"REG", "ADDR", "REGADDR"} ->
         WithPlace({"W"} \union setREXR(x), \h89, registers[x[2]], y, sym_table)
    [] get_optype(x) \in {"ADDR", "REGADDR"} /\ get_optype(y) = "REG" ->
         WithPlace({"W"} \union setREXR(y), \h8b, registers[y[2]], x, sym_table)
    [] OTHER -> Blank

\* ext belongs to code1, the immediate form; with ADDR it is forgotten.
create_2opinstr(x, y, sym_table, code1, code2, code3, ext) ==
  CASE get_optype(x) = "IMM" /\ get_optype(y) = "REG" ->
         WithImmediate(InRegister({"W"}, code1, ext, y), x[2], 4)
    [] get_optype(x) = "IMM" /\ get_optype(y) \in {"ADDR", "REGADDR"} ->
         WithImmediate(
           WithPlace({}, code1, IF get_optype(y) = "ADDR" THEN 0 ELSE ext, y, sym_table), x[2], 4)
    [] get_optype(x) = "REG" /\ get_optype(y) \in {"REG", "ADDR", "REGADDR"} ->
         WithPlace({"W"} \union setREXR(x), code2, registers[x[2]], y, sym_table)
    [] get_optype(x) \in {"ADDR", "REGADDR"} /\ get_optype(y) = "REG" ->
         WithPlace({"W"} \union setREXR(y), code3, registers[y[2]], x, sym_table)
    [] OTHER -> Blank

create_add(x, y, sym_table) == create_2opinstr(x, y, sym_table, \h81, \h01, \h03, 0)
create_sub(x, y, sym_table) == create_2opinstr(x, y, sym_table, \h81, \h29, \h2b, 5)
create_xor(x, y, sym_table) == create_2opinstr(x, y, sym_table, \h81, \h31, \h33, 6)
create_cmp(x, y, sym_table) == create_2opinstr(x, y, sym_table, \h81, \h39, \h3b, 7)

\* A symbol gets a SIB byte without a base, and its address as the immediate. In
\* front of a register in brackets nothing but the name of a register is looked up.
create_lea(x, y, sym_table) ==
  IF get_optype(x) = "REGADDR"
    THEN [Plain(<<\h8d>>) EXCEPT !.rex = {"W"},
            !.modrm = ModRM(2, registers[y[2]], registers[x[2]]),
            !.displacement = AddressIn(sym_table, x[2]), !.disp_size = 4]
    ELSE WithImmediate([Plain(<<\h8d>>) EXCEPT !.rex = {"W"},
                          !.modrm = ModRM(0, registers[y[2]], 4), !.sib = SIB(5)],
                       AddressIn(sym_table, x[2]), 4)

create_inc(x) == InRegister({"W"}, \hff, 0, x)
create_dec(x) == InRegister({"W"}, \hff, 1, x)
create_mul(x) == InRegister({"W"}, \hf7, 4, x)
create_div(x) == InRegister({"W"}, \hf7, 6, x)
create_neg(x) == InRegister({"W"}, \hf7, 3, x)

create_imul(x, sym_table) == WithPlace({"W"}, \hf7, 5, x, sym_table)
create_idiv(x, sym_table) == WithPlace({"W"}, \hf7, 7, x, sym_table)

create_push(x, sym_table) ==
  CASE get_optype(x) = "IMM" ->
         WithImmediate(Plain(<<\h68>>), x[2], 4)
    [] get_optype(x) = "REG" -> [Plain(<<\h50 + registers[x[2]]>>) EXCEPT !.rex = setREXB(x)]
    [] get_optype(x) = "REGADDR" -> WithPlace({}, \hff, 6, x, sym_table)

create_pop(x, sym_table) ==
  IF get_optype(x) = "REG"
    THEN [Plain(<<\h58 + registers[x[2]]>>) EXCEPT !.rex = setREXB(x)]
    ELSE WithPlace({}, \h8f, 0, x, sym_table)

create_test(x, y) ==
  [Plain(<<\h85>>) EXCEPT !.rex = {"W"}, !.modrm = ModRM(3, registers[x[2]], registers[y[2]])]

\* The second byte of the opcode goes where ModRM would be.
create_cqto == Plain(<<\h48, \h99>>)
create_syscall == Plain(<<\h0f, \h05>>)
create_ret == Plain(<<\hc3>>)

\* The displacement counts from the beginning of the jump.
create_jmpinstr_Start(x, sym_table, curr_offset, code1, code2) ==
  WithImmediate(Plain(code1 \o code2),
    IF x[2] \in DOMAIN sym_table THEN sym_table[x[2]] - curr_offset ELSE 0, 4)

\* The displacement counts from the end of the jump, which is computed from the
\* form of the opcode; a label that is not in the table gives 0.
create_jmpinstr(x, sym_table, curr_offset, code1, code2) ==
  LET byte_size == IF code2 = <<>> THEN 5 ELSE 6
  IN WithImmediate(Plain(code1 \o code2),
       IF x[2] \in DOMAIN sym_table THEN sym_table[x[2]] - curr_offset - byte_size ELSE 0, 4)

JumpCodes == [name \in {"call", "jmp", "jne", "je", "jge", "jg", "jle", "jl"} |->
  CASE name = "call" -> <<\he8>> [] name = "jmp" -> <<\he9>> [] OTHER -> <<\h0f>>]

JumpSecondCodes == [name \in DOMAIN JumpCodes |->
  CASE name = "jne" -> <<\h85>> [] name = "je" -> <<\h84>> [] name = "jge" -> <<\h8d>>
    [] name = "jg" -> <<\h8f>> [] name = "jle" -> <<\h8e>> [] name = "jl" -> <<\h8c>>
    [] OTHER -> <<>>]

\* Through a register the byte is moved without a displacement, and always from al.
create_movb(x, y, sym_table) ==
  LET through ==
        [Plain(<<IF get_optype(x) = "IMM" THEN \hc6 ELSE \h88>>) EXCEPT
                      !.modrm = ModRM(0, 0, registers[y[2]]),
                      !.sib = IF get_optype(x) = "IMM" /\ registers[y[2]] = 4
                                THEN SIB(4) ELSE <<>>]
      ii == IF get_optype(y) = "REGADDR" THEN through
                                         ELSE WithPlace({}, \hc6, 0, y, sym_table)
  IN IF get_optype(x) = "IMM" THEN WithImmediate(ii, x[2], 1) ELSE ii

\* The operands of these three are not looked at, except for one constant.
create_addb(x) == WithImmediate(Plain(<<\h04>>), x[2], 1)
create_movzxb == Plain(<<\h48, \h0f, \hb6, \h0e>>)
create_cmpb(x) == Plain(<<\h80, \hf9, IF x = Imm(45) THEN 45 ELSE 10>>)

-----------------------------------------------------------------------------
create_instruction(i, sym_table, curr_offset) ==
  LET name == i[1] IN
  CASE name = "mov" -> create_mov(i[2], i[3], sym_table)
    [] name = "lea" -> create_lea(i[2], i[3], sym_table)
    [] name = "add" -> create_add(i[2], i[3], sym_table)
    [] name = "sub" -> create_sub(i[2], i[3], sym_table)
    [] name = "cmp" -> create_cmp(i[2], i[3], sym_table)
    [] name = "xor" -> create_xor(i[2], i[3], sym_table)
    [] name = "inc" -> create_inc(i[2])
    [] name = "dec" -> create_dec(i[2])
    [] name = "mul" -> create_mul(i[2])
    [] name = "div" -> create_div(i[2])
    [] name = "idivq" -> create_idiv(i[2], sym_table)
    [] name = "imulq" -> create_imul(i[2], sym_table)
    [] name = "push" -> create_push(i[2], sym_table)
    [] name = "pop" -> create_pop(i[2], sym_table)
    [] name = "test" -> create_test(i[2], i[3])
    [] name \in DOMAIN JumpCodes ->
         create_jmpinstr(i[2], sym_table, curr_offset, JumpCodes[name], JumpSecondCodes[name])
    [] name = "neg" -> create_neg(i[2])
    [] name = "cqto" -> create_cqto
    [] name = "syscall" -> create_syscall
    [] name = "ret" -> create_ret
    [] name = "movb" -> create_movb(i[2], i[3], sym_table)
    [] name = "addb" -> create_addb(i[2])
    [] name = "movzxb" -> create_movzxb
    [] name = "cmpb" -> create_cmpb(i[2])

=============================================================================
