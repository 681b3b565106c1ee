---------------------------- MODULE AssemblerProofs ----------------------------
(***************************************************************************)
(* For texts of every length: the two passes of the Assembler agree on     *)
(* where every line is, so every jump leads to its label; and the file     *)
(* that is linked has its code and its data where the instructions expect  *)
(* them, however the code ends on a page; and the processor finds in the   *)
(* bytes, line after line, the instructions of the text.                   *)
(***************************************************************************)
EXTENDS Assembler, SequenceTheorems, WellFoundedInduction, TLAPS

-----------------------------------------------------------------------------
(* The size of an instruction does not depend on what the symbol table     *)
(* holds or on where the instruction is.                                   *)

IsCode(s) == s \in Seq(Range(s))

Fields == {"rex", "opcode", "modrm", "sib", "displacement", "disp_size", "immediate", "imm_size"}

Sound(ii) ==
  /\ DOMAIN ii = Fields
  /\ IsCode(ii.opcode) /\ IsCode(ii.modrm) /\ IsCode(ii.sib)
  /\ ii.disp_size \in Nat /\ ii.imm_size \in Nat

Shape(ii) == <<ii.rex, ii.opcode, ii.modrm, ii.sib, ii.disp_size, ii.imm_size>>

LEMMA ShortCode ==
  /\ IsCode(<<>>)
  /\ \A x : IsCode(<<x>>)
  /\ \A x, y : IsCode(<<x, y>>)
  /\ \A x, y, z : IsCode(<<x, y, z>>)
  /\ \A w, x, y, z : IsCode(<<w, x, y, z>>)
BY DEF IsCode, Range

LEMMA CodeOfSeq == \A s, t \in Seq(Int) : IsCode(s \o t)
<1> SUFFICES ASSUME NEW s \in Seq(Int), NEW t \in Seq(Int) PROVE IsCode(s \o t)
  OBVIOUS
<1> DEFINE u == s \o t
<1>1. u \in Seq(Int)
  BY ConcatProperties
<1> HIDE DEF u
<1>2. Len(u) \in Nat /\ u \in [1..Len(u) -> Range(u)]
  <2>1. Len(u) \in Nat /\ u \in [1..Len(u) -> Int] /\ DOMAIN u = 1..Len(u)
    BY <1>1, LenProperties
  <2> QED
    BY <2>1 DEF Range
<1>3. u \in Seq(Range(u))
  <2>1. Seq(Range(u)) = UNION {[1..n -> Range(u)] : n \in Nat}
    BY SeqDef
  <2> QED
    BY <1>2, <2>1
<1> QED
  BY <1>3 DEF IsCode, u

LEMMA BlankSound == Sound(Blank)
BY ShortCode DEF Sound, Blank, Fields

Alike(a, b) == Sound(a) /\ Sound(b) /\ Shape(a) = Shape(b)

LEMMA WithPlaceShape ==
  ASSUME NEW rex, NEW opcode, NEW reg, NEW x, x[1] \in {"reg", "mem", "symbol"}, NEW s, NEW t
  PROVE  Alike(WithPlace(rex, opcode, reg, x, s), WithPlace(rex, opcode, reg, x, t))
<1> DEFINE a == WithPlace(rex, opcode, reg, x, s)
           b == WithPlace(rex, opcode, reg, x, t)
<1>1. CASE x[1] = "reg"
  <2>1. a = b
    BY <1>1 DEF WithPlace, get_optype
  <2>2. /\ a.opcode = <<opcode>> /\ a.modrm = ModRM(3, reg, registers[x[2]]) /\ a.sib = <<>>
        /\ a.disp_size = 0 /\ a.imm_size = 0 /\ DOMAIN a = Fields
    BY <1>1 DEF WithPlace, get_optype, Blank, Fields
  <2> QED
    BY <2>1, <2>2, ShortCode DEF Alike, Sound, ModRM
<1>2. CASE x[1] = "mem"
  <2>1. a = b
    BY <1>2 DEF WithPlace, get_optype
  <2>2. /\ a.opcode = <<opcode>> /\ a.modrm = ModRM(2, reg, registers[x[2]])
        /\ a.sib = IF registers[x[2]] = 4 THEN SIB(registers[x[2]]) ELSE <<>>
        /\ a.disp_size = 4 /\ a.imm_size = 0 /\ DOMAIN a = Fields
    BY <1>2 DEF WithPlace, get_optype, Blank, Fields
  <2> QED
    BY <2>1, <2>2, ShortCode DEF Alike, Sound, ModRM, SIB
<1>3. CASE x[1] = "symbol"
  <2>1. /\ a.rex = rex \union setREXB(x) /\ a.opcode = <<opcode>>
        /\ a.modrm = ModRM(0, reg, 4) /\ a.sib = SIB(5)
        /\ a.disp_size = 4 /\ a.imm_size = 0 /\ DOMAIN a = Fields
    BY <1>3 DEF WithPlace, get_optype, Blank, Fields
  <2>2. /\ b.rex = rex \union setREXB(x) /\ b.opcode = <<opcode>>
        /\ b.modrm = ModRM(0, reg, 4) /\ b.sib = SIB(5)
        /\ b.disp_size = 4 /\ b.imm_size = 0 /\ DOMAIN b = Fields
    BY <1>3 DEF WithPlace, get_optype, Blank, Fields
  <2> QED
    BY <2>1, <2>2, ShortCode DEF Alike, Sound, Shape, ModRM, SIB
<1> QED
  BY <1>1, <1>2, <1>3

LEMMA ImmediateShape ==
  ASSUME NEW a, NEW b, Alike(a, b), NEW v, NEW w, NEW n \in Nat
  PROVE  Alike(WithImmediate(a, v, n), WithImmediate(b, w, n))
<1> DEFINE c == WithImmediate(a, v, n)
           d == WithImmediate(b, w, n)
<1>1. /\ c.rex = a.rex /\ c.opcode = a.opcode /\ c.modrm = a.modrm /\ c.sib = a.sib
      /\ c.disp_size = a.disp_size /\ c.imm_size = n /\ DOMAIN c = Fields
  BY DEF Alike, Sound, Fields, WithImmediate
<1>2. /\ d.rex = b.rex /\ d.opcode = b.opcode /\ d.modrm = b.modrm /\ d.sib = b.sib
      /\ d.disp_size = b.disp_size /\ d.imm_size = n /\ DOMAIN d = Fields
  BY DEF Alike, Sound, Fields, WithImmediate
<1>3. /\ a.rex = b.rex /\ a.opcode = b.opcode /\ a.modrm = b.modrm /\ a.sib = b.sib
      /\ a.disp_size = b.disp_size
  BY DEF Alike, Shape
<1> QED
  BY <1>1, <1>2, <1>3 DEF Alike, Sound, Shape

LEMMA PlainShape == \A opcode : IsCode(opcode) => Sound(Plain(opcode))
BY ShortCode DEF Sound, Plain, Blank, Fields

LEMMA InRegisterShape ==
  ASSUME NEW rex, NEW opcode, NEW reg, NEW x
  PROVE  Sound(InRegister(rex, opcode, reg, x))
BY ShortCode DEF Sound, InRegister, Blank, Fields, ModRM

\* The instructions that use the symbol table, one by one.
LEMMA MovShape ==
  ASSUME NEW x, NEW y, OperandKind(x), OperandKind(y), NEW s, NEW t
  PROVE  Alike(create_mov(x, y, s), create_mov(x, y, t))
<1> DEFINE a == create_mov(x, y, s)
           b == create_mov(x, y, t)
<1>1. CASE x[1] = "imm" /\ y[1] = "reg"
  <2>1. /\ a = b
        /\ a = WithImmediate([Plain(<<\hb8 + registers[y[2]]>>) EXCEPT !.rex = {"W"} \union setREXB(y)],
                             x[2], 8)
    BY <1>1 DEF create_mov, get_optype
  <2> QED
    BY <2>1, ShortCode DEF Alike, Sound, Plain, Blank, Fields, WithImmediate
<1>2. CASE x[1] = "imm" /\ y[1] \in {"mem", "symbol"}
  <2>1. Alike(WithPlace({}, \hc7, 0, y, s), WithPlace({}, \hc7, 0, y, t))
    BY <1>2, WithPlaceShape
  <2>2. /\ a = WithImmediate(WithPlace({}, \hc7, 0, y, s), x[2], 4)
        /\ b = WithImmediate(WithPlace({}, \hc7, 0, y, t), x[2], 4)
    BY <1>2 DEF create_mov, get_optype
  <2> QED
    BY <2>1, <2>2, ImmediateShape
<1>3. CASE x[1] = "reg" /\ y[1] \in {"reg", "mem", "symbol"}
  <2>1. /\ a = WithPlace({"W"} \union setREXR(x), \h89, registers[x[2]], y, s)
        /\ b = WithPlace({"W"} \union setREXR(x), \h89, registers[x[2]], y, t)
    BY <1>3 DEF create_mov, get_optype
  <2> QED
    BY <1>3, <2>1, WithPlaceShape
<1>4. CASE x[1] \in {"mem", "symbol"} /\ y[1] = "reg"
  <2>1. /\ a = WithPlace({"W"} \union setREXR(y), \h8b, registers[y[2]], x, s)
        /\ b = WithPlace({"W"} \union setREXR(y), \h8b, registers[y[2]], x, t)
    BY <1>4 DEF create_mov, get_optype
  <2> QED
    BY <1>4, <2>1, WithPlaceShape
<1>5. CASE y[1] = "imm" \/ (x[1] \in {"mem", "symbol"} /\ y[1] \in {"mem", "symbol"})
  <2>1. a = Blank /\ b = Blank
    BY <1>5 DEF create_mov, get_optype, OperandKind
  <2> QED
    BY <2>1, BlankSound DEF Alike
<1> QED
  BY <1>1, <1>2, <1>3, <1>4, <1>5 DEF OperandKind

LEMMA TwoOpShape ==
  ASSUME NEW x, NEW y, OperandKind(x), OperandKind(y), NEW s, NEW t,
         NEW code1, NEW code2, NEW code3, NEW ext
  PROVE  Alike(create_2opinstr(x, y, s, code1, code2, code3, ext),
               create_2opinstr(x, y, t, code1, code2, code3, ext))
<1> DEFINE a == create_2opinstr(x, y, s, code1, code2, code3, ext)
           b == create_2opinstr(x, y, t, code1, code2, code3, ext)
<1>1. CASE x[1] = "imm" /\ y[1] = "reg"
  <2>1. /\ a = WithImmediate(InRegister({"W"}, code1, ext, y), x[2], 4)
        /\ b = WithImmediate(InRegister({"W"}, code1, ext, y), x[2], 4)
    BY <1>1 DEF create_2opinstr, get_optype
  <2>2. Alike(InRegister({"W"}, code1, ext, y), InRegister({"W"}, code1, ext, y))
    BY InRegisterShape DEF Alike
  <2> QED
    BY <2>1, <2>2, ImmediateShape
<1>2. CASE x[1] = "imm" /\ y[1] \in {"mem", "symbol"}
  <2> DEFINE e == IF get_optype(y) = "ADDR" THEN 0 ELSE ext
  <2>1. Alike(WithPlace({}, code1, e, y, s), WithPlace({}, code1, e, y, t))
    BY <1>2, WithPlaceShape
  <2>2. /\ a = WithImmediate(WithPlace({}, code1, e, y, s), x[2], 4)
        /\ b = WithImmediate(WithPlace({}, code1, e, y, t), x[2], 4)
    BY <1>2 DEF create_2opinstr, get_optype
  <2> QED
    BY <2>1, <2>2, ImmediateShape
<1>3. CASE x[1] = "reg" /\ y[1] \in {"reg", "mem", "symbol"}
  <2>1. /\ a = WithPlace({"W"} \union setREXR(x), code2, registers[x[2]], y, s)
        /\ b = WithPlace({"W"} \union setREXR(x), code2, registers[x[2]], y, t)
    BY <1>3 DEF create_2opinstr, get_optype
  <2> QED
    BY <1>3, <2>1, WithPlaceShape
<1>4. CASE x[1] \in {"mem", "symbol"} /\ y[1] = "reg"
  <2>1. /\ a = WithPlace({"W"} \union setREXR(y), code3, registers[y[2]], x, s)
        /\ b = WithPlace({"W"} \union setREXR(y), code3, registers[y[2]], x, t)
    BY <1>4 DEF create_2opinstr, get_optype
  <2> QED
    BY <1>4, <2>1, WithPlaceShape
<1>5. CASE y[1] = "imm" \/ (x[1] \in {"mem", "symbol"} /\ y[1] \in {"mem", "symbol"})
  <2>1. a = Blank /\ b = Blank
    BY <1>5 DEF create_2opinstr, get_optype, OperandKind
  <2> QED
    BY <2>1, BlankSound DEF Alike
<1> QED
  BY <1>1, <1>2, <1>3, <1>4, <1>5 DEF OperandKind

LEMMA LeaShape ==
  ASSUME NEW x, NEW y, NEW s, NEW t
  PROVE  Alike(create_lea(x, y, s), create_lea(x, y, t))
<1>1. \A u : Sound(create_lea(x, y, u))
  BY ShortCode DEF create_lea, Sound, Plain, WithImmediate, Blank, Fields, ModRM, SIB
<1>2. Shape(create_lea(x, y, s)) = Shape(create_lea(x, y, t))
  BY DEF create_lea, Shape, Plain, WithImmediate, Blank
<1> QED
  BY <1>1, <1>2 DEF Alike

LEMMA PushShape ==
  ASSUME NEW x, x[1] \in {"imm", "reg", "mem"}, NEW s, NEW t
  PROVE  Alike(create_push(x, s), create_push(x, t))
<1>1. CASE x[1] = "mem"
  BY <1>1, WithPlaceShape DEF create_push, get_optype
<1>2. CASE x[1] = "imm"
  <2>1. /\ create_push(x, s) = WithImmediate(Plain(<<\h68>>), x[2], 4)
        /\ create_push(x, t) = WithImmediate(Plain(<<\h68>>), x[2], 4)
    BY <1>2 DEF create_push, get_optype
  <2> QED
    BY <2>1, ShortCode DEF Alike, Sound, Plain, WithImmediate, Blank, Fields
<1>3. CASE x[1] = "reg"
  <2>1. /\ create_push(x, s) = [Plain(<<\h50 + registers[x[2]]>>) EXCEPT !.rex = setREXB(x)]
        /\ create_push(x, t) = [Plain(<<\h50 + registers[x[2]]>>) EXCEPT !.rex = setREXB(x)]
    BY <1>3 DEF create_push, get_optype
  <2> QED
    BY <2>1, ShortCode DEF Alike, Sound, Plain, Blank, Fields
<1> QED
  BY <1>1, <1>2, <1>3

LEMMA PopShape ==
  ASSUME NEW x, x[1] \in {"reg", "mem"}, NEW s, NEW t
  PROVE  Alike(create_pop(x, s), create_pop(x, t))
<1>1. CASE x[1] = "mem"
  BY <1>1, WithPlaceShape DEF create_pop, get_optype
<1>2. CASE x[1] = "reg"
  <2>1. /\ create_pop(x, s) = [Plain(<<\h58 + registers[x[2]]>>) EXCEPT !.rex = setREXB(x)]
        /\ create_pop(x, t) = [Plain(<<\h58 + registers[x[2]]>>) EXCEPT !.rex = setREXB(x)]
    BY <1>2 DEF create_pop, get_optype
  <2> QED
    BY <2>1, ShortCode DEF Alike, Sound, Plain, Blank, Fields
<1> QED
  BY <1>1, <1>2

LEMMA JumpNames ==
  DOMAIN JumpCodes = {"call", "jmp", "jne", "je", "jge", "jg", "jle", "jl"}
BY DEF JumpCodes

LEMMA JumpShape ==
  ASSUME NEW x, NEW s, NEW t, NEW o, NEW p, NEW name \in DOMAIN JumpCodes
  PROVE  Alike(create_jmpinstr(x, s, o, JumpCodes[name], JumpSecondCodes[name]),
               create_jmpinstr(x, t, p, JumpCodes[name], JumpSecondCodes[name]))
<1> DEFINE ii == Plain(JumpCodes[name] \o JumpSecondCodes[name])
<1>1. IsCode(JumpCodes[name] \o JumpSecondCodes[name])
  <2>1. JumpCodes[name] \in Seq(Int)
    BY JumpNames DEF JumpCodes
  <2>2. JumpSecondCodes[name] \in Seq(Int)
    <3>1. JumpSecondCodes["call"] \in Seq(Int)
      BY JumpNames DEF JumpSecondCodes
    <3>2. JumpSecondCodes["jmp"] \in Seq(Int)
      BY JumpNames DEF JumpSecondCodes
    <3>3. JumpSecondCodes["jne"] \in Seq(Int)
      BY JumpNames DEF JumpSecondCodes
    <3>4. JumpSecondCodes["je"] \in Seq(Int)
      BY JumpNames DEF JumpSecondCodes
    <3>5. JumpSecondCodes["jge"] \in Seq(Int)
      BY JumpNames DEF JumpSecondCodes
    <3>6. JumpSecondCodes["jg"] \in Seq(Int)
      BY JumpNames DEF JumpSecondCodes
    <3>7. JumpSecondCodes["jle"] \in Seq(Int)
      BY JumpNames DEF JumpSecondCodes
    <3>8. JumpSecondCodes["jl"] \in Seq(Int)
      BY JumpNames DEF JumpSecondCodes
    <3> QED
      BY JumpNames, <3>1, <3>2, <3>3, <3>4, <3>5, <3>6, <3>7, <3>8
  <2> QED
    BY <2>1, <2>2, CodeOfSeq
<1>2. Alike(ii, ii)
  BY <1>1, PlainShape DEF Alike
<1> HIDE DEF ii
<1>3. \A u, q : \E v : create_jmpinstr(x, u, q, JumpCodes[name], JumpSecondCodes[name])
                       = WithImmediate(ii, v, 4)
  BY DEF create_jmpinstr, ii
<1>4. PICK v : create_jmpinstr(x, s, o, JumpCodes[name], JumpSecondCodes[name])
                 = WithImmediate(ii, v, 4)
  BY <1>3
<1>5. PICK w : create_jmpinstr(x, t, p, JumpCodes[name], JumpSecondCodes[name])
                 = WithImmediate(ii, w, 4)
  BY <1>3
<1> QED
  BY <1>2, <1>4, <1>5, ImmediateShape

LEMMA MovbShape ==
  ASSUME NEW x, NEW y, y[1] \in {"mem", "symbol"}, NEW s, NEW t
  PROVE  Alike(create_movb(x, y, s), create_movb(x, y, t))
<1> DEFINE through ==
             [Plain(<<IF get_optype(x) = "IMM" THEN \hc6 ELSE \h88>>) EXCEPT
                !.modrm = ModRM(0, 0, registers[y[2]]),
                !.sib = IF get_optype(x) = "IMM" /\ registers[y[2]] = 4 THEN SIB(4) ELSE <<>>]
           ii(u) == IF get_optype(y) = "REGADDR" THEN through ELSE WithPlace({}, \hc6, 0, y, u)
<1>1. Sound(through)
  BY ShortCode DEF Sound, Plain, Blank, Fields, ModRM, SIB
<1>2. \A u : create_movb(x, y, u)
               = IF get_optype(x) = "IMM" THEN WithImmediate(ii(u), x[2], 1) ELSE ii(u)
  BY DEF create_movb
<1> HIDE DEF through
<1>3. Alike(ii(s), ii(t))
  <2>1. CASE y[1] = "mem"
    BY <2>1, <1>1 DEF Alike, get_optype
  <2>2. CASE y[1] = "symbol"
    BY <2>2, WithPlaceShape DEF get_optype
  <2> QED
    BY <2>1, <2>2
<1> HIDE DEF ii
<1>4. CASE get_optype(x) = "IMM"
  <2>1. /\ create_movb(x, y, s) = WithImmediate(ii(s), x[2], 1)
        /\ create_movb(x, y, t) = WithImmediate(ii(t), x[2], 1)
    BY <1>2, <1>4
  <2> QED
    BY <2>1, <1>3, ImmediateShape
<1>5. CASE get_optype(x) # "IMM"
  <2>1. create_movb(x, y, s) = ii(s) /\ create_movb(x, y, t) = ii(t)
    BY <1>2, <1>5
  <2> QED
    BY <2>1, <1>3
<1> QED
  BY <1>4, <1>5

LEMMA Dispatch ==
  ASSUME NEW i, NEW s, NEW o
  PROVE  LET a == create_instruction(i, s, o) IN
         /\ i[1] = "mov" => a = create_mov(i[2], i[3], s)
         /\ i[1] = "lea" => a = create_lea(i[2], i[3], s)
         /\ i[1] = "add" => a = create_add(i[2], i[3], s)
         /\ i[1] = "sub" => a = create_sub(i[2], i[3], s)
         /\ i[1] = "cmp" => a = create_cmp(i[2], i[3], s)
         /\ i[1] = "xor" => a = create_xor(i[2], i[3], s)
         /\ i[1] = "inc" => a = create_inc(i[2])
         /\ i[1] = "dec" => a = create_dec(i[2])
         /\ i[1] = "mul" => a = create_mul(i[2])
         /\ i[1] = "div" => a = create_div(i[2])
         /\ i[1] = "neg" => a = create_neg(i[2])
         /\ i[1] = "idivq" => a = create_idiv(i[2], s)
         /\ i[1] = "imulq" => a = create_imul(i[2], s)
         /\ i[1] = "push" => a = create_push(i[2], s)
         /\ i[1] = "pop" => a = create_pop(i[2], s)
         /\ i[1] = "test" => a = create_test(i[2], i[3])
         /\ IsJump(i) => a = create_jmpinstr(i[2], s, o, JumpCodes[i[1]], JumpSecondCodes[i[1]])
         /\ i[1] = "cqto" => a = create_cqto
         /\ i[1] = "syscall" => a = create_syscall
         /\ i[1] = "ret" => a = create_ret
         /\ i[1] = "movb" => a = create_movb(i[2], i[3], s)
         /\ i[1] = "addb" => a = create_addb(i[2])
         /\ i[1] = "movzxb" => a = create_movzxb
         /\ i[1] = "cmpb" => a = create_cmpb(i[2])
<1> DEFINE a == create_instruction(i, s, o)
<1>1. i[1] = "mov" => a = create_mov(i[2], i[3], s)
  BY JumpNames DEF create_instruction
<1>2. i[1] = "lea" => a = create_lea(i[2], i[3], s)
  BY JumpNames DEF create_instruction
<1>3. i[1] = "add" => a = create_add(i[2], i[3], s)
  BY JumpNames DEF create_instruction
<1>4. i[1] = "sub" => a = create_sub(i[2], i[3], s)
  BY JumpNames DEF create_instruction
<1>5. i[1] = "cmp" => a = create_cmp(i[2], i[3], s)
  BY JumpNames DEF create_instruction
<1>6. i[1] = "xor" => a = create_xor(i[2], i[3], s)
  BY JumpNames DEF create_instruction
<1>7. i[1] = "inc" => a = create_inc(i[2])
  BY JumpNames DEF create_instruction
<1>8. i[1] = "dec" => a = create_dec(i[2])
  BY JumpNames DEF create_instruction
<1>9. i[1] = "mul" => a = create_mul(i[2])
  BY JumpNames DEF create_instruction
<1>10. i[1] = "div" => a = create_div(i[2])
  BY JumpNames DEF create_instruction
<1>11. i[1] = "neg" => a = create_neg(i[2])
  BY JumpNames DEF create_instruction
<1>12. i[1] = "idivq" => a = create_idiv(i[2], s)
  BY JumpNames DEF create_instruction
<1>13. i[1] = "imulq" => a = create_imul(i[2], s)
  BY JumpNames DEF create_instruction
<1>14. i[1] = "push" => a = create_push(i[2], s)
  BY JumpNames DEF create_instruction
<1>15. i[1] = "pop" => a = create_pop(i[2], s)
  BY JumpNames DEF create_instruction
<1>16. i[1] = "test" => a = create_test(i[2], i[3])
  BY JumpNames DEF create_instruction
<1>17. IsJump(i) => a = create_jmpinstr(i[2], s, o, JumpCodes[i[1]], JumpSecondCodes[i[1]])
  BY JumpNames DEF create_instruction, IsJump
<1>18. i[1] = "cqto" => a = create_cqto
  BY JumpNames DEF create_instruction
<1>19. i[1] = "syscall" => a = create_syscall
  BY JumpNames DEF create_instruction
<1>20. i[1] = "ret" => a = create_ret
  BY JumpNames DEF create_instruction
<1>21. i[1] = "movb" => a = create_movb(i[2], i[3], s)
  BY JumpNames DEF create_instruction
<1>22. i[1] = "addb" => a = create_addb(i[2])
  BY JumpNames DEF create_instruction
<1>23. i[1] = "movzxb" => a = create_movzxb
  BY JumpNames DEF create_instruction
<1>24. i[1] = "cmpb" => a = create_cmpb(i[2])
  BY JumpNames DEF create_instruction
<1> QED
  BY <1>1, <1>2, <1>3, <1>4, <1>5, <1>6, <1>7, <1>8, <1>9, <1>10, <1>11, <1>12, <1>13, <1>14, <1>15, <1>16, <1>17, <1>18, <1>19, <1>20, <1>21, <1>22, <1>23, <1>24

LEMMA InstructionShape ==
  ASSUME NEW i, IsLine(i), IsInstruction(i), NEW s, NEW t, NEW o, NEW p
  PROVE  Alike(create_instruction(i, s, o), create_instruction(i, t, p))
<1> DEFINE a(u, q) == create_instruction(i, u, q)
<1>1. CASE i[1] = "mov"
  <2>1. OperandKind(i[2]) /\ OperandKind(i[3])
    BY <1>1 DEF IsLine, TwoOperands
  <2> QED
    BY <1>1, <2>1, MovShape, Dispatch
<1>2. CASE i[1] = "lea"
  BY <1>2, LeaShape, Dispatch
<1>3. CASE i[1] \in {"add", "sub", "xor", "cmp"}
  <2>1. OperandKind(i[2]) /\ OperandKind(i[3])
    BY <1>3 DEF IsLine, TwoOperands
  <2>2. PICK c1, c2, c3, ext :
          \A u, q : a(u, q) = create_2opinstr(i[2], i[3], u, c1, c2, c3, ext)
    BY <1>3, Dispatch DEF create_add, create_sub, create_xor, create_cmp
  <2> QED
    BY <2>1, <2>2, TwoOpShape
<1>4. CASE i[1] \in {"inc", "dec", "mul", "div", "neg"}
  <2>1. PICK code, ext : \A u, q : a(u, q) = InRegister({"W"}, code, ext, i[2])
    BY <1>4, Dispatch DEF create_inc, create_dec, create_mul, create_div, create_neg
  <2> QED
    BY <2>1, InRegisterShape DEF Alike
<1>5. CASE i[1] \in {"imulq", "idivq"}
  <2>1. i[2][1] \in {"reg", "mem"}
    BY <1>5 DEF IsLine, OneOperand
  <2>2. PICK ext : \A u, q : a(u, q) = WithPlace({"W"}, \hf7, ext, i[2], u)
    BY <1>5, Dispatch DEF create_imul, create_idiv
  <2> QED
    BY <2>1, <2>2, WithPlaceShape
<1>6. CASE i[1] = "push"
  <2>1. i[2][1] \in {"imm", "reg", "mem"}
    BY <1>6 DEF IsLine, OneOperand
  <2> QED
    BY <1>6, <2>1, PushShape, Dispatch
<1>7. CASE i[1] = "pop"
  <2>1. i[2][1] \in {"reg", "mem"}
    BY <1>7 DEF IsLine, OneOperand
  <2> QED
    BY <1>7, <2>1, PopShape, Dispatch
<1>8. CASE IsJump(i)
  BY <1>8, JumpShape, Dispatch DEF IsJump
<1>9. CASE i[1] = "movb"
  <2>1. i[3][1] \in {"mem", "symbol"}
    BY <1>9 DEF IsLine
  <2> QED
    BY <1>9, <2>1, MovbShape, Dispatch
<1>10. CASE i[1] \in {"cqto", "syscall", "ret", "movzxb", "cmpb"}
  <2> HIDE DEF a
  <2>1. \E code : IsCode(code) /\ \A u, q : a(u, q) = Plain(code)
    <3>1. CASE i[1] = "cqto"
      BY <3>1, ShortCode, Dispatch DEF create_cqto, a
    <3>2. CASE i[1] = "syscall"
      BY <3>2, ShortCode, Dispatch DEF create_syscall, a
    <3>3. CASE i[1] = "ret"
      BY <3>3, ShortCode, Dispatch DEF create_ret, a
    <3>4. CASE i[1] = "movzxb"
      BY <3>4, ShortCode, Dispatch DEF create_movzxb, a
    <3>5. CASE i[1] = "cmpb"
      <4> DEFINE char == IF i[2] = Imm(45) THEN 45 ELSE 10
      <4>1. \A u, q : a(u, q) = Plain(<<\h80, \hf9, char>>)
        BY <3>5, Dispatch DEF create_cmpb, a
      <4> HIDE DEF char
      <4> QED
        BY <4>1, ShortCode
    <3> QED
      BY <1>10, <3>1, <3>2, <3>3, <3>4, <3>5
  <2>2. PICK code : IsCode(code) /\ \A u, q : a(u, q) = Plain(code)
    BY <2>1
  <2>3. Alike(Plain(code), Plain(code))
    BY <2>2, PlainShape DEF Alike
  <2> QED
    BY <2>2, <2>3 DEF a
<1>11. CASE i[1] = "addb"
  <2>1. \A u, q : a(u, q) = WithImmediate(Plain(<<\h04>>), i[2][2], 1)
    BY <1>11, Dispatch DEF create_addb
  <2>2. Alike(Plain(<<\h04>>), Plain(<<\h04>>))
    BY PlainShape, ShortCode DEF Alike
  <2> QED
    BY <2>1, <2>2, ImmediateShape
<1>12. CASE i[1] = "test"
  <2>1. \A u, q : a(u, q) = create_test(i[2], i[3])
    BY <1>12, Dispatch
  <2>2. Sound(create_test(i[2], i[3]))
    BY ShortCode DEF create_test, Sound, Plain, Blank, Fields, ModRM
  <2> QED
    BY <2>1, <2>2 DEF Alike
<1> QED
  BY <1>1, <1>2, <1>3, <1>4, <1>5, <1>6, <1>7, <1>8, <1>9, <1>10, <1>11, <1>12
     DEF IsInstruction, OneOperand, TwoOperands, NoOperand

-----------------------------------------------------------------------------
(* As many bytes are written as the size says.                             *)

LEMMA CodeConcat ==
  ASSUME NEW x, IsCode(x), NEW y, IsCode(y)
  PROVE  IsCode(x \o y) /\ Len(x \o y) = Len(x) + Len(y) /\ Len(x) \in Nat /\ Len(y) \in Nat
<1> DEFINE S == Range(x) \union Range(y)
           u == x \o y
<1>1. x \in Seq(S) /\ y \in Seq(S)
  BY SeqMonotonic DEF IsCode
<1> HIDE DEF S
<1>2. u \in Seq(S) /\ Len(u) = Len(x) + Len(y) /\ Len(x) \in Nat /\ Len(y) \in Nat
  BY <1>1, ConcatProperties, LenProperties
<1> HIDE DEF u
<1>3. Len(u) \in Nat /\ u \in [1..Len(u) -> Range(u)]
  <2>1. Len(u) \in Nat /\ u \in [1..Len(u) -> S] /\ DOMAIN u = 1..Len(u)
    BY <1>2, LenProperties
  <2> QED
    BY <2>1 DEF Range
<1>4. IsCode(u)
  <2>1. Seq(Range(u)) = UNION {[1..n -> Range(u)] : n \in Nat}
    BY SeqDef
  <2> QED
    BY <1>3, <2>1 DEF IsCode
<1> QED
  BY <1>2, <1>4 DEF u

LEMMA LittleLen ==
  ASSUME NEW v, NEW n \in Nat
  PROVE  IsCode(Little(v, n)) /\ Len(Little(v, n)) = n
<1> DEFINE u == Little(v, n)
<1>1. DOMAIN u = 1..n /\ u = [k \in 1..n |-> u[k]]
  BY DEF Little
<1> HIDE DEF u
<1>2. u \in [1..n -> Range(u)]
  BY <1>1 DEF Range
<1>3. u \in Seq(Range(u))
  <2>1. Seq(Range(u)) = UNION {[1..m -> Range(u)] : m \in Nat}
    BY SeqDef
  <2> QED
    BY <1>2, <2>1
<1>4. Len(u) = n
  BY <1>1, <1>3, LenProperties
<1> QED
  BY <1>3, <1>4 DEF IsCode, u

LEMMA RexLen ==
  \A bits : IsCode(REX(bits)) /\ Len(REX(bits)) \in Nat
BY ShortCode DEF REX

LEMMA BytecodeLen ==
  ASSUME NEW ii, Sound(ii)
  PROVE  /\ IsCode(Bytecode(ii))
         /\ Len(Bytecode(ii)) = Size(ii)
         /\ Size(ii) \in Nat
<1> DEFINE r == REX(ii.rex)
           d == Little(ii.displacement, ii.disp_size)
           m == Little(ii.immediate, ii.imm_size)
<1>1. IsCode(r) /\ IsCode(ii.opcode) /\ IsCode(ii.modrm) /\ IsCode(ii.sib)
  BY RexLen DEF Sound
<1>2. IsCode(d) /\ IsCode(m) /\ Len(d) = ii.disp_size /\ Len(m) = ii.imm_size
  BY LittleLen DEF Sound
<1> HIDE DEF r, d, m
<1> DEFINE b1 == r \o ii.opcode
           b2 == b1 \o ii.modrm
           b3 == b2 \o ii.sib
           b4 == b3 \o d
           b5 == b4 \o m
<1>3. IsCode(b1) /\ Len(b1) = Len(r) + Len(ii.opcode) /\ Len(r) \in Nat /\ Len(ii.opcode) \in Nat
  BY <1>1, CodeConcat
<1> HIDE DEF b1
<1>4. IsCode(b2) /\ Len(b2) = Len(b1) + Len(ii.modrm) /\ Len(ii.modrm) \in Nat
  BY <1>1, <1>3, CodeConcat
<1> HIDE DEF b2
<1>5. IsCode(b3) /\ Len(b3) = Len(b2) + Len(ii.sib) /\ Len(ii.sib) \in Nat
  BY <1>1, <1>4, CodeConcat
<1> HIDE DEF b3
<1>6. IsCode(b4) /\ Len(b4) = Len(b3) + Len(d)
  BY <1>2, <1>5, CodeConcat
<1> HIDE DEF b4
<1>7. IsCode(b5) /\ Len(b5) = Len(b4) + Len(m)
  BY <1>2, <1>6, CodeConcat
<1>8. Bytecode(ii) = b5
  BY DEF Bytecode, b1, b2, b3, b4, r, d, m
<1> HIDE DEF b5
<1>9. Size(ii) = Len(r) + Len(ii.opcode) + Len(ii.modrm) + Len(ii.sib) + ii.disp_size + ii.imm_size
  BY DEF Size, r
<1>10. ii.disp_size \in Nat /\ ii.imm_size \in Nat
  BY DEF Sound
<1>11. Len(b5) \in Nat
  BY <1>7, LenProperties DEF IsCode
<1>12. Len(b5) = Size(ii)
  BY <1>2, <1>3, <1>4, <1>5, <1>6, <1>7, <1>9, <1>10
<1> QED
  BY <1>7, <1>8, <1>11, <1>12

LEMMA SameSize ==
  ASSUME NEW ii, NEW jj, Alike(ii, jj)
  PROVE  Size(ii) = Size(jj) /\ Size(ii) \in Nat
<1>1. /\ ii.rex = jj.rex /\ ii.opcode = jj.opcode /\ ii.modrm = jj.modrm /\ ii.sib = jj.sib
      /\ ii.disp_size = jj.disp_size /\ ii.imm_size = jj.imm_size
  BY DEF Alike, Shape
<1>2. Size(ii) = Size(jj)
  BY <1>1 DEF Size
<1> QED
  BY <1>2, BytecodeLen DEF Alike

\* The size create_jmpinstr subtracts is the size of the jump.
LEMMA JumpSize ==
  ASSUME NEW i, IsJump(i), NEW s, NEW o
  PROVE  LET ii == create_instruction(i, s, o) IN
         /\ Size(ii) = IF JumpSecondCodes[i[1]] = <<>> THEN 5 ELSE 6
         /\ i[2][2] \in DOMAIN s => ii.immediate = s[i[2][2]] - o - Size(ii)
<1> DEFINE ii == create_instruction(i, s, o)
           size == IF JumpSecondCodes[i[1]] = <<>> THEN 5 ELSE 6
           v == IF i[2][2] \in DOMAIN s THEN s[i[2][2]] - o - size ELSE 0
           code == JumpCodes[i[1]] \o JumpSecondCodes[i[1]]
<1>1. ii = WithImmediate(Plain(code), v, 4)
  BY Dispatch DEF create_jmpinstr
<1>2. Len(code) = IF JumpSecondCodes[i[1]] = <<>> THEN 1 ELSE 2
  <2>1. CASE i[1] = "call"
    BY <2>1, JumpNames DEF JumpCodes, JumpSecondCodes
  <2>2. CASE i[1] = "jmp"
    BY <2>2, JumpNames DEF JumpCodes, JumpSecondCodes
  <2>3. CASE i[1] = "jne"
    BY <2>3, JumpNames DEF JumpCodes, JumpSecondCodes
  <2>4. CASE i[1] = "je"
    BY <2>4, JumpNames DEF JumpCodes, JumpSecondCodes
  <2>5. CASE i[1] = "jge"
    BY <2>5, JumpNames DEF JumpCodes, JumpSecondCodes
  <2>6. CASE i[1] = "jg"
    BY <2>6, JumpNames DEF JumpCodes, JumpSecondCodes
  <2>7. CASE i[1] = "jle"
    BY <2>7, JumpNames DEF JumpCodes, JumpSecondCodes
  <2>8. CASE i[1] = "jl"
    BY <2>8, JumpNames DEF JumpCodes, JumpSecondCodes
  <2> QED
    BY <2>1, <2>2, <2>3, <2>4, <2>5, <2>6, <2>7, <2>8, JumpNames DEF IsJump
<1> HIDE DEF code, v, ii
<1>3. /\ ii.rex = {} /\ ii.opcode = code /\ ii.modrm = <<>> /\ ii.sib = <<>>
      /\ ii.disp_size = 0 /\ ii.imm_size = 4 /\ ii.immediate = v
  BY <1>1 DEF WithImmediate, Plain, Blank
<1>4. Size(ii) = Len(code) + 4
  <2>1. REX(ii.rex) = <<>>
    BY <1>3 DEF REX
  <2>2. Size(ii) = Len(<<>>) + Len(code) + Len(<<>>) + Len(<<>>) + 0 + 4
    BY <1>3, <2>1 DEF Size
  <2>3. Len(<<>>) = 0
    OBVIOUS
  <2> HIDE DEF ii, code, v, size
  <2>4. Len(code) \in Nat
    BY <1>2
  <2> QED
    BY <2>2, <2>3, <2>4
<1>5. Size(ii) = size
  BY <1>2, <1>4
<1> QED
  BY <1>3, <1>5 DEF ii, v

-----------------------------------------------------------------------------
(* The invariant: what the first pass has added up so far, and where the   *)
(* second one is.                                                          *)

LineSize(k) == IF IsInstruction(text[k]) THEN Size(create_instruction(text[k], <<>>, 0)) ELSE 0

\* Where line k is when the lines before it are where offsets says.
NextOffset(k) == IF k = 1 THEN 0 ELSE offsets[k - 1] + LineSize(k - 1)

LinesPlaced ==
  /\ offsets \in Seq(Nat) /\ Len(offsets) <= Len(text)
  /\ \A k \in 1..Len(offsets) : offsets[k] = NextOffset(k)

LabelsPlaced ==
  \A k \in 1..Len(offsets) :
    text[k][1] = "label" =>
      text[k][2] \in DOMAIN sym_table /\ sym_table[text[k][2]] = offsets[k]

FirstPass ==
  pass = "symbols" =>
    /\ pos = Len(offsets) + 1 /\ curr_offset = NextOffset(pos)
    /\ program_bytecode = <<>>
    /\ \A k \in 1..Len(offsets) : ~IsData(text[k])

SecondPass ==
  pass = "program" =>
    /\ Len(offsets) \in 1..Len(text) /\ IsData(text[Len(offsets)])
    /\ pos \in 1..(Len(text) + 1)
    /\ IsCode(program_bytecode) /\ Len(program_bytecode) = curr_offset
    /\ pos <= Len(offsets) => curr_offset = offsets[pos]

PassesInv ==
  /\ text \in Texts /\ pass \in {"symbols", "program", "linked"} /\ curr_offset \in Nat
  /\ LinesPlaced /\ LabelsPlaced /\ FirstPass /\ SecondPass

LEMMA TextFacts ==
  ASSUME text \in Texts
  PROVE  /\ Len(text) \in Nat
         /\ \A k \in 1..Len(text) : IsLine(text[k])
         /\ \A j, k \in 1..Len(text) :
              text[j][1] = "label" /\ text[k][1] = "label" /\ text[j][2] = text[k][2] => j = k
         /\ \A k \in 1..Len(text) : text[k][1] = "label" => text[k][2] \notin {"strResult", "buff"}
BY TextAssumption, LenProperties

LEMMA Kinds ==
  ASSUME NEW line
  PROVE  /\ IsInstruction(line) => line[1] \notin {"directive", "label", "token"}
         /\ IsData(line) => line[1] = "directive"
BY JumpNames DEF IsInstruction, IsJump, IsData, OneOperand, TwoOperands, NoOperand

\* Whatever the table and the offset are, an instruction has the size of its line.
LEMMA LineSizes ==
  ASSUME text \in Texts, NEW k \in 1..Len(text)
  PROVE  /\ LineSize(k) \in Nat
         /\ IsInstruction(text[k]) =>
              \A s, o : /\ Sound(create_instruction(text[k], s, o))
                        /\ Size(create_instruction(text[k], s, o)) = LineSize(k)
<1>1. CASE IsInstruction(text[k])
  <2>1. IsLine(text[k])
    BY TextFacts
  <2>2. \A s, o : Alike(create_instruction(text[k], s, o), create_instruction(text[k], <<>>, 0))
    BY <1>1, <2>1, InstructionShape
  <2>3. \A s, o : /\ Size(create_instruction(text[k], s, o)) = Size(create_instruction(text[k], <<>>, 0))
                  /\ Size(create_instruction(text[k], s, o)) \in Nat
    BY <2>2, SameSize
  <2>4. \A s, o : Sound(create_instruction(text[k], s, o))
    BY <2>2 DEF Alike
  <2> QED
    BY <1>1, <2>3, <2>4 DEF LineSize
<1>2. CASE ~IsInstruction(text[k])
  BY <1>2 DEF LineSize
<1> QED
  BY <1>1, <1>2

LEMMA InitPasses == Init => PassesInv
<1> SUFFICES ASSUME Init PROVE PassesInv
  OBVIOUS
<1>1. Len(text) \in Nat
  BY TextFacts DEF Init
<1> QED
  BY <1>1 DEF Init, PassesInv, LinesPlaced, LabelsPlaced, FirstPass, SecondPass, NextOffset

\* One more line of the first pass.
LEMMA OneMoreLine ==
  ASSUME PassesInv, pass = "symbols", pos <= Len(text), offsets' = Append(offsets, curr_offset),
         UNCHANGED text
  PROVE  /\ LinesPlaced' /\ Len(offsets') = pos
         /\ \A k \in 1..Len(offsets) : offsets'[k] = offsets[k]
         /\ offsets'[pos] = curr_offset
<1>1. Len(text) \in Nat
  BY TextFacts DEF PassesInv
<1>2. /\ offsets \in Seq(Nat) /\ pos = Len(offsets) + 1 /\ curr_offset \in Nat
      /\ curr_offset = NextOffset(pos) /\ \A k \in 1..Len(offsets) : offsets[k] = NextOffset(k)
  BY DEF PassesInv, LinesPlaced, FirstPass
<1>3. /\ offsets' \in Seq(Nat) /\ Len(offsets') = pos /\ offsets'[pos] = curr_offset
      /\ \A k \in 1..Len(offsets) : offsets'[k] = offsets[k]
  BY <1>2, AppendProperties
<1>4. ASSUME NEW k \in 1..pos
      PROVE  offsets'[k] = NextOffset(k)'
  <2>1. NextOffset(k)' = NextOffset(k)
    BY <1>2, <1>3 DEF NextOffset, LineSize
  <2> QED
    BY <1>2, <1>3, <2>1
<1> QED
  BY <1>1, <1>2, <1>3, <1>4 DEF LinesPlaced

LEMMA ReadDirectiveInv == PassesInv /\ ReadDirective => PassesInv'
<1> SUFFICES ASSUME PassesInv, ReadDirective PROVE PassesInv'
  OBVIOUS
<1>1. /\ pass = "symbols" /\ pos <= Len(text) /\ pos' = pos + 1 /\ text[pos][1] = "directive"
      /\ ~IsData(text[pos]) /\ offsets' = Append(offsets, curr_offset)
      /\ UNCHANGED <<text, pass, curr_offset, sym_table, program_bytecode>>
  BY DEF ReadDirective, Reading, Line, Sized
<1>2. /\ LinesPlaced' /\ Len(offsets') = pos /\ offsets'[pos] = curr_offset
      /\ \A k \in 1..Len(offsets) : offsets'[k] = offsets[k]
  BY <1>1, OneMoreLine
<1>3. Len(offsets) \in Nat /\ pos = Len(offsets) + 1 /\ curr_offset \in Nat
  BY <1>1, LenProperties DEF PassesInv, LinesPlaced, FirstPass
<1>4. LabelsPlaced'
  BY <1>1, <1>2, <1>3 DEF PassesInv, LabelsPlaced
<1>5. FirstPass'
  <2>1. ~IsInstruction(text[pos])
    BY <1>1, Kinds
  <2>2. NextOffset(pos)' = curr_offset
    BY <1>1, <1>2, <1>3, <2>1 DEF NextOffset, LineSize
  <2> QED
    BY <1>1, <1>2, <1>3, <2>2 DEF PassesInv, FirstPass
<1> QED
  BY <1>1, <1>2, <1>4, <1>5 DEF PassesInv, SecondPass

LEMMA ReadLabelInv == PassesInv /\ ReadLabel => PassesInv'
<1> SUFFICES ASSUME PassesInv, ReadLabel PROVE PassesInv'
  OBVIOUS
<1>1. /\ pass = "symbols" /\ pos <= Len(text) /\ pos' = pos + 1 /\ text[pos][1] = "label"
      /\ sym_table' = Insert(sym_table, text[pos][2], curr_offset)
      /\ offsets' = Append(offsets, curr_offset)
      /\ UNCHANGED <<text, pass, curr_offset, program_bytecode>>
  BY DEF ReadLabel, Reading, Line, Sized
<1>2. /\ LinesPlaced' /\ Len(offsets') = pos /\ offsets'[pos] = curr_offset
      /\ \A k \in 1..Len(offsets) : offsets'[k] = offsets[k]
  BY <1>1, OneMoreLine
<1>3. Len(offsets) \in Nat /\ pos = Len(offsets) + 1 /\ curr_offset \in Nat /\ Len(text) \in Nat
  BY <1>1, LenProperties, TextFacts DEF PassesInv, LinesPlaced, FirstPass
<1>4. LabelsPlaced'
  <2> SUFFICES ASSUME NEW k \in 1..pos, text[k][1] = "label"
               PROVE  text[k][2] \in DOMAIN sym_table' /\ sym_table'[text[k][2]] = offsets'[k]
    BY <1>1, <1>2 DEF LabelsPlaced
  <2>1. CASE k = pos
    BY <1>1, <1>2, <2>1 DEF Insert
  <2>2. CASE k # pos
    <3>1. k \in 1..Len(offsets) /\ text[k][2] # text[pos][2]
      <4>1. k \in 1..Len(offsets) /\ k \in 1..Len(text) /\ pos \in 1..Len(text)
        BY <1>1, <1>3, <2>2
      <4> QED
        BY <1>1, <2>2, <4>1, TextFacts DEF PassesInv
    <3>2. text[k][2] \in DOMAIN sym_table /\ sym_table[text[k][2]] = offsets[k]
      BY <3>1 DEF PassesInv, LabelsPlaced
    <3> QED
      BY <1>1, <1>2, <3>1, <3>2 DEF Insert
  <2> QED
    BY <2>1, <2>2
<1>5. FirstPass'
  <2>1. ~IsInstruction(text[pos]) /\ ~IsData(text[pos])
    BY <1>1, Kinds
  <2>2. NextOffset(pos)' = curr_offset
    BY <1>1, <1>2, <1>3, <2>1 DEF NextOffset, LineSize
  <2> QED
    BY <1>1, <1>2, <1>3, <2>1, <2>2 DEF PassesInv, FirstPass
<1> QED
  BY <1>1, <1>2, <1>4, <1>5 DEF PassesInv, SecondPass

LEMMA ReadInstructionInv == PassesInv /\ ReadInstruction => PassesInv'
<1> SUFFICES ASSUME PassesInv, ReadInstruction PROVE PassesInv'
  OBVIOUS
<1>1. /\ pass = "symbols" /\ pos <= Len(text) /\ pos' = pos + 1 /\ IsInstruction(text[pos])
      /\ curr_offset' = curr_offset + Size(create_instruction(text[pos], sym_table, curr_offset))
      /\ offsets' = Append(offsets, curr_offset)
      /\ UNCHANGED <<text, pass, sym_table, program_bytecode>>
  BY DEF ReadInstruction, Reading, Line, Sized
<1>2. /\ LinesPlaced' /\ Len(offsets') = pos /\ offsets'[pos] = curr_offset
      /\ \A k \in 1..Len(offsets) : offsets'[k] = offsets[k]
  BY <1>1, OneMoreLine
<1>3. Len(offsets) \in Nat /\ pos = Len(offsets) + 1 /\ curr_offset \in Nat /\ Len(text) \in Nat
  BY <1>1, LenProperties, TextFacts DEF PassesInv, LinesPlaced, FirstPass
<1>4. curr_offset' = curr_offset + LineSize(pos) /\ LineSize(pos) \in Nat
  <2>1. text \in Texts /\ pos \in 1..Len(text)
    BY <1>1, <1>3 DEF PassesInv
  <2>2. Size(create_instruction(text[pos], sym_table, curr_offset)) = LineSize(pos)
    BY <1>1, <2>1, LineSizes
  <2> QED
    BY <1>1, <2>1, <2>2, LineSizes
<1>5. text[pos][1] # "label" /\ ~IsData(text[pos])
  BY <1>1, Kinds
<1>6. LabelsPlaced'
  BY <1>1, <1>2, <1>3, <1>5 DEF PassesInv, LabelsPlaced
<1>7. FirstPass'
  <2>1. NextOffset(pos)' = offsets'[pos] + LineSize(pos)
    BY <1>1, <1>3 DEF NextOffset, LineSize
  <2>2. NextOffset(pos)' = curr_offset'
    BY <1>2, <1>4, <2>1
  <2> QED
    BY <1>1, <1>2, <1>3, <1>5, <2>2 DEF PassesInv, FirstPass
<1>8. curr_offset' \in Nat
  BY <1>3, <1>4
<1> QED
  BY <1>1, <1>2, <1>6, <1>7, <1>8 DEF PassesInv, SecondPass

LEMMA ReadDataInv == PassesInv /\ ReadData => PassesInv'
<1> SUFFICES ASSUME PassesInv, ReadData PROVE PassesInv'
  OBVIOUS
<1> DEFINE at == curr_offset + Padding(curr_offset)
<1>1. /\ pass = "symbols" /\ pos <= Len(text) /\ IsData(text[pos])
      /\ sym_table' = Insert(Insert(sym_table, "strResult", at), "buff", at + StrSize)
      /\ pass' = "program" /\ pos' = 1 /\ curr_offset' = 0
      /\ offsets' = Append(offsets, curr_offset) /\ UNCHANGED <<text, program_bytecode>>
  BY DEF ReadData, read_data, Line, Sized
<1> HIDE DEF at
<1>2. /\ LinesPlaced' /\ Len(offsets') = pos /\ offsets'[pos] = curr_offset
      /\ \A k \in 1..Len(offsets) : offsets'[k] = offsets[k]
  BY <1>1, OneMoreLine
<1>3. /\ Len(offsets) \in Nat /\ pos = Len(offsets) + 1 /\ Len(text) \in Nat
      /\ program_bytecode = <<>>
  BY <1>1, LenProperties, TextFacts DEF PassesInv, LinesPlaced, FirstPass
<1>4. LabelsPlaced'
  <2> SUFFICES ASSUME NEW k \in 1..pos, text[k][1] = "label"
               PROVE  text[k][2] \in DOMAIN sym_table' /\ sym_table'[text[k][2]] = offsets'[k]
    BY <1>1, <1>2 DEF LabelsPlaced
  <2>1. k # pos
    BY <1>1, Kinds
  <2>2. k \in 1..Len(offsets) /\ text[k][2] \notin {"strResult", "buff"}
    BY <1>1, <1>3, <2>1, TextFacts DEF PassesInv
  <2>3. text[k][2] \in DOMAIN sym_table /\ sym_table[text[k][2]] = offsets[k]
    BY <2>2 DEF PassesInv, LabelsPlaced
  <2> QED
    BY <1>1, <1>2, <2>2, <2>3 DEF Insert
<1>5. SecondPass'
  <2>1. offsets'[1] = 0
    BY <1>2, <1>3 DEF LinesPlaced, NextOffset
  <2> QED
    BY <1>1, <1>2, <1>3, <2>1, ShortCode DEF SecondPass
<1> QED
  BY <1>1, <1>2, <1>4, <1>5 DEF PassesInv, FirstPass

LEMMA SkipTokenInv == PassesInv /\ SkipToken => PassesInv'
<1> SUFFICES ASSUME PassesInv, SkipToken PROVE PassesInv'
  OBVIOUS
<1>1. /\ pass = "program" /\ pos <= Len(text) /\ pos' = pos + 1
      /\ text[pos][1] \in {"directive", "label", "token"}
      /\ UNCHANGED <<text, pass, curr_offset, sym_table, program_bytecode, offsets>>
  BY DEF SkipToken, Reading, Line
<1>2. /\ Len(offsets) \in 1..Len(text) /\ IsData(text[Len(offsets)]) /\ pos \in 1..(Len(text) + 1)
      /\ IsCode(program_bytecode) /\ Len(program_bytecode) = curr_offset
      /\ pos <= Len(offsets) => curr_offset = offsets[pos]
  BY <1>1 DEF PassesInv, SecondPass
<1>3. Len(text) \in Nat
  BY TextFacts DEF PassesInv
<1>4. LinesPlaced' /\ LabelsPlaced'
  BY <1>1 DEF PassesInv, LinesPlaced, LabelsPlaced, NextOffset, LineSize
<1>5. pos + 1 <= Len(offsets) => curr_offset = offsets[pos + 1]
  <2> SUFFICES ASSUME pos + 1 <= Len(offsets) PROVE curr_offset = offsets[pos + 1]
    OBVIOUS
  <2>1. LineSize(pos) = 0
    BY <1>1, Kinds DEF LineSize
  <2>2. offsets[pos + 1] = offsets[pos] + LineSize(pos) /\ offsets[pos] \in Nat
    BY <1>2, <1>3 DEF PassesInv, LinesPlaced, NextOffset
  <2> QED
    BY <1>2, <1>3, <2>1, <2>2
<1>6. SecondPass'
  BY <1>1, <1>2, <1>3, <1>5 DEF SecondPass
<1> QED
  BY <1>1, <1>4, <1>6 DEF PassesInv, FirstPass

LEMMA WriteInstructionInv == PassesInv /\ WriteInstruction => PassesInv'
<1> SUFFICES ASSUME PassesInv, WriteInstruction PROVE PassesInv'
  OBVIOUS
<1> DEFINE ii == create_instruction(text[pos], sym_table, curr_offset)
<1>1. /\ pass = "program" /\ pos <= Len(text) /\ pos' = pos + 1 /\ IsInstruction(text[pos])
      /\ program_bytecode' = program_bytecode \o Bytecode(ii)
      /\ curr_offset' = curr_offset + Size(ii)
      /\ UNCHANGED <<text, pass, sym_table, offsets>>
  BY DEF WriteInstruction, Reading, Line
<1>2. /\ Len(offsets) \in 1..Len(text) /\ IsData(text[Len(offsets)]) /\ pos \in 1..(Len(text) + 1)
      /\ IsCode(program_bytecode) /\ Len(program_bytecode) = curr_offset
      /\ pos <= Len(offsets) => curr_offset = offsets[pos]
  BY <1>1 DEF PassesInv, SecondPass
<1>3. Len(text) \in Nat /\ curr_offset \in Nat
  BY TextFacts DEF PassesInv
<1>4. Sound(ii) /\ Size(ii) = LineSize(pos) /\ LineSize(pos) \in Nat
  BY <1>1, <1>2, <1>3, LineSizes DEF PassesInv
<1> HIDE DEF ii
<1>5. LinesPlaced' /\ LabelsPlaced'
  BY <1>1 DEF PassesInv, LinesPlaced, LabelsPlaced, NextOffset, LineSize
<1>6. IsCode(program_bytecode)' /\ Len(program_bytecode') = curr_offset'
  BY <1>1, <1>2, <1>4, BytecodeLen, CodeConcat
<1>7. pos + 1 <= Len(offsets) => curr_offset' = offsets[pos + 1]
  <2> SUFFICES ASSUME pos + 1 <= Len(offsets) PROVE curr_offset' = offsets[pos + 1]
    OBVIOUS
  <2>1. offsets[pos + 1] = offsets[pos] + LineSize(pos)
    BY <1>2, <1>3 DEF PassesInv, LinesPlaced, NextOffset
  <2> QED
    BY <1>1, <1>2, <1>3, <1>4, <2>1
<1>8. SecondPass'
  BY <1>1, <1>2, <1>3, <1>6, <1>7 DEF SecondPass
<1>9. curr_offset' \in Nat
  BY <1>1, <1>3, <1>4
<1> QED
  BY <1>1, <1>5, <1>8, <1>9 DEF PassesInv, FirstPass

LEMMA NextPasses == PassesInv /\ [Next]_assembler_vars => PassesInv'
<1> SUFFICES ASSUME PassesInv, [Next]_assembler_vars PROVE PassesInv'
  OBVIOUS
<1>1. CASE Link
  BY <1>1 DEF Link, PassesInv, LinesPlaced, LabelsPlaced, NextOffset, LineSize, FirstPass, SecondPass
<1>2. CASE UNCHANGED assembler_vars
  BY <1>2 DEF assembler_vars, PassesInv, LinesPlaced, LabelsPlaced, NextOffset, LineSize,
              FirstPass, SecondPass
<1> QED
  BY <1>1, <1>2, ReadDirectiveInv, ReadLabelInv, ReadInstructionInv, ReadDataInv, SkipTokenInv,
     WriteInstructionInv DEF Next

LEMMA JumpsFromInv == PassesInv => JumpsReachLabels
<1> SUFFICES ASSUME PassesInv, pass = "program", pos <= Len(offsets)
             PROVE  /\ Len(program_bytecode) = offsets[pos]
                    /\ IsJump(Line) /\ HasLabel(Line[2][2]) =>
                         LET ii == create_instruction(Line, sym_table, curr_offset)
                         IN Len(program_bytecode) + Size(ii) + ii.immediate
                              = offsets[LabelLine(Line[2][2])]
  BY DEF JumpsReachLabels
<1>1. /\ Len(offsets) \in 1..Len(text) /\ IsData(text[Len(offsets)]) /\ pos \in 1..(Len(text) + 1)
      /\ Len(program_bytecode) = curr_offset /\ curr_offset = offsets[pos] /\ curr_offset \in Nat
  BY DEF PassesInv, SecondPass
<1>2. ASSUME IsJump(Line), HasLabel(Line[2][2])
      PROVE  LET ii == create_instruction(Line, sym_table, curr_offset)
             IN Len(program_bytecode) + Size(ii) + ii.immediate = offsets[LabelLine(Line[2][2])]
  <2> DEFINE ii == create_instruction(Line, sym_table, curr_offset)
             l == Line[2][2]
             k == LabelLine(l)
  <2>1. k \in 1..Len(text) /\ text[k][1] = "label" /\ text[k][2] = l
    BY <1>2 DEF HasLabel, LabelLine, IsLabel
  <2>2. k \in 1..Len(offsets)
    <3>1. PICK d \in 1..Len(text) :
            IsData(text[d]) /\ \A j \in 1..Len(text) : /\ j < d => ~IsData(text[j])
                                                       /\ j > d => text[j][1] = "token"
      BY TextAssumption DEF PassesInv
    <3>2. Len(text) \in Nat
      BY TextFacts DEF PassesInv
    <3>3. d = Len(offsets)
      BY <1>1, <3>1, <3>2, Kinds
    <3> QED
      BY <2>1, <3>1, <3>2, <3>3
  <2>3. l \in DOMAIN sym_table /\ sym_table[l] = offsets[k] /\ offsets[k] \in Nat
    BY <2>1, <2>2 DEF PassesInv, LabelsPlaced, LinesPlaced
  <2>4. ii.immediate = sym_table[l] - curr_offset - Size(ii) /\ Size(ii) \in {5, 6}
    BY <1>2, <2>3, JumpSize
  <2> HIDE DEF ii, k, l
  <2>5. Len(program_bytecode) + Size(ii) + ii.immediate = offsets[k]
    <3>1. \A n, m, o \in Int : n + m + (o - n - m) = o
      OBVIOUS
    <3>2. Size(ii) \in Int /\ curr_offset \in Int /\ offsets[k] \in Int
      BY <1>1, <2>3, <2>4
    <3> QED
      BY <1>1, <2>3, <2>4, <3>1, <3>2
  <2> QED
    BY <2>5 DEF ii, k, l
<1> QED
  BY <1>1, <1>2

-----------------------------------------------------------------------------
(* The places of the data: pages.                                          *)

LEMMA LaterPage ==
  ASSUME NEW p \in Nat \ {0}, NEW a \in Int, NEW b \in Int, a < b
  PROVE  p * a + p <= p * b
<1>1. p * (b - a) >= p /\ p * (b - a) = p * b - p * a /\ p * a \in Int /\ p * b \in Int
  OBVIOUS
<1> QED
  BY <1>1

\* A place is on one page only.
LEMMA OnePage ==
  ASSUME NEW p \in Nat \ {0}, NEW a \in Int, NEW r \in 0..(p - 1), NEW n \in Int, n = p * a + r
  PROVE  n \div p = a /\ n % p = r
<1> DEFINE b == n \div p
           s == n % p
<1>1. n = p * b + s /\ s \in 0..(p - 1) /\ b \in Int
  OBVIOUS
<1> HIDE DEF b, s
<1>2. p * a \in Int /\ p * b \in Int
  BY <1>1
<1>3. ~(a < b)
  BY <1>1, <1>2, LaterPage
<1>4. ~(b < a)
  BY <1>1, <1>2, LaterPage
<1>5. a = b
  BY <1>1, <1>3, <1>4
<1>6. r = s
  BY <1>1, <1>2, <1>5
<1> QED
  BY <1>5, <1>6 DEF b, s

\* Whole pages in front change nothing.
LEMMA ShiftedPages ==
  ASSUME NEW p \in Nat \ {0}, NEW m \in Nat, m % p = 0, NEW n \in Nat
  PROVE  (m + n) % p = n % p
<1> DEFINE a == m \div p
           b == n \div p
           r == n % p
<1>1. m = p * a /\ n = p * b + r /\ a \in Int /\ b \in Int /\ r \in 0..(p - 1)
  <2>1. m = p * a + (m % p)
    OBVIOUS
  <2>2. p * a \in Int
    OBVIOUS
  <2> QED
    BY <2>1, <2>2
<1> HIDE DEF a, b, r
<1>2. m + n = p * (a + b) + r
  BY <1>1
<1>3. (m + n) % p = r
  BY <1>1, <1>2, OnePage
<1> QED
  BY <1>3 DEF r

LEMMA EarlierPage ==
  ASSUME NEW p \in Nat \ {0}, NEW m \in Nat, NEW n \in Nat, n % p = 0, m < n
  PROVE  m \div p < n \div p
<1> DEFINE a == m \div p
           b == n \div p
           r == m % p
<1>1. m = p * a + r /\ n = p * b /\ a \in Int /\ b \in Int /\ r \in 0..(p - 1)
  <2>1. n = p * b + (n % p)
    OBVIOUS
  <2>2. p * b \in Int
    OBVIOUS
  <2> QED
    BY <2>1, <2>2
<1> HIDE DEF a, b, r
<1>2. ~(b < a)
  <2>1. p * a \in Int /\ p * b \in Int
    BY <1>1
  <2> QED
    BY <1>1, <2>1, LaterPage
<1>3. a # b
  <2>1. p * a \in Int
    BY <1>1
  <2> QED
    BY <1>1, <2>1
<1> QED
  BY <1>1, <1>2, <1>3 DEF a, b

\* Padding leads to the beginning of a page, from wherever pages are counted.
LEMMA PaddingFillsPage ==
  ASSUME NEW n \in Nat
  PROVE  /\ Padding(n) \in 1..PageSize
         /\ (n + Padding(n)) % PageSize = 0
         /\ Padding(PageSize + n) = Padding(n)
<1> DEFINE p == PageSize
           q == n \div p
           r == n % p
<1>1. p \in Nat \ {0}
  BY LayoutAssumption
<1> HIDE DEF p
<1>2. n = p * q + r /\ q \in Int /\ r \in 0..(p - 1)
  BY <1>1
<1>3. Padding(n) = p - r
  BY DEF Padding, p
<1> HIDE DEF q, r
<1>4. n + Padding(n) = p * (q + 1) + 0 /\ q + 1 \in Int
  BY <1>1, <1>2, <1>3
<1>5. (n + Padding(n)) % p = 0
  <2> DEFINE m == n + Padding(n)
             b == q + 1
  <2>1. m \in Int /\ b \in Int /\ m = p * b + 0 /\ 0 \in 0..(p - 1)
    BY <1>1, <1>2, <1>3, <1>4
  <2> HIDE DEF m, b
  <2>2. m % p = 0
    BY <1>1, <2>1, OnePage
  <2> QED
    BY <2>2 DEF m
<1>6. (p + n) % p = r
  <2> DEFINE m == p + n
             b == q + 1
  <2>1. m \in Int /\ b \in Int /\ m = p * b + r
    BY <1>1, <1>2
  <2> HIDE DEF m, b
  <2>2. m % p = r
    BY <1>1, <1>2, <2>1, OnePage
  <2> QED
    BY <2>2 DEF m
<1>7. Padding(p + n) = p - r
  BY <1>6 DEF Padding, p
<1> QED
  BY <1>1, <1>2, <1>3, <1>5, <1>7 DEF p

-----------------------------------------------------------------------------
(* The places of the data: what the first pass noted and what is written.  *)

\* Where the code ends, as the first pass has it.
CodeEnd == offsets[Len(offsets)]

DataPlaced ==
  pass \in {"program", "linked"} =>
    /\ Len(offsets) \in 1..Len(text) /\ IsData(text[Len(offsets)])
    /\ "strResult" \in DOMAIN sym_table /\ "buff" \in DOMAIN sym_table
    /\ sym_table["strResult"] = CodeEnd + Padding(CodeEnd)
    /\ sym_table["buff"] = CodeEnd + Padding(CodeEnd) + StrSize

CodeWritten ==
  /\ pass = "program" /\ pos > Len(offsets) => Len(program_bytecode) = CodeEnd
  /\ pass = "linked" => Len(program_bytecode) = CodeEnd /\ binary = create_binary

DataInv == PassesInv /\ DataPlaced /\ CodeWritten

LEMMA InitData == Init => DataInv
BY InitPasses DEF Init, DataInv, DataPlaced, CodeWritten

\* Nothing but tokens stands behind the data.
LEMMA BehindData ==
  ASSUME text \in Texts, NEW d \in 1..Len(text), IsData(text[d])
  PROVE  \A j \in 1..Len(text) : j > d => text[j][1] = "token"
<1>1. PICK e \in 1..Len(text) :
        IsData(text[e]) /\ \A j \in 1..Len(text) : /\ j < e => ~IsData(text[j])
                                                   /\ j > e => text[j][1] = "token"
  BY TextAssumption
<1>2. Len(text) \in Nat
  BY TextFacts
<1>3. d = e
  BY <1>1, <1>2, Kinds
<1> QED
  BY <1>1, <1>3

LEMMA ReadDataPlaced ==
  ASSUME DataInv, ReadData
  PROVE  DataPlaced' /\ CodeWritten'
<1> DEFINE at == curr_offset + Padding(curr_offset)
<1>1. /\ pass = "symbols" /\ pos <= Len(text) /\ IsData(text[pos])
      /\ sym_table' = Insert(Insert(sym_table, "strResult", at), "buff", at + StrSize)
      /\ pass' = "program" /\ pos' = 1
      /\ offsets' = Append(offsets, curr_offset) /\ UNCHANGED text
  BY DEF ReadData, read_data, Line, Sized
<1>2. Len(offsets') = pos /\ offsets'[pos] = curr_offset
  BY <1>1, OneMoreLine DEF DataInv
<1>3. pos \in 1..Len(text)
  BY <1>1, LenProperties, TextFacts DEF DataInv, PassesInv, LinesPlaced, FirstPass
<1> HIDE DEF at
<1>4. /\ "strResult" \in DOMAIN sym_table' /\ "buff" \in DOMAIN sym_table'
      /\ sym_table'["strResult"] = at /\ sym_table'["buff"] = at + StrSize
  BY <1>1 DEF Insert
<1>5. CodeEnd' = curr_offset
  BY <1>2 DEF CodeEnd
<1>6. Padding(CodeEnd)' = Padding(curr_offset)
  BY <1>5 DEF Padding
<1>7. DataPlaced'
  BY <1>1, <1>2, <1>3, <1>4, <1>5, <1>6 DEF DataPlaced, at
<1>8. ~(pos' > Len(offsets'))
  BY <1>1, <1>2, <1>3
<1> QED
  BY <1>1, <1>7, <1>8 DEF CodeWritten

LEMMA SecondPassPlaced ==
  ASSUME DataInv, pass = "program", SkipToken \/ WriteInstruction
  PROVE  DataPlaced' /\ CodeWritten'
<1>1. /\ pos <= Len(text) /\ pos' = pos + 1
      /\ UNCHANGED <<text, pass, sym_table, offsets>>
  BY DEF SkipToken, WriteInstruction, Reading
<1>2. /\ text \in Texts /\ Len(offsets) \in 1..Len(text) /\ IsData(text[Len(offsets)])
      /\ pos \in 1..(Len(text) + 1)
      /\ Len(program_bytecode) = curr_offset /\ (pos <= Len(offsets) => curr_offset = offsets[pos])
  BY DEF DataInv, PassesInv, SecondPass
<1>3. DataPlaced'
  BY <1>1 DEF DataInv, DataPlaced, CodeEnd, Padding
<1>4. ASSUME pos' > Len(offsets')
      PROVE  Len(program_bytecode') = CodeEnd'
  <2>1. Len(text) \in Nat /\ Len(offsets) \in Int /\ pos \in 1..Len(text) /\ pos >= Len(offsets)
    <3>1. Len(text) \in Nat
      BY <1>2, TextFacts
    <3> QED
      BY <1>1, <1>2, <1>4, <3>1
  <2>2. ~IsInstruction(text[pos])
    <3>1. CASE pos = Len(offsets)
      BY <1>2, <3>1, Kinds
    <3>2. CASE pos > Len(offsets)
      BY <1>2, <2>1, <3>2, BehindData, Kinds
    <3> QED
      BY <2>1, <3>1, <3>2
  <2>3. program_bytecode' = program_bytecode
    BY <2>2 DEF SkipToken, WriteInstruction, Line
  <2>4. Len(program_bytecode) = CodeEnd
    <3>1. CASE pos = Len(offsets)
      BY <1>2, <3>1 DEF CodeEnd
    <3>2. CASE pos > Len(offsets)
      BY <3>2 DEF DataInv, CodeWritten
    <3> QED
      BY <2>1, <3>1, <3>2
  <2> QED
    BY <1>1, <2>3, <2>4 DEF CodeEnd
<1> QED
  BY <1>1, <1>3, <1>4 DEF CodeWritten

LEMMA LinkPlaced ==
  ASSUME DataInv, Link
  PROVE  DataPlaced' /\ CodeWritten'
<1>1. /\ pass = "program" /\ pos > Len(text) /\ pass' = "linked" /\ binary' = create_binary
      /\ UNCHANGED <<text, sym_table, program_bytecode, offsets>>
  BY DEF Link
<1>2. Len(offsets) \in 1..Len(text) /\ pos \in 1..(Len(text) + 1) /\ Len(text) \in Nat
  BY <1>1, TextFacts DEF DataInv, PassesInv, SecondPass
<1>3. Len(program_bytecode) = CodeEnd
  BY <1>1, <1>2 DEF DataInv, CodeWritten
<1>4. DataPlaced'
  BY <1>1 DEF DataInv, DataPlaced, CodeEnd, Padding
<1>5. create_binary' = create_binary
  BY <1>1 DEF create_binary, Padding, Segment
<1> QED
  BY <1>1, <1>3, <1>4, <1>5 DEF CodeWritten, CodeEnd

LEMMA NextData == DataInv /\ [Next]_assembler_vars => DataInv'
<1> SUFFICES ASSUME DataInv, [Next]_assembler_vars PROVE DataInv'
  OBVIOUS
<1>1. PassesInv'
  BY NextPasses DEF DataInv
<1>2. DataPlaced' /\ CodeWritten'
  <2>1. CASE ReadDirective \/ ReadLabel \/ ReadInstruction
    <3>1. pass' = "symbols"
      BY <2>1 DEF ReadDirective, ReadLabel, ReadInstruction, Reading
    <3> QED
      BY <3>1 DEF DataPlaced, CodeWritten
  <2>2. CASE ReadData
    BY <2>2, ReadDataPlaced
  <2>3. CASE SkipToken \/ WriteInstruction
    <3>1. pass = "program"
      BY <2>3 DEF SkipToken, WriteInstruction, Reading
    <3> QED
      BY <2>3, <3>1, SecondPassPlaced
  <2>4. CASE Link
    BY <2>4, LinkPlaced
  <2>5. CASE UNCHANGED assembler_vars
    BY <2>5 DEF assembler_vars, DataInv, DataPlaced, CodeWritten, CodeEnd, Padding,
                create_binary, Segment
  <2> QED
    BY <2>1, <2>2, <2>3, <2>4, <2>5 DEF Next
<1> QED
  BY <1>1, <1>2 DEF DataInv

LEMMA StartPlaced ==
  ASSUME DataInv, pass = "linked", HasLabel("_start")
  PROVE  "_start" \in DOMAIN sym_table /\ sym_table["_start"] = offsets[LabelLine("_start")]
<1> DEFINE k == LabelLine("_start")
<1>1. k \in 1..Len(text) /\ text[k][1] = "label" /\ text[k][2] = "_start"
  BY DEF HasLabel, LabelLine, IsLabel
<1> HIDE DEF k
<1>2. text \in Texts /\ Len(text) \in Nat
  BY TextFacts DEF DataInv, PassesInv
<1>3. Len(offsets) \in 1..Len(text) /\ IsData(text[Len(offsets)])
  BY DEF DataInv, DataPlaced
<1>4. k \in 1..Len(offsets)
  <2>1. ~(k > Len(offsets))
    BY <1>1, <1>2, <1>3, BehindData
  <2> QED
    BY <1>1, <1>2, <1>3, <2>1
<1> QED
  BY <1>1, <1>4 DEF DataInv, PassesInv, LabelsPlaced, k

LEMMA DataFromInv == DataInv => DataLoaded
<1> SUFFICES ASSUME DataInv, pass = "linked"
             PROVE  /\ Loadable(binary.code) /\ Loadable(binary.data)
                    /\ binary.code.vaddr + binary.code.size <= binary.data.vaddr
                    /\ (binary.code.vaddr + binary.code.size - 1) \div PageSize
                         < binary.data.vaddr \div PageSize
                    /\ \A s \in {"strResult", "buff"} : AddressIn(sym_table, s) = DataAddress(s)
                    /\ HasLabel("_start") =>
                         binary.entry = binary.code.vaddr + offsets[LabelLine("_start")]
  BY DEF DataLoaded
<1> DEFINE p == PageSize
           v == VADDR_START
           c == CodeEnd
           pad == Padding(c)
<1>1. p \in Nat \ {0} /\ v \in Nat /\ v % p = 0
  BY LayoutAssumption
<1>2. c \in Nat
  BY DEF DataInv, DataPlaced, PassesInv, LinesPlaced, CodeEnd
<1>3. pad \in 1..p /\ (c + pad) % p = 0 /\ Padding(p + c) = pad
  BY <1>2, PaddingFillsPage
<1>4. /\ binary.code = Segment(p, v + p, c)
      /\ binary.data = Segment(p + c + pad, v + (p + c + pad), DataSize)
      /\ binary.file_size = HeaderSize + (p - HeaderSize) + c + pad + DataSize
      /\ HasLabel("_start") => binary.entry = v + p + offsets[LabelLine("_start")]
  <2>1. Len(program_bytecode) = c /\ binary = create_binary
    BY DEF DataInv, CodeWritten
  <2>2. HasLabel("_start") =>
          "_start" \in DOMAIN sym_table /\ sym_table["_start"] = offsets[LabelLine("_start")]
    BY StartPlaced
  <2> QED
    BY <1>3, <2>1, <2>2 DEF create_binary
<1>5. /\ sym_table["strResult"] = c + pad /\ sym_table["buff"] = c + pad + StrSize
      /\ "strResult" \in DOMAIN sym_table /\ "buff" \in DOMAIN sym_table
  BY DEF DataInv, DataPlaced
<1> HIDE DEF p, v, c, pad
<1>6. /\ binary.code.offset = p /\ binary.code.vaddr = v + p /\ binary.code.size = c
      /\ binary.data.offset = p + c + pad /\ binary.data.vaddr = v + (p + c + pad)
      /\ binary.data.size = DataSize
  BY <1>4 DEF Segment
<1>7. HeaderSize \in Nat /\ DataSize \in Nat /\ StrSize \in Nat
  BY SizeAssumption, LayoutAssumption
<1>8. binary.file_size = p + c + pad + DataSize
  BY <1>1, <1>2, <1>3, <1>4, <1>7
<1>9. p % p = 0 /\ (p + (c + pad)) % p = 0 /\ (v + (p + (c + pad))) % p = 0 /\ (v + p) % p = 0
  <2>1. p % p = 0
    BY <1>1
  <2>2. (p + (c + pad)) % p = 0
    <3> DEFINE m == c + pad
    <3>1. m \in Nat /\ m % p = 0 /\ p \in Nat
      BY <1>1, <1>2, <1>3
    <3> HIDE DEF m
    <3>2. (p + m) % p = m % p
      BY <1>1, <2>1, <3>1, ShiftedPages
    <3> QED
      BY <3>1, <3>2 DEF m
  <2>3. (v + p) % p = 0
    BY <1>1, <2>1, ShiftedPages
  <2>4. (v + (p + (c + pad))) % p = 0
    <3>1. p + (c + pad) \in Nat
      BY <1>1, <1>2, <1>3
    <3> QED
      BY <1>1, <2>2, <3>1, ShiftedPages
  <2> QED
    BY <2>1, <2>2, <2>3, <2>4
<1>10. p + c + pad = p + (c + pad)
  BY <1>1, <1>2, <1>3
<1>11. Loadable(binary.code)
  BY <1>1, <1>2, <1>3, <1>6, <1>7, <1>8, <1>9 DEF Loadable, p
<1>12. Loadable(binary.data)
  <2>1. p + c + pad + DataSize <= binary.file_size
    BY <1>1, <1>2, <1>3, <1>7, <1>8
  <2> QED
    BY <1>6, <1>9, <1>10, <2>1 DEF Loadable, p
<1>13. binary.code.vaddr + binary.code.size <= binary.data.vaddr
  BY <1>1, <1>2, <1>3, <1>6
<1>14. (binary.code.vaddr + binary.code.size - 1) \div p < binary.data.vaddr \div p
  <2> DEFINE m == v + p + c - 1
             n == v + (p + (c + pad))
  <2>1. m \in Nat /\ n \in Nat /\ m < n /\ n % p = 0
    BY <1>1, <1>2, <1>3, <1>9
  <2> HIDE DEF m, n
  <2>2. m \div p < n \div p
    BY <1>1, <2>1, EarlierPage
  <2> QED
    BY <1>6, <1>10, <2>2 DEF m, n
<1>15. ASSUME NEW s \in {"strResult", "buff"}
       PROVE  AddressIn(sym_table, s) = DataAddress(s)
  <2>1. AddressIn(sym_table, s) = v + p + (c + pad + (IF s = "buff" THEN StrSize ELSE 0))
    BY <1>1, <1>2, <1>3, <1>5, <1>7 DEF AddressIn, v, p
  <2>2. DataAddress(s) = v + (p + c + pad) + (IF s = "buff" THEN StrSize ELSE 0)
    BY <1>6 DEF DataAddress
  <2> QED
    BY <1>1, <1>2, <1>3, <1>7, <2>1, <2>2
<1> QED
  BY <1>4, <1>6, <1>11, <1>12, <1>13, <1>14, <1>15 DEF p

-----------------------------------------------------------------------------
\* read_symbols and create_instruction: for any page size and any text of the
\* CodeEmitter's kind, the second pass begins every line where the first one put it,
\* and the displacement of every jump and call leads to the place of its label.
THEOREM JumpsAlwaysReachLabels == Spec => []JumpsReachLabels
<1>1. PassesInv /\ [Next]_assembler_vars => PassesInv'
  BY NextPasses
<1> QED
  BY <1>1, InitPasses, JumpsFromInv, PTL DEF Spec

\* create_binary and read_data: the file holds both segments where the headers say, no
\* page belongs to both, strResult and buff are where the first pass promised the
\* instructions, also when the code fills its last page, and the program begins at
\* _start.
THEOREM DataAlwaysLoaded == Spec => []DataLoaded
<1>1. DataInv /\ [Next]_assembler_vars => DataInv'
  BY NextData
<1> QED
  BY <1>1, InitData, DataFromInv, PTL DEF Spec

-----------------------------------------------------------------------------
(* The bytes of a number are read back as the number.                      *)

\* A set of numbers that is not empty has a least one.
LEMMA LeastNumber ==
  ASSUME NEW S \in SUBSET Nat, S # {}
  PROVE  \E i \in S : \A j \in S : i <= j
<1>1. PICK i \in S : \A j \in S : ~(<<j, i>> \in OpToRel(<, Nat))
  BY NatLessThanWellFounded, WFMin, Zenon
<1>2. ASSUME NEW k \in Nat, NEW n \in Nat, k < n
      PROVE  <<k, n>> \in OpToRel(<, Nat)
  BY <1>2 DEF OpToRel
<1>3. ASSUME NEW j \in S PROVE i <= j
  <2>1. i \in Nat /\ j \in Nat /\ ~(j < i)
    BY <1>1, <1>2, Zenon
  <2> QED
    BY <2>1
<1> QED
  BY <1>3

\* Induction up to n.
LEMMA UpTo ==
  ASSUME NEW n \in Nat, NEW S, 0 \in S, \A k \in 1..n : k - 1 \in S => k \in S
  PROVE  \A k \in 0..n : k \in S
<1> SUFFICES ASSUME {k \in 0..n : k \notin S} # {}
             PROVE  FALSE
  OBVIOUS
<1> DEFINE T == {k \in 0..n : k \notin S}
<1>1. PICK i \in T : \A j \in T : i <= j
  <2>1. T \in SUBSET Nat /\ T # {}
    OBVIOUS
  <2> HIDE DEF T
  <2> QED
    BY <2>1, LeastNumber
<1>2. i \in 1..n /\ i - 1 \in 0..n /\ i \notin S
  BY <1>1
<1> QED
  BY <1>1, <1>2

\* What is left of v when its last bytes are taken off, one after the other.
Quotients(n, q, v) ==
  q \in [0..n -> Int] /\ q[0] = v /\ \A i \in 1..n : q[i] = q[i - 1] \div 256

LEMMA QuotientsExist ==
  ASSUME NEW n \in Nat, NEW v \in Int
  PROVE  \E q : Quotients(n, q, v)
<1> DEFINE S == {k \in 0..n : \E q : Quotients(k, q, v)}
<1>1. 0 \in S
  <2> DEFINE q == [i \in 0..0 |-> v]
  <2>1. q \in [0..0 -> Int] /\ q[0] = v /\ \A i \in 1..0 : q[i] = q[i - 1] \div 256
    OBVIOUS
  <2>2. \E g : Quotients(0, g, v)
    BY <2>1 DEF Quotients
  <2> QED
    BY <2>2
<1>2. ASSUME NEW k \in 1..n, k - 1 \in S
      PROVE  k \in S
  <2>1. PICK q : Quotients(k - 1, q, v)
    BY <1>2
  <2>2. q \in [0..(k - 1) -> Int] /\ q[0] = v /\ \A i \in 1..(k - 1) : q[i] = q[i - 1] \div 256
    BY <2>1 DEF Quotients
  <2> DEFINE s == q[k - 1] \div 256
             g == [i \in 0..k |-> IF i = k THEN s ELSE q[i]]
  <2>3. s \in Int
    BY <2>2
  <2>4. g \in [0..k -> Int] /\ g[0] = v
    <3> HIDE DEF s
    <3> QED
      BY <2>2, <2>3
  <2>5. ASSUME NEW i \in 1..k
        PROVE  g[i] = g[i - 1] \div 256
    <3>1. CASE i = k
      <4>1. g[i] = s /\ g[i - 1] = q[k - 1]
        BY <3>1
      <4> QED
        BY <3>1, <4>1
    <3>2. CASE i # k
      <4>1. i \in 1..(k - 1) /\ g[i] = q[i] /\ g[i - 1] = q[i - 1]
        BY <3>2
      <4> QED
        BY <2>2, <4>1
    <3> QED
      BY <3>1, <3>2
  <2> HIDE DEF g
  <2>6. Quotients(k, g, v)
    BY <2>4, <2>5 DEF Quotients
  <2> QED
    BY <2>6
<1> HIDE DEF S
<1>3. n \in S
  BY <1>1, <1>2, UpTo
<1> QED
  BY <1>3 DEF S

LEMMA LittleParts ==
  ASSUME NEW v \in Int, NEW n \in Nat
  PROVE  \E q : Quotients(n, q, v) /\ \A i \in 1..n : Little(v, n)[i] = q[i - 1] % 256
<1> DEFINE F(q) == [i \in 0..n |-> IF i = 0 THEN v ELSE q[i - 1] \div 256]
           Q(q) == q = F(q)
<1>3. PICK f : Quotients(n, f, v)
  BY QuotientsExist
<1>4. f \in [0..n -> Int] /\ f[0] = v /\ \A i \in 1..n : f[i] = f[i - 1] \div 256
  BY <1>3 DEF Quotients
<1>5. Q(f)
  <2>1. \A i \in 0..n : i = 0 \/ i \in 1..n
    OBVIOUS
  <2>2. \A i \in 0..n : f[i] = F(f)[i]
    BY <1>4, <2>1
  <2>3. DOMAIN f = 0..n /\ f = [i \in 0..n |-> f[i]]
    BY <1>4
  <2> QED
    BY <2>2, <2>3
<1> DEFINE q == CHOOSE q : Q(q)
<1>6. Q(q)
  BY <1>5, Zenon
<1>7. Little(v, n) = [i \in 1..n |-> q[i - 1] % 256]
  BY DEF Little
<1> HIDE DEF q
<1>8. q[0] = v /\ \A i \in 1..n : q[i] = q[i - 1] \div 256
  BY <1>6
<1> DEFINE S == {k \in 0..n : q[k] = f[k]}
<1>9. 0 \in S
  BY <1>4, <1>8
<1>10. ASSUME NEW k \in 1..n, k - 1 \in S
       PROVE  k \in S
  BY <1>4, <1>8, <1>10
<1> HIDE DEF S
<1>11. \A k \in 0..n : k \in S
  BY <1>9, <1>10, UpTo
<1>12. \A i \in 1..n : i - 1 \in 0..n /\ q[i - 1] = f[i - 1]
  BY <1>11 DEF S
<1>13. \A i \in 1..n : Little(v, n)[i] = f[i - 1] % 256
  BY <1>7, <1>12
<1> QED
  BY <1>3, <1>13

\* The bytes s stand in b from place p on.
Holds(b, p, s) == \A i \in 1..Len(s) : Byte(b, p + i - 1) = s[i]

\* The numbers g that the last bytes make, one byte more each time.
Reads(b, at, k, g) ==
  /\ g \in [1..k -> Int]
  /\ \E d : /\ \A i \in 1..k : d[i] = Byte(b, at + k - i)
            /\ g[1] = (IF d[1] >= 128 THEN d[1] - 256 ELSE d[1])
            /\ \A i \in 2..k : g[i] = g[i - 1] * 256 + d[i]

\* A row of numbers each of which has one byte more than the one before it ends with the
\* number of all bytes.
LEMMA SignedIs ==
  ASSUME NEW b, NEW at, NEW k \in Nat \ {0}, NEW g, Reads(b, at, k, g)
  PROVE  Signed(b, at, k) = g[k]
<1>11. g \in [1..k -> Int]
  BY DEF Reads
<1>12. PICK d : /\ \A i \in 1..k : d[i] = Byte(b, at + k - i)
               /\ g[1] = (IF d[1] >= 128 THEN d[1] - 256 ELSE d[1])
               /\ \A i \in 2..k : g[i] = g[i - 1] * 256 + d[i]
  BY DEF Reads
<1> DEFINE top == Byte(b, at + k - 1)
           V(q, i) == IF i = 1 THEN IF top >= 128 THEN top - 256 ELSE top
                               ELSE q[i - 1] * 256 + Byte(b, at + k - i)
           F(q) == [i \in 1..k |-> V(q, i)]
           Q(q) == q = F(q)
<1>1. Q(g)
  <2>0. d[1] = top /\ \A i \in 2..k : d[i] = Byte(b, at + k - i)
    BY <1>12
  <2> HIDE DEF top
  <2>1. \A i \in 1..k : i = 1 \/ i \in 2..k
    OBVIOUS
  <2>2. \A i \in 1..k : g[i] = V(g, i)
    BY <1>12, <2>0, <2>1
  <2> HIDE DEF V
  <2>3. DOMAIN g = 1..k /\ g = [i \in 1..k |-> g[i]]
    BY <1>11
  <2> QED
    BY <2>2, <2>3
<1> DEFINE q == CHOOSE q : Q(q)
<1>2. Q(q)
  BY <1>1, Zenon
<1>3. Signed(b, at, k) = q[k]
  BY DEF Signed
<1> HIDE DEF q
<1>0. d[1] = top /\ \A i \in 2..k : d[i] = Byte(b, at + k - i)
  BY <1>12
<1> HIDE DEF top
<1>4. q[1] = g[1] /\ \A i \in 2..k : q[i] = q[i - 1] * 256 + d[i]
  BY <1>0, <1>2, <1>12
<1> HIDE DEF F, Q
<1> DEFINE S == {i \in 0..k : i = 0 \/ q[i] = g[i]}
<1>5. 0 \in S
  OBVIOUS
<1>6. ASSUME NEW i \in 1..k, i - 1 \in S
      PROVE  i \in S
  <2>1. CASE i = 1
    BY <1>4, <2>1
  <2>2. CASE i # 1
    <3>1. i \in 2..k /\ q[i - 1] = g[i - 1]
      BY <1>6, <2>2
    <3>2. q[i] = q[i - 1] * 256 + d[i] /\ g[i] = g[i - 1] * 256 + d[i]
      BY <1>4, <1>12, <3>1
    <3> QED
      BY <3>1, <3>2
  <2> QED
    BY <2>1, <2>2
<1> HIDE DEF S
<1>7. \A i \in 0..k : i \in S
  BY <1>5, <1>6, UpTo
<1>8. q[k] = g[k]
  BY <1>7 DEF S
<1> QED
  BY <1>3, <1>8

\* The bytes of a number that is small enough for them are read back.
LEMMA ReadBack ==
  ASSUME NEW b, NEW at \in Int, NEW v \in Int, NEW k \in Nat \ {0}, Holds(b, at, Little(v, k)),
         \A q : Quotients(k, q, v) => q[k - 1] \in -128..127
  PROVE  Signed(b, at, k) = v
<1>1. PICK q : Quotients(k, q, v) /\ \A i \in 1..k : Little(v, k)[i] = q[i - 1] % 256
  BY LittleParts
<1>2. q \in [0..k -> Int] /\ q[0] = v /\ \A i \in 1..k : q[i] = q[i - 1] \div 256
  BY <1>1 DEF Quotients
<1>3. ASSUME NEW i \in 1..k
      PROVE  Byte(b, at + k - i) = q[k - i] % 256
  <2> DEFINE j == k - i + 1
  <2>1. j \in 1..k /\ at + j - 1 = at + k - i /\ j - 1 = k - i
    OBVIOUS
  <2>2. Len(Little(v, k)) = k
    BY LittleLen
  <2> HIDE DEF j
  <2>3. Byte(b, at + j - 1) = Little(v, k)[j] /\ Little(v, k)[j] = q[j - 1] % 256
    BY <1>1, <2>1, <2>2 DEF Holds
  <2> QED
    BY <2>1, <2>3
<1> DEFINE g == [i \in 1..k |-> q[k - i]]
           d == [i \in 1..k |-> q[k - i] % 256]
<1>4. g \in [1..k -> Int] /\ g[k] = v /\ g[1] = q[k - 1] /\ d[1] = q[k - 1] % 256
  BY <1>2
<1>5. g[1] = (IF d[1] >= 128 THEN d[1] - 256 ELSE d[1])
  <2> DEFINE t == q[k - 1]
  <2>1. t \in -128..127 /\ g[1] = t /\ d[1] = t % 256
    BY <1>1, <1>4
  <2> HIDE DEF t, g, d
  <2> QED
    BY <2>1
<1>6. ASSUME NEW i \in 2..k
      PROVE  g[i] = g[i - 1] * 256 + d[i]
  <2> DEFINE j == k - i
  <2>1. j \in 0..k /\ j + 1 \in 1..k /\ g[i] = q[j] /\ g[i - 1] = q[j + 1] /\ j + 1 - 1 = j
    OBVIOUS
  <2>2. d[i] = q[j] % 256
    OBVIOUS
  <2> HIDE DEF j, g, d
  <2>3. q[j] \in Int /\ q[j + 1] = q[j] \div 256
    BY <1>2, <2>1
  <2> QED
    BY <2>1, <2>2, <2>3
<1>7. \A i \in 1..k : d[i] = Byte(b, at + k - i)
  BY <1>3
<1> HIDE DEF g, d
<1>8. Reads(b, at, k, g)
  BY <1>4, <1>5, <1>6, <1>7 DEF Reads
<1>9. Signed(b, at, k) = g[k]
  BY <1>8, SignedIs
<1> QED
  BY <1>4, <1>9

\* A number of one byte is read back from one,
LEMMA ReadBack1 ==
  ASSUME NEW b, NEW at \in Int, NEW v, IsByte(v), Holds(b, at, Little(v, 1))
  PROVE  Signed(b, at, 1) = v
<1>1. v \in Int /\ v \in -128..127
  BY DEF IsByte
<1>2. \A q : Quotients(1, q, v) => q[1 - 1] \in -128..127
  BY <1>1 DEF Quotients
<1> QED
  BY <1>1, <1>2, ReadBack

\* one of four bytes from four,
LEMMA ReadBack4 ==
  ASSUME NEW b, NEW at \in Int, NEW v, IsWord32(v), Holds(b, at, Little(v, 4))
  PROVE  Signed(b, at, 4) = v
<1>1. v \in Int /\ ((v \div 256) \div 256) \div 256 \in -128..127
  BY DEF IsWord32
<1>2. ASSUME NEW q, Quotients(4, q, v)
      PROVE  q[4 - 1] \in -128..127
  <2>1. q[0] = v /\ q[1] = q[0] \div 256 /\ q[2] = q[1] \div 256 /\ q[3] = q[2] \div 256
    BY <1>2 DEF Quotients
  <2> QED
    BY <1>1, <2>1
<1> QED
  BY <1>1, <1>2, ReadBack

\* and from eight.
LEMMA ReadBack8 ==
  ASSUME NEW b, NEW at \in Int, NEW v, IsWord32(v), Holds(b, at, Little(v, 8))
  PROVE  Signed(b, at, 8) = v
<1>1. v \in Int /\ ((v \div 256) \div 256) \div 256 \in -128..127
  BY DEF IsWord32
<1>2. ASSUME NEW q, Quotients(8, q, v)
      PROVE  q[8 - 1] \in -128..127
  <2>1. q[0] = v /\ \A i \in 1..8 : q[i] = q[i - 1] \div 256
    BY <1>2 DEF Quotients
  <2>2. q[1] = q[0] \div 256 /\ q[2] = q[1] \div 256 /\ q[3] = q[2] \div 256
    BY <2>1
  <2>3. q[3] \in -128..127
    BY <1>1, <2>1, <2>2
  <2>4. q[4] \in -128..127
    BY <2>1, <2>3
  <2>5. q[5] \in -128..127
    BY <2>1, <2>4
  <2>6. q[6] \in -128..127
    BY <2>1, <2>5
  <2>7. q[7] \in -128..127
    BY <2>1, <2>6
  <2> QED
    BY <2>7
<1> QED
  BY <1>1, <1>2, ReadBack

-----------------------------------------------------------------------------
(* The parts of an instruction in the bytes.                               *)

\* What holds two pieces of code, one behind the other, holds each of them.
LEMMA HoldsConcat ==
  ASSUME NEW b, NEW at \in Int, NEW x, IsCode(x), NEW y, IsCode(y), Holds(b, at, x \o y)
  PROVE  Holds(b, at, x) /\ Holds(b, at + Len(x), y)
<1> DEFINE u == x \o y
           S == Range(x) \union Range(y)
<1>1. Len(u) = Len(x) + Len(y) /\ Len(x) \in Nat /\ Len(y) \in Nat
  BY CodeConcat
<1>2. x \in Seq(S) /\ y \in Seq(S)
  BY SeqMonotonic DEF IsCode
<1> HIDE DEF S
<1>3. /\ \A i \in 1..Len(x) : u[i] = x[i]
      /\ \A i \in 1..Len(y) : u[Len(x) + i] = y[i]
  BY <1>1, <1>2, ConcatProperties
<1>4. \A i \in 1..Len(u) : Byte(b, at + i - 1) = u[i]
  BY DEF Holds
<1> HIDE DEF u
<1>5. Holds(b, at, x)
  BY <1>1, <1>3, <1>4 DEF Holds
<1>6. ASSUME NEW i \in 1..Len(y)
      PROVE  Byte(b, at + Len(x) + i - 1) = y[i]
  <2>1. Len(x) + i \in 1..Len(u) /\ at + (Len(x) + i) - 1 = at + Len(x) + i - 1
    BY <1>1
  <2> QED
    BY <1>3, <1>4, <2>1
<1> QED
  BY <1>5, <1>6 DEF Holds

\* One and two bytes.
LEMMA HoldsFew ==
  ASSUME NEW b, NEW at \in Int
  PROVE  /\ \A x : Holds(b, at, <<x>>) => Byte(b, at) = x
         /\ \A x, y : Holds(b, at, <<x, y>>) => Byte(b, at) = x /\ Byte(b, at + 1) = y
<1>1. ASSUME NEW x, Holds(b, at, <<x>>)
      PROVE  Byte(b, at) = x
  <2>1. 1 \in 1..Len(<<x>>) /\ <<x>>[1] = x /\ at + 1 - 1 = at
    OBVIOUS
  <2> QED
    BY <1>1, <2>1 DEF Holds
<1>2. ASSUME NEW x, NEW y, Holds(b, at, <<x, y>>)
      PROVE  Byte(b, at) = x /\ Byte(b, at + 1) = y
  <2>1. /\ 1 \in 1..Len(<<x, y>>) /\ <<x, y>>[1] = x /\ at + 1 - 1 = at
        /\ 2 \in 1..Len(<<x, y>>) /\ <<x, y>>[2] = y /\ at + 2 - 1 = at + 1
    OBVIOUS
  <2> QED
    BY <1>2, <2>1 DEF Holds
<1> QED
  BY <1>1, <1>2

\* The parts that ii puts behind its opcode, from place m on.
HoldsRest(b, m, ii) ==
  /\ Holds(b, m, ii.modrm)
  /\ Holds(b, m + Len(ii.modrm), ii.sib)
  /\ Holds(b, m + Len(ii.modrm) + Len(ii.sib), Little(ii.displacement, ii.disp_size))
  /\ Holds(b, m + Len(ii.modrm) + Len(ii.sib) + ii.disp_size, Little(ii.immediate, ii.imm_size))

RestSize(ii) == Len(ii.modrm) + Len(ii.sib) + ii.disp_size + ii.imm_size

LEMMA HoldsParts ==
  ASSUME NEW b, NEW at \in Int, NEW ii, Sound(ii), Holds(b, at, Bytecode(ii))
  PROVE  /\ Holds(b, at, REX(ii.rex))
         /\ Holds(b, at + Len(REX(ii.rex)), ii.opcode)
         /\ HoldsRest(b, at + Len(REX(ii.rex)) + Len(ii.opcode), ii)
         /\ Size(ii) = Len(REX(ii.rex)) + Len(ii.opcode) + RestSize(ii)
<1> DEFINE r == REX(ii.rex)
           d == Little(ii.displacement, ii.disp_size)
           m == Little(ii.immediate, ii.imm_size)
<1>1. IsCode(r) /\ IsCode(ii.opcode) /\ IsCode(ii.modrm) /\ IsCode(ii.sib)
  BY RexLen DEF Sound
<1>2. IsCode(d) /\ IsCode(m) /\ Len(d) = ii.disp_size /\ Len(m) = ii.imm_size
  BY LittleLen DEF Sound
<1>9. Size(ii) = Len(r) + Len(ii.opcode) + Len(ii.modrm) + Len(ii.sib) + ii.disp_size + ii.imm_size
  BY DEF Size
<1>10. ii.disp_size \in Nat /\ ii.imm_size \in Nat
  BY DEF Sound
<1> HIDE DEF r, d, m
<1> DEFINE b1 == r \o ii.opcode
           b2 == b1 \o ii.modrm
           b3 == b2 \o ii.sib
           b4 == b3 \o d
           b5 == b4 \o m
<1>3. IsCode(b1) /\ Len(b1) = Len(r) + Len(ii.opcode) /\ Len(r) \in Nat /\ Len(ii.opcode) \in Nat
  BY <1>1, CodeConcat
<1> HIDE DEF b1
<1>4. IsCode(b2) /\ Len(b2) = Len(b1) + Len(ii.modrm) /\ Len(ii.modrm) \in Nat
  BY <1>1, <1>3, CodeConcat
<1> HIDE DEF b2
<1>5. IsCode(b3) /\ Len(b3) = Len(b2) + Len(ii.sib) /\ Len(ii.sib) \in Nat
  BY <1>1, <1>4, CodeConcat
<1> HIDE DEF b3
<1>6. IsCode(b4) /\ Len(b4) = Len(b3) + Len(d)
  BY <1>2, <1>5, CodeConcat
<1> HIDE DEF b4
<1>7. Holds(b, at, b5)
  BY DEF Bytecode, b1, b2, b3, b4, r, d, m
<1>8. Holds(b, at, b4) /\ Holds(b, at + Len(b4), m)
  BY <1>2, <1>6, <1>7, HoldsConcat
<1>11. Holds(b, at, b3) /\ Holds(b, at + Len(b3), d)
  BY <1>2, <1>5, <1>8, HoldsConcat DEF b4
<1>12. Holds(b, at, b2) /\ Holds(b, at + Len(b2), ii.sib)
  BY <1>1, <1>4, <1>11, HoldsConcat DEF b3
<1>13. Holds(b, at, b1) /\ Holds(b, at + Len(b1), ii.modrm)
  BY <1>1, <1>3, <1>12, HoldsConcat DEF b2
<1>14. Holds(b, at, r) /\ Holds(b, at + Len(r), ii.opcode)
  BY <1>1, <1>13, HoldsConcat DEF b1
<1> DEFINE n == at + Len(r) + Len(ii.opcode)
<1>15. /\ at + Len(b1) = n /\ at + Len(b2) = n + Len(ii.modrm)
       /\ at + Len(b3) = n + Len(ii.modrm) + Len(ii.sib)
       /\ at + Len(b4) = n + Len(ii.modrm) + Len(ii.sib) + ii.disp_size
  <2> DEFINE lr == Len(r)
             lo == Len(ii.opcode)
             lm == Len(ii.modrm)
             ls == Len(ii.sib)
  <2>1. lr \in Int /\ lo \in Int /\ lm \in Int /\ ls \in Int /\ ii.disp_size \in Int
    BY <1>3, <1>4, <1>5, <1>10
  <2>2. Len(b1) = lr + lo
    BY <1>3
  <2>3. Len(b2) = lr + lo + lm
    BY <1>4, <2>2
  <2>4. Len(b3) = lr + lo + lm + ls
    BY <1>5, <2>3
  <2>5. Len(b4) = lr + lo + lm + ls + ii.disp_size
    BY <1>2, <1>6, <2>4
  <2> HIDE DEF lr, lo, lm, ls
  <2>6. /\ at + Len(b1) = at + lr + lo /\ at + Len(b2) = at + lr + lo + lm
        /\ at + Len(b3) = at + lr + lo + lm + ls
        /\ at + Len(b4) = at + lr + lo + lm + ls + ii.disp_size
    BY <2>1, <2>2, <2>3, <2>4, <2>5
  <2> QED
    BY <2>6 DEF lr, lo, lm, ls
<1>16. HoldsRest(b, n, ii)
  BY <1>8, <1>11, <1>12, <1>13, <1>15 DEF HoldsRest, d, m
<1>17. Size(ii) = Len(r) + Len(ii.opcode) + RestSize(ii)
  <2> DEFINE lr == Len(r)
             lo == Len(ii.opcode)
             lm == Len(ii.modrm)
             ls == Len(ii.sib)
  <2>1. /\ lr \in Int /\ lo \in Int /\ lm \in Int /\ ls \in Int
        /\ ii.disp_size \in Int /\ ii.imm_size \in Int
    BY <1>3, <1>4, <1>5, <1>10
  <2>2. Size(ii) = lr + lo + lm + ls + ii.disp_size + ii.imm_size
    BY <1>9
  <2>3. RestSize(ii) = lm + ls + ii.disp_size + ii.imm_size
    BY DEF RestSize
  <2> HIDE DEF lr, lo, lm, ls
  <2>4. Size(ii) = lr + lo + RestSize(ii)
    BY <2>1, <2>2, <2>3
  <2> QED
    BY <2>4 DEF lr, lo
<1> QED
  BY <1>14, <1>16, <1>17 DEF r

-----------------------------------------------------------------------------
(* Registers and the bits of REX.                                          *)

LEMMA NameList ==
  /\ Names[1] = "rax" /\ Names[2] = "rcx" /\ Names[3] = "rdx" /\ Names[4] = "rbx"
  /\ Names[5] = "rsp" /\ Names[6] = "rbp" /\ Names[7] = "rsi" /\ Names[8] = "rdi"
  /\ Names[9] = "r8" /\ Names[10] = "r9" /\ Names[11] = "r10" /\ Names[12] = "r11"
  /\ Names[13] = "r12" /\ Names[14] = "r13" /\ Names[15] = "r14" /\ Names[16] = "r15"
  /\ Len(Names) = 16
BY DEF Names

\* Every register has a name of its own.
LEMMA NamesDiffer ==
  \A i, j \in 1..16 : Names[i] = Names[j] => i = j
<1> SUFFICES ASSUME NEW i \in 1..16, NEW j \in 1..16, Names[i] = Names[j] PROVE i = j
  OBVIOUS
<1> DEFINE index(r) ==
      CASE r = "rax" -> 1 [] r = "rcx" -> 2 [] r = "rdx" -> 3 [] r = "rbx" -> 4
        [] r = "rsp" -> 5 [] r = "rbp" -> 6 [] r = "rsi" -> 7 [] r = "rdi" -> 8
        [] r = "r8" -> 9 [] r = "r9" -> 10 [] r = "r10" -> 11 [] r = "r11" -> 12
        [] r = "r12" -> 13 [] r = "r13" -> 14 [] r = "r14" -> 15 [] r = "r15" -> 16
<1>1. \A n \in 1..16 : index(Names[n]) = n
  <2> SUFFICES ASSUME NEW n \in 1..16 PROVE index(Names[n]) = n
    OBVIOUS
  <2>1. CASE n \in 1..8
    BY <2>1, NameList
  <2>2. CASE n \in 9..16
    BY <2>2, NameList
  <2> HIDE DEF index
  <2>3. n \in 1..8 \/ n \in 9..16
    OBVIOUS
  <2> QED
    BY <2>1, <2>2, <2>3
<1> HIDE DEF index
<1>2. index(Names[i]) = i /\ index(Names[j]) = j
  BY <1>1
<1> QED
  BY <1>2

\* The number of a register is three bits of ModRM and, for the upper eight, one of REX.
LEMMA RegisterNumber ==
  ASSUME NEW n \in 1..16
  PROVE  /\ registers[Names[n]] = (n - 1) % 8
         /\ registers[Names[n]] \in 0..7
         /\ Names[n] \in extended_registers <=> n >= 9
         /\ n = registers[Names[n]] + 1 + 8 * (IF Names[n] \in extended_registers THEN 1 ELSE 0)
<1>1. registers[Names[n]] = ((CHOOSE i \in 1..16 : Names[i] = Names[n]) - 1) % 8
  BY DEF registers
<1>2. (CHOOSE i \in 1..16 : Names[i] = Names[n]) = n
  BY NamesDiffer
<1>3. registers[Names[n]] = (n - 1) % 8
  BY <1>1, <1>2
<1>4. Names[n] \in extended_registers <=> n >= 9
  <2>1. CASE n \in 1..8
    BY <2>1, NameList DEF extended_registers
  <2>2. CASE n \in 9..16
    BY <2>2, NameList DEF extended_registers
  <2> QED
    BY <2>1, <2>2
<1>5. CASE n >= 9
  <2>1. (n - 1) % 8 = n - 9
    BY <1>5
  <2> QED
    BY <1>3, <1>4, <1>5, <2>1
<1>6. CASE n <= 8
  <2>1. (n - 1) % 8 = n - 1
    BY <1>6
  <2> QED
    BY <1>3, <1>4, <1>6, <2>1
<1> QED
  BY <1>5, <1>6

Bit(b, bits) == IF b \in bits THEN 1 ELSE 0
Wide(bits) == IF "W" \in bits THEN 64 ELSE 32

Bits == {"W", "R", "B"}

\* The bytes that are no REX.
Codes == 0..255 \ (\h40..\h4f)

\* What stands behind REX, or where it would be, is read with its bits.
LEMMA PrefixDecoded ==
  ASSUME NEW b, NEW at \in Int, NEW bits \in SUBSET Bits, Holds(b, at, REX(bits)),
         NEW o, o = at + Len(REX(bits)), Byte(b, o) \in Codes
  PROVE  /\ \E h \in BOOLEAN :
              /\ Decode(b, at) = Opcode(b, o, h, Wide(bits), Bit("R", bits), Bit("B", bits))
              /\ bits = {} => ~h
         /\ o = IF bits = {} THEN at ELSE at + 1
<1>1. CASE bits = {}
  <2>1. REX(bits) = <<>> /\ Len(<<>>) = 0
    BY <1>1 DEF REX
  <2>2. o = at
    BY <2>1
  <2>3. Decode(b, at) = Opcode(b, at, FALSE, 32, (0 \div 4) % 2, 0 % 2)
    <3>1. (Byte(b, at) \in \h40..\h4f) = FALSE
      BY <2>2 DEF Codes
    <3>2. ~(0 >= 8)
      OBVIOUS
    <3> QED
      BY <3>1, <3>2 DEF Decode
  <2>4. (0 \div 4) % 2 = 0 /\ 0 % 2 = 0
    OBVIOUS
  <2>5. Wide(bits) = 32 /\ Bit("R", bits) = 0 /\ Bit("B", bits) = 0 
    BY <1>1 DEF Bit, Wide
  <2> QED
    <3> HIDE DEF Wide, Bit
    <3>1. Decode(b, at) = Opcode(b, at, FALSE, 32, 0, 0)
      BY <2>3, <2>4, Zenon
    <3>2. o = IF bits = {} THEN at ELSE at + 1
      BY <1>1, <2>2, Zenon
    <3>3. Decode(b, at) = Opcode(b, o, FALSE, Wide(bits), Bit("R", bits), Bit("B", bits))
      BY <2>2, <2>5, <3>1, Zenon
    <3> QED
      BY <3>2, <3>3, Zenon
<1>2. CASE bits # {}
  <2> DEFINE x == 8 * Bit("W", bits) + 4 * Bit("R", bits) + Bit("B", bits)
  <2>1. x \in 0..15 /\ (x >= 8 <=> "W" \in bits) /\ (x \div 4) % 2 = Bit("R", bits)
        /\ x % 2 = Bit("B", bits)
    BY DEF Bit, Bits
  <2>2. REX(bits) = <<\h40 + x>>
    <3> DEFINE y == \h40 + (IF "W" \in bits THEN 8 ELSE 0) + (IF "R" \in bits THEN 4 ELSE 0)
                      + (IF "B" \in bits THEN 1 ELSE 0)
    <3>1. \h40 + x = y
      BY DEF Bit
    <3>2. REX(bits) = <<y>>
      BY <1>2, Zenon DEF REX
    <3> QED
      BY <3>1, <3>2, Zenon
  <2> HIDE DEF x
  <2>3. Len(REX(bits)) = 1 /\ Byte(b, at) = \h40 + x
    BY <2>2, HoldsFew
  <2>4. (Byte(b, at) \in \h40..\h4f) = TRUE /\ Byte(b, at) - \h40 = x
    BY <2>1, <2>3
  <2>5. Decode(b, at) = Opcode(b, at + 1, TRUE, IF x >= 8 THEN 64 ELSE 32, (x \div 4) % 2, x % 2)
    BY <2>4, Zenon DEF Decode
  <2>6. Wide(bits) = (IF x >= 8 THEN 64 ELSE 32)
    BY <2>1 DEF Wide
  <2>7. o = at + 1
    BY <2>3
  <2> HIDE DEF Wide, Bit
  <2>8. Decode(b, at) = Opcode(b, o, TRUE, Wide(bits), Bit("R", bits), Bit("B", bits))
    BY <2>1, <2>5, <2>6, <2>7, Zenon
  <2>9. o = IF bits = {} THEN at ELSE at + 1
    BY <1>2, <2>7, Zenon
  <2> QED
    BY <1>2, <2>8, <2>9, Zenon
<1> QED
  BY <1>1, <1>2

-----------------------------------------------------------------------------
(* ModRM and what is behind it.                                            *)

LEMMA ModRMParts ==
  ASSUME NEW mod \in 0..3, NEW reg \in 0..7, NEW rm \in 0..7, NEW x, x = mod * 64 + reg * 8 + rm
  PROVE  x \in Nat /\ Mod(x) = mod /\ Middle(x) = reg /\ Low(x) = rm
<1>1. x \div 64 = mod /\ x \div 8 = mod * 8 + reg /\ x % 8 = rm
  OBVIOUS
<1>2. (mod * 8 + reg) % 8 = reg
  OBVIOUS
<1> QED
  BY <1>1, <1>2 DEF Mod, Middle, Low

\* The B bit that belongs to the register with number n.
Above(n) == IF n >= 9 THEN 1 ELSE 0

\* A register,
LEMMA PlaceOfRegister ==
  ASSUME NEW b, NEW m \in Int, NEW n \in 1..16, NEW reg \in 0..7,
         Byte(b, m) = 3 * 64 + reg * 8 + registers[Names[n]]
  PROVE  Place(b, m, Above(n), Names) = <<Reg(Names[n]), m + 1>> /\ Middle(Byte(b, m)) = reg
<1> DEFINE x == Byte(b, m)
           rm == registers[Names[n]]
<1>1. rm \in 0..7 /\ n = rm + 1 + 8 * Above(n) /\ Above(n) \in 0..1
  BY RegisterNumber DEF Above
<1> HIDE DEF rm
<1>2. Mod(x) = 3 /\ Middle(x) = reg /\ Low(x) = rm
  BY <1>1, ModRMParts DEF rm
<1> HIDE DEF x
<1>3. Low(x) + 8 * Above(n) < Len(Names) /\ Low(x) + 1 + 8 * Above(n) = n
  BY <1>1, <1>2, NameList
<1>4. Place(b, m, Above(n), Names) = <<Reg(Names[Low(x) + 1 + 8 * Above(n)]), m + 1>>
  BY <1>2, <1>3 DEF Place, x
<1> QED
  BY <1>2, <1>3, <1>4 DEF x

\* a place in memory behind a register, with SIB where the register's number asks for it,
LEMMA PlaceOfMemory ==
  ASSUME NEW b, NEW m \in Int, NEW n \in 1..16, NEW reg \in 0..7, NEW v, IsWord32(v),
         Byte(b, m) = 2 * 64 + reg * 8 + registers[Names[n]],
         registers[Names[n]] = 4 => Byte(b, m + 1) = 4 * 8 + 4,
         NEW q, q = IF registers[Names[n]] = 4 THEN m + 2 ELSE m + 1,
         Holds(b, q, Little(v, 4))
  PROVE  Place(b, m, Above(n), Names) = <<Mem(Names[n], v), q + 4>> /\ Middle(Byte(b, m)) = reg
<1> DEFINE x == Byte(b, m)
           s == Byte(b, m + 1)
           rm == registers[Names[n]]
<1>1. rm \in 0..7 /\ n = rm + 1 + 8 * Above(n) /\ Above(n) \in 0..1
  BY RegisterNumber DEF Above
<1> HIDE DEF rm
<1>2. Mod(x) = 2 /\ Middle(x) = reg /\ Low(x) = rm
  BY <1>1, ModRMParts DEF rm
<1>3. rm = 4 => Middle(s) = 4 /\ Low(s) = 4
  BY ModRMParts DEF rm
<1>4. Signed(b, q, 4) = v
  BY ReadBack4
<1> HIDE DEF x, s
<1>5. CASE rm = 4
  <2>1. Names[Low(s) + 1 + 8 * Above(n)] = Names[n] /\ q = m + 2
    BY <1>1, <1>3, <1>5 DEF rm
  <2>2. Place(b, m, Above(n), Names)
          = <<Mem(Names[Low(s) + 1 + 8 * Above(n)], Signed(b, m + 2, 4)), m + 2 + 4>>
    BY <1>2, <1>3, <1>5 DEF Place, x, s
  <2> QED
    BY <1>2, <1>4, <2>1, <2>2 DEF x
<1>6. CASE rm # 4
  <2>1. Names[Low(x) + 1 + 8 * Above(n)] = Names[n] /\ q = m + 1
    BY <1>1, <1>2, <1>6 DEF rm
  <2>2. Place(b, m, Above(n), Names)
          = <<Mem(Names[Low(x) + 1 + 8 * Above(n)], Signed(b, m + 1, 4)), m + 1 + 4>>
    BY <1>2, <1>6 DEF Place, x, s
  <2> QED
    BY <1>2, <1>4, <2>1, <2>2 DEF x
<1> QED
  BY <1>5, <1>6

\* and an address, behind SIB without a base.
LEMMA PlaceOfAddress ==
  ASSUME NEW b, NEW m \in Int, NEW reg \in 0..7, NEW v, IsWord32(v), NEW names,
         Byte(b, m) = 0 * 64 + reg * 8 + 4, Byte(b, m + 1) = 4 * 8 + 5,
         Holds(b, m + 2, Little(v, 4))
  PROVE  Place(b, m, 0, names) = <<Absolute(v), m + 6>> /\ Middle(Byte(b, m)) = reg
<1> DEFINE x == Byte(b, m)
           s == Byte(b, m + 1)
<1>1. Mod(x) = 0 /\ Middle(x) = reg /\ Low(x) = 4
  BY ModRMParts
<1>2. Middle(s) = 4 /\ Low(s) = 5
  BY ModRMParts
<1>3. Signed(b, m + 2, 4) = v
  BY ReadBack4
<1>4. Place(b, m, 0, names) = <<Absolute(Signed(b, m + 2, 4)), m + 2 + 4>>
  <2> HIDE DEF x, s
  <2> QED
    BY <1>1, <1>2 DEF Place, x, s
<1>5. m + 2 + 4 = m + 6
  OBVIOUS
<1> QED
  BY <1>1, <1>3, <1>4, <1>5

\* The parts of ii are those that a create_ method writes for the place x, beside reg.
Addressed(ii, reg, x) ==
  \/ /\ x[1] = "reg" /\ ii.modrm = ModRM(3, reg, registers[x[2]]) /\ ii.sib = <<>>
     /\ ii.disp_size = 0
  \/ /\ x[1] = "mem" /\ ii.modrm = ModRM(2, reg, registers[x[2]])
     /\ ii.sib = (IF registers[x[2]] = 4 THEN SIB(registers[x[2]]) ELSE <<>>)
     /\ ii.displacement = x[3] /\ ii.disp_size = 4

LEMMA PlaceDecoded ==
  ASSUME NEW b, NEW m \in Int, NEW ii, NEW reg \in 0..7, NEW x, IsPlace(x), Addressed(ii, reg, x),
         ii.imm_size \in Nat, HoldsRest(b, m, ii)
  PROVE  \E next \in Int :
           /\ Place(b, m, Bit("B", setREXB(x)), Names) = <<x, next>>
           /\ Middle(Byte(b, m)) = reg
           /\ Holds(b, next, Little(ii.immediate, ii.imm_size))
           /\ m + RestSize(ii) = next + ii.imm_size
           /\ RestSize(ii) <= 6 + ii.imm_size
<1>1. PICK n \in 1..16 : /\ x[2] = Names[n]
                         /\ x = Reg(Names[n]) \/ (x = Mem(Names[n], x[3]) /\ IsWord32(x[3]))
  BY DEF IsPlace, IsRegister, IsMemory, Reg, Mem
<1>2. x[1] \in {"reg", "mem"} /\ (x[1] = "reg" => x = Reg(Names[n]))
      /\ (x[1] = "mem" => x = Mem(Names[n], x[3]) /\ IsWord32(x[3]))
  BY <1>1 DEF Reg, Mem
<1> DEFINE rm == registers[Names[n]]
<1>3. Bit("B", setREXB(x)) = Above(n) /\ rm \in 0..7
  BY <1>1, <1>2, RegisterNumber DEF Bit, setREXB, Above
<1> HIDE DEF rm
<1>4. /\ Holds(b, m, ii.modrm)
      /\ Holds(b, m + Len(ii.modrm), ii.sib)
      /\ Holds(b, m + Len(ii.modrm) + Len(ii.sib), Little(ii.displacement, ii.disp_size))
      /\ Holds(b, m + Len(ii.modrm) + Len(ii.sib) + ii.disp_size, Little(ii.immediate, ii.imm_size))
      /\ RestSize(ii) = Len(ii.modrm) + Len(ii.sib) + ii.disp_size + ii.imm_size
  BY DEF HoldsRest, RestSize
<1>5. Len(<<>>) = 0
  OBVIOUS
<1>6. CASE x[1] = "reg"
  <2>1. ii.modrm = <<3 * 64 + reg * 8 + rm>> /\ ii.sib = <<>> /\ ii.disp_size = 0
    BY <1>1, <1>6 DEF Addressed, ModRM, rm
  <2>2. Byte(b, m) = 3 * 64 + reg * 8 + rm /\ Len(ii.modrm) = 1 /\ Len(ii.sib) = 0
    BY <1>4, <1>5, <2>1, HoldsFew
  <2>3. Place(b, m, Above(n), Names) = <<Reg(Names[n]), m + 1>> /\ Middle(Byte(b, m)) = reg
    BY <2>2, PlaceOfRegister DEF rm
  <2>4. m + Len(ii.modrm) + Len(ii.sib) + ii.disp_size = m + 1 /\ RestSize(ii) = 1 + ii.imm_size
    BY <1>4, <2>1, <2>2
  <2>5. m + RestSize(ii) = (m + 1) + ii.imm_size
    BY <2>4
  <2>6. Place(b, m, Bit("B", setREXB(x)), Names) = <<x, m + 1>>
    BY <1>2, <1>3, <1>6, <2>3
  <2>7. Holds(b, m + 1, Little(ii.immediate, ii.imm_size))
    BY <1>4, <2>4, Zenon
  <2>9. RestSize(ii) <= 6 + ii.imm_size
    BY <2>4
  <2>8. m + 1 \in Int
    OBVIOUS
  <2> WITNESS m + 1 \in Int
  <2> QED
    BY <2>3, <2>5, <2>6, <2>7, <2>9, Zenon
<1>7. CASE x[1] = "mem"
  <2> DEFINE v == x[3]
  <2>0. PICK q \in Int : q = IF rm = 4 THEN m + 2 ELSE m + 1
    OBVIOUS
  <2>1. ii.modrm = <<2 * 64 + reg * 8 + rm>> /\ ii.sib = (IF rm = 4 THEN <<4 * 8 + rm>> ELSE <<>>)
        /\ ii.displacement = v /\ ii.disp_size = 4
    BY <1>1, <1>7 DEF Addressed, ModRM, SIB, rm
  <2>2. IsWord32(v) /\ x = Mem(Names[n], v)
    BY <1>2, <1>7
  <2> HIDE DEF v
  <2>3. Byte(b, m) = 2 * 64 + reg * 8 + rm /\ Len(ii.modrm) = 1
    BY <1>4, <2>1, HoldsFew
  <2>4. (rm = 4 => Byte(b, m + 1) = 4 * 8 + 4) /\ m + Len(ii.modrm) + Len(ii.sib) = q
        /\ Len(ii.sib) \in 0..1
    <3>1. CASE rm = 4
      <4>1. ii.sib = <<4 * 8 + 4>> /\ Len(ii.sib) = 1
        BY <2>1, <3>1
      <4>2. Byte(b, m + 1) = 4 * 8 + 4
        BY <1>4, <2>3, <4>1, HoldsFew
      <4> QED
        BY <2>0, <2>3, <3>1, <4>1, <4>2
    <3>2. CASE rm # 4
      <4>1. Len(ii.sib) = 0
        BY <1>5, <2>1, <3>2
      <4> QED
        BY <2>0, <2>3, <3>2, <4>1
    <3> QED
      BY <3>1, <3>2
  <2>5. Holds(b, q, Little(v, 4))
    BY <1>4, <2>1, <2>4
  <2>7. Place(b, m, Above(n), Names) = <<Mem(Names[n], v), q + 4>> /\ Middle(Byte(b, m)) = reg
    BY <2>0, <2>2, <2>3, <2>4, <2>5, PlaceOfMemory DEF rm
  <2>8. /\ m + RestSize(ii) = (q + 4) + ii.imm_size /\ RestSize(ii) <= 6 + ii.imm_size
        /\ m + Len(ii.modrm) + Len(ii.sib) + ii.disp_size = q + 4
    <3> DEFINE lm == Len(ii.modrm)
               ls == Len(ii.sib)
    <3>1. /\ lm = 1 /\ m + lm + ls = q /\ ls \in 0..1
          /\ RestSize(ii) = lm + ls + 4 + ii.imm_size
      BY <1>4, <2>1, <2>3, <2>4
    <3> HIDE DEF lm, ls
    <3>2. /\ m + RestSize(ii) = (q + 4) + ii.imm_size /\ RestSize(ii) <= 6 + ii.imm_size
          /\ m + lm + ls + 4 = q + 4
      BY <3>1
    <3> QED
      BY <2>1, <3>2 DEF lm, ls
  <2>9. Place(b, m, Bit("B", setREXB(x)), Names) = <<x, q + 4>>
    BY <1>3, <2>2, <2>7
  <2>10. Holds(b, q + 4, Little(ii.immediate, ii.imm_size))
    BY <1>4, <2>8, Zenon
  <2>11. q + 4 \in Int
    OBVIOUS
  <2> WITNESS q + 4 \in Int
  <2> QED
    BY <2>7, <2>8, <2>9, <2>10, <2>11, Zenon
<1> QED
  BY <1>2, <1>6, <1>7

-----------------------------------------------------------------------------
(* Opcodes, by what stands first.                                          *)

LEMMA OpcodeSets ==
  /\ DOMAIN FromRegister = {\h01, \h29, \h31, \h39, \h85, \h89}
  /\ DOMAIN ToRegister = {\h03, \h2b, \h33, \h3b, \h8b, \h8d}
  /\ DOMAIN Conditions = {\h84, \h85, \h8c, \h8d, \h8e, \h8f}
BY DEF FromRegister, ToRegister, Conditions

LEMMA OpcodeNames ==
  /\ FromRegister[\h01] = "add" /\ FromRegister[\h29] = "sub" /\ FromRegister[\h31] = "xor"
  /\ FromRegister[\h39] = "cmp" /\ FromRegister[\h85] = "test" /\ FromRegister[\h89] = "mov"
  /\ ToRegister[\h03] = "add" /\ ToRegister[\h2b] = "sub" /\ ToRegister[\h33] = "xor"
  /\ ToRegister[\h3b] = "cmp" /\ ToRegister[\h8b] = "mov" /\ ToRegister[\h8d] = "lea"
BY DEF FromRegister, ToRegister

\* From a register,
LEMMA FromRegisterOpcodes ==
  ASSUME NEW b, NEW o \in Int, NEW h \in BOOLEAN, NEW w \in {32, 64}, NEW R \in 0..1,
         NEW B \in 0..1, NEW y, NEW next \in Int, Place(b, o + 1, B, Names) = <<y, next>>,
         NEW reg \in Int, Middle(Byte(b, o + 1)) = reg, NEW x, x = Reg(Names[reg + 1 + 8 * R]),
         NEW c \in DOMAIN FromRegister, Byte(b, o) = c
  PROVE  Opcode(b, o, h, w, R, B) = Instruction(FromRegister[c], w, <<x, y>>, next)
<1>1. Place(b, o + 1, B, Names)[1] = y /\ Place(b, o + 1, B, Names)[2] = next
  OBVIOUS
<1>2. Opcode(b, o, h, w, R, B) = Instruction(FromRegister[Byte(b, o)], w,
          <<Reg(Names[Middle(Byte(b, o + 1)) + 1 + 8 * R]), Place(b, o + 1, B, Names)[1]>>,
          Place(b, o + 1, B, Names)[2])
  <2>1. CASE Byte(b, o) = \h01
    BY <2>1, OpcodeSets DEF Opcode
  <2>2. CASE Byte(b, o) = \h29
    BY <2>2, OpcodeSets DEF Opcode
  <2>3. CASE Byte(b, o) = \h31
    BY <2>3, OpcodeSets DEF Opcode
  <2>4. CASE Byte(b, o) = \h39
    BY <2>4, OpcodeSets DEF Opcode
  <2>5. CASE Byte(b, o) = \h85
    BY <2>5, OpcodeSets DEF Opcode
  <2>6. CASE Byte(b, o) = \h89
    BY <2>6, OpcodeSets DEF Opcode
  <2> QED
    BY OpcodeSets, <2>1, <2>2, <2>3, <2>4, <2>5, <2>6
<1> QED
  BY <1>1, <1>2

\* and to one.
LEMMA ToRegisterOpcodes ==
  ASSUME NEW b, NEW o \in Int, NEW h \in BOOLEAN, NEW w \in {32, 64}, NEW R \in 0..1,
         NEW B \in 0..1, NEW y, NEW next \in Int, Place(b, o + 1, B, Names) = <<y, next>>,
         NEW reg \in Int, Middle(Byte(b, o + 1)) = reg, NEW x, x = Reg(Names[reg + 1 + 8 * R]),
         NEW c \in DOMAIN ToRegister, Byte(b, o) = c
  PROVE  Opcode(b, o, h, w, R, B) = Instruction(ToRegister[c], w, <<y, x>>, next)
<1>1. Place(b, o + 1, B, Names)[1] = y /\ Place(b, o + 1, B, Names)[2] = next
  OBVIOUS
<1>2. Opcode(b, o, h, w, R, B) = Instruction(ToRegister[Byte(b, o)], w,
          <<Place(b, o + 1, B, Names)[1], Reg(Names[Middle(Byte(b, o + 1)) + 1 + 8 * R])>>,
          Place(b, o + 1, B, Names)[2])
  <2>1. CASE Byte(b, o) = \h03
    BY <2>1, OpcodeSets DEF Opcode
  <2>2. CASE Byte(b, o) = \h2b
    BY <2>2, OpcodeSets DEF Opcode
  <2>3. CASE Byte(b, o) = \h33
    BY <2>3, OpcodeSets DEF Opcode
  <2>4. CASE Byte(b, o) = \h3b
    BY <2>4, OpcodeSets DEF Opcode
  <2>5. CASE Byte(b, o) = \h8b
    BY <2>5, OpcodeSets DEF Opcode
  <2>6. CASE Byte(b, o) = \h8d
    BY <2>6, OpcodeSets DEF Opcode
  <2> QED
    BY OpcodeSets, <2>1, <2>2, <2>3, <2>4, <2>5, <2>6
<1> QED
  BY <1>1, <1>2

\* A constant and a place,
LEMMA ImmediateOpcode ==
  ASSUME NEW b, NEW o \in Int, NEW h \in BOOLEAN, NEW w \in {32, 64}, NEW R \in 0..1,
         NEW B \in 0..1, NEW y, NEW next \in Int, Place(b, o + 1, B, Names) = <<y, next>>,
         NEW reg \in Int, Middle(Byte(b, o + 1)) = reg, Byte(b, o) = \h81,
         NEW v, Signed(b, next, 4) = v
  PROVE  Opcode(b, o, h, w, R, B) = Instruction(Immediates[reg + 1], w, <<Imm(v), y>>, next + 4)
<1>1. Place(b, o + 1, B, Names)[1] = y /\ Place(b, o + 1, B, Names)[2] = next
  OBVIOUS
<1>2. Opcode(b, o, h, w, R, B) = Instruction(Immediates[Middle(Byte(b, o + 1)) + 1], w,
          <<Imm(Signed(b, Place(b, o + 1, B, Names)[2], 4)), Place(b, o + 1, B, Names)[1]>>,
          Place(b, o + 1, B, Names)[2] + 4)
  BY OpcodeSets DEF Opcode
<1> QED
  BY <1>1, <1>2

LEMMA MovPlaceOpcode ==
  ASSUME NEW b, NEW o \in Int, NEW h \in BOOLEAN, NEW w \in {32, 64}, NEW R \in 0..1,
         NEW B \in 0..1, NEW y, NEW next \in Int, Place(b, o + 1, B, Names) = <<y, next>>,
         Middle(Byte(b, o + 1)) = 0, Byte(b, o) = \hc7,
         NEW v, Signed(b, next, 4) = v
  PROVE  Opcode(b, o, h, w, R, B) = Instruction("mov", w, <<Imm(v), y>>, next + 4)
<1>1. Place(b, o + 1, B, Names)[1] = y /\ Place(b, o + 1, B, Names)[2] = next
  OBVIOUS
<1>2. Opcode(b, o, h, w, R, B) = Instruction("mov", w,
          <<Imm(Signed(b, Place(b, o + 1, B, Names)[2], 4)), Place(b, o + 1, B, Names)[1]>>,
          Place(b, o + 1, B, Names)[2] + 4)
  BY OpcodeSets DEF Opcode
<1> QED
  BY <1>1, <1>2

\* a constant and a register,
LEMMA MovRegisterOpcode ==
  ASSUME NEW b, NEW o \in Int, NEW h \in BOOLEAN, NEW R \in 0..1,
         NEW B \in 0..1,
         NEW k \in 0..7, Byte(b, o) = \hb8 + k,
         NEW v, v = Signed(b, o + 1, 8), NEW x, x = Reg(Names[k + 1 + 8 * B])
  PROVE  Opcode(b, o, h, 64, R, B) = Instruction("mov", 64, <<Imm(v), x>>, o + 9)
<1>1. Opcode(b, o, h, 64, R, B) = Instruction("mov", 64,
          <<Imm(Signed(b, o + 1, 8)), Reg(Names[k + 1 + 8 * B])>>, o + 9)
  <2>1. CASE k = 0
    BY <2>1, OpcodeSets DEF Opcode
  <2>2. CASE k = 1
    BY <2>2, OpcodeSets DEF Opcode
  <2>3. CASE k = 2
    BY <2>3, OpcodeSets DEF Opcode
  <2>4. CASE k = 3
    BY <2>4, OpcodeSets DEF Opcode
  <2>5. CASE k = 4
    BY <2>5, OpcodeSets DEF Opcode
  <2>6. CASE k = 5
    BY <2>6, OpcodeSets DEF Opcode
  <2>7. CASE k = 6
    BY <2>7, OpcodeSets DEF Opcode
  <2>8. CASE k = 7
    BY <2>8, OpcodeSets DEF Opcode
  <2> QED
    BY OpcodeSets, <2>1, <2>2, <2>3, <2>4, <2>5, <2>6, <2>7, <2>8
<1> QED
  BY <1>1

\* a place,
LEMMA UnaryOpcode ==
  ASSUME NEW b, NEW o \in Int, NEW h \in BOOLEAN, NEW w \in {32, 64}, NEW R \in 0..1,
         NEW B \in 0..1, NEW y, NEW next \in Int, Place(b, o + 1, B, Names) = <<y, next>>,
         NEW reg \in Int, Middle(Byte(b, o + 1)) = reg, Byte(b, o) = \hf7
  PROVE  Opcode(b, o, h, w, R, B) = Instruction(Unary[reg + 1], w, <<y>>, next)
<1>1. Place(b, o + 1, B, Names)[1] = y /\ Place(b, o + 1, B, Names)[2] = next
  OBVIOUS
<1>2. Opcode(b, o, h, w, R, B)
     = Instruction(Unary[Middle(Byte(b, o + 1)) + 1], w,
       <<Place(b, o + 1, B, Names)[1]>>, Place(b, o + 1, B, Names)[2])
  BY OpcodeSets DEF Opcode
<1> QED
  BY <1>1, <1>2

LEMMA CountingOpcode ==
  ASSUME NEW b, NEW o \in Int, NEW h \in BOOLEAN, NEW w \in {32, 64}, NEW R \in 0..1,
         NEW B \in 0..1, NEW y, NEW next \in Int, Place(b, o + 1, B, Names) = <<y, next>>,
         NEW reg \in Int, Middle(Byte(b, o + 1)) = reg, reg # 6, Byte(b, o) = \hff
  PROVE  Opcode(b, o, h, w, R, B) = Instruction(Counting[reg + 1], w, <<y>>, next)
<1>1. Place(b, o + 1, B, Names)[1] = y /\ Place(b, o + 1, B, Names)[2] = next
  OBVIOUS
<1>2. Opcode(b, o, h, w, R, B)
     = Instruction(Counting[Middle(Byte(b, o + 1)) + 1], w,
       <<Place(b, o + 1, B, Names)[1]>>, Place(b, o + 1, B, Names)[2])
  BY OpcodeSets DEF Opcode
<1> QED
  BY <1>1, <1>2

LEMMA PushPlaceOpcode ==
  ASSUME NEW b, NEW o \in Int, NEW h \in BOOLEAN, NEW w \in {32, 64}, NEW R \in 0..1,
         NEW B \in 0..1, NEW y, NEW next \in Int, Place(b, o + 1, B, Names) = <<y, next>>,
         Middle(Byte(b, o + 1)) = 6, Byte(b, o) = \hff
  PROVE  Opcode(b, o, h, w, R, B) = Instruction("push", 64, <<y>>, next)
<1>1. Place(b, o + 1, B, Names)[1] = y /\ Place(b, o + 1, B, Names)[2] = next
  OBVIOUS
<1>2. Opcode(b, o, h, w, R, B)
     = Instruction(Counting[7], 64,
       <<Place(b, o + 1, B, Names)[1]>>, Place(b, o + 1, B, Names)[2])
  BY OpcodeSets DEF Opcode
<1> QED
  BY <1>1, <1>2 DEF Counting

LEMMA PopPlaceOpcode ==
  ASSUME NEW b, NEW o \in Int, NEW h \in BOOLEAN, NEW w \in {32, 64}, NEW R \in 0..1,
         NEW B \in 0..1, NEW y, NEW next \in Int, Place(b, o + 1, B, Names) = <<y, next>>,
         Middle(Byte(b, o + 1)) = 0, Byte(b, o) = \h8f
  PROVE  Opcode(b, o, h, w, R, B) = Instruction("pop", 64, <<y>>, next)
<1>1. Place(b, o + 1, B, Names)[1] = y /\ Place(b, o + 1, B, Names)[2] = next
  OBVIOUS
<1>2. Opcode(b, o, h, w, R, B)
     = Instruction("pop", 64, <<Place(b, o + 1, B, Names)[1]>>, Place(b, o + 1, B, Names)[2])
  BY OpcodeSets DEF Opcode
<1> QED
  BY <1>1, <1>2

\* a register in the opcode,
LEMMA PushOpcode ==
  ASSUME NEW b, NEW o \in Int, NEW h \in BOOLEAN, NEW w \in {32, 64}, NEW R \in 0..1,
         NEW B \in 0..1,
         NEW k \in 0..7, Byte(b, o) = \h50 + k
  PROVE  Opcode(b, o, h, w, R, B) = Instruction("push", 64, <<Reg(Names[k + 1 + 8 * B])>>, o + 1)
<1>1. Opcode(b, o, h, w, R, B) = Instruction("push", 64, <<Reg(Names[k + 1 + 8 * B])>>, o + 1)
  <2>1. CASE k = 0
    BY <2>1, OpcodeSets DEF Opcode
  <2>2. CASE k = 1
    BY <2>2, OpcodeSets DEF Opcode
  <2>3. CASE k = 2
    BY <2>3, OpcodeSets DEF Opcode
  <2>4. CASE k = 3
    BY <2>4, OpcodeSets DEF Opcode
  <2>5. CASE k = 4
    BY <2>5, OpcodeSets DEF Opcode
  <2>6. CASE k = 5
    BY <2>6, OpcodeSets DEF Opcode
  <2>7. CASE k = 6
    BY <2>7, OpcodeSets DEF Opcode
  <2>8. CASE k = 7
    BY <2>8, OpcodeSets DEF Opcode
  <2> QED
    BY OpcodeSets, <2>1, <2>2, <2>3, <2>4, <2>5, <2>6, <2>7, <2>8
<1> QED
  BY <1>1

LEMMA PopOpcode ==
  ASSUME NEW b, NEW o \in Int, NEW h \in BOOLEAN, NEW w \in {32, 64}, NEW R \in 0..1,
         NEW B \in 0..1,
         NEW k \in 0..7, Byte(b, o) = \h58 + k
  PROVE  Opcode(b, o, h, w, R, B) = Instruction("pop", 64, <<Reg(Names[k + 1 + 8 * B])>>, o + 1)
<1>1. Opcode(b, o, h, w, R, B) = Instruction("pop", 64, <<Reg(Names[k + 1 + 8 * B])>>, o + 1)
  <2>1. CASE k = 0
    BY <2>1, OpcodeSets DEF Opcode
  <2>2. CASE k = 1
    BY <2>2, OpcodeSets DEF Opcode
  <2>3. CASE k = 2
    BY <2>3, OpcodeSets DEF Opcode
  <2>4. CASE k = 3
    BY <2>4, OpcodeSets DEF Opcode
  <2>5. CASE k = 4
    BY <2>5, OpcodeSets DEF Opcode
  <2>6. CASE k = 5
    BY <2>6, OpcodeSets DEF Opcode
  <2>7. CASE k = 6
    BY <2>7, OpcodeSets DEF Opcode
  <2>8. CASE k = 7
    BY <2>8, OpcodeSets DEF Opcode
  <2> QED
    BY OpcodeSets, <2>1, <2>2, <2>3, <2>4, <2>5, <2>6, <2>7, <2>8
<1> QED
  BY <1>1

\* a constant,
LEMMA PushConstantOpcode ==
  ASSUME NEW b, NEW o \in Int, NEW h \in BOOLEAN, NEW w \in {32, 64}, NEW R \in 0..1,
         NEW B \in 0..1,
         Byte(b, o) = \h68
  PROVE  Opcode(b, o, h, w, R, B) = Instruction("push", 64, <<Imm(Signed(b, o + 1, 4))>>, o + 5)
BY OpcodeSets DEF Opcode

\* nothing,
LEMMA CqtoOpcode ==
  ASSUME NEW b, NEW o \in Int, NEW h \in BOOLEAN, NEW w \in {32, 64}, NEW R \in 0..1,
         NEW B \in 0..1,
         Byte(b, o) = \h99, w = 64
  PROVE  Opcode(b, o, h, w, R, B) = Instruction("cqto", 64, <<>>, o + 1)
BY OpcodeSets DEF Opcode

LEMMA RetOpcode ==
  ASSUME NEW b, NEW o \in Int, NEW h \in BOOLEAN, NEW w \in {32, 64}, NEW R \in 0..1,
         NEW B \in 0..1,
         Byte(b, o) = \hc3
  PROVE  Opcode(b, o, h, w, R, B) = Instruction("ret", 64, <<>>, o + 1)
BY OpcodeSets DEF Opcode

LEMMA SyscallOpcode ==
  ASSUME NEW b, NEW o \in Int, NEW h \in BOOLEAN, NEW w \in {32, 64}, NEW R \in 0..1,
         NEW B \in 0..1,
         Byte(b, o) = \h0f, Byte(b, o + 1) = \h05
  PROVE  Opcode(b, o, h, w, R, B) = Instruction("syscall", 64, <<>>, o + 2)
BY OpcodeSets DEF Opcode

\* a place in the code,
LEMMA CallOpcode ==
  ASSUME NEW b, NEW o \in Int, NEW h \in BOOLEAN, NEW w \in {32, 64}, NEW R \in 0..1,
         NEW B \in 0..1,
         Byte(b, o) = \he8
  PROVE  Opcode(b, o, h, w, R, B) = Instruction("call", 64,
           <<To(o + 1 + 4 + Signed(b, o + 1, 4))>>, o + 1 + 4)
BY OpcodeSets DEF Opcode

LEMMA JmpOpcode ==
  ASSUME NEW b, NEW o \in Int, NEW h \in BOOLEAN, NEW w \in {32, 64}, NEW R \in 0..1,
         NEW B \in 0..1,
         Byte(b, o) = \he9
  PROVE  Opcode(b, o, h, w, R, B) = Instruction("jmp", 64,
           <<To(o + 1 + 4 + Signed(b, o + 1, 4))>>, o + 1 + 4)
BY OpcodeSets DEF Opcode

LEMMA ConditionOpcode ==
  ASSUME NEW b, NEW o \in Int, NEW h \in BOOLEAN, NEW w \in {32, 64}, NEW R \in 0..1,
         NEW B \in 0..1,
         Byte(b, o) = \h0f, Byte(b, o + 1) \in DOMAIN Conditions
  PROVE  Opcode(b, o, h, w, R, B) = Instruction(Conditions[Byte(b, o + 1)], 64,
           <<To(o + 2 + 4 + Signed(b, o + 2, 4))>>, o + 2 + 4)
BY OpcodeSets DEF Opcode

\* and bytes.
LEMMA AddbOpcode ==
  ASSUME NEW b, NEW o \in Int, NEW h \in BOOLEAN, NEW w \in {32, 64}, NEW R \in 0..1,
         NEW B \in 0..1,
         Byte(b, o) = \h04
  PROVE  Opcode(b, o, h, w, R, B)
           = Instruction("addb", 8, <<Imm(Signed(b, o + 1, 1)), Reg("al")>>, o + 2)
BY OpcodeSets DEF Opcode

LEMMA MovzxbOpcode ==
  ASSUME NEW b, NEW o \in Int, NEW h \in BOOLEAN, NEW w \in {32, 64}, NEW R \in 0..1,
         NEW B \in 0..1,
         Byte(b, o) = \h0f, Byte(b, o + 1) = \hb6, NEW y, NEW next,
         NEW reg \in Int, Place(b, o + 2, B, ByteNames) = <<y, next>>, Middle(Byte(b, o + 2)) = reg
  PROVE  Opcode(b, o, h, w, R, B) = Instruction("movzxb", w,
           <<y, Reg(Names[reg + 1 + 8 * R])>>, next)
<1>1. Opcode(b, o, h, w, R, B) = Instruction("movzxb", w,
          <<Place(b, o + 2, B, ByteNames)[1], Reg(Names[Middle(Byte(b, o + 2)) + 1 + 8 * R])>>,
          Place(b, o + 2, B, ByteNames)[2])
  BY OpcodeSets DEF Opcode
<1> QED
  BY <1>1

LEMMA CmpbOpcode ==
  ASSUME NEW b, NEW o \in Int, NEW h \in BOOLEAN, NEW w \in {32, 64}, NEW R \in 0..1,
         NEW B \in 0..1, NEW y, NEW next \in Int, Place(b, o + 1, B, Names) = <<y, next>>,
         NEW z, Place(b, o + 1, B, ByteNames) = <<z, next>>,
         Middle(Byte(b, o + 1)) = 7, Byte(b, o) = \h80, NEW v, Signed(b, next, 1) = v
  PROVE  Opcode(b, o, h, w, R, B) = Instruction("cmpb", 8, <<Imm(v), z>>, next + 1)
<1>1. Place(b, o + 1, B, Names)[1] = y /\ Place(b, o + 1, B, Names)[2] = next
  OBVIOUS
<1>2. Opcode(b, o, h, w, R, B) = Instruction("cmpb", 8,
          <<Imm(Signed(b, Place(b, o + 1, B, Names)[2], 1)), Place(b, o + 1, B, ByteNames)[1]>>,
          Place(b, o + 1, B, Names)[2] + 1)
  BY OpcodeSets DEF Opcode
<1> QED
  BY <1>1, <1>2

LEMMA MovbConstantOpcode ==
  ASSUME NEW b, NEW o \in Int, NEW h \in BOOLEAN, NEW w \in {32, 64}, NEW R \in 0..1,
         NEW B \in 0..1, NEW y, NEW next \in Int, Place(b, o + 1, B, Names) = <<y, next>>,
         NEW z, Place(b, o + 1, B, ByteNames) = <<z, next>>,
         Middle(Byte(b, o + 1)) = 0, Byte(b, o) = \hc6, NEW v, Signed(b, next, 1) = v
  PROVE  Opcode(b, o, h, w, R, B) = Instruction("movb", 8, <<Imm(v), z>>, next + 1)
<1>1. Place(b, o + 1, B, Names)[1] = y /\ Place(b, o + 1, B, Names)[2] = next
  OBVIOUS
<1>2. Opcode(b, o, h, w, R, B) = Instruction("movb", 8,
          <<Imm(Signed(b, Place(b, o + 1, B, Names)[2], 1)), Place(b, o + 1, B, ByteNames)[1]>>,
          Place(b, o + 1, B, Names)[2] + 1)
  BY OpcodeSets DEF Opcode
<1> QED
  BY <1>1, <1>2

LEMMA MovbOpcode ==
  ASSUME NEW b, NEW o \in Int, NEW h \in BOOLEAN, NEW w \in {32, 64}, NEW R \in 0..1,
         NEW B \in 0..1, NEW y, NEW next \in Int, Place(b, o + 1, B, Names) = <<y, next>>,
         NEW z, Place(b, o + 1, B, ByteNames) = <<z, next>>,
         Middle(Byte(b, o + 1)) = 0, Byte(b, o) = \h88, ~h
  PROVE  Opcode(b, o, h, w, R, B) = Instruction("movb", 8, <<Reg("al"), z>>, next)
<1>1. Place(b, o + 1, B, Names)[1] = y /\ Place(b, o + 1, B, Names)[2] = next
  OBVIOUS
<1>2. Opcode(b, o, h, w, R, B) = Instruction("movb", 8,
          <<Reg(ByteNames[1]), Place(b, o + 1, B, ByteNames)[1]>>, Place(b, o + 1, B, Names)[2])
  BY OpcodeSets DEF Opcode
<1> QED
  BY <1>1, <1>2 DEF ByteNames

-----------------------------------------------------------------------------
(* What the create_* methods write is read as the instruction it was       *)
(* written for.                                                            *)

\* At place at the processor finds this instruction, and the next one behind all its
\* bytes.
Found(b, at, ii, name, width, operands) ==
  Decode(b, at) = Instruction(name, width, operands, at + Size(ii)) /\ Size(ii) <= 16

LEMMA RestNat ==
  ASSUME NEW ii, Sound(ii)
  PROVE  RestSize(ii) \in Nat
<1> DEFINE m == Len(ii.modrm)
           s == Len(ii.sib)
<1>1. m \in Nat /\ s \in Nat /\ ii.disp_size \in Nat /\ ii.imm_size \in Nat
  BY LenProperties DEF Sound, IsCode
<1>2. RestSize(ii) = m + s + ii.disp_size + ii.imm_size
  BY DEF RestSize
<1> HIDE DEF m, s
<1> QED
  BY <1>1, <1>2

\* The bytes at place at are read by their opcode c, wherever it is.
ReadByOpcode(b, at, ii, c) ==
  \E o \in Int :
    /\ \E h \in BOOLEAN :
         /\ Decode(b, at) = Opcode(b, o, h, Wide(ii.rex), Bit("R", ii.rex), Bit("B", ii.rex))
         /\ ii.rex = {} => ~h
    /\ Byte(b, o) = c
    /\ Len(ii.opcode) = 2 => Byte(b, o + 1) = ii.opcode[2]
    /\ HoldsRest(b, o + Len(ii.opcode), ii)
    /\ at + Size(ii) = o + Len(ii.opcode) + RestSize(ii)
    /\ Size(ii) <= 3 + RestSize(ii)

\* The first byte of the opcode, behind REX.
LEMMA OpcodeDecoded ==
  ASSUME NEW b, NEW at \in Int, NEW ii, Sound(ii), Holds(b, at, Bytecode(ii)),
         ii.rex \in SUBSET Bits, NEW c \in Codes, Len(ii.opcode) \in 1..2, ii.opcode[1] = c
  PROVE  ReadByOpcode(b, at, ii, c)
<1> DEFINE o == at + Len(REX(ii.rex))
<1>1. /\ Holds(b, at, REX(ii.rex)) /\ Holds(b, o, ii.opcode)
      /\ HoldsRest(b, o + Len(ii.opcode), ii)
      /\ Size(ii) = Len(REX(ii.rex)) + Len(ii.opcode) + RestSize(ii)
  BY HoldsParts
<1>2. Len(REX(ii.rex)) \in Nat
  BY RexLen
<1>3. RestSize(ii) \in Nat
  BY RestNat
<1>4. o \in Int /\ o = at + Len(REX(ii.rex))
  BY <1>2
<1> HIDE DEF o
<1>5. Byte(b, o) = c /\ (Len(ii.opcode) = 2 => Byte(b, o + 1) = ii.opcode[2])
  <2>1. Byte(b, o + 1 - 1) = ii.opcode[1]
    BY <1>1 DEF Holds
  <2>2. Len(ii.opcode) = 2 => Byte(b, o + 2 - 1) = ii.opcode[2]
    BY <1>1 DEF Holds
  <2>3. o + 1 - 1 = o /\ o + 2 - 1 = o + 1
    BY <1>4
  <2> QED
    BY <2>1, <2>2, <2>3
<1>6. /\ \E h \in BOOLEAN :
           /\ Decode(b, at) = Opcode(b, o, h, Wide(ii.rex), Bit("R", ii.rex), Bit("B", ii.rex))
           /\ ii.rex = {} => ~h
      /\ o = IF ii.rex = {} THEN at ELSE at + 1
  BY <1>1, <1>4, <1>5, PrefixDecoded
<1>7. at + Size(ii) = o + Len(ii.opcode) + RestSize(ii) /\ Size(ii) <= 3 + RestSize(ii)
  <2>1. Len(REX(ii.rex)) \in 0..1
    BY <1>4, <1>6, <1>2
  <2> DEFINE r == Len(REX(ii.rex))
             l == Len(ii.opcode)
  <2>2. o = at + r /\ r \in 0..1 /\ l \in 1..2 /\ Size(ii) = r + l + RestSize(ii)
    BY <1>1, <1>4, <2>1
  <2> HIDE DEF r, l
  <2>3. at + Size(ii) = o + l + RestSize(ii) /\ Size(ii) <= 3 + RestSize(ii)
    BY <1>3, <2>2
  <2> QED
    BY <2>3 DEF l
<1> QED
  BY <1>1, <1>4, <1>5, <1>6, <1>7 DEF ReadByOpcode

LEMMA BitRange == \A bits : \A k \in Bits : Bit(k, bits) \in 0..1 /\ Wide(bits) \in {32, 64}
BY DEF Bit, Wide

\* The same, when the place x beside the number reg is behind the opcode.
ReadByPlace(b, at, ii, c, reg, x) ==
  \E o, next \in Int :
    /\ \E h \in BOOLEAN :
         /\ Decode(b, at) = Opcode(b, o, h, Wide(ii.rex), Bit("R", ii.rex), Bit("B", ii.rex))
         /\ ii.rex = {} => ~h
    /\ Byte(b, o) = c /\ Middle(Byte(b, o + 1)) = reg
    /\ Place(b, o + 1, Bit("B", ii.rex), Names) = <<x, next>>
    /\ Holds(b, next, Little(ii.immediate, ii.imm_size))
    /\ at + Size(ii) = next + ii.imm_size
    /\ Size(ii) <= 9 + ii.imm_size

LEMMA PlaceForm ==
  ASSUME NEW b, NEW at \in Int, NEW ii, Sound(ii), Holds(b, at, Bytecode(ii)),
         ii.rex \in SUBSET Bits, NEW c \in Codes, ii.opcode = <<c>>,
         NEW reg \in 0..7, NEW x, IsPlace(x), Addressed(ii, reg, x),
         Bit("B", ii.rex) = Bit("B", setREXB(x))
  PROVE  ReadByPlace(b, at, ii, c, reg, x)
<1>1. Len(ii.opcode) = 1 /\ ii.opcode[1] = c /\ ii.imm_size \in Nat
  BY DEF Sound
<1>2. PICK o \in Int :
        /\ \E h \in BOOLEAN :
             /\ Decode(b, at) = Opcode(b, o, h, Wide(ii.rex), Bit("R", ii.rex), Bit("B", ii.rex))
             /\ ii.rex = {} => ~h
        /\ Byte(b, o) = c
        /\ HoldsRest(b, o + Len(ii.opcode), ii)
        /\ at + Size(ii) = o + Len(ii.opcode) + RestSize(ii)
        /\ Size(ii) <= 3 + RestSize(ii)
  <2>1. Len(ii.opcode) \in 1..2
    BY <1>1
  <2>2. ReadByOpcode(b, at, ii, c)
    BY <1>1, <2>1, OpcodeDecoded
  <2> QED
    BY <2>2, Zenon DEF ReadByOpcode
<1>5. HoldsRest(b, o + 1, ii) /\ at + Size(ii) = o + 1 + RestSize(ii)
  BY <1>1, <1>2
<1>3. PICK next \in Int :
           /\ Place(b, o + 1, Bit("B", setREXB(x)), Names) = <<x, next>>
           /\ Middle(Byte(b, o + 1)) = reg
           /\ Holds(b, next, Little(ii.immediate, ii.imm_size))
           /\ o + 1 + RestSize(ii) = next + ii.imm_size
           /\ RestSize(ii) <= 6 + ii.imm_size
  BY <1>1, <1>2, <1>5, PlaceDecoded
<1>4. Size(ii) <= 9 + ii.imm_size /\ at + Size(ii) = next + ii.imm_size
  <2>1. Size(ii) \in Nat
    BY BytecodeLen
  <2>2. RestSize(ii) \in Nat
    BY RestNat
  <2> QED
    BY <1>1, <1>2, <1>3, <1>5, <2>1, <2>2
<1> QED
  BY <1>2, <1>3, <1>4 DEF ReadByPlace

\* The parts WithPlace and InRegister write.
PlaceParts(ii, rex, c, reg, x) ==
  /\ DOMAIN ii = Fields /\ ii.rex = rex \union setREXB(x) /\ ii.opcode = <<c>>
  /\ Addressed(ii, reg, x) /\ ii.imm_size = 0

LEMMA PlaceFields ==
  ASSUME NEW rex, NEW c, NEW reg, NEW x, IsPlace(x), NEW s
  PROVE  PlaceParts(WithPlace(rex, c, reg, x, s), rex, c, reg, x)
<1>1. CASE x[1] = "reg"
  BY <1>1 DEF WithPlace, get_optype, Blank, Fields, Addressed, PlaceParts
<1>2. CASE x[1] = "mem"
  BY <1>2 DEF WithPlace, get_optype, Blank, Fields, Addressed, PlaceParts
<1> QED
  BY <1>1, <1>2 DEF IsPlace, IsRegister, IsMemory, Reg

LEMMA RegisterFields ==
  ASSUME NEW rex, NEW c, NEW reg, NEW x, IsRegister(x)
  PROVE  PlaceParts(InRegister(rex, c, reg, x), rex, c, reg, x)
<1>1. x[1] = "reg"
  BY DEF IsRegister, Reg
<1> QED
  BY <1>1 DEF InRegister, Blank, Fields, Addressed, PlaceParts

LEMMA ImmediateFields ==
  ASSUME NEW jj, NEW rex, NEW c, NEW reg, NEW x, PlaceParts(jj, rex, c, reg, x), NEW v, NEW n,
         NEW ii, ii = WithImmediate(jj, v, n)
  PROVE  /\ ii.rex = rex \union setREXB(x) /\ ii.opcode = <<c>> /\ Addressed(ii, reg, x)
         /\ ii.immediate = v /\ ii.imm_size = n
<1>1. /\ ii.rex = jj.rex /\ ii.opcode = jj.opcode /\ ii.modrm = jj.modrm /\ ii.sib = jj.sib
      /\ ii.displacement = jj.displacement /\ ii.disp_size = jj.disp_size
      /\ ii.immediate = v /\ ii.imm_size = n
  BY DEF WithImmediate, Fields, PlaceParts
<1>2. Addressed(ii, reg, x)
  BY <1>1 DEF Addressed, PlaceParts
<1> QED
  BY <1>1, <1>2 DEF PlaceParts

\* The bits of REX for a register beside a place and for the place.
LEMMA RegisterBits ==
  ASSUME NEW x, IsRegister(x), NEW y, IsPlace(y)
  PROVE  /\ \A bits \in SUBSET {"W"} :
              /\ bits \union setREXB(y) \in SUBSET Bits
              /\ Bit("B", bits \union setREXB(y)) = Bit("B", setREXB(y))
         /\ {"W"} \union setREXR(x) \union setREXB(y) \in SUBSET Bits
         /\ Bit("B", {"W"} \union setREXR(x) \union setREXB(y)) = Bit("B", setREXB(y))
         /\ registers[x[2]] \in 0..7
         /\ Reg(Names[registers[x[2]] + 1 + 8 * Bit("R", {"W"} \union setREXR(x) \union setREXB(y))])
               = x
         /\ Wide({"W"} \union setREXR(x) \union setREXB(y)) = 64
<1>1. PICK n \in 1..16 : x = Reg(Names[n])
  BY DEF IsRegister
<1>2. x[2] = Names[n] /\ registers[Names[n]] \in 0..7
  BY <1>1, RegisterNumber DEF Reg
<1>3. Bit("R", {"W"} \union setREXR(x) \union setREXB(y)) = Above(n)
  BY <1>2, RegisterNumber DEF Bit, setREXR, setREXB, Above
<1>4. n = registers[Names[n]] + 1 + 8 * Above(n)
  BY RegisterNumber DEF Above
<1>5. registers[x[2]] + 1 + 8 * Bit("R", {"W"} \union setREXR(x) \union setREXB(y)) = n
  BY <1>2, <1>3, <1>4
<1> QED
  BY <1>1, <1>2, <1>5 DEF Bits, Bit, Wide, setREXR, setREXB

\* A register and a place, in either order.
LEMMA RegisterAndPlace ==
  ASSUME NEW b, NEW at \in Int, NEW x, IsRegister(x), NEW y, IsPlace(y), NEW c, NEW ii,
         PlaceParts(ii, {"W"} \union setREXR(x), c, registers[x[2]], y),
         Sound(ii), Holds(b, at, Bytecode(ii))
  PROVE  /\ c \in DOMAIN FromRegister => Found(b, at, ii, FromRegister[c], 64, <<x, y>>)
         /\ c \in DOMAIN ToRegister => Found(b, at, ii, ToRegister[c], 64, <<y, x>>)
<1> SUFFICES ASSUME c \in DOMAIN FromRegister \/ c \in DOMAIN ToRegister
             PROVE  /\ c \in DOMAIN FromRegister => Found(b, at, ii, FromRegister[c], 64, <<x, y>>)
                    /\ c \in DOMAIN ToRegister => Found(b, at, ii, ToRegister[c], 64, <<y, x>>)
  OBVIOUS
<1>1. c \in Codes
  BY OpcodeSets DEF Codes
<1> DEFINE rex == {"W"} \union setREXR(x) \union setREXB(y)
           reg == registers[x[2]]
           R == Bit("R", rex)
           B == Bit("B", rex)
           w == Wide(rex)
<1>2. /\ rex \in SUBSET Bits /\ B = Bit("B", setREXB(y)) /\ reg \in 0..7
      /\ Reg(Names[reg + 1 + 8 * R]) = x /\ Wide(rex) = 64
  BY RegisterBits
<1>3. /\ ii.rex = rex /\ ii.opcode = <<c>> /\ Addressed(ii, reg, y) /\ ii.imm_size = 0
  BY DEF PlaceParts
<1>4. R \in 0..1 /\ B \in 0..1
  BY BitRange DEF Bits
<1> HIDE DEF rex, reg
<1>5. ReadByPlace(b, at, ii, c, reg, y)
  BY <1>1, <1>2, <1>3, PlaceForm
<1>12. Wide(ii.rex) = w /\ Bit("R", ii.rex) = R /\ Bit("B", ii.rex) = B /\ ii.imm_size = 0
  BY <1>3
<1>13. w = 64
  BY <1>2
<1> HIDE DEF R, B, w
<1>6. PICK o, next \in Int :
        /\ \E h \in BOOLEAN : Decode(b, at) = Opcode(b, o, h, w, R, B)
        /\ Byte(b, o) = c /\ Middle(Byte(b, o + 1)) = reg
        /\ Place(b, o + 1, B, Names) = <<y, next>>
        /\ Holds(b, next, Little(ii.immediate, 0))
        /\ at + Size(ii) = next + 0
        /\ Size(ii) <= 9 + 0
  BY <1>5, <1>12, Zenon DEF ReadByPlace
<1>7. PICK h \in BOOLEAN : Decode(b, at) = Opcode(b, o, h, 64, R, B)
  BY <1>6, <1>13
<1>8. at + Size(ii) = next /\ Size(ii) <= 16
  <2>1. Size(ii) \in Nat
    BY BytecodeLen
  <2> QED
    BY <1>6, <2>1
<1>9. reg \in Int /\ 64 \in {32, 64} /\ x = Reg(Names[reg + 1 + 8 * R])
  BY <1>2
<1>10. ASSUME c \in DOMAIN FromRegister
       PROVE  Found(b, at, ii, FromRegister[c], 64, <<x, y>>)
  <2>1. Opcode(b, o, h, 64, R, B) = Instruction(FromRegister[c], 64, <<x, y>>, next)
    BY <1>4, <1>6, <1>9, <1>10, FromRegisterOpcodes
  <2> QED
    BY <1>7, <1>8, <2>1 DEF Found
<1>11. ASSUME c \in DOMAIN ToRegister
       PROVE  Found(b, at, ii, ToRegister[c], 64, <<y, x>>)
  <2>1. Opcode(b, o, h, 64, R, B) = Instruction(ToRegister[c], 64, <<y, x>>, next)
    BY <1>4, <1>6, <1>9, <1>11, ToRegisterOpcodes
  <2> QED
    BY <1>7, <1>8, <2>1 DEF Found
<1> QED
  BY <1>10, <1>11

-----------------------------------------------------------------------------
(* One place, alone or beside a constant.                                  *)

\* The same as ReadByPlace, with the width; the bits R and B are some bits.
OnePlace(b, at, ii, w, c, reg, x, v, n) ==
  \E o, next \in Int : \E h \in BOOLEAN : \E R, B \in 0..1 :
    /\ Decode(b, at) = Opcode(b, o, h, w, R, B)
    /\ Byte(b, o) = c /\ Middle(Byte(b, o + 1)) = reg
    /\ Place(b, o + 1, B, Names) = <<x, next>>
    /\ Holds(b, next, Little(v, n))
    /\ at + Size(ii) = next + n
    /\ Size(ii) <= 9 + n

LEMMA OnePlaceForm ==
  ASSUME NEW b, NEW at \in Int, NEW ii, Sound(ii), Holds(b, at, Bytecode(ii)),
         NEW bits \in SUBSET {"W"}, NEW x, IsPlace(x), ii.rex = bits \union setREXB(x),
         NEW c \in Codes, ii.opcode = <<c>>, NEW reg \in 0..7, Addressed(ii, reg, x),
         NEW w, w = Wide(bits), NEW v, v = ii.immediate, NEW n, n = ii.imm_size
  PROVE  OnePlace(b, at, ii, w, c, reg, x, v, n)
<1> DEFINE rex == bits \union setREXB(x)
           R == Bit("R", rex)
           B == Bit("B", rex)
<1>1. rex \in SUBSET Bits /\ B = Bit("B", setREXB(x))
  <2>1. setREXB(x) \in SUBSET {"B"}
    BY DEF setREXB
  <2>2. "B" # "W" /\ {"W"} \subseteq Bits /\ {"B"} \subseteq Bits
    BY DEF Bits
  <2> QED
    BY <2>1, <2>2 DEF Bit
<1>2. Wide(rex) = w
  BY DEF Wide, setREXB
<1>3. ii.rex = rex /\ R \in 0..1 /\ B \in 0..1
  BY BitRange DEF Bits
<1> HIDE DEF rex
<1>4. ReadByPlace(b, at, ii, c, reg, x)
  BY <1>1, <1>3, PlaceForm
<1> HIDE DEF R, B
<1>5. PICK o \in Int, next \in Int :
        /\ \E h \in BOOLEAN : Decode(b, at) = Opcode(b, o, h, w, R, B)
        /\ Byte(b, o) = c /\ Middle(Byte(b, o + 1)) = reg
        /\ Place(b, o + 1, B, Names) = <<x, next>>
        /\ Holds(b, next, Little(v, n))
        /\ at + Size(ii) = next + n
        /\ Size(ii) <= 9 + n
  BY <1>2, <1>3, <1>4, Zenon DEF ReadByPlace, R, B
<1>6. PICK h \in BOOLEAN : Decode(b, at) = Opcode(b, o, h, w, R, B)
  BY <1>5
<1> QED
  BY <1>3, <1>5, <1>6, Zenon DEF OnePlace

\* A place alone.
LEMMA PlaceAlone ==
  ASSUME NEW b, NEW at \in Int, NEW bits \in SUBSET {"W"}, NEW c \in {\hf7, \hff, \h8f},
         NEW reg \in 0..7, NEW x, IsPlace(x), NEW ii, PlaceParts(ii, bits, c, reg, x),
         Sound(ii), Holds(b, at, Bytecode(ii))
  PROVE  /\ c = \hf7 => Found(b, at, ii, Unary[reg + 1], Wide(bits), <<x>>)
         /\ c = \hff /\ reg # 6 => Found(b, at, ii, Counting[reg + 1], Wide(bits), <<x>>)
         /\ c = \hff /\ reg = 6 => Found(b, at, ii, "push", 64, <<x>>)
         /\ c = \h8f /\ reg = 0 => Found(b, at, ii, "pop", 64, <<x>>)
<1> DEFINE w == Wide(bits)
<1>1. c \in Codes /\ w \in {32, 64}
  BY DEF Codes, Wide
<1>2. /\ ii.rex = bits \union setREXB(x) /\ ii.opcode = <<c>> /\ Addressed(ii, reg, x)
      /\ ii.imm_size = 0
  BY DEF PlaceParts
<1>3. OnePlace(b, at, ii, w, c, reg, x, ii.immediate, 0)
  BY <1>1, <1>2, OnePlaceForm
<1> HIDE DEF w
<1>4. PICK o \in Int, next \in Int, h \in BOOLEAN, R \in 0..1, B \in 0..1 :
        /\ Decode(b, at) = Opcode(b, o, h, w, R, B)
        /\ Byte(b, o) = c /\ Middle(Byte(b, o + 1)) = reg
        /\ Place(b, o + 1, B, Names) = <<x, next>>
        /\ Holds(b, next, Little(ii.immediate, 0))
        /\ at + Size(ii) = next + 0
        /\ Size(ii) <= 9 + 0
  BY <1>3, Zenon DEF OnePlace
<1>5. at + Size(ii) = next /\ Size(ii) <= 16
  <2>1. Size(ii) \in Nat
    BY BytecodeLen
  <2>2. at + Size(ii) = next + 0 /\ Size(ii) <= 9 + 0
    BY <1>4, Zenon
  <2> QED
    BY <2>1, <2>2
<1>6. reg \in Int
  OBVIOUS
<1>7. ASSUME c = \hf7 PROVE Found(b, at, ii, Unary[reg + 1], w, <<x>>)
  <2>1. Opcode(b, o, h, w, R, B) = Instruction(Unary[reg + 1], w, <<x>>, next)
    BY <1>1, <1>4, <1>6, <1>7, UnaryOpcode
  <2> QED
    BY <1>4, <1>5, <2>1 DEF Found
<1>8. ASSUME c = \hff, reg # 6 PROVE Found(b, at, ii, Counting[reg + 1], w, <<x>>)
  <2>1. Opcode(b, o, h, w, R, B) = Instruction(Counting[reg + 1], w, <<x>>, next)
    BY <1>1, <1>4, <1>6, <1>8, CountingOpcode
  <2> QED
    BY <1>4, <1>5, <2>1 DEF Found
<1>9. ASSUME c = \hff, reg = 6 PROVE Found(b, at, ii, "push", 64, <<x>>)
  <2>1. Opcode(b, o, h, w, R, B) = Instruction("push", 64, <<x>>, next)
    BY <1>1, <1>4, <1>6, <1>9, PushPlaceOpcode
  <2> QED
    BY <1>4, <1>5, <2>1 DEF Found
<1>10. ASSUME c = \h8f, reg = 0 PROVE Found(b, at, ii, "pop", 64, <<x>>)
  <2>1. Opcode(b, o, h, w, R, B) = Instruction("pop", 64, <<x>>, next)
    BY <1>1, <1>4, <1>6, <1>10, PopPlaceOpcode
  <2> QED
    BY <1>4, <1>5, <2>1 DEF Found
<1> QED
  BY <1>7, <1>8, <1>9, <1>10 DEF w

\* A constant and a place.
LEMMA ImmediateAndPlace ==
  ASSUME NEW b, NEW at \in Int, NEW bits \in SUBSET {"W"}, NEW c \in {\h81, \hc7},
         NEW reg \in 0..7, NEW x, IsPlace(x), NEW jj, PlaceParts(jj, bits, c, reg, x),
         NEW v, IsWord32(v), NEW ii, ii = WithImmediate(jj, v, 4),
         Sound(ii), Holds(b, at, Bytecode(ii))
  PROVE  /\ c = \h81 => Found(b, at, ii, Immediates[reg + 1], Wide(bits), <<Imm(v), x>>)
         /\ c = \hc7 /\ reg = 0 => Found(b, at, ii, "mov", Wide(bits), <<Imm(v), x>>)
<1> DEFINE w == Wide(bits)
<1>1. c \in Codes /\ w \in {32, 64}
  BY DEF Codes, Wide
<1>2. /\ ii.rex = bits \union setREXB(x) /\ ii.opcode = <<c>> /\ Addressed(ii, reg, x)
      /\ ii.immediate = v /\ ii.imm_size = 4
  BY ImmediateFields
<1>3. OnePlace(b, at, ii, w, c, reg, x, v, 4)
  BY <1>1, <1>2, OnePlaceForm
<1> HIDE DEF w
<1>4. PICK o \in Int, next \in Int, h \in BOOLEAN, R \in 0..1, B \in 0..1 :
        /\ Decode(b, at) = Opcode(b, o, h, w, R, B)
        /\ Byte(b, o) = c /\ Middle(Byte(b, o + 1)) = reg
        /\ Place(b, o + 1, B, Names) = <<x, next>>
        /\ Holds(b, next, Little(v, 4))
        /\ at + Size(ii) = next + 4
        /\ Size(ii) <= 9 + 4
  BY <1>3, Zenon DEF OnePlace
<1>5. Size(ii) <= 16
  <2>1. Size(ii) \in Nat
    BY BytecodeLen
  <2>2. Size(ii) <= 9 + 4
    BY <1>4, Zenon
  <2> QED
    BY <2>1, <2>2
<1>6. reg \in Int /\ Signed(b, next, 4) = v
  BY <1>4, ReadBack4
<1>7. ASSUME c = \h81 PROVE Found(b, at, ii, Immediates[reg + 1], w, <<Imm(v), x>>)
  <2>1. Opcode(b, o, h, w, R, B) = Instruction(Immediates[reg + 1], w, <<Imm(v), x>>, next + 4)
    BY <1>1, <1>4, <1>6, <1>7, ImmediateOpcode
  <2> QED
    BY <1>4, <1>5, <2>1 DEF Found
<1>8. ASSUME c = \hc7, reg = 0 PROVE Found(b, at, ii, "mov", w, <<Imm(v), x>>)
  <2>1. Opcode(b, o, h, w, R, B) = Instruction("mov", w, <<Imm(v), x>>, next + 4)
    BY <1>1, <1>4, <1>6, <1>8, MovPlaceOpcode
  <2> QED
    BY <1>4, <1>5, <2>1 DEF Found
<1> QED
  BY <1>7, <1>8 DEF w

-----------------------------------------------------------------------------
(* Instructions without ModRM.                                             *)

\* The parts: at most REX, the opcode and a constant v of n bytes.
BareParts(ii, rex, opcode, v, n) ==
  /\ DOMAIN ii = Fields /\ ii.rex = rex /\ ii.opcode = opcode /\ ii.modrm = <<>> /\ ii.sib = <<>>
  /\ ii.disp_size = 0 /\ ii.immediate = v /\ ii.imm_size = n

LEMMA BareFields ==
  ASSUME NEW opcode
  PROVE  /\ BareParts(Plain(opcode), {}, opcode, 0, 0)
         /\ \A v, n : BareParts(WithImmediate(Plain(opcode), v, n), {}, opcode, v, n)
         /\ \A r : BareParts([Plain(opcode) EXCEPT !.rex = r], r, opcode, 0, 0)
         /\ \A r, v, n : BareParts(WithImmediate([Plain(opcode) EXCEPT !.rex = r], v, n),
                                   r, opcode, v, n)
BY DEF BareParts, Plain, WithImmediate, Blank, Fields

\* How they are read: k bytes of opcode, of which the first is c, then the constant.
Bare(b, at, ii, w, B, k, c, d, v, n) ==
  \E o \in Int : \E h \in BOOLEAN : \E R \in 0..1 :
    /\ Decode(b, at) = Opcode(b, o, h, w, R, B)
    /\ Byte(b, o) = c /\ (k = 2 => Byte(b, o + 1) = d)
    /\ Holds(b, o + k, Little(v, n))
    /\ at + Size(ii) = o + k + n
    /\ Size(ii) <= 3 + n

LEMMA BareForm ==
  ASSUME NEW b, NEW at \in Int, NEW ii, Sound(ii), Holds(b, at, Bytecode(ii)),
         NEW rex \in SUBSET Bits, NEW opcode, NEW v, NEW n, BareParts(ii, rex, opcode, v, n),
         NEW k \in 1..2, k = Len(opcode), NEW c \in Codes, c = opcode[1],
         NEW d, k = 2 => d = opcode[2],
         NEW w, w = Wide(rex), NEW B, B = Bit("B", rex)
  PROVE  Bare(b, at, ii, w, B, k, c, d, v, n)
<1>1. /\ ii.rex = rex /\ ii.opcode = opcode /\ ii.modrm = <<>> /\ ii.sib = <<>>
      /\ ii.disp_size = 0 /\ ii.immediate = v /\ ii.imm_size = n
  BY DEF BareParts
<1>2. n \in Nat
  BY <1>1 DEF Sound
<1> DEFINE R == Bit("R", rex)
<1>3. R \in 0..1
  BY BitRange DEF Bits
<1> HIDE DEF R
<1>4. ReadByOpcode(b, at, ii, c)
  <2>1. Len(ii.opcode) \in 1..2 /\ ii.opcode[1] = c /\ ii.rex \in SUBSET Bits
    BY <1>1
  <2> QED
    BY <2>1, OpcodeDecoded
<1>5. PICK o \in Int :
        /\ \E h \in BOOLEAN : Decode(b, at) = Opcode(b, o, h, w, R, B)
        /\ Byte(b, o) = c
        /\ Len(ii.opcode) = 2 => Byte(b, o + 1) = ii.opcode[2]
        /\ HoldsRest(b, o + Len(ii.opcode), ii)
        /\ at + Size(ii) = o + Len(ii.opcode) + RestSize(ii)
        /\ Size(ii) <= 3 + RestSize(ii)
  <2>1. /\ Wide(ii.rex) = w /\ Bit("R", ii.rex) = R /\ Bit("B", ii.rex) = B
    BY <1>1 DEF R
  <2> QED
    BY <1>4, <2>1, Zenon DEF ReadByOpcode
<1>6. RestSize(ii) = n
  BY <1>1, <1>2 DEF RestSize
<1>7. Holds(b, o + k, Little(v, n))
  <2>1. Holds(b, o + k + Len(<<>>) + Len(<<>>) + 0, Little(v, n))
    BY <1>1, <1>5, Zenon DEF HoldsRest
  <2>2. o + k + Len(<<>>) + Len(<<>>) + 0 = o + k
    OBVIOUS
  <2> QED
    BY <2>1, <2>2
<1>8. PICK h \in BOOLEAN : Decode(b, at) = Opcode(b, o, h, w, R, B)
  BY <1>5
<1>9. at + Size(ii) = o + k + n /\ Size(ii) <= 3 + n /\ (k = 2 => Byte(b, o + 1) = d)
  BY <1>1, <1>5, <1>6
<1> QED
  BY <1>3, <1>5, <1>7, <1>8, <1>9, Zenon DEF Bare

\* A constant into a register,
LEMMA ConstantToRegister ==
  ASSUME NEW b, NEW at \in Int, NEW x, IsRegister(x), NEW v, IsWord32(v), NEW ii,
         BareParts(ii, {"W"} \union setREXB(x), <<\hb8 + registers[x[2]]>>, v, 8),
         Sound(ii), Holds(b, at, Bytecode(ii))
  PROVE  Found(b, at, ii, "mov", 64, <<Imm(v), x>>)
<1>1. PICK m \in 1..16 : x = Reg(Names[m])
  BY DEF IsRegister
<1> DEFINE k == registers[Names[m]]
           rex == {"W"} \union setREXB(x)
           B == Bit("B", rex)
           c == \hb8 + k
<1>2. k \in 0..7 /\ x[2] = Names[m] /\ x[1] = "reg"
  BY <1>1, RegisterNumber DEF Reg
<1>3. /\ rex \in SUBSET Bits /\ Wide(rex) = 64 /\ B \in 0..1 /\ B = Above(m)
      /\ Bit("R", rex) = 0
  BY <1>2, RegisterNumber DEF setREXB, Bits, Wide, Bit, Above
<1>4. m = k + 1 + 8 * B
  BY <1>3, RegisterNumber DEF Above
<1>5. c \in Codes
  BY <1>2 DEF Codes
<1>6. Bare(b, at, ii, 64, B, 1, c, 0, v, 8)
  <2>1. BareParts(ii, rex, <<c>>, v, 8)
    BY <1>2
  <2>2. Len(<<c>>) = 1 /\ <<c>>[1] = c
    OBVIOUS
  <2> HIDE DEF rex, c
  <2> QED
    BY <1>3, <1>5, <2>1, <2>2, BareForm DEF B
<1> HIDE DEF c, B, k, rex
<1>7. PICK o \in Int, h \in BOOLEAN, R \in 0..1 :
        /\ Decode(b, at) = Opcode(b, o, h, 64, R, B)
        /\ Byte(b, o) = c /\ (1 = 2 => Byte(b, o + 1) = 0)
        /\ Holds(b, o + 1, Little(v, 8))
        /\ at + Size(ii) = o + 1 + 8
        /\ Size(ii) <= 3 + 8
  BY <1>6, Zenon DEF Bare
<1>8. Signed(b, o + 1, 8) = v
  BY <1>7, ReadBack8
<1>9. Opcode(b, o, h, 64, R, B) = Instruction("mov", 64, <<Imm(v), x>>, o + 9)
  <2>1. Byte(b, o) = \hb8 + k
    BY <1>7, Zenon DEF c
  <2>2. k \in 0..7 /\ B \in 0..1 /\ 64 \in {32, 64}
    BY <1>2, <1>3
  <2>3. x = Reg(Names[k + 1 + 8 * B])
    BY <1>1, <1>4
  <2> QED
    BY <1>8, <2>1, <2>2, <2>3, MovRegisterOpcode
<1>10. at + Size(ii) = o + 9 /\ Size(ii) <= 16
  <2>1. Size(ii) \in Nat
    BY BytecodeLen
  <2>2. at + Size(ii) = o + 1 + 8 /\ Size(ii) <= 3 + 8
    BY <1>7, Zenon
  <2> QED
    BY <2>1, <2>2
<1> QED
  BY <1>1, <1>4, <1>7, <1>8, <1>9, <1>10 DEF Found

\* a register in the opcode,
LEMMA RegisterInOpcode ==
  ASSUME NEW b, NEW at \in Int, NEW x, IsRegister(x), NEW first \in {\h50, \h58}, NEW ii,
         BareParts(ii, setREXB(x), <<first + registers[x[2]]>>, 0, 0),
         Sound(ii), Holds(b, at, Bytecode(ii))
  PROVE  /\ first = \h50 => Found(b, at, ii, "push", 64, <<x>>)
         /\ first = \h58 => Found(b, at, ii, "pop", 64, <<x>>)
<1>1. PICK m \in 1..16 : x = Reg(Names[m])
  BY DEF IsRegister
<1> DEFINE k == registers[Names[m]]
           rex == setREXB(x)
           B == Bit("B", rex)
           c == first + k
<1>2. k \in 0..7 /\ x[2] = Names[m] /\ x[1] = "reg"
  BY <1>1, RegisterNumber DEF Reg
<1>3. /\ rex \in SUBSET Bits /\ Wide(rex) = 32 /\ B \in 0..1 /\ B = Above(m)
      /\ Bit("R", rex) = 0
  BY <1>2, RegisterNumber DEF setREXB, Bits, Wide, Bit, Above
<1>4. m = k + 1 + 8 * B
  BY <1>3, RegisterNumber DEF Above
<1>5. c \in Codes
  <2>1. k \in 0..7 /\ first \in {\h50, \h58}
    BY <1>2
  <2> HIDE DEF k
  <2> QED
    BY <2>1 DEF Codes
<1>6. Bare(b, at, ii, 32, B, 1, c, 0, 0, 0)
  <2>1. BareParts(ii, rex, <<c>>, 0, 0)
    BY <1>2
  <2>2. Len(<<c>>) = 1 /\ <<c>>[1] = c
    OBVIOUS
  <2> HIDE DEF rex, c
  <2> QED
    BY <1>3, <1>5, <2>1, <2>2, BareForm DEF B
<1> HIDE DEF c, B, k, rex
<1>7. PICK o \in Int, h \in BOOLEAN, R \in 0..1 :
        /\ Decode(b, at) = Opcode(b, o, h, 32, R, B)
        /\ Byte(b, o) = c /\ (1 = 2 => Byte(b, o + 1) = 0)
        /\ Holds(b, o + 1, Little(0, 0))
        /\ at + Size(ii) = o + 1 + 0
        /\ Size(ii) <= 3 + 0
  BY <1>6, Zenon DEF Bare
<1>8. ASSUME first = \h50
      PROVE  Opcode(b, o, h, 32, R, B)
               = Instruction("push", 64, <<Reg(Names[k + 1 + 8 * B])>>, o + 1)
  BY <1>2, <1>3, <1>7, <1>8, PushOpcode DEF c
<1>9. ASSUME first = \h58
      PROVE  Opcode(b, o, h, 32, R, B)
               = Instruction("pop", 64, <<Reg(Names[k + 1 + 8 * B])>>, o + 1)
  BY <1>2, <1>3, <1>7, <1>9, PopOpcode DEF c
<1>10. at + Size(ii) = o + 1 /\ Size(ii) <= 16
  <2>1. Size(ii) \in Nat
    BY BytecodeLen
  <2>2. at + Size(ii) = o + 1 + 0 /\ Size(ii) <= 3 + 0
    BY <1>7, Zenon
  <2> QED
    BY <2>1, <2>2
<1> QED
  BY <1>1, <1>4, <1>7, <1>8, <1>9, <1>10 DEF Found

\* a constant,
LEMMA ConstantAlone ==
  ASSUME NEW b, NEW at \in Int, NEW v, IsWord32(v), NEW ii,
         BareParts(ii, {}, <<\h68>>, v, 4), Sound(ii), Holds(b, at, Bytecode(ii))
  PROVE  Found(b, at, ii, "push", 64, <<Imm(v)>>)
<1>1. {} \in SUBSET Bits /\ Wide({}) = 32 /\ Bit("B", {}) = 0 /\ \h68 \in Codes
  BY DEF Wide, Bit, Codes
<1>2. Len(<<\h68>>) = 1 /\ <<\h68>>[1] = \h68
  OBVIOUS
<1>3. Bare(b, at, ii, 32, 0, 1, \h68, 0, v, 4)
  BY <1>1, <1>2, BareForm
<1>4. PICK o \in Int, h \in BOOLEAN, R \in 0..1 :
        /\ Decode(b, at) = Opcode(b, o, h, 32, R, 0)
        /\ Byte(b, o) = \h68 /\ (1 = 2 => Byte(b, o + 1) = 0)
        /\ Holds(b, o + 1, Little(v, 4))
        /\ at + Size(ii) = o + 1 + 4
        /\ Size(ii) <= 3 + 4
  BY <1>3, Zenon DEF Bare
<1>5. Signed(b, o + 1, 4) = v
  BY <1>4, ReadBack4
<1>6. Opcode(b, o, h, 32, R, 0) = Instruction("push", 64, <<Imm(Signed(b, o + 1, 4))>>, o + 5)
  BY <1>4, PushConstantOpcode
<1>7. at + Size(ii) = o + 5 /\ Size(ii) <= 16
  <2>1. Size(ii) \in Nat
    BY BytecodeLen
  <2>2. at + Size(ii) = o + 1 + 4 /\ Size(ii) <= 3 + 4
    BY <1>4, Zenon
  <2> QED
    BY <2>1, <2>2
<1> QED
  BY <1>4, <1>5, <1>6, <1>7 DEF Found

\* nothing,
LEMMA NothingBare ==
  ASSUME NEW b, NEW at \in Int, NEW c \in {<<\hc3>>, <<\h0f, \h05>>}, NEW ii, ii = Plain(c),
         Sound(ii), Holds(b, at, Bytecode(ii))
  PROVE  /\ c = <<\hc3>> => Found(b, at, ii, "ret", 64, <<>>)
         /\ c = <<\h0f, \h05>> => Found(b, at, ii, "syscall", 64, <<>>)
<1>1. {} \in SUBSET Bits /\ Wide({}) = 32 /\ Bit("B", {}) = 0 /\ \hc3 \in Codes /\ \h0f \in Codes
  BY DEF Wide, Bit, Codes
<1>2. BareParts(ii, {}, c, 0, 0)
  BY BareFields
<1>3. ASSUME c = <<\hc3>> PROVE Found(b, at, ii, "ret", 64, <<>>)
  <2>1. Len(c) = 1 /\ c[1] = \hc3
    BY <1>3
  <2>2. Bare(b, at, ii, 32, 0, 1, \hc3, 0, 0, 0)
    BY <1>1, <1>2, <2>1, BareForm
  <2>3. PICK o \in Int, h \in BOOLEAN, R \in 0..1 :
          /\ Decode(b, at) = Opcode(b, o, h, 32, R, 0)
          /\ Byte(b, o) = \hc3 /\ (1 = 2 => Byte(b, o + 1) = 0)
          /\ Holds(b, o + 1, Little(0, 0))
          /\ at + Size(ii) = o + 1 + 0
          /\ Size(ii) <= 3 + 0
    BY <2>2, Zenon DEF Bare
  <2>4. Opcode(b, o, h, 32, R, 0) = Instruction("ret", 64, <<>>, o + 1)
    BY <2>3, RetOpcode
  <2>5. at + Size(ii) = o + 1 /\ Size(ii) <= 16
    <3>1. Size(ii) \in Nat
      BY BytecodeLen
    <3>2. at + Size(ii) = o + 1 + 0 /\ Size(ii) <= 3 + 0
      BY <2>3, Zenon
    <3> QED
      BY <3>1, <3>2
  <2> QED
    BY <2>3, <2>4, <2>5 DEF Found
<1>4. ASSUME c = <<\h0f, \h05>> PROVE Found(b, at, ii, "syscall", 64, <<>>)
  <2>1. Len(c) = 2 /\ c[1] = \h0f /\ c[2] = \h05
    BY <1>4
  <2>2. Bare(b, at, ii, 32, 0, 2, \h0f, \h05, 0, 0)
    BY <1>1, <1>2, <2>1, BareForm
  <2>3. PICK o \in Int, h \in BOOLEAN, R \in 0..1 :
          /\ Decode(b, at) = Opcode(b, o, h, 32, R, 0)
          /\ Byte(b, o) = \h0f /\ (2 = 2 => Byte(b, o + 1) = \h05)
          /\ Holds(b, o + 2, Little(0, 0))
          /\ at + Size(ii) = o + 2 + 0
          /\ Size(ii) <= 3 + 0
    BY <2>2, Zenon DEF Bare
  <2>4. Opcode(b, o, h, 32, R, 0) = Instruction("syscall", 64, <<>>, o + 2)
    BY <2>3, SyscallOpcode
  <2>5. at + Size(ii) = o + 2 /\ Size(ii) <= 16
    <3>1. Size(ii) \in Nat
      BY BytecodeLen
    <3>2. at + Size(ii) = o + 2 + 0 /\ Size(ii) <= 3 + 0
      BY <2>3, Zenon
    <3> QED
      BY <3>1, <3>2
  <2> QED
    BY <2>3, <2>4, <2>5 DEF Found
<1> QED
  BY <1>3, <1>4

\* a constant that is added to al,
LEMMA ConstantToAl ==
  ASSUME NEW b, NEW at \in Int, NEW v, IsByte(v), NEW ii,
         ii = WithImmediate(Plain(<<\h04>>), v, 1), Sound(ii), Holds(b, at, Bytecode(ii))
  PROVE  Found(b, at, ii, "addb", 8, <<Imm(v), Reg("al")>>)
<1>1. {} \in SUBSET Bits /\ Wide({}) = 32 /\ Bit("B", {}) = 0 /\ \h04 \in Codes
  BY DEF Wide, Bit, Codes
<1>2. Len(<<\h04>>) = 1 /\ <<\h04>>[1] = \h04 /\ BareParts(ii, {}, <<\h04>>, v, 1)
  BY BareFields
<1>3. Bare(b, at, ii, 32, 0, 1, \h04, 0, v, 1)
  BY <1>1, <1>2, BareForm
<1>4. PICK o \in Int, h \in BOOLEAN, R \in 0..1 :
        /\ Decode(b, at) = Opcode(b, o, h, 32, R, 0)
        /\ Byte(b, o) = \h04 /\ (1 = 2 => Byte(b, o + 1) = 0)
        /\ Holds(b, o + 1, Little(v, 1))
        /\ at + Size(ii) = o + 1 + 1
        /\ Size(ii) <= 3 + 1
  BY <1>3, Zenon DEF Bare
<1>5. Signed(b, o + 1, 1) = v
  BY <1>4, ReadBack1
<1>6. Opcode(b, o, h, 32, R, 0)
        = Instruction("addb", 8, <<Imm(Signed(b, o + 1, 1)), Reg("al")>>, o + 2)
  BY <1>4, AddbOpcode
<1>7. at + Size(ii) = o + 2 /\ Size(ii) <= 16
  <2>1. Size(ii) \in Nat
    BY BytecodeLen
  <2>2. at + Size(ii) = o + 1 + 1 /\ Size(ii) <= 3 + 1
    BY <1>4, Zenon
  <2> QED
    BY <2>1, <2>2
<1> QED
  BY <1>4, <1>5, <1>6, <1>7 DEF Found

\* and the distance to a place in the code.
LEMMA JumpWithOneByte ==
  ASSUME NEW b, NEW at \in Int, NEW v, IsWord32(v), NEW c \in {\he8, \he9}, NEW ii,
         ii = WithImmediate(Plain(<<c>>), v, 4), Sound(ii), Holds(b, at, Bytecode(ii))
  PROVE  /\ c = \he8 => Found(b, at, ii, "call", 64, <<To(at + Size(ii) + v)>>)
         /\ c = \he9 => Found(b, at, ii, "jmp", 64, <<To(at + Size(ii) + v)>>)
<1>1. {} \in SUBSET Bits /\ Wide({}) = 32 /\ Bit("B", {}) = 0 /\ c \in Codes
  BY DEF Wide, Bit, Codes
<1>2. Len(<<c>>) = 1 /\ <<c>>[1] = c /\ BareParts(ii, {}, <<c>>, v, 4)
  BY BareFields
<1>3. Bare(b, at, ii, 32, 0, 1, c, 0, v, 4)
  BY <1>1, <1>2, BareForm
<1>4. PICK o \in Int, h \in BOOLEAN, R \in 0..1 :
        /\ Decode(b, at) = Opcode(b, o, h, 32, R, 0)
        /\ Byte(b, o) = c /\ (1 = 2 => Byte(b, o + 1) = 0)
        /\ Holds(b, o + 1, Little(v, 4))
        /\ at + Size(ii) = o + 1 + 4
        /\ Size(ii) <= 3 + 4
  BY <1>3, Zenon DEF Bare
<1>5. Signed(b, o + 1, 4) = v
  BY <1>4, ReadBack4
<1>6. at + Size(ii) = o + 1 + 4 /\ Size(ii) <= 16
  <2>1. Size(ii) \in Nat
    BY BytecodeLen
  <2>2. at + Size(ii) = o + 1 + 4 /\ Size(ii) <= 3 + 4
    BY <1>4, Zenon
  <2> QED
    BY <2>1, <2>2
<1>7. ASSUME c = \he8 PROVE Found(b, at, ii, "call", 64, <<To(at + Size(ii) + v)>>)
  <2>1. Opcode(b, o, h, 32, R, 0)
          = Instruction("call", 64, <<To(o + 1 + 4 + Signed(b, o + 1, 4))>>, o + 1 + 4)
    BY <1>4, <1>7, CallOpcode
  <2> QED
    BY <1>4, <1>5, <1>6, <2>1 DEF Found
<1>8. ASSUME c = \he9 PROVE Found(b, at, ii, "jmp", 64, <<To(at + Size(ii) + v)>>)
  <2>1. Opcode(b, o, h, 32, R, 0)
          = Instruction("jmp", 64, <<To(o + 1 + 4 + Signed(b, o + 1, 4))>>, o + 1 + 4)
    BY <1>4, <1>8, JmpOpcode
  <2> QED
    BY <1>4, <1>5, <1>6, <2>1 DEF Found
<1> QED
  BY <1>7, <1>8

LEMMA JumpWithTwoBytes ==
  ASSUME NEW b, NEW at \in Int, NEW v, IsWord32(v), NEW d \in DOMAIN Conditions, NEW ii,
         ii = WithImmediate(Plain(<<\h0f, d>>), v, 4), Sound(ii), Holds(b, at, Bytecode(ii))
  PROVE  Found(b, at, ii, Conditions[d], 64, <<To(at + Size(ii) + v)>>)
<1>1. {} \in SUBSET Bits /\ Wide({}) = 32 /\ Bit("B", {}) = 0 /\ \h0f \in Codes
  BY DEF Wide, Bit, Codes
<1>2. Len(<<\h0f, d>>) = 2 /\ <<\h0f, d>>[1] = \h0f /\ <<\h0f, d>>[2] = d
  OBVIOUS
<1>3. BareParts(ii, {}, <<\h0f, d>>, v, 4)
  BY BareFields
<1>4. Bare(b, at, ii, 32, 0, 2, \h0f, d, v, 4)
  BY <1>1, <1>2, <1>3, BareForm
<1>5. PICK o \in Int, h \in BOOLEAN, R \in 0..1 :
        /\ Decode(b, at) = Opcode(b, o, h, 32, R, 0)
        /\ Byte(b, o) = \h0f /\ (2 = 2 => Byte(b, o + 1) = d)
        /\ Holds(b, o + 2, Little(v, 4))
        /\ at + Size(ii) = o + 2 + 4
        /\ Size(ii) <= 3 + 4
  BY <1>4, Zenon DEF Bare
<1>6. Signed(b, o + 2, 4) = v
  BY <1>5, ReadBack4
<1>7. at + Size(ii) = o + 2 + 4 /\ Size(ii) <= 16
  <2>1. Size(ii) \in Nat
    BY BytecodeLen
  <2>2. at + Size(ii) = o + 2 + 4 /\ Size(ii) <= 3 + 4
    BY <1>5, Zenon
  <2> QED
    BY <2>1, <2>2
<1>8. Opcode(b, o, h, 32, R, 0) = Instruction(Conditions[Byte(b, o + 1)], 64,
                                     <<To(o + 2 + 4 + Signed(b, o + 2, 4))>>, o + 2 + 4)
  BY <1>5, ConditionOpcode
<1> QED
  BY <1>5, <1>6, <1>7, <1>8 DEF Found

\* Any of the jumps.
LEMMA JumpFound ==
  ASSUME NEW b, NEW at \in Int, NEW v, IsWord32(v), NEW name \in DOMAIN JumpCodes, NEW ii,
         ii = WithImmediate(Plain(JumpCodes[name] \o JumpSecondCodes[name]), v, 4),
         Sound(ii), Holds(b, at, Bytecode(ii))
  PROVE  Found(b, at, ii, name, 64, <<To(at + Size(ii) + v)>>)
<1> DEFINE two(d) == /\ d \in DOMAIN Conditions /\ Conditions[d] = name
                     /\ JumpCodes[name] = <<\h0f>> /\ JumpSecondCodes[name] = <<d>>
           one(c) == JumpCodes[name] = <<c>> /\ JumpSecondCodes[name] = <<>>
<1>1. ASSUME NEW d, two(d) PROVE Found(b, at, ii, name, 64, <<To(at + Size(ii) + v)>>)
  <2>1. <<\h0f>> \o <<d>> = <<\h0f, d>>
    <3> DEFINE u == <<\h0f>> \o <<d>>
    <3>1. d \in Int
      BY <1>1, OpcodeSets
    <3>2. <<\h0f>> \in Seq(Int) /\ <<d>> \in Seq(Int)
      BY <3>1
    <3>3. u \in Seq(Int) /\ Len(u) = 2 /\ u[1] = \h0f /\ u[2] = d
      BY <3>2, ConcatProperties
    <3> HIDE DEF u
    <3>4. u = <<\h0f, d>>
      BY <3>3
    <3> QED
      BY <3>4 DEF u
  <2>2. ii = WithImmediate(Plain(<<\h0f, d>>), v, 4)
    BY <1>1, <2>1
  <2> QED
    BY <1>1, <2>2, JumpWithTwoBytes
<1>2. ASSUME NEW c \in {\he8, \he9}, one(c), name = IF c = \he8 THEN "call" ELSE "jmp"
      PROVE  Found(b, at, ii, name, 64, <<To(at + Size(ii) + v)>>)
  <2>1. <<c>> \o <<>> = <<c>>
    OBVIOUS
  <2>2. ii = WithImmediate(Plain(<<c>>), v, 4)
    BY <1>2, <2>1
  <2> QED
    BY <1>2, <2>2, JumpWithOneByte
<1>3. name \in {"call", "jmp", "jne", "je", "jge", "jg", "jle", "jl"}
  BY JumpNames
<1>4. CASE name = "call"
  BY <1>2, <1>4, JumpNames DEF JumpCodes, JumpSecondCodes
<1>5. CASE name = "jmp"
  BY <1>2, <1>5, JumpNames DEF JumpCodes, JumpSecondCodes
<1>6. CASE name = "jne"
  <2>1. two(\h85)
    BY <1>6, JumpNames DEF JumpCodes, JumpSecondCodes, Conditions
  <2> QED
    BY <1>1, <2>1
<1>7. CASE name = "je"
  <2>1. two(\h84)
    BY <1>7, JumpNames DEF JumpCodes, JumpSecondCodes, Conditions
  <2> QED
    BY <1>1, <2>1
<1>8. CASE name = "jge"
  <2>1. two(\h8d)
    BY <1>8, JumpNames DEF JumpCodes, JumpSecondCodes, Conditions
  <2> QED
    BY <1>1, <2>1
<1>9. CASE name = "jg"
  <2>1. two(\h8f)
    BY <1>9, JumpNames DEF JumpCodes, JumpSecondCodes, Conditions
  <2> QED
    BY <1>1, <2>1
<1>10. CASE name = "jle"
  <2>1. two(\h8e)
    BY <1>10, JumpNames DEF JumpCodes, JumpSecondCodes, Conditions
  <2> QED
    BY <1>1, <2>1
<1>11. CASE name = "jl"
  <2>1. two(\h8c)
    BY <1>11, JumpNames DEF JumpCodes, JumpSecondCodes, Conditions
  <2> QED
    BY <1>1, <2>1
<1> QED
  BY <1>3, <1>4, <1>5, <1>6, <1>7, <1>8, <1>9, <1>10, <1>11

-----------------------------------------------------------------------------
(* Instructions of the routines: bytes, addresses and fixed bytes.         *)

\* An opcode without REX,
LEMMA NoPrefix ==
  ASSUME NEW b, NEW at \in Int, NEW c \in Codes, Byte(b, at) = c
  PROVE  \E h \in BOOLEAN : Decode(b, at) = Opcode(b, at, h, 32, 0, 0) /\ ~h
<1>1. REX({}) = <<>> /\ Len(<<>>) = 0
  BY DEF REX
<1>2. Holds(b, at, REX({})) /\ at = at + Len(REX({})) /\ {} \in SUBSET Bits
  BY <1>1 DEF Holds
<1>3. PICK h \in BOOLEAN :
        /\ Decode(b, at) = Opcode(b, at, h, Wide({}), Bit("R", {}), Bit("B", {}))
        /\ {} = {} => ~h
  BY <1>2, PrefixDecoded
<1>4. Wide({}) = 32 /\ Bit("R", {}) = 0 /\ Bit("B", {}) = 0
  BY DEF Wide, Bit
<1> QED
  BY <1>3, <1>4, Zenon

\* and one behind a byte that is REX with W alone.
LEMMA WidePrefix ==
  ASSUME NEW b, NEW at \in Int, Byte(b, at) = \h48, NEW c \in Codes, Byte(b, at + 1) = c
  PROVE  \E h \in BOOLEAN : Decode(b, at) = Opcode(b, at + 1, h, 64, 0, 0)
<1>1. REX({"W"}) = <<\h48>> /\ Len(<<\h48>>) = 1
  BY DEF REX
<1>2. Holds(b, at, <<\h48>>)
  <2>1. \A i \in 1..Len(<<\h48>>) : i = 1 /\ at + i - 1 = at /\ <<\h48>>[i] = \h48
    OBVIOUS
  <2> QED
    BY <2>1 DEF Holds
<1>3. Holds(b, at, REX({"W"})) /\ at + 1 = at + Len(REX({"W"})) /\ {"W"} \in SUBSET Bits
  BY <1>1, <1>2 DEF Bits
<1>4. PICK h \in BOOLEAN :
        /\ Decode(b, at) = Opcode(b, at + 1, h, Wide({"W"}), Bit("R", {"W"}), Bit("B", {"W"}))
        /\ {"W"} = {} => ~h
  BY <1>3, PrefixDecoded
<1>5. Wide({"W"}) = 64 /\ Bit("R", {"W"}) = 0 /\ Bit("B", {"W"}) = 0
  BY DEF Wide, Bit
<1> QED
  BY <1>4, <1>5, Zenon

Alone(b, at, ii, opcode, n) == Holds(b, at, opcode) /\ Size(ii) = n

LEMMA PlainHeld ==
  ASSUME NEW b, NEW at \in Int, NEW opcode, NEW n \in Nat, Len(opcode) = n,
         NEW ii, BareParts(ii, {}, opcode, 0, 0),
         Sound(ii), Holds(b, at, Bytecode(ii))
  PROVE  Alone(b, at, ii, opcode, n)
<1>1. /\ ii.rex = {} /\ ii.opcode = opcode /\ ii.modrm = <<>> /\ ii.sib = <<>>
      /\ ii.disp_size = 0 /\ ii.imm_size = 0
  BY DEF BareParts
<1>2. REX(ii.rex) = <<>> /\ Len(<<>>) = 0
  BY <1>1 DEF REX
<1>3. Holds(b, at + Len(REX(ii.rex)), ii.opcode)
  BY HoldsParts
<1>4. Size(ii) = 0 + Len(opcode) + 0 + 0 + 0 + 0
  BY <1>1, <1>2 DEF Size
<1> QED
  BY <1>1, <1>2, <1>3, <1>4 DEF Alone

\* What is behind an opcode with ModRM, without and with SIB.
LEMMA RestParts ==
  ASSUME NEW b, NEW m \in Int, NEW ii, NEW x, ii.modrm = <<x>>, NEW d \in Nat, ii.disp_size = d,
         NEW n \in Nat, ii.imm_size = n, HoldsRest(b, m, ii)
  PROVE  /\ Byte(b, m) = x
         /\ ii.sib = <<>> =>
              /\ Holds(b, m + 1, Little(ii.displacement, d))
              /\ Holds(b, m + 1 + d, Little(ii.immediate, n))
              /\ RestSize(ii) = 1 + d + n
         /\ \A s : ii.sib = <<s>> =>
              /\ Byte(b, m + 1) = s
              /\ Holds(b, m + 2, Little(ii.displacement, d))
              /\ Holds(b, m + 2 + d, Little(ii.immediate, n))
              /\ RestSize(ii) = 2 + d + n
<1>1. Byte(b, m) = x
  BY HoldsFew DEF HoldsRest
<1>2. ASSUME ii.sib = <<>>
      PROVE  /\ Holds(b, m + 1, Little(ii.displacement, d))
             /\ Holds(b, m + 1 + d, Little(ii.immediate, n))
             /\ RestSize(ii) = 1 + d + n
  <2>1. Len(<<x>>) = 1 /\ Len(<<>>) = 0
    OBVIOUS
  <2>2. /\ Holds(b, m + Len(<<x>>) + Len(<<>>), Little(ii.displacement, d))
        /\ Holds(b, m + Len(<<x>>) + Len(<<>>) + d, Little(ii.immediate, n))
        /\ RestSize(ii) = Len(<<x>>) + Len(<<>>) + d + n
    BY <1>2, Zenon DEF HoldsRest, RestSize
  <2>3. /\ m + Len(<<x>>) + Len(<<>>) = m + 1 /\ m + Len(<<x>>) + Len(<<>>) + d = m + 1 + d
        /\ Len(<<x>>) + Len(<<>>) + d + n = 1 + d + n
    BY <2>1
  <2> QED
    BY <2>2, <2>3, Zenon
<1>3. ASSUME NEW s, ii.sib = <<s>>
      PROVE  /\ Byte(b, m + 1) = s
             /\ Holds(b, m + 2, Little(ii.displacement, d))
             /\ Holds(b, m + 2 + d, Little(ii.immediate, n))
             /\ RestSize(ii) = 2 + d + n
  <2>1. Len(<<x>>) = 1 /\ Len(<<s>>) = 1
    OBVIOUS
  <2>2. /\ Holds(b, m + Len(<<x>>), <<s>>)
        /\ Holds(b, m + Len(<<x>>) + Len(<<s>>), Little(ii.displacement, d))
        /\ Holds(b, m + Len(<<x>>) + Len(<<s>>) + d, Little(ii.immediate, n))
        /\ RestSize(ii) = Len(<<x>>) + Len(<<s>>) + d + n
    BY <1>3, Zenon DEF HoldsRest, RestSize
  <2>3. /\ m + Len(<<x>>) = m + 1 /\ m + Len(<<x>>) + Len(<<s>>) = m + 2
        /\ m + Len(<<x>>) + Len(<<s>>) + d = m + 2 + d
        /\ Len(<<x>>) + Len(<<s>>) + d + n = 2 + d + n
    BY <2>1
  <2>4. Holds(b, m + 1, <<s>>) /\ m + 1 \in Int
    BY <2>2, <2>3
  <2>5. Byte(b, m + 1) = s
    BY <2>4, HoldsFew
  <2> QED
    BY <2>2, <2>3, <2>5, Zenon
<1> QED
  BY <1>1, <1>2, <1>3, Zenon

\* cqto, whose REX is written as a part of the opcode,
LEMMA CqtoFound ==
  ASSUME NEW b, NEW at \in Int, NEW ii, ii = create_cqto,
         Sound(ii), Holds(b, at, Bytecode(ii))
  PROVE  Found(b, at, ii, "cqto", 64, <<>>)
<1> DEFINE c == <<\h48, \h99>>
<1>10. Len(c) = 2 /\ c[1] = \h48 /\ c[2] = \h99
  OBVIOUS
<1>11. BareParts(ii, {}, c, 0, 0)
  BY BareFields DEF create_cqto
<1> HIDE DEF c
<1>1. Holds(b, at, c) /\ Size(ii) = 2
  <2>1. BareParts(ii, {}, c, 0, 0) /\ Len(c) = 2
    BY <1>10, <1>11
  <2>2. 2 \in Nat
    OBVIOUS
  <2>3. Alone(b, at, ii, c, 2)
    BY <2>1, <2>2, PlainHeld, Zenon
  <2> QED
    BY <2>3 DEF Alone
<1>2. Byte(b, at) = \h48 /\ Byte(b, at + 1) = \h99 /\ \h99 \in Codes
  <2>1. \A i \in 1..2 : Byte(b, at + i - 1) = c[i]
    BY <1>10, <1>1 DEF Holds
  <2>2. 1 \in 1..2 /\ 2 \in 1..2 /\ at + 1 - 1 = at /\ at + 2 - 1 = at + 1
    OBVIOUS
  <2> QED
    BY <1>10, <2>1, <2>2 DEF Codes
<1>3. PICK h \in BOOLEAN : Decode(b, at) = Opcode(b, at + 1, h, 64, 0, 0)
  BY <1>2, WidePrefix
<1>4. Opcode(b, at + 1, h, 64, 0, 0) = Instruction("cqto", 64, <<>>, at + 1 + 1)
  BY <1>2, CqtoOpcode
<1>5. at + 1 + 1 = at + Size(ii) /\ Size(ii) <= 16
  BY <1>1
<1> QED
  BY <1>3, <1>4, <1>5 DEF Found

\* movzxb from (%rsi) to rcx, likewise,
LEMMA MovzxbFound ==
  ASSUME NEW b, NEW at \in Int, NEW ii, ii = create_movzxb,
         Sound(ii), Holds(b, at, Bytecode(ii))
  PROVE  Found(b, at, ii, "movzxb", 64, <<Mem("rsi", 0), Reg("rcx")>>)
<1> DEFINE c == <<\h48, \h0f, \hb6, \h0e>>
<1>10. Len(c) = 4 /\ c[1] = \h48 /\ c[2] = \h0f /\ c[3] = \hb6 /\ c[4] = \h0e
  OBVIOUS
<1>11. BareParts(ii, {}, c, 0, 0)
  BY BareFields DEF create_movzxb
<1> HIDE DEF c
<1>1. Holds(b, at, c) /\ Size(ii) = 4
  <2>1. BareParts(ii, {}, c, 0, 0) /\ Len(c) = 4
    BY <1>10, <1>11
  <2>2. 4 \in Nat
    OBVIOUS
  <2>3. Alone(b, at, ii, c, 4)
    BY <2>1, <2>2, PlainHeld, Zenon
  <2> QED
    BY <2>3 DEF Alone
<1>2. /\ Byte(b, at) = \h48 /\ Byte(b, at + 1) = \h0f
      /\ Byte(b, at + 2) = \hb6 /\ Byte(b, at + 3) = \h0e
  <2>1. /\ at + 1 - 1 = at /\ at + 2 - 1 = at + 1 /\ at + 3 - 1 = at + 2 /\ at + 4 - 1 = at + 3
    OBVIOUS
  <2>2. \A i \in 1..4 : Byte(b, at + i - 1) = c[i]
    BY <1>10, <1>1 DEF Holds
  <2>3. 1 \in 1..4 /\ 2 \in 1..4 /\ 3 \in 1..4 /\ 4 \in 1..4
    OBVIOUS
  <2> QED
    BY <1>10, <2>1, <2>2, <2>3
<1>3. PICK h \in BOOLEAN : Decode(b, at) = Opcode(b, at + 1, h, 64, 0, 0)
  <2>1. \h0f \in Codes
    BY DEF Codes
  <2> QED
    BY <1>2, <2>1, WidePrefix
<1>4. Mod(\h0e) = 0 /\ Middle(\h0e) = 1 /\ Low(\h0e) = 6
  BY DEF Mod, Middle, Low
<1>5. Place(b, at + 3, 0, ByteNames) = <<Mem("rsi", 0), at + 4>>
  <2>1. Place(b, at + 3, 0, ByteNames) = <<Mem(Names[Low(\h0e) + 1 + 8 * 0], 0), at + 3 + 1>>
    BY <1>2, <1>4 DEF Place
  <2>2. Names[Low(\h0e) + 1 + 8 * 0] = "rsi" /\ at + 3 + 1 = at + 4
    BY <1>4, NameList
  <2> QED
    BY <2>1, <2>2
<1>6. Opcode(b, at + 1, h, 64, 0, 0)
        = Instruction("movzxb", 64, <<Mem("rsi", 0), Reg(Names[1 + 1 + 8 * 0])>>, at + 4)
  <2>1. at + 1 \in Int /\ at + 1 + 1 = at + 2 /\ at + 1 + 2 = at + 3
    OBVIOUS
  <2> QED
    BY <1>2, <1>4, <1>5, <2>1, MovzxbOpcode
<1>7. Names[1 + 1 + 8 * 0] = "rcx"
  BY NameList
<1>8. at + 4 = at + Size(ii) /\ Size(ii) <= 16
  BY <1>1
<1> QED
  BY <1>3, <1>6, <1>7, <1>8 DEF Found

\* cmpb of cl with one of two constants,
LEMMA CmpbFound ==
  ASSUME NEW b, NEW at \in Int, NEW x \in {10, 45}, NEW ii, ii = create_cmpb(Imm(x)),
         Sound(ii), Holds(b, at, Bytecode(ii))
  PROVE  Found(b, at, ii, "cmpb", 8, <<Imm(x), Reg("cl")>>)
<1> DEFINE c == <<\h80, \hf9, x>>
<1>1. Len(c) = 3 /\ c[1] = \h80 /\ c[2] = \hf9 /\ c[3] = x
  OBVIOUS
<1>2. BareParts(ii, {}, c, 0, 0)
  <2>1. Imm(10) # Imm(45)
    BY DEF Imm
  <2>2. ii = Plain(c)
    BY <2>1 DEF create_cmpb
  <2> QED
    BY <2>2, BareFields
<1> HIDE DEF c
<1>3. Holds(b, at, c) /\ Size(ii) = 3
  <2>1. BareParts(ii, {}, c, 0, 0) /\ Len(c) = 3
    BY <1>1, <1>2
  <2>2. 3 \in Nat
    OBVIOUS
  <2>3. Alone(b, at, ii, c, 3)
    BY <2>1, <2>2, PlainHeld, Zenon
  <2> QED
    BY <2>3 DEF Alone
<1>4. Byte(b, at) = \h80 /\ Byte(b, at + 1) = \hf9 /\ Byte(b, at + 2) = x /\ \h80 \in Codes
  <2>1. \A i \in 1..3 : Byte(b, at + i - 1) = c[i]
    BY <1>1, <1>3 DEF Holds
  <2>2. /\ 1 \in 1..3 /\ 2 \in 1..3 /\ 3 \in 1..3
        /\ at + 1 - 1 = at /\ at + 2 - 1 = at + 1 /\ at + 3 - 1 = at + 2
    OBVIOUS
  <2> QED
    BY <1>1, <2>1, <2>2 DEF Codes
<1>5. PICK h \in BOOLEAN : Decode(b, at) = Opcode(b, at, h, 32, 0, 0)
  BY <1>4, NoPrefix
<1>6. Mod(\hf9) = 3 /\ Middle(\hf9) = 7 /\ Low(\hf9) = 1
  BY DEF Mod, Middle, Low
<1>7. /\ Place(b, at + 1, 0, Names) = <<Reg("rcx"), at + 2>>
      /\ Place(b, at + 1, 0, ByteNames) = <<Reg("cl"), at + 2>>
  <2>1. Len(ByteNames) = 4 /\ ByteNames[2] = "cl"
    BY DEF ByteNames
  <2>2. Low(\hf9) + 8 * 0 < Len(Names) /\ Low(\hf9) + 8 * 0 < Len(ByteNames)
    BY <1>6, <2>1, NameList
  <2>3. /\ Place(b, at + 1, 0, Names) = <<Reg(Names[Low(\hf9) + 1 + 8 * 0]), at + 1 + 1>>
        /\ Place(b, at + 1, 0, ByteNames) = <<Reg(ByteNames[Low(\hf9) + 1 + 8 * 0]), at + 1 + 1>>
    BY <1>4, <1>6, <2>2 DEF Place
  <2>4. Low(\hf9) + 1 + 8 * 0 = 2 /\ at + 1 + 1 = at + 2
    BY <1>6
  <2> QED
    BY <2>1, <2>3, <2>4, NameList
<1>8. Signed(b, at + 2, 1) = x
  <2> DEFINE g == [i \in 1..1 |-> x]
  <2>1. g \in [1..1 -> Int] /\ g[1] = x /\ at + 2 + 1 - 1 = at + 2 /\ ~(x >= 128)
    OBVIOUS
  <2>2. \A i \in 1..1 : g[i] = Byte(b, at + 2 + 1 - i)
    BY <1>4, <2>1
  <2>3. \A i \in 2..1 : FALSE
    OBVIOUS
  <2> HIDE DEF g
  <2>4. Reads(b, at + 2, 1, g)
    <3>1. g[1] = (IF g[1] >= 128 THEN g[1] - 256 ELSE g[1])
      BY <2>1
    <3> QED
      BY <2>1, <2>2, <2>3, <3>1 DEF Reads
  <2> QED
    BY <2>1, <2>4, SignedIs
<1>9. Opcode(b, at, h, 32, 0, 0) = Instruction("cmpb", 8, <<Imm(x), Reg("cl")>>, at + 2 + 1)
  <2> DEFINE y == Reg("rcx")
             z == Reg("cl")
             next == at + 2
  <2>1. next \in Int /\ Middle(Byte(b, at + 1)) = 7 /\ Byte(b, at) = \h80
    BY <1>4, <1>6
  <2>2. /\ Place(b, at + 1, 0, Names) = <<y, next>> /\ Place(b, at + 1, 0, ByteNames) = <<z, next>>
        /\ Signed(b, next, 1) = x
    BY <1>7, <1>8
  <2>3. 32 \in {32, 64} /\ 0 \in 0..1
    OBVIOUS
  <2> HIDE DEF y, z, next
  <2>4. Opcode(b, at, h, 32, 0, 0) = Instruction("cmpb", 8, <<Imm(x), z>>, next + 1)
    BY <2>1, <2>2, <2>3, CmpbOpcode
  <2> QED
    BY <2>4 DEF z, next
<1>10. at + 2 + 1 = at + Size(ii) /\ Size(ii) <= 16
  BY <1>3
<1> QED
  BY <1>5, <1>9, <1>10 DEF Found

\* A place in memory behind one of the lower registers, without a displacement.
NoDisplacement(b, m, n, names, q) ==
  Place(b, m, 0, names) = <<Mem(Names[n], 0), q>> /\ Middle(Byte(b, m)) = 0

LEMMA PlaceWithoutDisplacement ==
  ASSUME NEW b, NEW m \in Int, NEW n \in (1..8) \ {6}, NEW names,
         Byte(b, m) = 0 * 64 + 0 * 8 + (n - 1), n = 5 => Byte(b, m + 1) = 4 * 8 + 4,
         NEW q, n = 5 => q = m + 2, n # 5 => q = m + 1
  PROVE  NoDisplacement(b, m, n, names, q)
<1> DEFINE x == Byte(b, m)
           s == Byte(b, m + 1)
<1>1. Mod(x) = 0 /\ Middle(x) = 0 /\ Low(x) = n - 1
  BY ModRMParts
<1>2. n = 5 => Middle(s) = 4 /\ Low(s) = 4
  BY ModRMParts
<1> HIDE DEF x, s
<1>3. CASE n = 5
  <2>1. Place(b, m, 0, names) = <<Mem(Names[Low(s) + 1 + 8 * 0], 0), m + 2>>
    BY <1>1, <1>2, <1>3 DEF Place, x, s
  <2>2. Low(s) + 1 + 8 * 0 = n /\ q = m + 2
    BY <1>2, <1>3
  <2> QED
    BY <1>1, <2>1, <2>2 DEF x, NoDisplacement
<1>4. CASE n # 5
  <2>1. Place(b, m, 0, names) = <<Mem(Names[Low(x) + 1 + 8 * 0], 0), m + 1>>
    BY <1>1, <1>4 DEF Place, x, s
  <2>2. Low(x) + 1 + 8 * 0 = n /\ q = m + 1
    BY <1>1, <1>4
  <2> QED
    BY <1>1, <2>1, <2>2 DEF x, NoDisplacement
<1> QED
  BY <1>3, <1>4

\* An opcode with ModRM and a REX that has at most W.
LowForm(b, at, ii, w, c) ==
  \E o \in Int :
    /\ \E h \in BOOLEAN : Decode(b, at) = Opcode(b, o, h, w, 0, 0) /\ (ii.rex = {} => ~h)
    /\ Byte(b, o) = c
    /\ HoldsRest(b, o + 1, ii)
    /\ at + Size(ii) = o + 1 + RestSize(ii)
    /\ Size(ii) <= 3 + RestSize(ii)

LEMMA LowFormRead ==
  ASSUME NEW b, NEW at \in Int, NEW ii, Sound(ii), Holds(b, at, Bytecode(ii)),
         NEW c \in Codes, ii.opcode = <<c>>, ii.rex \in SUBSET {"W"}, NEW w, w = Wide(ii.rex)
  PROVE  LowForm(b, at, ii, w, c)
<1>1. ii.rex \in SUBSET Bits /\ Bit("R", ii.rex) = 0 /\ Bit("B", ii.rex) = 0
  BY DEF Bits, Bit
<1>2. Len(ii.opcode) = 1 /\ ii.opcode[1] = c
  OBVIOUS
<1>3. ReadByOpcode(b, at, ii, c)
  <2>1. Len(ii.opcode) \in 1..2
    BY <1>2
  <2> QED
    BY <1>1, <1>2, <2>1, OpcodeDecoded
<1> QED
  BY <1>1, <1>2, <1>3, Zenon DEF ReadByOpcode, LowForm

\* The parts of an instruction with ModRM whose displacement has d bytes and whose
\* constant has n.
LowParts(ii, rex, c, x, sib, d, n) ==
  /\ DOMAIN ii = Fields /\ ii.rex = rex /\ ii.opcode = <<c>> /\ ii.modrm = <<x>> /\ ii.sib = sib
  /\ ii.disp_size = d /\ ii.imm_size = n

\* A byte into memory: a constant,
LEMMA ByteToMemory ==
  ASSUME NEW b, NEW at \in Int, NEW n \in (1..8) \ {6}, NEW v, IsByte(v), NEW ii,
         LowParts(ii, {}, \hc6, n - 1, IF n = 5 THEN <<4 * 8 + 4>> ELSE <<>>, 0, 1),
         ii.immediate = v, Sound(ii), Holds(b, at, Bytecode(ii))
  PROVE  Found(b, at, ii, "movb", 8, <<Imm(v), Mem(Names[n], 0)>>)
<1>1. /\ ii.rex = {} /\ ii.opcode = <<\hc6>> /\ ii.modrm = <<n - 1>>
      /\ ii.sib = (IF n = 5 THEN <<4 * 8 + 4>> ELSE <<>>) /\ ii.disp_size = 0 /\ ii.imm_size = 1
  BY DEF LowParts
<1>2. LowForm(b, at, ii, 32, \hc6)
  <2>1. \hc6 \in Codes /\ ii.rex \in SUBSET {"W"} /\ Wide(ii.rex) = 32
    BY <1>1 DEF Codes, Wide
  <2> QED
    BY <1>1, <2>1, LowFormRead
<1>3. PICK o \in Int :
        /\ \E h \in BOOLEAN : Decode(b, at) = Opcode(b, o, h, 32, 0, 0) /\ (ii.rex = {} => ~h)
        /\ Byte(b, o) = \hc6
        /\ HoldsRest(b, o + 1, ii)
        /\ at + Size(ii) = o + 1 + RestSize(ii)
        /\ Size(ii) <= 3 + RestSize(ii)
  BY <1>2, Zenon DEF LowForm
<1>4. PICK h \in BOOLEAN : Decode(b, at) = Opcode(b, o, h, 32, 0, 0)
  BY <1>3
<1> DEFINE m == o + 1
           q == IF n = 5 THEN m + 2 ELSE m + 1
<1>5. m \in Int /\ q \in Int
  OBVIOUS
<1>6. /\ Byte(b, m) = n - 1 /\ (n = 5 => Byte(b, m + 1) = 4 * 8 + 4)
      /\ Holds(b, q, Little(v, 1)) /\ m + RestSize(ii) = q + 1 /\ RestSize(ii) \in 2..3
  <2>1. HoldsRest(b, m, ii) /\ 0 \in Nat /\ 1 \in Nat
    BY <1>3
  <2>2. Byte(b, m) = n - 1
    BY <1>1, <1>5, <2>1, RestParts
  <2> HIDE DEF m
  <2>3. CASE n = 5
    <3>1. ii.sib = <<4 * 8 + 4>>
      BY <1>1, <2>3
    <3>2. /\ Byte(b, m + 1) = 4 * 8 + 4 /\ Holds(b, m + 2 + 0, Little(ii.immediate, 1))
          /\ RestSize(ii) = 2 + 0 + 1
      BY <1>1, <1>5, <2>1, <3>1, RestParts
    <3>3. m + 2 + 0 = q /\ m + RestSize(ii) = q + 1
      BY <1>5, <2>3, <3>2
    <3> QED
      BY <2>2, <3>2, <3>3
  <2>4. CASE n # 5
    <3>1. ii.sib = <<>>
      BY <1>1, <2>4
    <3>2. Holds(b, m + 1 + 0, Little(ii.immediate, 1)) /\ RestSize(ii) = 1 + 0 + 1
      BY <1>1, <1>5, <2>1, <3>1, RestParts
    <3>3. m + 1 + 0 = q /\ m + RestSize(ii) = q + 1
      BY <1>5, <2>4, <3>2
    <3> QED
      BY <2>2, <2>4, <3>2, <3>3
  <2> QED
    BY <2>3, <2>4
<1> DEFINE y == Mem(Names[n], 0)
<1>7. /\ Place(b, m, 0, Names) = <<y, q>> /\ Place(b, m, 0, ByteNames) = <<y, q>>
      /\ Middle(Byte(b, m)) = 0
  <2>1. Byte(b, m) = 0 * 64 + 0 * 8 + (n - 1) /\ (n = 5 => Byte(b, m + 1) = 4 * 8 + 4)
    BY <1>6
  <2>2. (n = 5 => q = m + 2) /\ (n # 5 => q = m + 1)
    OBVIOUS
  <2> HIDE DEF m, q
  <2>3. NoDisplacement(b, m, n, Names, q) /\ NoDisplacement(b, m, n, ByteNames, q)
    BY <1>5, <2>1, <2>2, PlaceWithoutDisplacement
  <2> QED
    BY <2>3 DEF NoDisplacement
<1>8. Signed(b, q, 1) = v
  BY <1>5, <1>6, ReadBack1
<1>9. at + Size(ii) = q + 1 /\ Size(ii) <= 16
  <2>1. Size(ii) \in Nat
    BY BytecodeLen
  <2>2. at + Size(ii) = o + 1 + RestSize(ii) /\ Size(ii) <= 3 + RestSize(ii)
    BY <1>3, Zenon
  <2> QED
    BY <1>5, <1>6, <2>1, <2>2
<1> HIDE DEF q, y
<1>10. Opcode(b, o, h, 32, 0, 0) = Instruction("movb", 8, <<Imm(v), y>>, q + 1)
  <2>1. 32 \in {32, 64} /\ 0 \in 0..1 /\ Byte(b, o) = \hc6
    BY <1>3
  <2> QED
    BY <1>5, <1>7, <1>8, <2>1, MovbConstantOpcode DEF m
<1> QED
  BY <1>4, <1>9, <1>10 DEF Found, y

\* a constant to an address,
LEMMA ByteToAddress ==
  ASSUME NEW b, NEW at \in Int, NEW a, IsWord32(a), NEW v, IsByte(v), NEW ii,
         LowParts(ii, {}, \hc6, 4, <<\h25>>, 4, 1),
         ii.displacement = a, ii.immediate = v, Sound(ii), Holds(b, at, Bytecode(ii))
  PROVE  Found(b, at, ii, "movb", 8, <<Imm(v), Absolute(a)>>)
<1>1. /\ ii.rex = {} /\ ii.opcode = <<\hc6>> /\ ii.modrm = <<4>> /\ ii.sib = <<\h25>>
      /\ ii.disp_size = 4 /\ ii.imm_size = 1
  BY DEF LowParts
<1>2. LowForm(b, at, ii, 32, \hc6)
  <2>1. \hc6 \in Codes /\ ii.rex \in SUBSET {"W"} /\ Wide(ii.rex) = 32
    BY <1>1 DEF Codes, Wide
  <2> QED
    BY <1>1, <2>1, LowFormRead
<1>3. PICK o \in Int :
        /\ \E h \in BOOLEAN : Decode(b, at) = Opcode(b, o, h, 32, 0, 0) /\ (ii.rex = {} => ~h)
        /\ Byte(b, o) = \hc6
        /\ HoldsRest(b, o + 1, ii)
        /\ at + Size(ii) = o + 1 + RestSize(ii)
        /\ Size(ii) <= 3 + RestSize(ii)
  BY <1>2, Zenon DEF LowForm
<1>4. PICK h \in BOOLEAN : Decode(b, at) = Opcode(b, o, h, 32, 0, 0)
  BY <1>3
<1> DEFINE m == o + 1
           q == m + 6
<1>5. m \in Int /\ q \in Int
  OBVIOUS
<1>6. /\ Byte(b, m) = 4 /\ Byte(b, m + 1) = 37 /\ Holds(b, m + 2, Little(a, 4))
      /\ Holds(b, q, Little(v, 1)) /\ RestSize(ii) = 7
  <2>1. HoldsRest(b, m, ii) /\ 4 \in Nat /\ 1 \in Nat
    BY <1>3
  <2> HIDE DEF m
  <2>2. /\ Byte(b, m) = 4 /\ Byte(b, m + 1) = 37 /\ Holds(b, m + 2, Little(ii.displacement, 4))
        /\ Holds(b, m + 2 + 4, Little(ii.immediate, 1)) /\ RestSize(ii) = 2 + 4 + 1
    BY <1>1, <1>5, <2>1, RestParts
  <2>3. m + 2 + 4 = q /\ 2 + 4 + 1 = 7
    BY <1>5
  <2> QED
    BY <2>2, <2>3
<1> DEFINE y == Absolute(a)
<1>7. /\ Place(b, m, 0, Names) = <<y, q>> /\ Place(b, m, 0, ByteNames) = <<y, q>>
      /\ Middle(Byte(b, m)) = 0
  <2>1. Byte(b, m) = 0 * 64 + 0 * 8 + 4 /\ Byte(b, m + 1) = 4 * 8 + 5
    BY <1>6
  <2> HIDE DEF m
  <2> QED
    BY <1>5, <1>6, <2>1, PlaceOfAddress
<1>8. Signed(b, q, 1) = v
  BY <1>5, <1>6, ReadBack1
<1>9. at + Size(ii) = q + 1 /\ Size(ii) <= 16
  <2>1. Size(ii) \in Nat
    BY BytecodeLen
  <2>2. at + Size(ii) = o + 1 + RestSize(ii) /\ Size(ii) <= 3 + RestSize(ii)
    BY <1>3, Zenon
  <2> QED
    BY <1>5, <1>6, <2>1, <2>2
<1> HIDE DEF q, y
<1>10. Opcode(b, o, h, 32, 0, 0) = Instruction("movb", 8, <<Imm(v), y>>, q + 1)
  <2>1. 32 \in {32, 64} /\ 0 \in 0..1 /\ Byte(b, o) = \hc6
    BY <1>3
  <2> QED
    BY <1>5, <1>7, <1>8, <2>1, MovbConstantOpcode DEF m
<1> QED
  BY <1>4, <1>9, <1>10 DEF Found, y

\* and al.
LEMMA AlToMemory ==
  ASSUME NEW b, NEW at \in Int, NEW ii, LowParts(ii, {}, \h88, 6, <<>>, 0, 0),
         Sound(ii), Holds(b, at, Bytecode(ii))
  PROVE  Found(b, at, ii, "movb", 8, <<Reg("al"), Mem("rsi", 0)>>)
<1>1. /\ ii.rex = {} /\ ii.opcode = <<\h88>> /\ ii.modrm = <<6>> /\ ii.sib = <<>>
      /\ ii.disp_size = 0 /\ ii.imm_size = 0
  BY DEF LowParts
<1>2. LowForm(b, at, ii, 32, \h88)
  <2>1. \h88 \in Codes /\ ii.rex \in SUBSET {"W"} /\ Wide(ii.rex) = 32
    BY <1>1 DEF Codes, Wide
  <2> QED
    BY <1>1, <2>1, LowFormRead
<1>3. PICK o \in Int :
        /\ \E h \in BOOLEAN : Decode(b, at) = Opcode(b, o, h, 32, 0, 0) /\ (ii.rex = {} => ~h)
        /\ Byte(b, o) = \h88
        /\ HoldsRest(b, o + 1, ii)
        /\ at + Size(ii) = o + 1 + RestSize(ii)
        /\ Size(ii) <= 3 + RestSize(ii)
  BY <1>2, Zenon DEF LowForm
<1>4. PICK h \in BOOLEAN : Decode(b, at) = Opcode(b, o, h, 32, 0, 0) /\ ~h
  BY <1>1, <1>3
<1> DEFINE m == o + 1
           q == m + 1
<1>5. m \in Int /\ q \in Int
  OBVIOUS
<1>6. Byte(b, m) = 6 /\ RestSize(ii) = 1
  <2>1. HoldsRest(b, m, ii) /\ 0 \in Nat
    BY <1>3
  <2> HIDE DEF m
  <2>2. Byte(b, m) = 6
    BY <1>1, <1>5, <2>1, HoldsFew DEF HoldsRest
  <2>3. RestSize(ii) = Len(<<6>>) + Len(<<>>) + 0 + 0
    BY <1>1 DEF RestSize
  <2> QED
    BY <2>2, <2>3
<1> DEFINE y == Mem("rsi", 0)
<1>7. /\ Place(b, m, 0, Names) = <<y, q>> /\ Place(b, m, 0, ByteNames) = <<y, q>>
      /\ Middle(Byte(b, m)) = 0
  <2>1. Mod(6) = 0 /\ Middle(6) = 0 /\ Low(6) = 6
    BY DEF Mod, Middle, Low
  <2> HIDE DEF m
  <2>2. /\ Place(b, m, 0, Names) = <<Mem(Names[Low(6) + 1 + 8 * 0], 0), m + 1>>
        /\ Place(b, m, 0, ByteNames) = <<Mem(Names[Low(6) + 1 + 8 * 0], 0), m + 1>>
    BY <1>6, <2>1 DEF Place
  <2>3. Names[Low(6) + 1 + 8 * 0] = "rsi"
    BY <2>1, NameList
  <2> QED
    BY <1>6, <2>1, <2>2, <2>3
<1>8. at + Size(ii) = q /\ Size(ii) <= 16
  <2>1. Size(ii) \in Nat
    BY BytecodeLen
  <2>2. at + Size(ii) = o + 1 + RestSize(ii) /\ Size(ii) <= 3 + RestSize(ii)
    BY <1>3, Zenon
  <2> QED
    BY <1>5, <1>6, <2>1, <2>2
<1> HIDE DEF q, y
<1>9. Opcode(b, o, h, 32, 0, 0) = Instruction("movb", 8, <<Reg("al"), y>>, q)
  <2>1. 32 \in {32, 64} /\ 0 \in 0..1 /\ Byte(b, o) = \h88
    BY <1>3
  <2> QED
    BY <1>4, <1>5, <1>7, <2>1, MovbOpcode DEF m
<1> QED
  BY <1>4, <1>8, <1>9 DEF Found, y

\* The address of the data into a register, where the address is in the place of a
\* constant.
LEMMA AddressToRegister ==
  ASSUME NEW b, NEW at \in Int, NEW a, IsWord32(a), NEW reg \in 0..7, NEW ii,
         LowParts(ii, {"W"}, \h8d, 0 * 64 + reg * 8 + 4, <<\h25>>, 0, 4),
         ii.immediate = a, Sound(ii), Holds(b, at, Bytecode(ii))
  PROVE  Found(b, at, ii, "lea", 64, <<Absolute(a), Reg(Names[reg + 1])>>)
<1>1. /\ ii.rex = {"W"} /\ ii.opcode = <<\h8d>> /\ ii.modrm = <<0 * 64 + reg * 8 + 4>>
      /\ ii.sib = <<\h25>> /\ ii.disp_size = 0 /\ ii.imm_size = 4
  BY DEF LowParts
<1>2. LowForm(b, at, ii, 64, \h8d)
  <2>1. \h8d \in Codes /\ ii.rex \in SUBSET {"W"} /\ Wide(ii.rex) = 64
    BY <1>1 DEF Codes, Wide
  <2> QED
    BY <1>1, <2>1, LowFormRead
<1>3. PICK o \in Int :
        /\ \E h \in BOOLEAN : Decode(b, at) = Opcode(b, o, h, 64, 0, 0) /\ (ii.rex = {} => ~h)
        /\ Byte(b, o) = \h8d
        /\ HoldsRest(b, o + 1, ii)
        /\ at + Size(ii) = o + 1 + RestSize(ii)
        /\ Size(ii) <= 3 + RestSize(ii)
  BY <1>2, Zenon DEF LowForm
<1>4. PICK h \in BOOLEAN : Decode(b, at) = Opcode(b, o, h, 64, 0, 0)
  BY <1>3
<1> DEFINE m == o + 1
           q == m + 6
           x == 0 * 64 + reg * 8 + 4
<1>5. m \in Int /\ q \in Int
  OBVIOUS
<1> HIDE DEF x
<1>6. /\ Byte(b, m) = x /\ Byte(b, m + 1) = 4 * 8 + 5 /\ Holds(b, m + 2, Little(a, 4))
      /\ RestSize(ii) = 6
  <2>1. HoldsRest(b, m, ii) /\ 0 \in Nat /\ 4 \in Nat /\ ii.modrm = <<x>>
    BY <1>1, <1>3 DEF x
  <2> HIDE DEF m
  <2>2. /\ Byte(b, m) = x /\ Byte(b, m + 1) = 37
        /\ Holds(b, m + 2 + 0, Little(ii.immediate, 4)) /\ RestSize(ii) = 2 + 0 + 4
    BY <1>1, <1>5, <2>1, RestParts
  <2>3. m + 2 + 0 = m + 2 /\ 2 + 0 + 4 = 6 /\ 37 = 4 * 8 + 5
    BY <1>5
  <2> QED
    BY <2>2, <2>3
<1> DEFINE y == Absolute(a)
<1>7. Place(b, m, 0, Names) = <<y, q>> /\ Middle(Byte(b, m)) = reg
  <2> HIDE DEF m
  <2> QED
    BY <1>5, <1>6, PlaceOfAddress DEF x
<1>8. at + Size(ii) = q /\ Size(ii) <= 16
  <2>1. Size(ii) \in Nat
    BY BytecodeLen
  <2>2. at + Size(ii) = o + 1 + RestSize(ii) /\ Size(ii) <= 3 + RestSize(ii)
    BY <1>3, Zenon
  <2> QED
    BY <1>5, <1>6, <2>1, <2>2
<1> DEFINE r == Reg(Names[reg + 1])
<1>9. r = Reg(Names[reg + 1 + 8 * 0]) /\ reg \in Int
  OBVIOUS
<1> HIDE DEF q, y, r
<1>10. Opcode(b, o, h, 64, 0, 0) = Instruction("lea", 64, <<y, r>>, q)
  <2>1. 64 \in {32, 64} /\ 0 \in 0..1 /\ Byte(b, o) = \h8d
    BY <1>3
  <2>2. \h8d \in DOMAIN ToRegister /\ ToRegister[\h8d] = "lea"
    BY OpcodeSets, OpcodeNames
  <2>3. Opcode(b, o, h, 64, 0, 0) = Instruction(ToRegister[\h8d], 64, <<y, r>>, q)
    BY <1>5, <1>7, <1>9, <2>1, <2>2, ToRegisterOpcodes DEF m
  <2> QED
    BY <2>2, <2>3
<1> QED
  BY <1>4, <1>8, <1>10 DEF Found, y, r

-----------------------------------------------------------------------------
(* Every instruction the CodeEmitter writes.                               *)

\* The address of a name of the data.
DataOperand(s, x) == Absolute(AddressIn(s, x[2]))

LEMMA LowRegister ==
  ASSUME NEW x, IsLowRegister(x)
  PROVE  /\ IsRegister(x) /\ x[1] = "reg" /\ registers[x[2]] \in 0..7
         /\ x = Reg(Names[registers[x[2]] + 1])
         /\ setREXB(x) = {} /\ setREXR(x) = {}
<1>1. PICK n \in 1..8 : x = Reg(Names[n])
  BY DEF IsLowRegister
<1>2. n \in 1..16 /\ x[1] = "reg" /\ x[2] = Names[n]
  BY <1>1 DEF Reg
<1>3. registers[Names[n]] \in 0..7 /\ ~(Names[n] \in extended_registers)
  BY <1>2, RegisterNumber
<1>4. n = registers[Names[n]] + 1
  BY <1>2, <1>3, RegisterNumber
<1> QED
  BY <1>1, <1>2, <1>3, <1>4 DEF IsRegister, setREXB, setREXR

LEMMA LeaFound ==
  ASSUME NEW b, NEW at \in Int, NEW x, IsDataName(x), NEW y, IsLowRegister(y), NEW s,
         IsWord32(AddressIn(s, x[2])), NEW ii, ii = create_lea(x, y, s),
         Sound(ii), Holds(b, at, Bytecode(ii))
  PROVE  Found(b, at, ii, "lea", 64, <<DataOperand(s, x), y>>)
<1> DEFINE a == AddressIn(s, x[2])
           reg == registers[y[2]]
<1>1. x[1] = "symbol"
  BY DEF IsDataName
<1>2. reg \in 0..7 /\ y = Reg(Names[reg + 1])
  BY LowRegister
<1> HIDE DEF reg, a
<1>3. LowParts(ii, {"W"}, \h8d, 0 * 64 + reg * 8 + 4, <<37>>, 0, 4) /\ ii.immediate = a
  <2>1. 4 * 8 + 5 = 37
    OBVIOUS
  <2>2. ii = WithImmediate([Plain(<<\h8d>>) EXCEPT !.rex = {"W"},
               !.modrm = <<0 * 64 + reg * 8 + 4>>, !.sib = <<37>>], a, 4)
    BY <1>1, <2>1 DEF create_lea, get_optype, ModRM, SIB, reg, a
  <2> QED
    BY <2>2 DEF LowParts, WithImmediate, Plain, Blank, Fields
<1>4. Found(b, at, ii, "lea", 64, <<Absolute(a), Reg(Names[reg + 1])>>)
  <2>1. IsWord32(a)
    BY DEF a
  <2> QED
    BY <1>2, <1>3, <2>1, AddressToRegister
<1> QED
  BY <1>2, <1>4 DEF DataOperand, a

LEMMA TestFound ==
  ASSUME NEW b, NEW at \in Int, NEW x, IsLowRegister(x), NEW y, IsLowRegister(y),
         NEW ii, ii = create_test(x, y), Sound(ii), Holds(b, at, Bytecode(ii))
  PROVE  Found(b, at, ii, "test", 64, <<x, y>>)
<1>1. /\ IsRegister(x) /\ IsRegister(y) /\ y[1] = "reg"
      /\ setREXB(y) = {} /\ setREXR(x) = {}
  BY LowRegister
<1>2. PlaceParts(ii, {"W"} \union setREXR(x), \h85, registers[x[2]], y)
  <2>1. {"W"} \union setREXR(x) \union setREXB(y) = {"W"}
    BY <1>1
  <2>2. ii = [Plain(<<\h85>>) EXCEPT !.rex = {"W"},
                                    !.modrm = ModRM(3, registers[x[2]], registers[y[2]])]
    BY DEF create_test
  <2> QED
    BY <1>1, <2>1, <2>2 DEF PlaceParts, Addressed, Plain, Blank, Fields
<1>3. IsPlace(y) /\ \h85 \in DOMAIN FromRegister /\ FromRegister[\h85] = "test"
  BY <1>1, OpcodeSets, OpcodeNames DEF IsPlace
<1>4. Found(b, at, ii, FromRegister[\h85], 64, <<x, y>>)
  BY <1>1, <1>2, <1>3, RegisterAndPlace
<1> QED
  BY <1>3, <1>4

LEMMA PlaceKinds ==
  ASSUME NEW x
  PROVE  /\ IsRegister(x) => x[1] = "reg"
         /\ IsPlace(x) => x[1] = "reg" \/ x[1] = "mem"
         /\ IsPlace(x) /\ x[1] = "reg" => IsRegister(x)
         /\ IsPlace(x) => x[1] # "symbol" /\ x[1] # "imm"
         /\ IsNumber(x) => x[1] = "imm" /\ x = Imm(x[2]) /\ IsWord32(x[2])
<1>1. IsRegister(x) => x[1] = "reg"
  BY DEF IsRegister, Reg
<1>2. IsMemory(x) => x[1] = "mem"
  BY DEF IsMemory
<1>3. "reg" # "mem" /\ "reg" # "symbol" /\ "reg" # "imm" /\ "mem" # "symbol" /\ "mem" # "imm"
  OBVIOUS
<1> QED
  BY <1>1, <1>2, <1>3 DEF IsPlace, IsNumber

\* What stands with two operands, neither of them a symbol.
IsPair(x, y) ==
  /\ IsPlace(x) \/ IsNumber(x)
  /\ IsPlace(y)
  /\ ~(x[1] = "mem" /\ y[1] = "mem")

PairWidth(x, y) == IF x[1] = "imm" /\ y[1] # "reg" THEN 32 ELSE 64

LEMMA PairKinds ==
  ASSUME NEW x, NEW y, IsPair(x, y)
  PROVE  \/ IsNumber(x) /\ x[1] = "imm" /\ IsPlace(y) /\ IsRegister(y) /\ y[1] = "reg"
         \/ IsNumber(x) /\ x[1] = "imm" /\ IsPlace(y) /\ y[1] = "mem"
         \/ IsRegister(x) /\ x[1] = "reg" /\ IsPlace(y) /\ (y[1] = "reg" \/ y[1] = "mem")
         \/ x[1] = "mem" /\ IsPlace(x) /\ IsRegister(y) /\ y[1] = "reg"
<1>1. IsPlace(y) /\ (y[1] = "reg" \/ y[1] = "mem")
  BY PlaceKinds DEF IsPair
<1>2. CASE IsNumber(x)
  BY <1>1, <1>2, PlaceKinds
<1>3. CASE IsPlace(x)
  <2>1. x[1] = "reg" \/ x[1] = "mem"
    BY <1>3, PlaceKinds
  <2>2. CASE x[1] = "reg"
    BY <1>1, <1>3, <2>2, PlaceKinds
  <2>3. CASE x[1] = "mem"
    BY <1>1, <1>3, <2>3, PlaceKinds DEF IsPair
  <2> QED
    BY <2>1, <2>2, <2>3
<1> QED
  BY <1>2, <1>3 DEF IsPair

\* add, sub, xor and cmp,
LEMMA TwoOperandsFound ==
  ASSUME NEW b, NEW at \in Int, NEW x, NEW y, IsPair(x, y), NEW s, NEW name,
         NEW code2 \in DOMAIN FromRegister, FromRegister[code2] = name,
         NEW code3 \in DOMAIN ToRegister, ToRegister[code3] = name,
         NEW ext \in 0..7, Immediates[ext + 1] = name,
         NEW ii, ii = create_2opinstr(x, y, s, \h81, code2, code3, ext),
         Sound(ii), Holds(b, at, Bytecode(ii))
  PROVE  Found(b, at, ii, name, PairWidth(x, y), <<x, y>>)
<1>1. CASE IsNumber(x) /\ x[1] = "imm" /\ IsPlace(y) /\ IsRegister(y) /\ y[1] = "reg"
  <2> DEFINE jj == InRegister({"W"}, \h81, ext, y)
             v == x[2]
  <2>1. ii = WithImmediate(jj, v, 4)
    BY <1>1 DEF create_2opinstr, get_optype
  <2>2. PlaceParts(jj, {"W"}, \h81, ext, y)
    BY <1>1, RegisterFields
  <2> HIDE DEF jj, v
  <2>3. IsWord32(v) /\ x = Imm(v)
    BY <1>1, PlaceKinds DEF v
  <2>4. {"W"} \in SUBSET {"W"} /\ \h81 \in {\h81, \hc7} /\ \h81 = \h81
    OBVIOUS
  <2>5. Found(b, at, ii, Immediates[ext + 1], Wide({"W"}), <<Imm(v), y>>)
    BY <1>1, <2>1, <2>2, <2>3, <2>4, ImmediateAndPlace
  <2>6. Wide({"W"}) = PairWidth(x, y)
    BY <1>1 DEF Wide, PairWidth
  <2> QED
    BY <2>3, <2>5, <2>6
<1>2. CASE IsNumber(x) /\ x[1] = "imm" /\ IsPlace(y) /\ y[1] = "mem"
  <2> DEFINE jj == WithPlace({}, \h81, ext, y, s)
             v == x[2]
  <2>1. ii = WithImmediate(jj, v, 4)
    BY <1>2 DEF create_2opinstr, get_optype
  <2>2. PlaceParts(jj, {}, \h81, ext, y)
    BY <1>2, PlaceFields
  <2> HIDE DEF jj, v
  <2>3. IsWord32(v) /\ x = Imm(v)
    BY <1>2, PlaceKinds DEF v
  <2>4. {} \in SUBSET {"W"} /\ \h81 \in {\h81, \hc7} /\ \h81 = \h81
    OBVIOUS
  <2>5. Found(b, at, ii, Immediates[ext + 1], Wide({}), <<Imm(v), y>>)
    BY <1>2, <2>1, <2>2, <2>3, <2>4, ImmediateAndPlace
  <2>6. Wide({}) = PairWidth(x, y)
    BY <1>2 DEF Wide, PairWidth
  <2> QED
    BY <2>3, <2>5, <2>6
<1>3. CASE IsRegister(x) /\ x[1] = "reg" /\ IsPlace(y) /\ (y[1] = "reg" \/ y[1] = "mem")
  <2>1. ii = WithPlace({"W"} \union setREXR(x), code2, registers[x[2]], y, s)
    BY <1>3 DEF create_2opinstr, get_optype
  <2>2. PlaceParts(ii, {"W"} \union setREXR(x), code2, registers[x[2]], y)
    BY <1>3, <2>1, PlaceFields
  <2>3. Found(b, at, ii, FromRegister[code2], 64, <<x, y>>)
    BY <1>3, <2>2, RegisterAndPlace
  <2>4. 64 = PairWidth(x, y)
    BY <1>3 DEF PairWidth
  <2> QED
    BY <2>3, <2>4
<1>4. CASE x[1] = "mem" /\ IsPlace(x) /\ IsRegister(y) /\ y[1] = "reg"
  <2>1. ii = WithPlace({"W"} \union setREXR(y), code3, registers[y[2]], x, s)
    BY <1>4 DEF create_2opinstr, get_optype
  <2>2. PlaceParts(ii, {"W"} \union setREXR(y), code3, registers[y[2]], x)
    BY <1>4, <2>1, PlaceFields
  <2>3. Found(b, at, ii, ToRegister[code3], 64, <<x, y>>)
    BY <1>4, <2>2, RegisterAndPlace
  <2>4. 64 = PairWidth(x, y)
    BY <1>4 DEF PairWidth
  <2> QED
    BY <2>3, <2>4
<1> QED
  BY <1>1, <1>2, <1>3, <1>4, PairKinds

\* mov,
LEMMA MovFound ==
  ASSUME NEW b, NEW at \in Int, NEW x, NEW y, IsPair(x, y), NEW s,
         NEW ii, ii = create_mov(x, y, s), Sound(ii), Holds(b, at, Bytecode(ii))
  PROVE  Found(b, at, ii, "mov", PairWidth(x, y), <<x, y>>)
<1>1. CASE IsNumber(x) /\ x[1] = "imm" /\ IsPlace(y) /\ IsRegister(y) /\ y[1] = "reg"
  <2> DEFINE v == x[2]
             c == \hb8 + registers[y[2]]
             r == {"W"} \union setREXB(y)
  <2>1. ii = WithImmediate([Plain(<<c>>) EXCEPT !.rex = r], v, 8)
    BY <1>1 DEF create_mov, get_optype
  <2>2. BareParts(ii, r, <<c>>, v, 8)
    <3> HIDE DEF r, c, v
    <3> QED
      BY <2>1, BareFields
  <2>3. IsWord32(v) /\ x = Imm(v)
    BY <1>1, PlaceKinds
  <2> HIDE DEF v
  <2>4. Found(b, at, ii, "mov", 64, <<Imm(v), y>>)
    BY <1>1, <2>2, <2>3, ConstantToRegister
  <2>5. 64 = PairWidth(x, y)
    BY <1>1 DEF PairWidth
  <2> QED
    BY <2>3, <2>4, <2>5
<1>2. CASE IsNumber(x) /\ x[1] = "imm" /\ IsPlace(y) /\ y[1] = "mem"
  <2> DEFINE jj == WithPlace({}, \hc7, 0, y, s)
             v == x[2]
  <2>1. ii = WithImmediate(jj, v, 4)
    BY <1>2 DEF create_mov, get_optype
  <2>2. PlaceParts(jj, {}, \hc7, 0, y)
    BY <1>2, PlaceFields
  <2> HIDE DEF jj, v
  <2>3. IsWord32(v) /\ x = Imm(v)
    BY <1>2, PlaceKinds DEF v
  <2>4. {} \in SUBSET {"W"} /\ \hc7 \in {\h81, \hc7} /\ 0 \in 0..7
    OBVIOUS
  <2>5. Found(b, at, ii, "mov", Wide({}), <<Imm(v), y>>)
    BY <1>2, <2>1, <2>2, <2>3, <2>4, ImmediateAndPlace
  <2>6. Wide({}) = PairWidth(x, y)
    BY <1>2 DEF Wide, PairWidth
  <2> QED
    BY <2>3, <2>5, <2>6
<1>3. CASE IsRegister(x) /\ x[1] = "reg" /\ IsPlace(y) /\ (y[1] = "reg" \/ y[1] = "mem")
  <2>1. ii = WithPlace({"W"} \union setREXR(x), \h89, registers[x[2]], y, s)
    BY <1>3 DEF create_mov, get_optype
  <2>2. PlaceParts(ii, {"W"} \union setREXR(x), \h89, registers[x[2]], y)
    BY <1>3, <2>1, PlaceFields
  <2>3. \h89 \in DOMAIN FromRegister /\ FromRegister[\h89] = "mov"
    BY OpcodeSets, OpcodeNames
  <2>4. Found(b, at, ii, FromRegister[\h89], 64, <<x, y>>)
    BY <1>3, <2>2, <2>3, RegisterAndPlace
  <2>5. 64 = PairWidth(x, y)
    BY <1>3 DEF PairWidth
  <2> QED
    BY <2>3, <2>4, <2>5
<1>4. CASE x[1] = "mem" /\ IsPlace(x) /\ IsRegister(y) /\ y[1] = "reg"
  <2>1. ii = WithPlace({"W"} \union setREXR(y), \h8b, registers[y[2]], x, s)
    BY <1>4 DEF create_mov, get_optype
  <2>2. PlaceParts(ii, {"W"} \union setREXR(y), \h8b, registers[y[2]], x)
    BY <1>4, <2>1, PlaceFields
  <2>3. \h8b \in DOMAIN ToRegister /\ ToRegister[\h8b] = "mov"
    BY OpcodeSets, OpcodeNames
  <2>4. Found(b, at, ii, ToRegister[\h8b], 64, <<x, y>>)
    BY <1>4, <2>2, <2>3, RegisterAndPlace
  <2>5. 64 = PairWidth(x, y)
    BY <1>4 DEF PairWidth
  <2> QED
    BY <2>3, <2>4, <2>5
<1> QED
  BY <1>1, <1>2, <1>3, <1>4, PairKinds

\* movb,
LEMMA MovbFound ==
  ASSUME NEW b, NEW at \in Int, NEW v, IsByte(v), NEW s, NEW ii, Sound(ii),
         Holds(b, at, Bytecode(ii))
  PROVE  /\ \A n \in (1..8) \ {6} :
              ii = create_movb(Imm(v), Mem(Names[n], 0), s)
                => Found(b, at, ii, "movb", 8, <<Imm(v), Mem(Names[n], 0)>>)
         /\ \A y :
              IsDataName(y) /\ IsWord32(AddressIn(s, y[2])) /\ ii = create_movb(Imm(v), y, s)
                => Found(b, at, ii, "movb", 8, <<Imm(v), DataOperand(s, y)>>)
<1>1. ASSUME NEW n \in (1..8) \ {6}, ii = create_movb(Imm(v), Mem(Names[n], 0), s)
      PROVE  Found(b, at, ii, "movb", 8, <<Imm(v), Mem(Names[n], 0)>>)
  <2> DEFINE y == Mem(Names[n], 0)
             x == Imm(v)
             sib == IF n = 5 THEN <<4 * 8 + 4>> ELSE <<>>
  <2>1. x[1] = "imm" /\ x[2] = v /\ y[1] = "mem" /\ y[2] = Names[n]
    BY DEF Imm, Mem
  <2>2. registers[y[2]] = n - 1
    BY <2>1, RegisterNumber
  <2>3. ModRM(0, 0, registers[y[2]]) = <<n - 1>>
    BY <2>2 DEF ModRM
  <2>4. (IF registers[y[2]] = 4 THEN SIB(4) ELSE <<>>) = sib
    BY <2>2 DEF SIB
  <2> HIDE DEF x, y, sib
  <2>5. ii = WithImmediate([Plain(<<\hc6>>) EXCEPT !.modrm = <<n - 1>>, !.sib = sib], v, 1)
    <3>1. ii = create_movb(x, y, s)
      BY <1>1 DEF x, y
    <3>2. get_optype(x) = "IMM" /\ get_optype(y) = "REGADDR"
      BY <2>1 DEF get_optype
    <3> QED
      BY <2>1, <2>3, <2>4, <3>1, <3>2 DEF create_movb
  <2>6. LowParts(ii, {}, \hc6, n - 1, sib, 0, 1) /\ ii.immediate = v
    BY <2>5 DEF LowParts, WithImmediate, Plain, Blank, Fields
  <2> QED
    BY <2>6, ByteToMemory DEF sib
<1>2. ASSUME NEW y, IsDataName(y), IsWord32(AddressIn(s, y[2])), ii = create_movb(Imm(v), y, s)
      PROVE  Found(b, at, ii, "movb", 8, <<Imm(v), DataOperand(s, y)>>)
  <2> DEFINE x == Imm(v)
             a == AddressIn(s, y[2])
  <2>1. x[1] = "imm" /\ x[2] = v /\ y[1] = "symbol"
    BY <1>2 DEF Imm, IsDataName
  <2>2. setREXB(y) = {} /\ ModRM(0, 0, 4) = <<4>> /\ SIB(5) = <<37>>
    BY <2>1 DEF setREXB, ModRM, SIB
  <2>3. IsWord32(a)
    BY <1>2
  <2> HIDE DEF x, a
  <2>4. ii = create_movb(x, y, s)
    BY <1>2 DEF x
  <2>5. get_optype(x) = "IMM" /\ get_optype(y) = "ADDR"
    BY <2>1 DEF get_optype
  <2>6. ii = WithImmediate(WithPlace({}, \hc6, 0, y, s), v, 1)
    BY <2>1, <2>4, <2>5 DEF create_movb
  <2>7. LowParts(ii, {}, \hc6, 4, <<37>>, 4, 1) /\ ii.displacement = a /\ ii.immediate = v
    BY <2>2, <2>5, <2>6 DEF LowParts, WithPlace, WithImmediate, Blank, Fields, a
  <2>8. Found(b, at, ii, "movb", 8, <<Imm(v), Absolute(a)>>)
    BY <2>3, <2>7, ByteToAddress
  <2> QED
    BY <2>8 DEF DataOperand, a
<1> QED
  BY <1>1, <1>2

LEMMA MovbAlFound ==
  ASSUME NEW b, NEW at \in Int, NEW s, NEW ii, ii = create_movb(Reg("al"), Mem("rsi", 0), s),
         Sound(ii), Holds(b, at, Bytecode(ii))
  PROVE  Found(b, at, ii, "movb", 8, <<Reg("al"), Mem("rsi", 0)>>)
<1> DEFINE x == Reg("al")
           y == Mem("rsi", 0)
<1>1. x[1] = "reg" /\ y[1] = "mem" /\ y[2] = "rsi"
  BY DEF Reg, Mem
<1>2. registers["rsi"] = 6
  <2>1. 7 \in 1..16 /\ Names[7] = "rsi"
    BY NameList
  <2> QED
    BY <2>1, RegisterNumber
<1> HIDE DEF x, y
<1>3. get_optype(x) = "REG" /\ get_optype(y) = "REGADDR"
  BY <1>1 DEF get_optype
<1>4. ModRM(0, 0, registers[y[2]]) = <<6>>
  BY <1>1, <1>2 DEF ModRM
<1>5. ii = [Plain(<<\h88>>) EXCEPT !.modrm = <<6>>, !.sib = <<>>]
  BY <1>3, <1>4 DEF create_movb, x, y
<1>6. LowParts(ii, {}, \h88, 6, <<>>, 0, 0)
  BY <1>5 DEF LowParts, Plain, Blank, Fields
<1> QED
  BY <1>6, AlToMemory

\* a register,
LEMMA RegisterOperandFound ==
  ASSUME NEW b, NEW at \in Int, NEW x, IsRegister(x), NEW ii, Sound(ii), Holds(b, at, Bytecode(ii))
  PROVE  /\ ii = create_inc(x) => Found(b, at, ii, "inc", 64, <<x>>)
         /\ ii = create_dec(x) => Found(b, at, ii, "dec", 64, <<x>>)
         /\ ii = create_mul(x) => Found(b, at, ii, "mul", 64, <<x>>)
         /\ ii = create_div(x) => Found(b, at, ii, "div", 64, <<x>>)
         /\ ii = create_neg(x) => Found(b, at, ii, "neg", 64, <<x>>)
<1>1. IsPlace(x) /\ {"W"} \in SUBSET {"W"} /\ Wide({"W"}) = 64
  BY DEF IsPlace, Wide
<1>2. \A c \in {\hf7, \hff} : \A reg \in 0..7 :
        ii = InRegister({"W"}, c, reg, x) => PlaceParts(ii, {"W"}, c, reg, x)
  BY RegisterFields
<1>3. ASSUME ii = create_inc(x) PROVE Found(b, at, ii, "inc", 64, <<x>>)
  <2>1. PlaceParts(ii, {"W"}, \hff, 0, x) /\ 0 \in 0..7 /\ \hff \in {\hf7, \hff, \h8f}
    BY <1>2, <1>3 DEF create_inc
  <2>2. Counting[0 + 1] = "inc"
    BY DEF Counting
  <2>3. Found(b, at, ii, Counting[0 + 1], Wide({"W"}), <<x>>)
    BY <1>1, <2>1, PlaceAlone
  <2> QED
    BY <1>1, <2>2, <2>3
<1>4. ASSUME ii = create_dec(x) PROVE Found(b, at, ii, "dec", 64, <<x>>)
  <2>1. PlaceParts(ii, {"W"}, \hff, 1, x) /\ 1 \in 0..7 /\ \hff \in {\hf7, \hff, \h8f}
    BY <1>2, <1>4 DEF create_dec
  <2>2. Counting[1 + 1] = "dec"
    BY DEF Counting
  <2>3. Found(b, at, ii, Counting[1 + 1], Wide({"W"}), <<x>>)
    BY <1>1, <2>1, PlaceAlone
  <2> QED
    BY <1>1, <2>2, <2>3
<1>5. ASSUME ii = create_mul(x) PROVE Found(b, at, ii, "mul", 64, <<x>>)
  <2>1. PlaceParts(ii, {"W"}, \hf7, 4, x) /\ 4 \in 0..7 /\ \hf7 \in {\hf7, \hff, \h8f}
    BY <1>2, <1>5 DEF create_mul
  <2>2. Unary[4 + 1] = "mul"
    BY DEF Unary
  <2>3. Found(b, at, ii, Unary[4 + 1], Wide({"W"}), <<x>>)
    BY <1>1, <2>1, PlaceAlone
  <2> QED
    BY <1>1, <2>2, <2>3
<1>6. ASSUME ii = create_div(x) PROVE Found(b, at, ii, "div", 64, <<x>>)
  <2>1. PlaceParts(ii, {"W"}, \hf7, 6, x) /\ 6 \in 0..7 /\ \hf7 \in {\hf7, \hff, \h8f}
    BY <1>2, <1>6 DEF create_div
  <2>2. Unary[6 + 1] = "div"
    BY DEF Unary
  <2>3. Found(b, at, ii, Unary[6 + 1], Wide({"W"}), <<x>>)
    BY <1>1, <2>1, PlaceAlone
  <2> QED
    BY <1>1, <2>2, <2>3
<1>7. ASSUME ii = create_neg(x) PROVE Found(b, at, ii, "neg", 64, <<x>>)
  <2>1. PlaceParts(ii, {"W"}, \hf7, 3, x) /\ 3 \in 0..7 /\ \hf7 \in {\hf7, \hff, \h8f}
    BY <1>2, <1>7 DEF create_neg
  <2>2. Unary[3 + 1] = "neg"
    BY DEF Unary
  <2>3. Found(b, at, ii, Unary[3 + 1], Wide({"W"}), <<x>>)
    BY <1>1, <2>1, PlaceAlone
  <2> QED
    BY <1>1, <2>2, <2>3
<1> QED
  BY <1>3, <1>4, <1>5, <1>6, <1>7

\* and a register or a place in memory.
LEMMA PlaceOperandFound ==
  ASSUME NEW b, NEW at \in Int, NEW x, IsPlace(x), NEW s, NEW ii, Sound(ii),
         Holds(b, at, Bytecode(ii))
  PROVE  /\ ii = create_imul(x, s) => Found(b, at, ii, "imulq", 64, <<x>>)
         /\ ii = create_idiv(x, s) => Found(b, at, ii, "idivq", 64, <<x>>)
         /\ ii = create_push(x, s) => Found(b, at, ii, "push", 64, <<x>>)
         /\ ii = create_pop(x, s) => Found(b, at, ii, "pop", 64, <<x>>)
<1>1. {"W"} \in SUBSET {"W"} /\ {} \in SUBSET {"W"} /\ Wide({"W"}) = 64
  BY DEF Wide
<1>2. (x[1] = "reg" /\ IsRegister(x)) \/ x[1] = "mem"
  BY PlaceKinds
<1>3. \A rex, c, reg : ii = WithPlace(rex, c, reg, x, s) => PlaceParts(ii, rex, c, reg, x)
  BY PlaceFields
<1>4. ASSUME ii = create_imul(x, s) PROVE Found(b, at, ii, "imulq", 64, <<x>>)
  <2>1. PlaceParts(ii, {"W"}, \hf7, 5, x) /\ 5 \in 0..7 /\ \hf7 \in {\hf7, \hff, \h8f}
    BY <1>3, <1>4 DEF create_imul
  <2>2. Unary[5 + 1] = "imulq"
    BY DEF Unary
  <2>3. Found(b, at, ii, Unary[5 + 1], Wide({"W"}), <<x>>)
    BY <1>1, <2>1, PlaceAlone
  <2> QED
    BY <1>1, <2>2, <2>3
<1>5. ASSUME ii = create_idiv(x, s) PROVE Found(b, at, ii, "idivq", 64, <<x>>)
  <2>1. PlaceParts(ii, {"W"}, \hf7, 7, x) /\ 7 \in 0..7 /\ \hf7 \in {\hf7, \hff, \h8f}
    BY <1>3, <1>5 DEF create_idiv
  <2>2. Unary[7 + 1] = "idivq"
    BY DEF Unary
  <2>3. Found(b, at, ii, Unary[7 + 1], Wide({"W"}), <<x>>)
    BY <1>1, <2>1, PlaceAlone
  <2> QED
    BY <1>1, <2>2, <2>3
<1>6. ASSUME ii = create_push(x, s) PROVE Found(b, at, ii, "push", 64, <<x>>)
  <2>1. CASE x[1] = "reg" /\ IsRegister(x)
    <3>1. ii = [Plain(<<\h50 + registers[x[2]]>>) EXCEPT !.rex = setREXB(x)]
      BY <1>6, <2>1 DEF create_push, get_optype
    <3>2. BareParts(ii, setREXB(x), <<\h50 + registers[x[2]]>>, 0, 0)
      <4> DEFINE c == <<\h50 + registers[x[2]]>>
      <4> HIDE DEF c
      <4>1. ii = [Plain(c) EXCEPT !.rex = setREXB(x)]
        BY <3>1 DEF c
      <4>2. BareParts(ii, setREXB(x), c, 0, 0)
        BY <4>1, BareFields
      <4> QED
        BY <4>2 DEF c
    <3>3. \h50 \in {\h50, \h58}
      OBVIOUS
    <3> QED
      BY <2>1, <3>2, <3>3, RegisterInOpcode
  <2>2. CASE x[1] = "mem"
    <3>1. PlaceParts(ii, {}, \hff, 6, x) /\ 6 \in 0..7 /\ \hff \in {\hf7, \hff, \h8f}
      BY <1>3, <1>6, <2>2 DEF create_push, get_optype
    <3> QED
      BY <1>1, <3>1, PlaceAlone
  <2> QED
    BY <1>2, <2>1, <2>2
<1>7. ASSUME ii = create_pop(x, s) PROVE Found(b, at, ii, "pop", 64, <<x>>)
  <2>1. CASE x[1] = "reg" /\ IsRegister(x)
    <3>1. ii = [Plain(<<\h58 + registers[x[2]]>>) EXCEPT !.rex = setREXB(x)]
      BY <1>7, <2>1 DEF create_pop, get_optype
    <3>2. BareParts(ii, setREXB(x), <<\h58 + registers[x[2]]>>, 0, 0)
      <4> DEFINE c == <<\h58 + registers[x[2]]>>
      <4> HIDE DEF c
      <4>1. ii = [Plain(c) EXCEPT !.rex = setREXB(x)]
        BY <3>1 DEF c
      <4>2. BareParts(ii, setREXB(x), c, 0, 0)
        BY <4>1, BareFields
      <4> QED
        BY <4>2 DEF c
    <3>3. \h58 \in {\h50, \h58}
      OBVIOUS
    <3> QED
      BY <2>1, <3>2, <3>3, RegisterInOpcode
  <2>2. CASE x[1] = "mem"
    <3>1. PlaceParts(ii, {}, \h8f, 0, x) /\ 0 \in 0..7 /\ \h8f \in {\hf7, \hff, \h8f}
      BY <1>3, <1>7, <2>2 DEF create_pop, get_optype
    <3> QED
      BY <1>1, <3>1, PlaceAlone
  <2> QED
    BY <1>2, <2>1, <2>2
<1> QED
  BY <1>4, <1>5, <1>6, <1>7

LEMMA PushConstantFound ==
  ASSUME NEW b, NEW at \in Int, NEW x, IsNumber(x), NEW s, NEW ii, ii = create_push(x, s),
         Sound(ii), Holds(b, at, Bytecode(ii))
  PROVE  Found(b, at, ii, "push", 64, <<x>>)
<1> DEFINE v == x[2]
<1>1. x[1] = "imm" /\ x = Imm(v) /\ IsWord32(v)
  BY DEF IsNumber
<1> HIDE DEF v
<1>2. ii = WithImmediate(Plain(<<\h68>>), v, 4)
  BY <1>1 DEF create_push, get_optype, v
<1>3. BareParts(ii, {}, <<\h68>>, v, 4)
  BY <1>2, BareFields
<1> QED
  BY <1>1, <1>3, ConstantAlone

\* The operands the processor finds, when the instruction i was made with the table s as
\* ii and stands at place at.
OperandFound(i, x, s, ii, at) ==
  IF IsJump(i) THEN To(at + Size(ii) + ii.immediate)
  ELSE IF x[1] = "symbol" THEN DataOperand(s, x) ELSE x

OperandsFound(i, s, ii, at) == [n \in 1..(Len(i) - 1) |-> OperandFound(i, i[n + 1], s, ii, at)]

LEMMA ListItems ==
  ASSUME NEW f, NEW k, f = [n \in 1..k |-> f[n]]
  PROVE  /\ k = 0 => f = <<>>
         /\ k = 1 => f = <<f[1]>>
         /\ k = 2 => f = <<f[1], f[2]>>
<1>1. k = 0 => f = <<>>
  OBVIOUS
<1>2. k = 1 => f = <<f[1]>>
  OBVIOUS
<1>3. k = 2 => f = <<f[1], f[2]>>
  OBVIOUS
<1> QED
  BY <1>1, <1>2, <1>3

LEMMA OperandLists ==
  ASSUME NEW i, NEW s, NEW ii, NEW at
  PROVE  /\ i = <<i[1]>> => OperandsFound(i, s, ii, at) = <<>>
         /\ i = <<i[1], i[2]>> => OperandsFound(i, s, ii, at) = <<OperandFound(i, i[2], s, ii, at)>>
         /\ i = <<i[1], i[2], i[3]>> =>
              OperandsFound(i, s, ii, at)
                = <<OperandFound(i, i[2], s, ii, at), OperandFound(i, i[3], s, ii, at)>>
<1> DEFINE F(x) == OperandFound(i, x, s, ii, at)
           k == Len(i) - 1
           f == [n \in 1..k |-> F(i[n + 1])]
<1>1. /\ i = <<i[1]>> => k = 0
      /\ i = <<i[1], i[2]>> => k = 1
      /\ i = <<i[1], i[2], i[3]>> => k = 2
  OBVIOUS
<1>2. f = OperandsFound(i, s, ii, at)
  BY DEF OperandsFound
<1> HIDE DEF F, k
<1>3. f = [n \in 1..k |-> f[n]]
  OBVIOUS
<1>4. (k = 1 => f[1] = F(i[2])) /\ (k = 2 => f[1] = F(i[2]) /\ f[2] = F(i[3]))
  OBVIOUS
<1> HIDE DEF f
<1>5. /\ k = 0 => f = <<>>
      /\ k = 1 => f = <<f[1]>>
      /\ k = 2 => f = <<f[1], f[2]>>
  BY <1>3, ListItems
<1> QED
  BY <1>1, <1>2, <1>4, <1>5 DEF F

LEMMA NoJump ==
  ASSUME NEW i, i[1] \in OneOperand \union TwoOperands \union NoOperand
  PROVE  /\ ~IsJump(i)
         /\ \A x, s, ii, at : OperandFound(i, x, s, ii, at)
                                = IF x[1] = "symbol" THEN DataOperand(s, x) ELSE x
<1>1. ~IsJump(i)
  BY JumpNames DEF IsJump, OneOperand, TwoOperands, NoOperand
<1> QED
  BY <1>1 DEF OperandFound

AsWritten(b, at, i, s, ii) == Found(b, at, ii, i[1], Width(i), OperandsFound(i, s, ii, at))

\* mov, add, sub, xor and cmp: two operands, each of them a place or a number.
LEMMA PairFound ==
  ASSUME NEW b, NEW at \in Int, NEW i, i = <<i[1], i[2], i[3]>>,
         i[1] \in {"mov", "add", "sub", "xor", "cmp"}, IsPair(i[2], i[3]), NEW s, NEW o,
         NEW ii, ii = create_instruction(i, s, o), Sound(ii), Holds(b, at, Bytecode(ii))
  PROVE  AsWritten(b, at, i, s, ii)
<1> DEFINE x == i[2]
           y == i[3]
           w == PairWidth(x, y)
<1>1. OperandsFound(i, s, ii, at) = <<x, y>>
  <2>1. i[1] \in OneOperand \union TwoOperands \union NoOperand
    BY DEF TwoOperands
  <2>2. x[1] # "symbol" /\ y[1] # "symbol"
    BY PlaceKinds DEF IsPair
  <2> QED
    BY <2>1, <2>2, NoJump, OperandLists
<1>2. Width(i) = w
  BY DEF Width, PairWidth
<1>3. IsPair(x, y)
  OBVIOUS
<1> HIDE DEF w, x, y
<1>4. CASE i[1] = "mov"
  <2>1. ii = create_mov(x, y, s)
    BY <1>4, Dispatch DEF x, y
  <2> QED
    BY <1>1, <1>2, <1>3, <1>4, <2>1, MovFound DEF w, AsWritten
<1>5. CASE i[1] = "add"
  <2>1. ii = create_2opinstr(x, y, s, \h81, \h01, \h03, 0)
    BY <1>5, Dispatch DEF create_add, x, y
  <2>2. /\ \h01 \in DOMAIN FromRegister /\ FromRegister[\h01] = "add"
        /\ \h03 \in DOMAIN ToRegister /\ ToRegister[\h03] = "add"
    BY OpcodeSets, OpcodeNames
  <2>3. 0 \in 0..7 /\ Immediates[0 + 1] = "add"
    BY DEF Immediates
  <2>4. Found(b, at, ii, "add", PairWidth(x, y), <<x, y>>)
    BY <1>3, <2>1, <2>2, <2>3, TwoOperandsFound
  <2> QED
    BY <1>1, <1>2, <1>5, <2>4 DEF w, AsWritten
<1>6. CASE i[1] = "sub"
  <2>1. ii = create_2opinstr(x, y, s, \h81, \h29, \h2b, 5)
    BY <1>6, Dispatch DEF create_sub, x, y
  <2>2. /\ \h29 \in DOMAIN FromRegister /\ FromRegister[\h29] = "sub"
        /\ \h2b \in DOMAIN ToRegister /\ ToRegister[\h2b] = "sub"
    BY OpcodeSets, OpcodeNames
  <2>3. 5 \in 0..7 /\ Immediates[5 + 1] = "sub"
    BY DEF Immediates
  <2>4. Found(b, at, ii, "sub", PairWidth(x, y), <<x, y>>)
    BY <1>3, <2>1, <2>2, <2>3, TwoOperandsFound
  <2> QED
    BY <1>1, <1>2, <1>6, <2>4 DEF w, AsWritten
<1>7. CASE i[1] = "xor"
  <2>1. ii = create_2opinstr(x, y, s, \h81, \h31, \h33, 6)
    BY <1>7, Dispatch DEF create_xor, x, y
  <2>2. /\ \h31 \in DOMAIN FromRegister /\ FromRegister[\h31] = "xor"
        /\ \h33 \in DOMAIN ToRegister /\ ToRegister[\h33] = "xor"
    BY OpcodeSets, OpcodeNames
  <2>3. 6 \in 0..7 /\ Immediates[6 + 1] = "xor"
    BY DEF Immediates
  <2>4. Found(b, at, ii, "xor", PairWidth(x, y), <<x, y>>)
    BY <1>3, <2>1, <2>2, <2>3, TwoOperandsFound
  <2> QED
    BY <1>1, <1>2, <1>7, <2>4 DEF w, AsWritten
<1>8. CASE i[1] = "cmp"
  <2>1. ii = create_2opinstr(x, y, s, \h81, \h39, \h3b, 7)
    BY <1>8, Dispatch DEF create_cmp, x, y
  <2>2. /\ \h39 \in DOMAIN FromRegister /\ FromRegister[\h39] = "cmp"
        /\ \h3b \in DOMAIN ToRegister /\ ToRegister[\h3b] = "cmp"
    BY OpcodeSets, OpcodeNames
  <2>3. 7 \in 0..7 /\ Immediates[7 + 1] = "cmp"
    BY DEF Immediates
  <2>4. Found(b, at, ii, "cmp", PairWidth(x, y), <<x, y>>)
    BY <1>3, <2>1, <2>2, <2>3, TwoOperandsFound
  <2> QED
    BY <1>1, <1>2, <1>8, <2>4 DEF w, AsWritten
<1> QED
  BY <1>4, <1>5, <1>6, <1>7, <1>8

\* The instructions with one operand.
LEMMA OneOperandFound ==
  ASSUME NEW b, NEW at \in Int, NEW i, i = <<i[1], i[2]>>, NEW s, NEW o,
         \/ i[1] \in {"inc", "dec", "mul", "div", "neg"} /\ IsRegister(i[2])
         \/ i[1] \in {"imulq", "idivq", "push", "pop"} /\ IsPlace(i[2])
         \/ i[1] = "push" /\ IsNumber(i[2]),
         NEW ii, ii = create_instruction(i, s, o), Sound(ii), Holds(b, at, Bytecode(ii))
  PROVE  AsWritten(b, at, i, s, ii)
<1> DEFINE x == i[2]
<1>1. OperandsFound(i, s, ii, at) = <<x>>
  <2>1. i[1] \in OneOperand \union TwoOperands \union NoOperand
    BY DEF OneOperand
  <2>2. x[1] # "symbol"
    BY PlaceKinds DEF IsPlace
  <2> QED
    BY <2>1, <2>2, NoJump, OperandLists
<1>2. Width(i) = 64
  BY DEF Width
<1>3. CASE i[1] \in {"inc", "dec", "mul", "div", "neg"} /\ IsRegister(i[2])
  <2>1. Found(b, at, ii, i[1], 64, <<x>>)
    <3> HIDE DEF x
    <3>1. IsRegister(x)
      BY <1>3 DEF x
    <3>2. CASE i[1] = "inc"
      BY <3>1, <3>2, Dispatch, RegisterOperandFound DEF x
    <3>3. CASE i[1] = "dec"
      BY <3>1, <3>3, Dispatch, RegisterOperandFound DEF x
    <3>4. CASE i[1] = "mul"
      BY <3>1, <3>4, Dispatch, RegisterOperandFound DEF x
    <3>5. CASE i[1] = "div"
      BY <3>1, <3>5, Dispatch, RegisterOperandFound DEF x
    <3>6. CASE i[1] = "neg"
      BY <3>1, <3>6, Dispatch, RegisterOperandFound DEF x
    <3> QED
      BY <1>3, <3>2, <3>3, <3>4, <3>5, <3>6
  <2> QED
    BY <1>1, <1>2, <2>1 DEF AsWritten
<1>4. CASE i[1] \in {"imulq", "idivq", "push", "pop"} /\ IsPlace(i[2])
  <2>1. Found(b, at, ii, i[1], 64, <<x>>)
    <3> HIDE DEF x
    <3>1. IsPlace(x)
      BY <1>4 DEF x
    <3>2. CASE i[1] = "imulq"
      BY <3>1, <3>2, Dispatch, PlaceOperandFound DEF x
    <3>3. CASE i[1] = "idivq"
      BY <3>1, <3>3, Dispatch, PlaceOperandFound DEF x
    <3>4. CASE i[1] = "push"
      BY <3>1, <3>4, Dispatch, PlaceOperandFound DEF x
    <3>5. CASE i[1] = "pop"
      BY <3>1, <3>5, Dispatch, PlaceOperandFound DEF x
    <3> QED
      BY <1>4, <3>2, <3>3, <3>4, <3>5
  <2> QED
    BY <1>1, <1>2, <2>1 DEF AsWritten
<1>5. CASE i[1] = "push" /\ IsNumber(i[2])
  <2>1. ii = create_push(x, s) /\ IsNumber(x)
    BY <1>5, Dispatch
  <2>2. Found(b, at, ii, "push", 64, <<x>>)
    BY <2>1, PushConstantFound
  <2> QED
    BY <1>1, <1>2, <1>5, <2>2 DEF AsWritten
<1> QED
  BY <1>3, <1>4, <1>5

\* Those that are always the same.
LEMMA FixedFound ==
  ASSUME NEW b, NEW at \in Int,
         NEW i \in {<<"cqto">>, <<"syscall">>, <<"ret">>, <<"movzxb", Mem("rsi", 0), Reg("rcx")>>},
         NEW s, NEW o, NEW ii, ii = create_instruction(i, s, o), Sound(ii),
         Holds(b, at, Bytecode(ii))
  PROVE  AsWritten(b, at, i, s, ii)
<1>1. Width(i) = 64 /\ i[1] \in OneOperand \union TwoOperands \union NoOperand
  BY DEF Width, NoOperand, TwoOperands
<1>2. CASE i = <<"cqto">>
  <2>1. i[1] = "cqto" /\ i = <<i[1]>>
    BY <1>2
  <2>2. Found(b, at, ii, "cqto", 64, <<>>)
    BY <2>1, Dispatch, CqtoFound
  <2> QED
    BY <1>1, <2>1, <2>2, OperandLists DEF AsWritten
<1>3. CASE i = <<"syscall">>
  <2>1. i[1] = "syscall" /\ i = <<i[1]>>
    BY <1>3
  <2>2. ii = Plain(<<\h0f, \h05>>)
    BY <2>1, Dispatch DEF create_syscall
  <2>3. Found(b, at, ii, "syscall", 64, <<>>)
    <3> DEFINE c == <<\h0f, \h05>>
    <3>1. ii = Plain(c) /\ c \in {<<\hc3>>, <<\h0f, \h05>>} /\ c = <<\h0f, \h05>>
      BY <2>2
    <3> HIDE DEF c
    <3> QED
      BY <3>1, NothingBare
  <2> QED
    BY <1>1, <2>1, <2>3, OperandLists DEF AsWritten
<1>4. CASE i = <<"ret">>
  <2>1. i[1] = "ret" /\ i = <<i[1]>>
    BY <1>4
  <2>2. ii = Plain(<<\hc3>>)
    BY <2>1, Dispatch DEF create_ret
  <2>3. Found(b, at, ii, "ret", 64, <<>>)
    <3> DEFINE c == <<\hc3>>
    <3>1. ii = Plain(c) /\ c \in {<<\hc3>>, <<\h0f, \h05>>} /\ c = <<\hc3>>
      BY <2>2
    <3> HIDE DEF c
    <3> QED
      BY <3>1, NothingBare
  <2> QED
    BY <1>1, <2>1, <2>3, OperandLists DEF AsWritten
<1>5. CASE i = <<"movzxb", Mem("rsi", 0), Reg("rcx")>>
  <2> DEFINE x == Mem("rsi", 0)
             y == Reg("rcx")
  <2>1. i[1] = "movzxb" /\ i = <<i[1], i[2], i[3]>> /\ i[2] = x /\ i[3] = y
    BY <1>5
  <2>2. x[1] # "symbol" /\ y[1] # "symbol"
    BY DEF Mem, Reg
  <2>3. Found(b, at, ii, "movzxb", 64, <<x, y>>)
    BY <2>1, Dispatch, MovzxbFound
  <2> HIDE DEF x, y
  <2>4. OperandsFound(i, s, ii, at) = <<x, y>>
    BY <1>1, <2>1, <2>2, OperandLists, NoJump
  <2> QED
    BY <1>1, <2>1, <2>3, <2>4 DEF AsWritten
<1> QED
  BY <1>2, <1>3, <1>4, <1>5

\* The jumps and the calls.
LEMMA JumpRead ==
  ASSUME NEW b, NEW at \in Int, NEW i, i = <<i[1], i[2]>>, IsJump(i), NEW s, NEW o,
         NEW ii, ii = create_instruction(i, s, o), IsWord32(ii.immediate),
         Sound(ii), Holds(b, at, Bytecode(ii))
  PROVE  AsWritten(b, at, i, s, ii)
<1> DEFINE name == i[1]
           v == ii.immediate
<1>1. name \in DOMAIN JumpCodes
  BY DEF IsJump
<1>2. Width(i) = 64
  BY <1>1, JumpNames DEF Width
<1>3. OperandsFound(i, s, ii, at) = <<To(at + Size(ii) + v)>>
  BY OperandLists DEF OperandFound
<1>4. ii = WithImmediate(Plain(JumpCodes[name] \o JumpSecondCodes[name]), v, 4)
  <2> DEFINE code == JumpCodes[name] \o JumpSecondCodes[name]
             u == IF i[2][2] \in DOMAIN s
                    THEN s[i[2][2]] - o - (IF JumpSecondCodes[name] = <<>> THEN 5 ELSE 6) ELSE 0
  <2>1. ii = create_jmpinstr(i[2], s, o, JumpCodes[name], JumpSecondCodes[name])
    BY Dispatch
  <2>2. ii = WithImmediate(Plain(code), u, 4)
    BY <2>1 DEF create_jmpinstr
  <2> HIDE DEF code, u
  <2>3. ii.immediate = u
    BY <2>2 DEF WithImmediate, Plain, Blank
  <2> QED
    BY <2>2, <2>3 DEF code
<1> HIDE DEF name, v
<1>5. IsWord32(v)
  BY DEF v
<1>6. Found(b, at, ii, name, 64, <<To(at + Size(ii) + v)>>)
  BY <1>1, <1>4, <1>5, JumpFound
<1> QED
  BY <1>2, <1>3, <1>6 DEF AsWritten, name, v

\* The instructions that use the data, and those that work on bytes.
AddressesFit(s) == \A name \in {"strResult", "buff"} : IsWord32(AddressIn(s, name))

LEMMA LeaAndTestFound ==
  ASSUME NEW b, NEW at \in Int, NEW i, i = <<i[1], i[2], i[3]>>, NEW s, AddressesFit(s), NEW o,
         \/ i[1] = "lea" /\ IsDataName(i[2]) /\ IsLowRegister(i[3])
         \/ i[1] = "test" /\ IsLowRegister(i[2]) /\ IsLowRegister(i[3]),
         NEW ii, ii = create_instruction(i, s, o), Sound(ii), Holds(b, at, Bytecode(ii))
  PROVE  AsWritten(b, at, i, s, ii)
<1> DEFINE x == i[2]
           y == i[3]
<1>1. Width(i) = 64 /\ i[1] \in OneOperand \union TwoOperands \union NoOperand
  BY DEF Width, TwoOperands
<1>2. IsLowRegister(y) /\ y[1] # "symbol"
  BY LowRegister
<1>3. CASE i[1] = "lea" /\ IsDataName(x)
  <2>1. x[1] = "symbol" /\ IsWord32(AddressIn(s, x[2]))
    BY <1>3 DEF IsDataName, AddressesFit
  <2>2. OperandsFound(i, s, ii, at) = <<DataOperand(s, x), y>>
    BY <1>1, <1>2, <2>1, OperandLists, NoJump
  <2>3. ii = create_lea(x, y, s)
    BY <1>3, Dispatch
  <2> HIDE DEF x, y
  <2>4. Found(b, at, ii, "lea", 64, <<DataOperand(s, x), y>>)
    BY <1>2, <1>3, <2>1, <2>3, LeaFound
  <2> QED
    BY <1>1, <1>3, <2>2, <2>4 DEF AsWritten
<1>4. CASE i[1] = "test" /\ IsLowRegister(x)
  <2>1. x[1] # "symbol"
    BY <1>4, LowRegister
  <2>2. OperandsFound(i, s, ii, at) = <<x, y>>
    BY <1>1, <1>2, <2>1, OperandLists, NoJump
  <2>3. ii = create_test(x, y)
    BY <1>4, Dispatch
  <2> HIDE DEF x, y
  <2>4. Found(b, at, ii, "test", 64, <<x, y>>)
    BY <1>2, <1>4, <2>3, TestFound
  <2> QED
    BY <1>1, <1>4, <2>2, <2>4 DEF AsWritten
<1> QED
  BY <1>3, <1>4

LEMMA MovbRead ==
  ASSUME NEW b, NEW at \in Int, NEW i, i = <<i[1], i[2], i[3]>>, i[1] = "movb",
         NEW s, AddressesFit(s), NEW o,
         \/ /\ IsNumber(i[2]) /\ IsByte(i[2][2])
            /\ IsDataName(i[3]) \/ \E n \in (1..8) \ {6} : i[3] = Mem(Names[n], 0)
         \/ i[2] = Reg("al") /\ i[3] = Mem("rsi", 0),
         NEW ii, ii = create_instruction(i, s, o), Sound(ii), Holds(b, at, Bytecode(ii))
  PROVE  AsWritten(b, at, i, s, ii)
<1> DEFINE x == i[2]
           y == i[3]
           v == x[2]
<1>1. Width(i) = 8 /\ i[1] \in OneOperand \union TwoOperands \union NoOperand
  BY DEF Width, TwoOperands
<1>2. ii = create_movb(x, y, s)
  BY Dispatch
<1>3. \A z, n : Mem(z, n)[1] # "symbol" /\ Imm(n)[1] # "symbol" /\ Reg(z)[1] # "symbol"
  BY DEF Mem, Imm, Reg
<1>4. CASE IsNumber(x) /\ IsByte(v) /\ \E n \in (1..8) \ {6} : y = Mem(Names[n], 0)
  <2>1. PICK n \in (1..8) \ {6} : y = Mem(Names[n], 0)
    BY <1>4
  <2>2. x = Imm(v)
    BY <1>4 DEF IsNumber
  <2>3. OperandsFound(i, s, ii, at) = <<x, y>>
    BY <1>1, <1>3, <2>1, <2>2, OperandLists, NoJump
  <2>4. IsByte(v)
    BY <1>4
  <2> HIDE DEF x, y, v
  <2>5. ii = create_movb(Imm(v), Mem(Names[n], 0), s)
    BY <1>2, <2>1, <2>2
  <2>6. Found(b, at, ii, "movb", 8, <<Imm(v), Mem(Names[n], 0)>>)
    BY <2>4, <2>5, MovbFound
  <2> QED
    BY <1>1, <2>1, <2>2, <2>3, <2>6 DEF AsWritten
<1>5. CASE IsNumber(x) /\ IsByte(v) /\ IsDataName(y)
  <2>1. y[1] = "symbol" /\ IsWord32(AddressIn(s, y[2]))
    BY <1>5 DEF IsDataName, AddressesFit
  <2>2. x = Imm(v)
    BY <1>5 DEF IsNumber
  <2>3. OperandsFound(i, s, ii, at) = <<x, DataOperand(s, y)>>
    BY <1>1, <1>3, <2>1, <2>2, OperandLists, NoJump
  <2>4. IsByte(v) /\ IsDataName(y)
    BY <1>5
  <2> HIDE DEF x, y, v
  <2>5. ii = create_movb(Imm(v), y, s)
    BY <1>2, <2>2
  <2>6. Found(b, at, ii, "movb", 8, <<Imm(v), DataOperand(s, y)>>)
    BY <2>1, <2>4, <2>5, MovbFound
  <2> QED
    BY <1>1, <2>2, <2>3, <2>6 DEF AsWritten
<1>6. CASE x = Reg("al") /\ y = Mem("rsi", 0)
  <2>1. OperandsFound(i, s, ii, at) = <<x, y>>
    BY <1>1, <1>3, <1>6, OperandLists, NoJump
  <2> HIDE DEF x, y, v
  <2>2. Found(b, at, ii, "movb", 8, <<x, y>>)
    BY <1>2, <1>6, MovbAlFound
  <2> QED
    BY <1>1, <2>1, <2>2 DEF AsWritten
<1> QED
  BY <1>4, <1>5, <1>6

LEMMA AddbAndCmpbFound ==
  ASSUME NEW b, NEW at \in Int, NEW i, i = <<i[1], i[2], i[3]>>, NEW s, NEW o,
         \/ i[1] = "addb" /\ IsNumber(i[2]) /\ IsByte(i[2][2]) /\ i[3] = Reg("al")
         \/ i[1] = "cmpb" /\ i[2] \in {Imm(10), Imm(45)} /\ i[3] = Reg("cl"),
         NEW ii, ii = create_instruction(i, s, o), Sound(ii), Holds(b, at, Bytecode(ii))
  PROVE  AsWritten(b, at, i, s, ii)
<1> DEFINE x == i[2]
           y == i[3]
           v == x[2]
<1>1. Width(i) = 8 /\ i[1] \in OneOperand \union TwoOperands \union NoOperand
  BY DEF Width, TwoOperands
<1>2. x = Imm(v)
  BY DEF IsNumber, Imm
<1>3. OperandsFound(i, s, ii, at) = <<x, y>>
  <2>1. x[1] # "symbol" /\ y[1] # "symbol"
    BY <1>2 DEF Imm, Reg
  <2> QED
    BY <1>1, <2>1, OperandLists, NoJump
<1>4. CASE i[1] = "addb" /\ IsByte(v) /\ y = Reg("al")
  <2>1. ii = WithImmediate(Plain(<<\h04>>), v, 1) /\ IsByte(v)
    BY <1>4, Dispatch DEF create_addb
  <2> HIDE DEF x, y, v
  <2>2. Found(b, at, ii, "addb", 8, <<Imm(v), Reg("al")>>)
    BY <2>1, ConstantToAl
  <2> QED
    BY <1>1, <1>2, <1>3, <1>4, <2>2 DEF AsWritten
<1>5. CASE i[1] = "cmpb" /\ x \in {Imm(10), Imm(45)} /\ y = Reg("cl")
  <2>1. v \in {10, 45}
    BY <1>5 DEF Imm
  <2>2. ii = create_cmpb(x)
    BY <1>5, Dispatch
  <2> HIDE DEF x, y, v
  <2>3. ii = create_cmpb(Imm(v))
    BY <1>2, <2>2
  <2>4. Found(b, at, ii, "cmpb", 8, <<Imm(v), Reg("cl")>>)
    BY <2>1, <2>3, CmpbFound
  <2> QED
    BY <1>1, <1>2, <1>3, <1>5, <2>4 DEF AsWritten
<1> QED
  BY <1>4, <1>5

\* The same with the operands by themselves.
WrittenForms(i) ==
  \/ /\ i[1] \in {"mov", "add", "sub", "xor", "cmp"} /\ i = <<i[1], i[2], i[3]>>
     /\ IsPlace(i[2]) \/ IsNumber(i[2])
     /\ IsPlace(i[3])
  \/ /\ i = <<i[1], i[2]>>
     /\ \/ i[1] \in {"inc", "dec", "mul", "div", "neg"} /\ IsRegister(i[2])
        \/ i[1] \in {"imulq", "idivq", "push", "pop"} /\ IsPlace(i[2])
        \/ i[1] = "push" /\ IsNumber(i[2])
  \/ i \in {<<"cqto">>, <<"syscall">>, <<"ret">>, <<"movzxb", Mem("rsi", 0), Reg("rcx")>>}
  \/ IsJump(i) /\ i = <<i[1], i[2]>> /\ i[2] = <<"symbol", i[2][2]>>
  \/ /\ i = <<i[1], i[2], i[3]>>
     /\ \/ i[1] = "lea" /\ IsDataName(i[2]) /\ IsLowRegister(i[3])
        \/ i[1] = "test" /\ IsLowRegister(i[2]) /\ IsLowRegister(i[3])
  \/ /\ i = <<i[1], i[2], i[3]>> /\ i[1] = "movb"
     /\ \/ /\ IsNumber(i[2]) /\ IsByte(i[2][2])
           /\ IsDataName(i[3]) \/ \E n \in (1..8) \ {6} : i[3] = Mem(Names[n], 0)
        \/ i[2] = Reg("al") /\ i[3] = Mem("rsi", 0)
  \/ /\ i = <<i[1], i[2], i[3]>>
     /\ \/ i[1] = "addb" /\ IsNumber(i[2]) /\ IsByte(i[2][2]) /\ i[3] = Reg("al")
        \/ i[1] = "cmpb" /\ i[2] \in {Imm(10), Imm(45)} /\ i[3] = Reg("cl")

LEMMA FormsOfWritten ==
  ASSUME NEW i, IsWritten(i)
  PROVE  WrittenForms(i)
<1>1. i = <<"movb", Reg("al"), Mem("rsi", 0)>> =>
        i = <<i[1], i[2], i[3]>> /\ i[1] = "movb" /\ i[2] = Reg("al") /\ i[3] = Mem("rsi", 0)
  <2> DEFINE x == Reg("al")
             y == Mem("rsi", 0)
  <2> HIDE DEF x, y
  <2>1. i = <<"movb", x, y>> => i = <<i[1], i[2], i[3]>> /\ i[1] = "movb" /\ i[2] = x /\ i[3] = y
    OBVIOUS
  <2> QED
    BY <2>1 DEF x, y
<1>2. i[1] = "addb" /\ i = <<i[1], i[2], Reg("al")>> =>
        i = <<i[1], i[2], i[3]>> /\ i[3] = Reg("al")
  <2> DEFINE y == Reg("al")
  <2> HIDE DEF y
  <2>1. i = <<i[1], i[2], y>> => i = <<i[1], i[2], i[3]>> /\ i[3] = y
    OBVIOUS
  <2> QED
    BY <2>1 DEF y
<1>3. i \in {<<"cmpb", Imm(c), Reg("cl")>> : c \in {10, 45}} =>
         /\ i = <<i[1], i[2], i[3]>> /\ i[1] = "cmpb"
         /\ i[2] \in {Imm(10), Imm(45)} /\ i[3] = Reg("cl")
  <2> DEFINE y == Reg("cl")
  <2> HIDE DEF y
  <2> SUFFICES ASSUME i \in {<<"cmpb", Imm(c), y>> : c \in {10, 45}}
               PROVE  /\ i = <<i[1], i[2], i[3]>> /\ i[1] = "cmpb"
                      /\ i[2] \in {Imm(10), Imm(45)} /\ i[3] = y
    BY DEF y
  <2>1. PICK c \in {10, 45} : i = <<"cmpb", Imm(c), y>>
    OBVIOUS
  <2> DEFINE x == Imm(c)
  <2>2. x \in {Imm(10), Imm(45)}
    OBVIOUS
  <2> HIDE DEF x
  <2>3. i = <<"cmpb", x, y>>
    BY <2>1 DEF x
  <2> QED
    BY <2>2, <2>3
<1>4. i = <<i[1], <<"symbol", i[2][2]>>>> =>
        i = <<i[1], i[2]>> /\ i[2] = <<"symbol", i[2][2]>>
  <2> DEFINE y == <<"symbol", i[2][2]>>
  <2> HIDE DEF y
  <2>1. i = <<i[1], y>> => i = <<i[1], i[2]>> /\ i[2] = y
    OBVIOUS
  <2> QED
    BY <2>1 DEF y
<1> QED
  BY <1>1, <1>2, <1>3, <1>4 DEF IsWritten, WrittenForms

\* The processor finds every instruction as it was written.
LEMMA InstructionFound ==
  ASSUME NEW i, IsWritten(i), HasBytes(i), NEW b, NEW at \in Int, NEW s, AddressesFit(s), NEW o,
         NEW ii, ii = create_instruction(i, s, o), IsJump(i) => IsWord32(ii.immediate),
         Sound(ii), Holds(b, at, Bytecode(ii))
  PROVE  AsWritten(b, at, i, s, ii)
<1>1. CASE /\ i[1] \in {"mov", "add", "sub", "xor", "cmp"} /\ i = <<i[1], i[2], i[3]>>
           /\ IsPlace(i[2]) \/ IsNumber(i[2])
           /\ IsPlace(i[3])
  <2>1. IsPair(i[2], i[3])
    BY <1>1 DEF IsPair, HasBytes
  <2> QED
    BY <1>1, <2>1, PairFound
<1>2. CASE /\ i = <<i[1], i[2]>>
           /\ \/ i[1] \in {"inc", "dec", "mul", "div", "neg"} /\ IsRegister(i[2])
              \/ i[1] \in {"imulq", "idivq", "push", "pop"} /\ IsPlace(i[2])
              \/ i[1] = "push" /\ IsNumber(i[2])
  BY <1>2, OneOperandFound
<1>3. CASE i \in {<<"cqto">>, <<"syscall">>, <<"ret">>, <<"movzxb", Mem("rsi", 0), Reg("rcx")>>}
  BY <1>3, FixedFound
<1>4. CASE IsJump(i) /\ i = <<i[1], i[2]>> /\ i[2] = <<"symbol", i[2][2]>>
  BY <1>4, JumpRead
<1>5. CASE /\ i = <<i[1], i[2], i[3]>>
           /\ \/ i[1] = "lea" /\ IsDataName(i[2]) /\ IsLowRegister(i[3])
              \/ i[1] = "test" /\ IsLowRegister(i[2]) /\ IsLowRegister(i[3])
  BY <1>5, LeaAndTestFound
<1>6. CASE /\ i = <<i[1], i[2], i[3]>> /\ i[1] = "movb"
           /\ \/ /\ IsNumber(i[2]) /\ IsByte(i[2][2])
                 /\ IsDataName(i[3]) \/ \E n \in (1..8) \ {6} : i[3] = Mem(Names[n], 0)
              \/ i[2] = Reg("al") /\ i[3] = Mem("rsi", 0)
  BY <1>6, MovbRead
<1>7. CASE /\ i = <<i[1], i[2], i[3]>>
           /\ \/ i[1] = "addb" /\ IsNumber(i[2]) /\ IsByte(i[2][2]) /\ i[3] = Reg("al")
              \/ i[1] = "cmpb" /\ i[2] \in {Imm(10), Imm(45)} /\ i[3] = Reg("cl")
  BY <1>7, AddbAndCmpbFound
<1>8. WrittenForms(i)
  BY FormsOfWritten
<1> QED
  BY <1>1, <1>2, <1>3, <1>4, <1>5, <1>6, <1>7, <1>8 DEF WrittenForms

-----------------------------------------------------------------------------
(* Sizes.                                                                  *)

LEMMA WordBetween ==
  ASSUME NEW v \in Int, NEW w \in Int, IsWord32(w), v <= w, -w <= v
  PROVE  IsWord32(v)
<1> DEFINE v1 == v \div 256
           w1 == w \div 256
           v2 == v1 \div 256
           w2 == w1 \div 256
           v3 == v2 \div 256
           w3 == w2 \div 256
<1>1. v1 \in Int /\ w1 \in Int /\ v1 <= w1 /\ -w1 - 1 <= v1
  OBVIOUS
<1> HIDE DEF v1, w1
<1>2. v2 \in Int /\ w2 \in Int /\ v2 <= w2 /\ -w2 - 1 <= v2
  BY <1>1
<1> HIDE DEF v2, w2
<1>3. v3 \in Int /\ w3 \in Int /\ v3 <= w3 /\ -w3 - 1 <= v3
  BY <1>2
<1>4. w3 \in -128..127
  BY DEF IsWord32, w1, w2
<1> HIDE DEF v3, w3
<1>5. v3 \in -128..127
  BY <1>3, <1>4
<1> QED
  BY <1>5 DEF IsWord32, v1, v2, v3

LEMMA WordZero == IsWord32(0)
<1>1. 0 \div 256 = 0
  OBVIOUS
<1> QED
  BY <1>1 DEF IsWord32

\* Nothing is written for two operands in memory.
LEMMA NoBytesWritten ==
  ASSUME NEW i, ~HasBytes(i), NEW s, NEW o
  PROVE  Size(create_instruction(i, s, o)) = 0
<1> DEFINE x == i[2]
           y == i[3]
           ii == create_instruction(i, s, o)
<1>1. /\ i[1] \in {"mov", "add", "sub", "xor", "cmp"}
      /\ x[1] \in {"mem", "symbol"} /\ y[1] \in {"mem", "symbol"}
  BY DEF HasBytes
<1>2. ii = Blank
  <2>1. get_optype(x) \in {"ADDR", "REGADDR"} /\ get_optype(y) \in {"ADDR", "REGADDR"}
    BY <1>1 DEF get_optype
  <2>2. create_mov(x, y, s) = Blank
    BY <2>1 DEF create_mov
  <2>3. \A c1, c2, c3, ext : create_2opinstr(x, y, s, c1, c2, c3, ext) = Blank
    BY <2>1 DEF create_2opinstr
  <2>4. CASE i[1] = "mov"
    BY <2>2, <2>4, Dispatch
  <2>5. CASE i[1] = "add"
    BY <2>3, <2>5, Dispatch DEF create_add
  <2>6. CASE i[1] = "sub"
    BY <2>3, <2>6, Dispatch DEF create_sub
  <2>7. CASE i[1] = "xor"
    BY <2>3, <2>7, Dispatch DEF create_xor
  <2>8. CASE i[1] = "cmp"
    BY <2>3, <2>8, Dispatch DEF create_cmp
  <2> QED
    BY <1>1, <2>4, <2>5, <2>6, <2>7, <2>8
<1>3. Size(Blank) = Len(<<>>) + Len(<<>>) + Len(<<>>) + Len(<<>>) + 0 + 0
  BY DEF Size, Blank, REX
<1>4. Len(<<>>) = 0
  OBVIOUS
<1> QED
  BY <1>2, <1>3, <1>4

\* Every instruction is shorter than what the processor reads at once.
LEMMA InstructionSmall ==
  ASSUME NEW i, IsWritten(i), IsInstruction(i), IsLine(i)
  PROVE  Size(create_instruction(i, <<>>, 0)) <= 16
<1> DEFINE ii == create_instruction(i, <<>>, 0)
<1>1. CASE ~HasBytes(i)
  BY <1>1, NoBytesWritten
<1>2. CASE HasBytes(i)
  <2>1. Sound(ii)
    BY InstructionShape DEF Alike
  <2>2. IsJump(i) => ii.immediate = 0
    <3> SUFFICES ASSUME IsJump(i) PROVE ii.immediate = 0
      OBVIOUS
    <3>1. ~(i[2][2] \in DOMAIN <<>>)
      OBVIOUS
    <3>2. ii = create_jmpinstr(i[2], <<>>, 0, JumpCodes[i[1]], JumpSecondCodes[i[1]])
      BY Dispatch
    <3>3. ii = WithImmediate(Plain(JumpCodes[i[1]] \o JumpSecondCodes[i[1]]), 0, 4)
      BY <3>1, <3>2 DEF create_jmpinstr
    <3> QED
      BY <3>3 DEF WithImmediate, Plain, Blank
  <2>3. AddressesFit(<<>>)
    <3>1. \A name : ~(name \in DOMAIN <<>>)
      OBVIOUS
    <3> QED
      BY <3>1, WordZero DEF AddressesFit, AddressIn
  <2> DEFINE b == Bytecode(ii)
  <2>4. Holds(b, 1, b)
    <3>1. DOMAIN b = 1..Len(b) /\ Len(b) \in Nat
      <4>1. IsCode(b)
        BY <2>1, BytecodeLen
      <4> HIDE DEF b
      <4> QED
        BY <4>1, LenProperties DEF IsCode
    <3> HIDE DEF b
    <3>2. \A n \in 1..Len(b) : 1 + n - 1 = n /\ Byte(b, n) = b[n]
      BY <3>1 DEF Byte
    <3> QED
      BY <3>2 DEF Holds
  <2>5. AsWritten(b, 1, i, <<>>, ii)
    <3>1. ii = create_instruction(i, <<>>, 0) /\ (IsJump(i) => IsWord32(ii.immediate))
      BY <2>2, WordZero
    <3>2. Holds(b, 1, Bytecode(ii)) /\ 1 \in Int
      BY <2>4
    <3> HIDE DEF ii, b
    <3> QED
      BY <1>2, <2>1, <2>3, <3>1, <3>2, InstructionFound
  <2> QED
    BY <2>5 DEF AsWritten, Found
<1> QED
  BY <1>1, <1>2

-----------------------------------------------------------------------------
(* The invariant: the bytes of every line that has been written are where  *)
(* the first pass put the line.                                            *)

LineWritten(k) ==
  LET ii == create_instruction(text[k], sym_table, offsets[k])
  IN /\ Holds(program_bytecode, offsets[k] + 1, Bytecode(ii))
     /\ offsets[k] + Size(ii) <= Len(program_bytecode)

LinesClose == \A k \in 1..Len(offsets) : offsets[k] <= 16 * (k - 1)

LinesWritten ==
  \A k \in CodeLines : pass = "linked" \/ (pass = "program" /\ k < pos) => LineWritten(k)

BytesInv == DataInv /\ LinesClose /\ LinesWritten

LEMMA InitBytes == Init => BytesInv
<1> SUFFICES ASSUME Init PROVE BytesInv
  OBVIOUS
<1>1. DataInv
  BY InitData
<1>2. offsets = <<>> /\ pass = "symbols"
  BY DEF Init
<1>3. 1..Len(offsets) = {}
  BY <1>2
<1> QED
  BY <1>1, <1>2, <1>3 DEF BytesInv, LinesClose, LinesWritten

LEMMA LineSmall ==
  ASSUME text \in Texts, NEW k \in 1..Len(text)
  PROVE  LineSize(k) \in 0..16
<1>1. LineSize(k) \in Nat
  BY LineSizes
<1>2. CASE IsInstruction(text[k])
  <2>1. IsWritten(text[k]) /\ IsLine(text[k])
    BY <1>2, WrittenAssumption, TextFacts
  <2>2. Size(create_instruction(text[k], <<>>, 0)) <= 16
    BY <1>2, <2>1, InstructionSmall
  <2> QED
    BY <1>1, <1>2, <2>2 DEF LineSize
<1>3. CASE ~IsInstruction(text[k])
  BY <1>3 DEF LineSize
<1> QED
  BY <1>2, <1>3

\* The first pass puts a line at most 16 bytes behind the line before it.
LEMMA OneMoreClose ==
  ASSUME BytesInv, pass = "symbols", pos <= Len(text), offsets' = Append(offsets, curr_offset),
         UNCHANGED text
  PROVE  LinesClose'
<1>1. text \in Texts /\ Len(text) \in Nat /\ Len(offsets) \in Nat /\ PassesInv
  BY TextFacts, LenProperties DEF BytesInv, DataInv, PassesInv, LinesPlaced
<1>2. pos = Len(offsets) + 1 /\ curr_offset = NextOffset(pos)
  BY <1>1 DEF PassesInv, FirstPass
<1>3. /\ Len(offsets') = pos /\ offsets'[pos] = curr_offset
      /\ \A k \in 1..Len(offsets) : offsets'[k] = offsets[k]
  BY <1>1, OneMoreLine
<1>4. curr_offset <= 16 * (pos - 1)
  <2>1. CASE pos = 1
    BY <1>2, <2>1 DEF NextOffset
  <2>2. CASE pos # 1
    <3> DEFINE k == pos - 1
    <3>1. k \in 1..Len(offsets) /\ k \in 1..Len(text) /\ k \in Int /\ pos \in Int /\ pos - 1 = k
      BY <1>1, <1>2, <2>2
    <3> HIDE DEF k
    <3>2. offsets[k] <= 16 * (k - 1) /\ offsets[k] \in Nat
      BY <3>1 DEF BytesInv, LinesClose, DataInv, PassesInv, LinesPlaced
    <3>3. LineSize(k) \in 0..16
      BY <1>1, <3>1, LineSmall
    <3>4. curr_offset = offsets[k] + LineSize(k)
      BY <1>2, <2>2, <3>1 DEF NextOffset
    <3>5. curr_offset <= 16 * k
      <4> DEFINE x == offsets[k]
                 y == LineSize(k)
      <4>1. x \in Nat /\ y \in 0..16 /\ x <= 16 * (k - 1) /\ k \in Int /\ curr_offset = x + y
        BY <3>1, <3>2, <3>3, <3>4
      <4> HIDE DEF x, y
      <4> QED
        BY <4>1
    <3> QED
      BY <3>1, <3>5
  <2> QED
    BY <2>1, <2>2
<1>5. ASSUME NEW k \in 1..Len(offsets)'
      PROVE  offsets'[k] <= 16 * (k - 1)
  <2>1. CASE k = pos
    BY <1>3, <1>4, <2>1
  <2>2. CASE k # pos
    <3>1. k \in 1..Len(offsets)
      BY <1>1, <1>2, <1>3, <2>2
    <3> QED
      BY <1>3, <3>1 DEF BytesInv, LinesClose
  <2> QED
    BY <2>1, <2>2
<1> QED
  BY <1>5 DEF LinesClose

LEMMA CloseStep ==
  ASSUME BytesInv, [Next]_assembler_vars
  PROVE  LinesClose'
<1>1. CASE ReadDirective \/ ReadLabel \/ ReadInstruction \/ ReadData
  <2>1. /\ pass = "symbols" /\ pos <= Len(text) /\ offsets' = Append(offsets, curr_offset)
        /\ UNCHANGED text
    BY <1>1 DEF ReadDirective, ReadLabel, ReadInstruction, ReadData, Reading, Sized
  <2> QED
    BY <2>1, OneMoreClose
<1>2. CASE SkipToken \/ WriteInstruction \/ Link \/ UNCHANGED assembler_vars
  <2>1. UNCHANGED offsets
    BY <1>2 DEF SkipToken, WriteInstruction, Link, assembler_vars
  <2> QED
    BY <2>1 DEF BytesInv, LinesClose
<1> QED
  BY <1>1, <1>2 DEF Next

\* What is appended stands behind what was there, and nothing before it changes.
LEMMA HoldsAppended ==
  ASSUME NEW p, IsCode(p), NEW c, IsCode(c)
  PROVE  /\ Holds(p \o c, Len(p) + 1, c)
         /\ \A at \in Nat \ {0} : \A s :
              Len(s) \in Nat /\ at - 1 + Len(s) <= Len(p) /\ Holds(p, at, s)
                => Holds(p \o c, at, s)
<1> DEFINE S == Range(p) \union Range(c)
           b == p \o c
<1>1. p \in Seq(S) /\ c \in Seq(S)
  BY SeqMonotonic DEF IsCode
<1> HIDE DEF S
<1>2. /\ b \in Seq(S) /\ Len(b) = Len(p) + Len(c) /\ Len(p) \in Nat /\ Len(c) \in Nat
      /\ \A n \in 1..(Len(p) + Len(c)) : b[n] = IF n <= Len(p) THEN p[n] ELSE c[n - Len(p)]
  BY <1>1, ConcatProperties, LenProperties
<1> HIDE DEF b
<1>3. DOMAIN b = 1..(Len(p) + Len(c)) /\ DOMAIN p = 1..Len(p)
  BY <1>1, <1>2, LenProperties
<1>4. Holds(b, Len(p) + 1, c)
  <2> SUFFICES ASSUME NEW n \in 1..Len(c) PROVE Byte(b, Len(p) + 1 + n - 1) = c[n]
    BY DEF Holds
  <2> DEFINE m == Len(p) + 1 + n - 1
  <2>1. m \in 1..(Len(p) + Len(c)) /\ ~(m <= Len(p)) /\ m - Len(p) = n
    BY <1>2
  <2> HIDE DEF m
  <2>2. Byte(b, m) = c[n]
    BY <1>2, <1>3, <2>1 DEF Byte
  <2> QED
    BY <2>2 DEF m
<1>5. ASSUME NEW at \in Nat \ {0}, NEW s, Len(s) \in Nat, at - 1 + Len(s) <= Len(p), Holds(p, at, s)
      PROVE  Holds(b, at, s)
  <2> SUFFICES ASSUME NEW n \in 1..Len(s) PROVE Byte(b, at + n - 1) = s[n]
    BY DEF Holds
  <2> DEFINE m == at + n - 1
  <2>1. m \in 1..Len(p) /\ m \in 1..(Len(p) + Len(c)) /\ m <= Len(p)
    BY <1>2, <1>5
  <2>2. Byte(p, m) = s[n]
    BY <1>5 DEF Holds
  <2> HIDE DEF m
  <2>3. Byte(b, m) = Byte(p, m)
    BY <1>2, <1>3, <2>1 DEF Byte
  <2> QED
    BY <2>2, <2>3 DEF m
<1> QED
  BY <1>4, <1>5 DEF b

LEMMA WriteInstructionKeeps ==
  ASSUME BytesInv, WriteInstruction
  PROVE  LinesWritten'
<1> DEFINE ii == create_instruction(text[pos], sym_table, curr_offset)
           new == Bytecode(ii)
<1>1. /\ pass = "program" /\ pos <= Len(text) /\ pos' = pos + 1 /\ IsInstruction(text[pos])
      /\ program_bytecode' = program_bytecode \o new
      /\ UNCHANGED <<text, pass, sym_table, offsets>>
  BY DEF WriteInstruction, Reading, Line
<1>2. /\ text \in Texts /\ Len(text) \in Nat /\ Len(offsets) \in 1..Len(text)
      /\ pos \in 1..(Len(text) + 1) /\ IsCode(program_bytecode)
      /\ Len(program_bytecode) = curr_offset /\ curr_offset \in Nat
      /\ pos <= Len(offsets) => curr_offset = offsets[pos]
  BY <1>1, TextFacts DEF BytesInv, DataInv, PassesInv, SecondPass
<1>3. Sound(ii)
  <2>1. pos \in 1..Len(text)
    BY <1>1, <1>2
  <2> QED
    BY <1>1, <1>2, <2>1, LineSizes
<1>4. IsCode(new) /\ Len(new) = Size(ii) /\ Size(ii) \in Nat
  BY <1>3, BytecodeLen
<1>5. Len(program_bytecode') = curr_offset + Size(ii)
  <2> HIDE DEF new, ii
  <2> QED
    BY <1>1, <1>2, <1>4, CodeConcat
<1>6. CodeLines' = CodeLines /\ (pass # "linked")' /\ \A k \in CodeLines : k \in 1..Len(offsets)
  BY <1>1 DEF CodeLines
<1>7. ASSUME NEW k \in CodeLines, k < pos
      PROVE  LineWritten(k)'
  <2> DEFINE old == create_instruction(text[k], sym_table, offsets[k])
  <2>1. /\ Holds(program_bytecode, offsets[k] + 1, Bytecode(old))
        /\ offsets[k] + Size(old) <= Len(program_bytecode)
    BY <1>1, <1>7 DEF BytesInv, LinesWritten, LineWritten
  <2>2. offsets[k] \in Nat
    BY <1>6 DEF BytesInv, DataInv, PassesInv, LinesPlaced
  <2>3. Sound(old)
    <3>1. k \in 1..Len(text) /\ IsInstruction(text[k])
      BY <1>2 DEF CodeLines
    <3> QED
      BY <1>2, <3>1, LineSizes
  <2> HIDE DEF old, new, ii
  <2>4. Len(Bytecode(old)) = Size(old) /\ Size(old) \in Nat
    BY <2>3, BytecodeLen
  <2> DEFINE at == offsets[k] + 1
  <2>5. at \in Nat \ {0} /\ at - 1 + Len(Bytecode(old)) <= Len(program_bytecode)
    BY <1>2, <2>1, <2>2, <2>4
  <2>6. Holds(program_bytecode, at, Bytecode(old))
    BY <2>1
  <2> HIDE DEF at
  <2>7. Holds(program_bytecode', at, Bytecode(old))
    BY <1>1, <1>2, <1>4, <2>4, <2>5, <2>6, HoldsAppended
  <2>8. offsets[k] + Size(old) <= Len(program_bytecode')
    BY <1>2, <1>4, <1>5, <2>1, <2>2, <2>4
  <2> QED
    BY <1>1, <2>7, <2>8 DEF LineWritten, old, at
<1>8. ASSUME NEW k \in CodeLines, k = pos
      PROVE  LineWritten(k)'
  <2>1. curr_offset = offsets[k] /\ ii = create_instruction(text[k], sym_table, offsets[k])
    BY <1>2, <1>6, <1>8
  <2> HIDE DEF new
  <2>2. Holds(program_bytecode', curr_offset + 1, new)
    <3> HIDE DEF ii
    <3> QED
      BY <1>1, <1>2, <1>4, HoldsAppended
  <2>3. curr_offset + Size(ii) <= Len(program_bytecode')
    <3> HIDE DEF ii
    <3> QED
      BY <1>2, <1>4, <1>5
  <2> HIDE DEF ii
  <2> QED
    BY <1>1, <2>1, <2>2, <2>3 DEF LineWritten, new
<1>9. \A k \in CodeLines : k < pos + 1 => k < pos \/ k = pos
  BY <1>2, <1>6
<1> QED
  BY <1>1, <1>6, <1>7, <1>8, <1>9 DEF LinesWritten

LEMMA WrittenStep ==
  ASSUME BytesInv, [Next]_assembler_vars
  PROVE  LinesWritten'
<1>1. CASE ReadDirective \/ ReadLabel \/ ReadInstruction
  <2>1. pass' = "symbols"
    BY <1>1 DEF ReadDirective, ReadLabel, ReadInstruction, Reading
  <2> QED
    BY <2>1 DEF LinesWritten
<1>2. CASE ReadData
  <2>1. pass' = "program" /\ pos' = 1
    BY <1>2 DEF ReadData
  <2>2. \A k \in CodeLines' : ~(k < 1)
    <3>1. Len(offsets)' \in Nat
      BY <1>2, NextData, LenProperties DEF BytesInv, DataInv, PassesInv, LinesPlaced
    <3> QED
      BY <3>1 DEF CodeLines
  <2> QED
    BY <2>1, <2>2 DEF LinesWritten
<1>3. CASE SkipToken
  <2>1. /\ pass = "program" /\ pos' = pos + 1 /\ text[pos][1] \in {"directive", "label", "token"}
        /\ UNCHANGED <<text, pass, sym_table, program_bytecode, offsets>>
    BY <1>3 DEF SkipToken, Reading, Line
  <2>2. Len(offsets) \in Nat /\ pos \in Int
    BY <2>1, TextFacts DEF BytesInv, DataInv, PassesInv, SecondPass
  <2>3. ~(pos \in CodeLines) /\ \A k \in CodeLines : k \in Int
    BY <2>1, <2>2, Kinds DEF CodeLines
  <2>4. \A k \in CodeLines : k < pos + 1 => k < pos
    BY <2>2, <2>3
  <2> QED
    BY <2>1, <2>4 DEF BytesInv, LinesWritten, LineWritten, CodeLines
<1>4. CASE WriteInstruction
  BY <1>4, WriteInstructionKeeps
<1>5. CASE Link
  <2>1. /\ pass = "program" /\ pos > Len(text)
        /\ UNCHANGED <<text, pos, sym_table, program_bytecode, offsets>>
    BY <1>5 DEF Link
  <2>2. /\ Len(offsets) \in 1..Len(text) /\ Len(text) \in Nat /\ pos \in 1..(Len(text) + 1)
    BY <2>1, TextFacts DEF BytesInv, DataInv, PassesInv, SecondPass
  <2>3. \A k \in CodeLines : k < pos
    BY <2>1, <2>2 DEF CodeLines
  <2> QED
    BY <2>1, <2>3 DEF BytesInv, LinesWritten, LineWritten, CodeLines
<1>6. CASE UNCHANGED assembler_vars
  BY <1>6 DEF assembler_vars, BytesInv, LinesWritten, LineWritten, CodeLines
<1> QED
  BY <1>1, <1>2, <1>3, <1>4, <1>5, <1>6 DEF Next

LEMMA NextBytes == BytesInv /\ [Next]_assembler_vars => BytesInv'
<1> SUFFICES ASSUME BytesInv, [Next]_assembler_vars PROVE BytesInv'
  OBVIOUS
<1>1. DataInv'
  BY NextData DEF BytesInv
<1> QED
  BY <1>1, CloseStep, WrittenStep DEF BytesInv

\* The names an instruction uses, except in a jump, are those of the data.
LEMMA NamesOfData ==
  ASSUME NEW i, IsWritten(i), ~IsJump(i), NEW n \in 1..(Len(i) - 1), i[n + 1][1] = "symbol"
  PROVE  IsDataName(i[n + 1])
<1> DEFINE a == <<i[1]>>
           b == <<i[1], i[2]>>
           c == <<i[1], i[2], i[3]>>
           k == Len(i)
<1>0. Len(a) = 1 /\ Len(b) = 2 /\ Len(c) = 3
  OBVIOUS
<1>a. n \in 1..(k - 1)
  OBVIOUS
<1>b. (i = a => k = 1) /\ (i = b => k = 2) /\ (i = c => k = 3)
  BY <1>0
<1> HIDE DEF a, b, c, k
<1>1. i # a
  BY <1>a, <1>b
<1>2. i = b => n = 1
  BY <1>a, <1>b
<1>3. i = c => n \in {1, 2}
  BY <1>a, <1>b
<1> USE DEF a, b, c
<1>4. \A x : /\ IsPlace(x) \/ IsNumber(x) \/ IsLowRegister(x) => x[1] # "symbol"
             /\ \A r, d : x = Reg(r) \/ x = Imm(d) \/ x = Mem(r, d) => x[1] # "symbol"
  BY PlaceKinds, LowRegister DEF Reg, Imm, Mem
<1>5. IsRegister(i[2]) => IsPlace(i[2])
  BY DEF IsPlace
<1>6. WrittenForms(i)
  BY FormsOfWritten
<1>7. CASE i \in {<<"cqto">>, <<"syscall">>, <<"ret">>, <<"movzxb", Mem("rsi", 0), Reg("rcx")>>}
  <2> DEFINE x == Mem("rsi", 0)
             y == Reg("rcx")
  <2>1. x[1] # "symbol" /\ y[1] # "symbol"
    BY <1>4
  <2> HIDE DEF x, y
  <2>2. i \in {<<"cqto">>, <<"syscall">>, <<"ret">>} => i = <<i[1]>>
    OBVIOUS
  <2>3. i = <<"movzxb", x, y>> => i = <<i[1], i[2], i[3]>> /\ i[2] = x /\ i[3] = y
    OBVIOUS
  <2>4. i \in {<<"cqto">>, <<"syscall">>, <<"ret">>} \/ i = <<"movzxb", x, y>>
    BY <1>7 DEF x, y
  <2> QED
    BY <1>1, <1>3, <2>1, <2>2, <2>3, <2>4
<1>8. CASE i = <<i[1], i[2]>>
  <2>1. i[2][1] = "symbol" /\ i[n + 1] = i[2]
    BY <1>2, <1>8
  <2>2. i # <<i[1], i[2], i[3]>>
    <3>1. Len(i) = 2
      BY <1>8
    <3>2. Len(<<i[1], i[2], i[3]>>) = 3
      OBVIOUS
    <3> QED
      BY <3>1, <3>2
  <2> QED
    BY <1>4, <1>5, <1>6, <1>7, <2>1, <2>2 DEF WrittenForms
<1>9. CASE i = <<i[1], i[2], i[3]>>
  <2>1. i # <<i[1], i[2]>>
    <3>1. Len(i) = 3
      BY <1>9
    <3>2. Len(<<i[1], i[2]>>) = 2
      OBVIOUS
    <3> QED
      BY <3>1, <3>2
  <2>2. (n = 1 /\ i[n + 1] = i[2]) \/ (n = 2 /\ i[n + 1] = i[3])
    BY <1>3, <1>9
  <2>3. CASE i \notin {<<"cqto">>, <<"syscall">>, <<"ret">>,
                         <<"movzxb", Mem("rsi", 0), Reg("rcx")>>}
    <3>1. \/ IsPlace(i[2]) \/ IsNumber(i[2]) \/ IsDataName(i[2]) \/ IsLowRegister(i[2])
          \/ \E r, d : i[2] = Reg(r) \/ i[2] = Imm(d) \/ i[2] = Mem(r, d)
      BY <1>6, <2>1, <2>3 DEF WrittenForms
    <3>2. \/ IsPlace(i[3]) \/ IsNumber(i[3]) \/ IsDataName(i[3]) \/ IsLowRegister(i[3])
          \/ \E r, d : i[3] = Reg(r) \/ i[3] = Imm(d) \/ i[3] = Mem(r, d)
      BY <1>6, <2>1, <2>3 DEF WrittenForms
    <3>3. i[2][1] = "symbol" => IsDataName(i[2])
      BY <1>4, <3>1
    <3>4. i[3][1] = "symbol" => IsDataName(i[3])
      BY <1>4, <3>2
    <3> QED
      BY <2>2, <3>3, <3>4
  <2> QED
    BY <1>7, <2>3
<1> QED
  BY <1>6, <1>7, <1>8, <1>9 DEF WrittenForms

\* When everything is written,
LEMMA AddressesFound ==
  ASSUME BytesInv, pass = "linked"
  PROVE  /\ AddressesFit(sym_table)
         /\ \A s \in {"strResult", "buff"} : AddressIn(sym_table, s) = DataAddress(s)
<1> DEFINE W == VADDR_START + 2 * PageSize + 16 * Len(text) + DataSize
<1>1. text \in Texts /\ Len(text) \in Nat /\ PassesInv /\ DataInv
  BY TextFacts DEF BytesInv, DataInv, PassesInv
<1>2. IsWord32(W) /\ W \in Nat
  BY <1>1, WrittenAssumption, LayoutAssumption, SizeAssumption
<1>3. /\ Len(offsets) \in 1..Len(text) /\ CodeEnd \in Nat /\ CodeEnd <= 16 * Len(text)
  <2>1. Len(offsets) \in 1..Len(text)
    BY <1>1 DEF DataInv, DataPlaced
  <2> DEFINE d == Len(offsets)
  <2>2. d \in 1..d /\ d \in Nat
    BY <1>1, <2>1
  <2>3. offsets[d] \in Nat /\ offsets[d] <= 16 * (d - 1)
    BY <1>1, <2>2 DEF BytesInv, LinesClose, PassesInv, LinesPlaced
  <2> DEFINE x == offsets[d]
  <2>4. d <= Len(text)
    BY <1>1, <2>1
  <2> HIDE DEF d, x
  <2>5. x <= 16 * Len(text)
    BY <1>1, <2>2, <2>3, <2>4 DEF x
  <2> QED
    BY <2>1, <2>3, <2>5 DEF CodeEnd, d, x
<1>4. Padding(CodeEnd) \in 1..PageSize
  BY <1>3, PaddingFillsPage
<1>5. ASSUME NEW s \in {"strResult", "buff"}
      PROVE  IsWord32(AddressIn(sym_table, s))
  <2> DEFINE pad == Padding(CodeEnd)
             a == VADDR_START + PageSize + (CodeEnd + pad + (IF s = "buff" THEN StrSize ELSE 0))
  <2>1. AddressIn(sym_table, s) = a
    BY <1>1, <1>3, <1>4, SizeAssumption, LayoutAssumption DEF DataInv, DataPlaced, AddressIn
  <2>2. a \in Nat /\ a <= W
    <3> HIDE DEF pad
    <3>1. pad \in 1..PageSize
      BY <1>4 DEF pad
    <3> QED
      BY <1>1, <1>3, <3>1, SizeAssumption, LayoutAssumption
  <2> HIDE DEF a, W
  <2>3. IsWord32(a)
    BY <1>2, <2>2, WordBetween
  <2> QED
    BY <2>1, <2>3
<1>6. \A s \in {"strResult", "buff"} : AddressIn(sym_table, s) = DataAddress(s)
  BY <1>1, DataFromInv DEF DataLoaded
<1> QED
  BY <1>5, <1>6 DEF AddressesFit

\* a line of code ends where the next line begins,
LEMMA NextLine ==
  ASSUME BytesInv, pass = "linked", NEW k \in CodeLines
  PROVE  /\ k \in 1..Len(text) /\ k \in 1..Len(offsets) /\ k + 1 \in 1..Len(offsets)
         /\ offsets[k] \in Nat /\ offsets[k + 1] \in Nat
         /\ offsets[k + 1] = offsets[k] + LineSize(k)
         /\ offsets[k + 1] <= 16 * Len(text) /\ Len(text) \in Nat
<1>1. text \in Texts /\ Len(text) \in Nat /\ PassesInv /\ DataInv
  BY TextFacts DEF BytesInv, DataInv, PassesInv
<1>2. Len(offsets) \in 1..Len(text) /\ IsData(text[Len(offsets)])
  BY <1>1 DEF DataInv, DataPlaced
<1>3. k \in 1..Len(offsets) /\ IsInstruction(text[k])
  BY DEF CodeLines
<1>4. k # Len(offsets)
  BY <1>2, <1>3, Kinds
<1>5. k \in 1..Len(text) /\ k + 1 \in 1..Len(offsets) /\ k \in Int /\ k + 1 # 1 /\ k + 1 - 1 = k
  BY <1>1, <1>2, <1>3, <1>4
<1>6. offsets[k] \in Nat /\ offsets[k + 1] \in Nat /\ offsets[k + 1] = NextOffset(k + 1)
  BY <1>1, <1>3, <1>5 DEF PassesInv, LinesPlaced
<1>7. offsets[k + 1] = offsets[k] + LineSize(k)
  BY <1>5, <1>6 DEF NextOffset
<1>8. offsets[k + 1] <= 16 * Len(text)
  <2>1. offsets[k + 1] <= 16 * (k + 1 - 1)
    BY <1>5 DEF BytesInv, LinesClose
  <2>2. k <= Len(text)
    BY <1>1, <1>5
  <2> DEFINE x == offsets[k + 1]
  <2>3. x \in Nat /\ x <= 16 * k
    BY <1>5, <1>6, <2>1
  <2> HIDE DEF x
  <2>4. x <= 16 * Len(text)
    BY <1>1, <1>5, <2>2, <2>3
  <2> QED
    BY <2>4 DEF x
<1> QED
  BY <1>1, <1>3, <1>5, <1>6, <1>7, <1>8

\* and a jump has the distance to its label.
LEMMA JumpMeant ==
  ASSUME BytesInv, pass = "linked", NEW k \in CodeLines, IsJump(text[k]),
         NEW ii, ii = create_instruction(text[k], sym_table, offsets[k])
  PROVE  LET l == text[k][2][2] IN
         /\ HasLabel(l) /\ IsWord32(ii.immediate)
         /\ offsets[k] + 1 + Size(ii) + ii.immediate = PlaceOf(LabelLine(l))
<1> DEFINE l == text[k][2][2]
           m == LabelLine(l)
<1>1. /\ text \in Texts /\ PassesInv /\ DataInv /\ IsInstruction(text[k])
  BY DEF BytesInv, DataInv, PassesInv, CodeLines
<1>2. /\ k \in 1..Len(text) /\ offsets[k] \in Nat /\ offsets[k + 1] = offsets[k] + LineSize(k)
      /\ offsets[k + 1] \in Nat /\ offsets[k + 1] <= 16 * Len(text) /\ Len(text) \in Nat
  BY NextLine
<1>3. HasLabel(l)
  <2>1. PICK j \in 1..Len(text) : text[j] = <<"label", l>>
    BY <1>1, <1>2, WrittenAssumption
  <2>2. text[j][1] = "label" /\ text[j][2] = l
    BY <2>1
  <2> QED
    BY <2>2 DEF HasLabel, IsLabel
<1>4. m \in 1..Len(text) /\ text[m][1] = "label" /\ text[m][2] = l
  BY <1>3 DEF HasLabel, LabelLine, IsLabel
<1>5. Len(offsets) \in 1..Len(text) /\ IsData(text[Len(offsets)])
  BY <1>1 DEF DataInv, DataPlaced
<1> HIDE DEF m
<1>6. m \in 1..Len(offsets)
  <2>1. ~(m > Len(offsets))
    BY <1>1, <1>4, <1>5, BehindData
  <2> QED
    BY <1>2, <1>4, <1>5, <2>1
<1>7. l \in DOMAIN sym_table /\ sym_table[l] = offsets[m] /\ offsets[m] \in Nat
  BY <1>1, <1>4, <1>6 DEF PassesInv, LabelsPlaced, LinesPlaced
<1>8. offsets[m] <= 16 * Len(text)
  <2>1. offsets[m] <= 16 * (m - 1)
    BY <1>6 DEF BytesInv, LinesClose
  <2> DEFINE x == offsets[m]
  <2>2. x \in Nat /\ x <= 16 * (m - 1) /\ m \in Int /\ m <= Len(text)
    BY <1>2, <1>4, <1>7, <2>1
  <2> HIDE DEF x
  <2>3. x <= 16 * Len(text)
    BY <1>2, <2>2
  <2> QED
    BY <2>3 DEF x
<1>9. ii.immediate = offsets[m] - offsets[k] - Size(ii) /\ Size(ii) \in {5, 6}
  BY <1>7, JumpSize
<1>10. Size(ii) = LineSize(k)
  BY <1>1, <1>2, LineSizes
<1> DEFINE n == offsets[m]
           p == offsets[k]
           q == offsets[k + 1]
           z == Size(ii)
           v == ii.immediate
           W == VADDR_START + 2 * PageSize + 16 * Len(text) + DataSize
<1>11. n \in Nat /\ p \in Nat /\ q = p + z /\ z \in {5, 6} /\ v = n - p - z
  BY <1>2, <1>7, <1>9, <1>10
<1>12. n <= 16 * Len(text) /\ q <= 16 * Len(text)
  BY <1>2, <1>8
<1>13. IsWord32(W)
  BY <1>1, WrittenAssumption
<1>14. VADDR_START \in Nat /\ PageSize \in Nat /\ DataSize \in Nat /\ Len(text) \in Nat
  BY <1>2, LayoutAssumption, SizeAssumption
<1> HIDE DEF n, p, q, z, v
<1>15. v \in Int /\ W \in Int /\ v <= W /\ -W <= v /\ p + 1 + z + v = n + 1
  BY <1>11, <1>12, <1>14
<1> HIDE DEF W
<1>16. IsWord32(v)
  BY <1>13, <1>15, WordBetween
<1> QED
  BY <1>3, <1>15, <1>16 DEF PlaceOf, n, p, z, v, m

\* A jump names its label and has no other operand.
LEMMA JumpForm ==
  ASSUME NEW i, IsWritten(i), IsJump(i)
  PROVE  Len(i) = 2 /\ i[2][1] = "symbol"
<1>1. i[1] \in DOMAIN JumpCodes
  BY DEF IsJump
<1>2. i = <<i[1], <<"symbol", i[2][2]>>>>
  <2> DEFINE x == Mem("rsi", 0)
             y == Reg("rcx")
             z == Reg("al")
             S == {"mov", "add", "sub", "xor", "cmp", "inc", "dec", "mul", "div", "neg", "imulq",
                   "idivq", "push", "pop", "cqto", "syscall", "ret", "movzxb", "lea", "test",
                   "movb", "addb", "cmpb"}
  <2>1. i[1] \notin S
    BY <1>1, JumpNames
  <2>2. i \notin {<<"cqto">>, <<"syscall">>, <<"ret">>, <<"movzxb", x, y>>}
    <3> HIDE DEF x, y
    <3> QED
      BY <2>1
  <2>3. i # <<"movb", z, x>>
    <3> HIDE DEF x, z
    <3> QED
      BY <2>1
  <2>4. i \notin {<<"cmpb", Imm(c), Reg("cl")>> : c \in {10, 45}}
    BY <2>1
  <2>5. /\ i[1] \notin {"mov", "add", "sub", "xor", "cmp"}
        /\ i[1] \notin {"inc", "dec", "mul", "div", "neg"}
        /\ i[1] \notin {"imulq", "idivq", "push", "pop"}
        /\ i[1] # "push" /\ i[1] # "lea" /\ i[1] # "test" /\ i[1] # "movb" /\ i[1] # "addb"
    BY <2>1
  <2> QED
    BY <2>2, <2>3, <2>4, <2>5 DEF IsWritten
<1> DEFINE a == i[1]
           b == <<"symbol", i[2][2]>>
<1>3. b[1] = "symbol"
  OBVIOUS
<1>4. i = <<a, b>>
  BY <1>2
<1> HIDE DEF a, b
<1> QED
  BY <1>3, <1>4

\* What the processor reads at a line is what the line says.
LEMMA OperandsMeant ==
  ASSUME BytesInv, pass = "linked", NEW k \in CodeLines,
         NEW ii, ii = create_instruction(text[k], sym_table, offsets[k])
  PROVE  OperandsFound(text[k], sym_table, ii, PlaceOf(k))
           = [n \in 1..(Len(text[k]) - 1) |-> OperandMeant(text[k], text[k][n + 1])]
<1> DEFINE i == text[k]
           at == PlaceOf(k)
<1>1. IsWritten(i)
  BY NextLine, WrittenAssumption DEF BytesInv, DataInv, PassesInv, CodeLines
<1>2. ASSUME IsJump(i), NEW n \in 1..(Len(i) - 1)
      PROVE  OperandFound(i, i[n + 1], sym_table, ii, at) = OperandMeant(i, i[n + 1])
  <2>1. i[2][1] = "symbol" /\ n + 1 = 2
    <3>1. Len(i) = 2 /\ i[2][1] = "symbol"
      BY <1>1, <1>2, JumpForm
    <3> QED
      BY <1>2, <3>1
  <2>2. /\ HasLabel(i[2][2])
        /\ offsets[k] + 1 + Size(ii) + ii.immediate = PlaceOf(LabelLine(i[2][2]))
    BY <1>2, JumpMeant
  <2>3. at + Size(ii) + ii.immediate = PlaceOf(LabelLine(i[2][2]))
    BY <2>2 DEF PlaceOf
  <2>4. OperandFound(i, i[2], sym_table, ii, at) = To(PlaceOf(LabelLine(i[2][2])))
    BY <1>2, <2>3 DEF OperandFound
  <2>5. OperandMeant(i, i[2]) = To(PlaceOf(LabelLine(i[2][2])))
    BY <1>2, <2>1, <2>2 DEF OperandMeant
  <2> QED
    BY <2>1, <2>4, <2>5
<1>3. ASSUME ~IsJump(i), NEW n \in 1..(Len(i) - 1)
      PROVE  OperandFound(i, i[n + 1], sym_table, ii, at) = OperandMeant(i, i[n + 1])
  <2> DEFINE x == i[n + 1]
  <2>1. CASE x[1] = "symbol"
    <3>1. x[2] \in {"strResult", "buff"}
      <4>1. IsDataName(x)
        BY <1>1, <1>3, <2>1, NamesOfData
      <4> HIDE DEF x
      <4> QED
        BY <4>1 DEF IsDataName
    <3>2. AddressIn(sym_table, x[2]) = DataAddress(x[2])
      BY <3>1, AddressesFound
    <3>3. OperandFound(i, x, sym_table, ii, at) = Absolute(AddressIn(sym_table, x[2]))
      BY <1>3, <2>1 DEF OperandFound, DataOperand
    <3>4. OperandMeant(i, x) = Absolute(DataAddress(x[2]))
      BY <1>3, <2>1 DEF OperandMeant
    <3> QED
      BY <3>2, <3>3, <3>4
  <2>2. CASE x[1] # "symbol"
    <3>1. OperandFound(i, x, sym_table, ii, at) = x
      BY <1>3, <2>2 DEF OperandFound
    <3>2. OperandMeant(i, x) = x
      BY <2>2 DEF OperandMeant
    <3> QED
      BY <3>1, <3>2
  <2> QED
    BY <2>1, <2>2
<1>4. \A n \in 1..(Len(i) - 1) :
        OperandFound(i, i[n + 1], sym_table, ii, at) = OperandMeant(i, i[n + 1])
  BY <1>2, <1>3
<1> HIDE DEF i, at
<1>5. OperandsFound(i, sym_table, ii, at) = [n \in 1..(Len(i) - 1) |-> OperandMeant(i, i[n + 1])]
  BY <1>4 DEF OperandsFound
<1> QED
  BY <1>5 DEF i, at

LEMMA LineDecoded ==
  ASSUME BytesInv, pass = "linked", NEW k \in CodeLines, HasBytes(text[k])
  PROVE  Decode(program_bytecode, PlaceOf(k))
           = Instruction(text[k][1], Width(text[k]),
                         [n \in 1..(Len(text[k]) - 1) |-> OperandMeant(text[k], text[k][n + 1])],
                         PlaceOf(k + 1))
<1> DEFINE i == text[k]
           at == PlaceOf(k)
           s == sym_table
           o == offsets[k]
<1> SUFFICES ASSUME NEW ii, ii = create_instruction(i, s, o)
             PROVE  Decode(program_bytecode, at)
                      = Instruction(i[1], Width(i),
                                    [n \in 1..(Len(i) - 1) |-> OperandMeant(i, i[n + 1])],
                                    PlaceOf(k + 1))
  OBVIOUS
<1>1. /\ k \in 1..Len(text) /\ offsets[k] \in Nat /\ offsets[k + 1] \in Nat
      /\ offsets[k + 1] = offsets[k] + LineSize(k)
  BY NextLine
<1>2. text \in Texts /\ IsInstruction(i)
  BY DEF BytesInv, DataInv, PassesInv, CodeLines
<1>3. IsWritten(i)
  BY <1>1, <1>2, WrittenAssumption
<1>4. Sound(ii) /\ Size(ii) = LineSize(k) /\ LineSize(k) \in Nat
  BY <1>1, <1>2, LineSizes
<1>5. Holds(program_bytecode, at, Bytecode(ii))
  BY DEF BytesInv, LinesWritten, LineWritten, PlaceOf
<1>6. AddressesFit(s)
  BY AddressesFound
<1>7. IsJump(i) => IsWord32(ii.immediate)
  BY JumpMeant
<1>8. at \in Int /\ at + Size(ii) = PlaceOf(k + 1)
  BY <1>1, <1>4 DEF PlaceOf
<1>9. OperandsFound(i, s, ii, at) = [n \in 1..(Len(i) - 1) |-> OperandMeant(i, i[n + 1])]
  BY OperandsMeant
<1> HIDE DEF i, at, s, o
<1>10. HasBytes(i)
  BY DEF i
<1>11. AsWritten(program_bytecode, at, i, s, ii)
  BY <1>3, <1>4, <1>5, <1>6, <1>7, <1>8, <1>10, InstructionFound
<1> QED
  BY <1>8, <1>9, <1>11 DEF AsWritten, Found

LEMMA DecodedFromBytes == BytesInv => DecodedAsWritten
<1> SUFFICES ASSUME BytesInv, pass = "linked", NEW k \in CodeLines
             PROVE  LET i == text[k]
                        decoded == Decode(program_bytecode, PlaceOf(k))
                    IN IF ~HasBytes(i) THEN offsets[k + 1] = offsets[k]
                       ELSE /\ decoded.name = i[1] /\ decoded.width = Width(i)
                            /\ decoded.next = PlaceOf(k + 1)
                            /\ decoded.operands
                                 = [n \in 1..(Len(i) - 1) |-> OperandMeant(i, i[n + 1])]
  BY DEF DecodedAsWritten
<1>1. CASE ~HasBytes(text[k])
  <2>1. offsets[k + 1] = offsets[k] + LineSize(k) /\ offsets[k] \in Nat
    BY NextLine
  <2>2. LineSize(k) = 0
    BY <1>1, NoBytesWritten DEF LineSize
  <2> QED
    BY <1>1, <2>1, <2>2
<1>2. CASE HasBytes(text[k])
  <2> DEFINE d == Decode(program_bytecode, PlaceOf(k))
             x == [n \in 1..(Len(text[k]) - 1) |-> OperandMeant(text[k], text[k][n + 1])]
             w == Width(text[k])
             p == PlaceOf(k + 1)
  <2>1. d = Instruction(text[k][1], w, x, p)
    BY <1>2, LineDecoded
  <2> HIDE DEF d, x, w, p
  <2>2. d.name = text[k][1] /\ d.width = w /\ d.operands = x /\ d.next = p
    BY <2>1 DEF Instruction
  <2> QED
    BY <1>2, <2>2 DEF d, x, w, p
<1> QED
  BY <1>1, <1>2

\* create_*instr, format_modrm, format_displacement, to_bytecode and write_program, as
\* the processor sees them: for every text of the instructions the CodeEmitter writes,
\* however long, it finds at the place of each line, in bytes that later lines may not
\* have touched, the operation, the width and the operands of the line, with the jump
\* distances and data addresses that the first pass fixed, and behind it the next line.
THEOREM TextAlwaysDecoded == Spec => []DecodedAsWritten
<1>1. BytesInv /\ [Next]_assembler_vars => BytesInv'
  BY NextBytes
<1> QED
  BY <1>1, InitBytes, DecodedFromBytes, PTL DEF Spec

=============================================================================
