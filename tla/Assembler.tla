------------------------------- MODULE Assembler -------------------------------
(***************************************************************************)
(* The Assembler: two passes over the text, then the file.                 *)
(*                                                                         *)
(* The first pass finds out where every label is by making every           *)
(* instruction once without knowing the labels; the second pass makes them *)
(* again, with the labels, and writes them.  Nothing compares the two.     *)
(*                                                                         *)
(* A line of the text is <<"directive", d>>, <<"label", l>>, <<"token", t>> *)
(* (what stands behind .section .data) or an instruction of Encodings.     *)
(***************************************************************************)
EXTENDS Encodings

CONSTANTS
  Texts,        \* the texts that are assembled
  HeaderSize,   \* the ELF header and the two program headers
  DataSize,     \* 42 in the code
  StrSize       \* 21 in the code: where buff begins, behind strResult

OneOperand == {"inc", "dec", "mul", "div", "neg", "imulq", "idivq", "push", "pop"}
TwoOperands == {"mov", "lea", "add", "sub", "xor", "cmp", "test", "movb", "addb", "movzxb", "cmpb"}
NoOperand == {"cqto", "syscall", "ret"}

IsJump(line) == line[1] \in DOMAIN JumpCodes
IsInstruction(line) == IsJump(line) \/ line[1] \in OneOperand \union TwoOperands \union NoOperand
IsData(line) == line = <<"directive", ".data">>

OperandKind(x) == x[1] \in {"imm", "reg", "mem", "symbol"}

IsLine(line) ==
  /\ line[1] \in {"directive", "label", "token"} \/ IsInstruction(line)
  /\ line[1] \in OneOperand =>
       line[2][1] \in {"reg", "mem"} \union (IF line[1] = "push" THEN {"imm"} ELSE {})
  /\ line[1] \in TwoOperands => OperandKind(line[2]) /\ OperandKind(line[3])
  /\ line[1] = "movb" => line[3][1] \in {"mem", "symbol"}

\* The CodeEmitter writes a label once, the data at the end, once, and uses its names
\* for nothing else.
ASSUME TextAssumption ==
  \A t \in Texts :
    /\ t \in Seq(Range(t))
    /\ \A k \in 1..Len(t) : IsLine(t[k])
    /\ \A j, k \in 1..Len(t) : t[j][1] = "label" /\ t[k][1] = "label" /\ t[j][2] = t[k][2] => j = k
    /\ \A k \in 1..Len(t) : t[k][1] = "label" => t[k][2] \notin {"strResult", "buff"}
    /\ \E k \in 1..Len(t) :
         /\ IsData(t[k])
         /\ \A j \in 1..Len(t) :
              /\ j < k => ~IsData(t[j])
              /\ j > k => t[j][1] = "token"

ASSUME SizeAssumption == HeaderSize \in 0..PageSize /\ DataSize \in Nat /\ StrSize \in 0..DataSize

\* Numbers of four bytes, and of one.
IsWord32(v) == v \in Int /\ ((v \div 256) \div 256) \div 256 \in -128..127
IsByte(v) == v \in -128..127

\* Operands in full: registers, places in memory, numbers and the names of the data.
IsRegister(x) == \E n \in 1..16 : x = Reg(Names[n])
IsLowRegister(x) == \E n \in 1..8 : x = Reg(Names[n])
IsMemory(x) == x[1] = "mem" /\ IsWord32(x[3]) /\ \E n \in 1..16 : x = Mem(Names[n], x[3])
IsPlace(x) == IsRegister(x) \/ IsMemory(x)
IsNumber(x) == x[1] = "imm" /\ x = Imm(x[2]) /\ IsWord32(x[2])
IsDataName(x) == x \in {<<"symbol", "strResult">>, <<"symbol", "buff">>}

\* The instructions that the CodeEmitter writes, for any allocation, and those of the
\* routines in front of the program, whose create_* methods look at registers in less
\* detail.
IsWritten(i) ==
  \/ /\ i[1] \in {"mov", "add", "sub", "xor", "cmp"} /\ i = <<i[1], i[2], i[3]>>
     /\ IsPlace(i[2]) \/ IsNumber(i[2])
     /\ IsPlace(i[3])
  \/ i[1] \in {"inc", "dec", "mul", "div", "neg"} /\ i = <<i[1], i[2]>> /\ IsRegister(i[2])
  \/ i[1] \in {"imulq", "idivq", "push", "pop"} /\ i = <<i[1], i[2]>> /\ IsPlace(i[2])
  \/ i[1] = "push" /\ i = <<i[1], i[2]>> /\ IsNumber(i[2])
  \/ i \in {<<"cqto">>, <<"syscall">>, <<"ret">>, <<"movzxb", Mem("rsi", 0), Reg("rcx")>>}
  \/ IsJump(i) /\ i = <<i[1], <<"symbol", i[2][2]>>>>
  \/ i[1] = "lea" /\ i = <<i[1], i[2], i[3]>> /\ IsDataName(i[2]) /\ IsLowRegister(i[3])
  \/ i[1] = "test" /\ i = <<i[1], i[2], i[3]>> /\ IsLowRegister(i[2]) /\ IsLowRegister(i[3])
  \/ /\ i[1] = "movb" /\ i = <<i[1], i[2], i[3]>> /\ IsNumber(i[2]) /\ IsByte(i[2][2])
     /\ IsDataName(i[3]) \/ \E n \in (1..8) \ {6} : i[3] = Mem(Names[n], 0)
  \/ i = <<"movb", Reg("al"), Mem("rsi", 0)>>
  \/ i[1] = "addb" /\ i = <<i[1], i[2], Reg("al")>> /\ IsNumber(i[2]) /\ IsByte(i[2][2])
  \/ i \in {<<"cmpb", Imm(c), Reg("cl")>> : c \in {10, 45}}

\* Every jump has its label, and an instruction finds its data with an address of 32
\* bits.
ASSUME WrittenAssumption ==
  \A t \in Texts :
    /\ \A k \in 1..Len(t) :
         IsInstruction(t[k]) =>
           /\ IsWritten(t[k])
           /\ IsJump(t[k]) => \E j \in 1..Len(t) : t[j] = <<"label", t[k][2][2]>>
    /\ IsWord32(VADDR_START + 2 * PageSize + 16 * Len(t) + DataSize)

VARIABLES
  text,
  pass,              \* "symbols" and "program", the two passes; "linked" at the end
  pos,               \* the line that is read next
  curr_offset,
  sym_table,
  program_bytecode,
  binary,            \* what create_binary wrote, as the loader sees it
  offsets            \* history: where the first pass put the lines it has read

assembler_vars == <<text, pass, pos, curr_offset, sym_table, program_bytecode, binary, offsets>>

NotLinked == [entry |-> 0, file_size |-> 0]

Init ==
  /\ text \in Texts
  /\ pass = "symbols" /\ pos = 1 /\ curr_offset = 0 /\ sym_table = <<>>
  /\ program_bytecode = <<>> /\ binary = NotLinked /\ offsets = <<>>

-----------------------------------------------------------------------------
(* The first pass.                                                         *)

Line == text[pos]

Insert(table, l, offset) ==
  [x \in DOMAIN table \union {l} |-> IF x = l THEN offset ELSE table[x]]

\* The rest of the page, a whole page when there is none.
Padding(n) == PageSize - (n % PageSize)

Reading(p) == pass = p /\ pos <= Len(text) /\ pos' = pos + 1
Sized == offsets' = Append(offsets, curr_offset) /\ UNCHANGED <<text, program_bytecode, binary>>

ReadDirective ==
  /\ Reading("symbols") /\ Line[1] = "directive" /\ ~IsData(Line)
  /\ Sized /\ UNCHANGED <<pass, curr_offset, sym_table>>

ReadLabel ==
  /\ Reading("symbols") /\ Line[1] = "label"
  /\ sym_table' = Insert(sym_table, Line[2], curr_offset)
  /\ Sized /\ UNCHANGED <<pass, curr_offset>>

ReadInstruction ==
  /\ Reading("symbols") /\ IsInstruction(Line)
  /\ curr_offset' = curr_offset + Size(create_instruction(Line, sym_table, curr_offset))
  /\ Sized /\ UNCHANGED <<pass, sym_table>>

\* Nothing is added when the code fills its last page.
read_data_Full ==
  LET at == curr_offset + (Padding(curr_offset) % PageSize)
  IN sym_table' = Insert(Insert(sym_table, "strResult", at), "buff", at + StrSize)

read_data ==
  LET at == curr_offset + Padding(curr_offset)
  IN sym_table' = Insert(Insert(sym_table, "strResult", at), "buff", at + StrSize)

\* The data ends the first pass; the second one begins at the beginning.
ReadData ==
  /\ pass = "symbols" /\ pos <= Len(text) /\ IsData(Line)
  /\ read_data
  /\ pass' = "program" /\ pos' = 1 /\ curr_offset' = 0
  /\ Sized

-----------------------------------------------------------------------------
(* The second pass.                                                        *)

SkipToken ==
  /\ Reading("program") /\ Line[1] \in {"directive", "label", "token"}
  /\ UNCHANGED <<text, pass, curr_offset, sym_table, program_bytecode, binary, offsets>>

WriteInstruction ==
  /\ Reading("program") /\ IsInstruction(Line)
  /\ LET ii == create_instruction(Line, sym_table, curr_offset)
     IN /\ program_bytecode' = program_bytecode \o Bytecode(ii)
        /\ curr_offset' = curr_offset + Size(ii)
  /\ UNCHANGED <<text, pass, sym_table, binary, offsets>>

\* A segment is a piece of the file and where it is loaded.
Segment(offset, vaddr, size) == [offset |-> offset, vaddr |-> vaddr, size |-> size]

create_binary ==
  LET code_size == Len(program_bytecode)
      data_offset == PageSize + code_size + Padding(PageSize + code_size)
  IN [entry |-> VADDR_START + PageSize
                  + IF "_start" \in DOMAIN sym_table THEN sym_table["_start"] ELSE 0,
      code |-> Segment(PageSize, VADDR_START + PageSize, code_size),
      data |-> Segment(data_offset, VADDR_START + data_offset, DataSize),
      file_size |-> HeaderSize + (PageSize - HeaderSize) + code_size
                      + Padding(code_size) + DataSize]

Link ==
  /\ pass = "program" /\ pos > Len(text)
  /\ pass' = "linked" /\ binary' = create_binary
  /\ UNCHANGED <<text, pos, curr_offset, sym_table, program_bytecode, offsets>>

Next ==
  \/ ReadDirective \/ ReadLabel \/ ReadInstruction \/ ReadData
  \/ SkipToken \/ WriteInstruction \/ Link

Spec == Init /\ [][Next]_assembler_vars

-----------------------------------------------------------------------------
(* What a line of the text says.                                           *)

IsLabel(k, l) == text[k][1] = "label" /\ text[k][2] = l
LabelLine(l) == CHOOSE k \in 1..Len(text) : IsLabel(k, l)
HasLabel(l) == \E k \in 1..Len(text) : IsLabel(k, l)

\* The place in the code, counted from 1, where line k begins.
PlaceOf(k) == offsets[k] + 1

DataAddress(s) == binary.data.vaddr + IF s = "buff" THEN StrSize ELSE 0

\* How many bits an instruction moves or computes with: a constant goes to memory
\* with 32, as the CodeEmitter (mov_instruction) and Machine take it.
Width(i) ==
  CASE i[1] \in {"movb", "addb", "cmpb"} -> 8
    [] i[1] \in {"mov", "add", "sub", "xor", "cmp"} /\ i[2][1] = "imm" /\ i[3][1] # "reg" -> 32
    [] OTHER -> 64

OperandMeant(i, x) ==
  CASE x[1] = "symbol" /\ IsJump(i) ->
         IF HasLabel(x[2]) THEN To(PlaceOf(LabelLine(x[2]))) ELSE x
    [] x[1] = "symbol" /\ ~IsJump(i) -> Absolute(DataAddress(x[2]))
    [] OTHER -> x

\* No bytes are written for an instruction with two operands in memory.
HasBytes(i) ==
  i[1] \in {"mov", "add", "sub", "xor", "cmp"} =>
    ~(i[2][1] \in {"mem", "symbol"} /\ i[3][1] \in {"mem", "symbol"})

-----------------------------------------------------------------------------
(* Properties.                                                             *)

CodeLines == {k \in 1..Len(offsets) : IsInstruction(text[k])}

\* The second pass begins every line where the first one put it, although each pass
\* adds up the sizes of instructions it makes with a different table, and every jump
\* and every call leads from there to the place of its label.
JumpsReachLabels ==
  pass = "program" /\ pos <= Len(offsets) =>
    /\ Len(program_bytecode) = offsets[pos]
    /\ IsJump(Line) /\ HasLabel(Line[2][2]) =>
         LET ii == create_instruction(Line, sym_table, curr_offset)
         IN Len(program_bytecode) + Size(ii) + ii.immediate = offsets[LabelLine(Line[2][2])]

\* The processor finds in the bytes, from the first to the last, exactly the
\* instructions of the text: the same operation, width and operands, jumps that lead
\* to the instruction behind their label, and nothing between them. A register that
\* needs REX, a base register that needs SIB and a field one byte too long all show
\* up here.
DecodedAsWritten ==
  pass = "linked" =>
    \A k \in CodeLines :
      LET i == text[k]
          decoded == Decode(program_bytecode, PlaceOf(k))
      IN IF ~HasBytes(i) THEN offsets[k + 1] = offsets[k]
         ELSE /\ decoded.name = i[1] /\ decoded.width = Width(i)
              /\ decoded.next = PlaceOf(k + 1)
              /\ decoded.operands = [n \in 1..(Len(i) - 1) |-> OperandMeant(i, i[n + 1])]

Loadable(s) ==
  /\ s.offset % PageSize = s.vaddr % PageSize
  /\ s.offset + s.size <= binary.file_size

\* The segments can be loaded from the file as it was written and have no page in
\* common; the addresses the code uses for its data, fixed in the first pass, are in
\* the data segment the headers describe, also when the code ends with its page; and
\* the program begins at _start.
DataLoaded ==
  pass = "linked" =>
    /\ Loadable(binary.code) /\ Loadable(binary.data)
    /\ binary.code.vaddr + binary.code.size <= binary.data.vaddr
    /\ (binary.code.vaddr + binary.code.size - 1) \div PageSize < binary.data.vaddr \div PageSize
    /\ \A s \in {"strResult", "buff"} : AddressIn(sym_table, s) = DataAddress(s)
    /\ HasLabel("_start") =>
         binary.entry = binary.code.vaddr + offsets[LabelLine("_start")]

=============================================================================
