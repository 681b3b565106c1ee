------------------------------ MODULE AssemblerMC ------------------------------
(***************************************************************************)
(* The Assembler for TLC: every instruction the CodeEmitter can write, one *)
(* to a text; every short text of labels, jumps and instructions of        *)
(* different sizes; and the routines that are in front of every program.   *)
(***************************************************************************)
EXTENDS Processor

Allocatable == {"rax", "rbx", "rcx", "rdx", "rsi", "rdi", "r8", "r9", "r10", "r14", "r15"}
Used == {Reg(r) : r \in Allocatable \union {"r11", "rsp", "rbp"}}
Places == {Mem("rbp", -8), Mem("rbp", -300), Mem("rsp", 8)}
Numbers == {Imm(0), Imm(-1), Imm(200), Imm(-70000)}

Emitted ==
  {<<op, x, y>> : op \in {"mov", "add", "sub", "cmp"},
                  x \in Used \union Places \union Numbers, y \in Used \union Places}
  \union {<<op, x>> : op \in {"push", "imulq", "idivq"}, x \in Used \union Places}
  \union {<<"pop", x>> : x \in Used \union Places} \union {<<"push", x>> : x \in Numbers}
  \union {<<op, x>> : op \in {"inc", "dec", "neg", "div", "mul"}, x \in Used}
  \union {<<"cqto">>, <<"movb", Imm(10), Mem("rsp", 0)>>}

Text(code) ==
  <<<<"directive", ".text">>>> \o code
    \o <<<<"directive", ".data">>, <<"token", "strResult:">>, <<"token", "buff:">>>>

CONSTANT MaxLines  \* of the texts with labels

Mixed ==
  {Label("_start"), Label("branch1"), <<"jmp", Symbol("branch1")>>, <<"jne", Symbol("branch1")>>,
   <<"call", Symbol("_start")>>, <<"ret">>, <<"mov", Imm(3), Reg("r8")>>,
   <<"lea", Symbol("buff"), Reg("rsi")>>}

Complete(code) ==
  /\ \A j, k \in DOMAIN code : code[j] = code[k] /\ code[j][1] = "label" => j = k
  /\ \A k \in DOMAIN code : code[k][1] \in {"jmp", "jne", "call"} =>
       \E j \in DOMAIN code : code[j] = Label(code[k][2][2])

MCTexts ==
  {Text(<<i>>) : i \in Emitted}
    \union {Text(code) : code \in {c \in UNION {[1..n -> Mixed] : n \in 1..MaxLines} : Complete(c)}}
    \union {Text(write_text \o read_text \o <<Label("_start")>> \o exit_text)}

\* Numbers with one digit and with as many as a word can have, the largest and the
\* smallest word, and a line with a number that is larger than a word.
MCWritten == {0, 7, -3, 10, -99, 1234, 2^26 - 1, -(2^26)}
MCTyped == {0, -3, 10, 1234, -(2^26), 2^27 + 5}

=============================================================================
