-------------------------------- MODULE Library --------------------------------
(***************************************************************************)
(* The routines the CodeEmitter puts in front of every program: write      *)
(* prints the number in rax, read reads one into rax.                      *)
(*                                                                         *)
(* Names that mean the same to the Assembler are written alike: movabs is  *)
(* mov, jnz is jne.                                                        *)
(***************************************************************************)
EXTENDS Words

CONSTANT BufferSize  \* 21 in the code: the bytes of strResult, and those of buff

Symbol(s) == <<"symbol", s>>
Label(l) == <<"label", l>>

Rax == Reg("rax")
Rbx == Reg("rbx")
Rcx == Reg("rcx")
Rdx == Reg("rdx")
Rdi == Reg("rdi")
Rsi == Reg("rsi")
R11 == Reg("r11")

\* The first digit overwrites the sign.
behind_sign_Over == <<<<"dec", Rcx>>>>

\* Digits go behind the sign, and there is one less of them.
behind_sign == <<<<"inc", Rsi>>, <<"dec", Rcx>>>>

write_text ==
  <<Label("write"),
      <<"mov", Imm(10), Rcx>>,
      <<"xor", Rbx, Rbx>>,
      <<"mov", Rax, Rdi>>,
      <<"cmp", Imm(0), Rax>>,
      <<"jge", Symbol("_divide")>>,
      <<"neg", Rax>>,
      <<"movb", Imm(45), Symbol("strResult")>>,
      <<"inc", Rbx>>,
    Label("_divide"),
      <<"xor", Rdx, Rdx>>,
      <<"div", Rcx>>,
      <<"push", Rdx>>,
      <<"inc", Rbx>>,
      <<"test", Rax, Rax>>,
      <<"jne", Symbol("_divide")>>,
      <<"mov", Rbx, Rcx>>,
      <<"lea", Symbol("strResult"), Rsi>>,
      <<"cmp", Imm(0), Rdi>>,
      <<"jge", Symbol("_next_digit")>>>>
  \o behind_sign
  \o <<Label("_next_digit"),
      <<"pop", Rax>>,
      <<"addb", Imm(48), Reg("al")>>,
      <<"movb", Reg("al"), Mem("rsi", 0)>>,
      <<"inc", Rsi>>,
      <<"dec", Rcx>>,
      <<"jne", Symbol("_next_digit")>>,
      <<"movb", Imm(0), Mem("rsi", 0)>>,
      <<"mov", Imm(1), Rax>>,
      <<"mov", Imm(1), Rdi>>,
      <<"lea", Symbol("strResult"), Rsi>>,
      <<"mov", Rbx, Rdx>>,
      <<"syscall">>,
      <<"ret">>>>

\* The loop goes back without a step to the next character.
ReadLoop_Stays(label, operand) ==
  <<Label(label),
      <<"movzxb", Mem("rsi", 0), Rcx>>,
      <<"cmpb", Imm(10), Reg("cl")>>,
      <<"je", Symbol("_read_done")>>,
      <<"sub", Imm(48), Rcx>>,
      <<"mov", Imm(10), R11>>,
      <<"imulq", R11>>,
      <<operand, Rcx, Rax>>,
      <<"jmp", Symbol(label)>>>>

\* The loop for a number whose sign is known; operand adds or subtracts the digit.
ReadLoop(label, operand) ==
  <<Label(label),
      <<"movzxb", Mem("rsi", 0), Rcx>>,
      <<"cmpb", Imm(10), Reg("cl")>>,
      <<"je", Symbol("_read_done")>>,
      <<"sub", Imm(48), Rcx>>,
      <<"mov", Imm(10), R11>>,
      <<"imulq", R11>>,
      <<operand, Rcx, Rax>>,
      <<"inc", Rsi>>,
      <<"jmp", Symbol(label)>>>>

read_text ==
  <<Label("read"),
      <<"mov", Imm(0), Rax>>,
      <<"mov", Imm(0), Rdi>>,
      <<"lea", Symbol("buff"), Rsi>>,
      <<"mov", Imm(BufferSize), Rdx>>,
      <<"syscall">>,
      <<"lea", Symbol("buff"), Rsi>>,
      <<"xor", Rax, Rax>>,
      <<"xor", Rdi, Rdi>>,
      <<"movzxb", Mem("rsi", 0), Rcx>>,
      <<"cmpb", Imm(45), Reg("cl")>>,
      <<"je", Symbol("_read_neg")>>>>
  \o ReadLoop("_read_loop1", "add")
  \o <<Label("_read_neg"), <<"inc", Rsi>>>>
  \o ReadLoop("_read_loop2", "sub")
  \o <<Label("_read_done"), <<"ret">>>>

\* The end of main.
exit_text == <<<<"mov", Imm(60), Rax>>, <<"xor", Rdi, Rdi>>, <<"syscall">>>>

=============================================================================
