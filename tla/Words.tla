--------------------------------- MODULE Words ---------------------------------
(***************************************************************************)
(* The values a compiled program computes with: tuples that begin with     *)
(* their kind.  A word whose halves were written apart is "mixed".         *)
(***************************************************************************)
EXTENDS Integers, Sequences, SequencesExt

Junk == <<"junk">>
Address(a) == <<"address", a>>
Const(c) == <<"const", c>>
Input(n) == <<"input", n>>

\* Operands: a register, k words from the address in a register, the upper half
\* of such a word, an immediate.
Reg(r) == <<"reg", r>>
Mem(r, k) == <<"mem", r, k>>
UpperHalf(r, k) == <<"upper", r, k>>
Imm(c) == <<"imm", c>>

\* The registers a program may not count on behind a call of a routine of the library:
\* those the routine uses, and those of its system call.
Overwritten ==
  [write |-> {"rax", "rbx", "rcx", "rdx", "rsi", "rdi", "r11"},
   read  |-> {"rax", "rcx", "rdx", "rsi", "rdi", "r11"}]

Upper(w) == IF w[1] = "mixed" THEN w[2] ELSE w
Lower(w) == IF w[1] = "mixed" THEN w[3] ELSE w
Halves(up, low) == IF up = low THEN low ELSE <<"mixed", up, low>>

\* Adding to an address moves it; other sums do not depend on the order.
Arithmetic(op, v, w) ==
  CASE op = "add" /\ v[1] = "address" /\ w[1] = "const" -> Address(v[2] + w[2])
    [] op = "add" /\ ~(v[1] = "address" /\ w[1] = "const") -> <<"add", {v, w}>>
    [] OTHER -> <<op, v, w>>

=============================================================================
