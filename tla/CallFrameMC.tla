------------------------------ MODULE CallFrameMC ------------------------------
(***************************************************************************)
(* CallFrame for TLC: the registers that some instructions need for        *)
(* themselves, one that none does, and two slots.                          *)
(***************************************************************************)
EXTENDS CallFrame

MCLocations == {Rax, Rdx, Reg("r8"), Slot(1), Slot(2)}
MCConstants == {Imm(7)}
MCPassed == {Rax, Slot(1)}
MCPlaced == {Rax, Rdx, Slot(1)}

=============================================================================
