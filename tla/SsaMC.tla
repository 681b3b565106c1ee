-------------------------------- MODULE SsaMC ---------------------------------
(***************************************************************************)
(* Allocation for TLC.  Two parameters 1 and 2 and a local variable 3, enough  *)
(* to exchange two variables in a loop.                                    *)
(***************************************************************************)
EXTENDS Allocation

MCLets == {<<1, Call(2)>>, <<1, Ident(2)>>, <<2, Ident(3)>>, <<3, Ident(1)>>,
           <<1, Sum2(1, 2)>>}
MCWrites == {Sum2(1, 2), Read}
MCConds == {Ident(1), Literal}
MCResults == {Ident(2), Sum2(1, 2)}

=============================================================================
