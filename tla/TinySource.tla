----------------------------- MODULE TinySource ------------------------------
(***************************************************************************)
(* What the source text means, independently of the compiler: the control  *)
(* flow between the program points of one function, by the structure of    *)
(* the text alone.  A point is a statement (a number); an edge             *)
(* <<k, how, m>> says that execution goes from k to m directly, for a      *)
(* conditional "then" when its condition holds and "else" when it does     *)
(* not.  Only points that can be reached have edges.                       *)
(*                                                                         *)
(* The point a statement gets is a parameter, so that a specification of   *)
(* the compiler can be run against this one, statement by statement.       *)
(***************************************************************************)
EXTENDS Integers, Sequences

VARIABLES
  edges,   \* the flow edges of the text read so far
  open,    \* the ways out of the text read so far: pairs <<point, how>>
  nest     \* the enclosing constructs that are still open

src_vars == <<edges, open, nest>>

\* The point execution reaches when main falls off its end.
Exit == 0

Arrive(k) == {<<o[1], o[2], k>> : o \in open}
Leave(k, how) == IF open = {} THEN {} ELSE {<<k, how>>}

\* alt: the ways into the else part, or out of the loop.  out: the ways out
\* of the part that is already complete.
Construct(k, alt) == [point |-> k, alt |-> alt, out |-> {}]
Inner == nest[Len(nest)]
Outer == SubSeq(nest, 1, Len(nest) - 1)

SrcInit == edges = {} /\ open = {} /\ nest = <<>>

SrcBegin(k) == edges' = {} /\ open' = {<<k, "next">>} /\ nest' = <<>>

SrcSimple(k) ==
  /\ edges' = edges \union Arrive(k)
  /\ open' = Leave(k, "next")
  /\ UNCHANGED nest

\* The implicit return at the end of a function is one too.
SrcReturn(k) ==
  /\ edges' = edges \union Arrive(k)
  /\ open' = {}
  /\ UNCHANGED nest

\* r is the compiler's verdict on a constant condition: "TRUE" says that the
\* condition never holds, "FALSE" that it always does.
SrcIf(k, r) ==
  IF r = "NEITHER"
    THEN /\ edges' = edges \union Arrive(k)
         /\ open' = Leave(k, "then")
         /\ nest' = Append(nest, Construct(k, Leave(k, "else")))
    ELSE /\ UNCHANGED edges
         /\ open' = IF r = "FALSE" THEN open ELSE {}
         /\ nest' = Append(nest, Construct(k, IF r = "FALSE" THEN {} ELSE open))

SrcElse ==
  /\ open' = Inner.alt
  /\ nest' = Append(Outer, [Inner EXCEPT !.alt = {}, !.out = open])
  /\ UNCHANGED edges

SrcFi ==
  /\ open' = open \union Inner.out
  /\ nest' = Outer
  /\ UNCHANGED edges

\* The head of a loop is a point of its own even when nothing is tested there.
SrcWhile(k, r) ==
  /\ edges' = edges \union Arrive(k)
  /\ open' = CASE r = "NEITHER" -> Leave(k, "then")
               [] r = "FALSE" -> Leave(k, "next")
               [] r = "TRUE" -> {}
  /\ nest' = Append(nest, Construct(k, CASE r = "NEITHER" -> Leave(k, "else")
                                         [] r = "FALSE" -> {}
                                         [] r = "TRUE" -> Leave(k, "next")))

SrcOd ==
  /\ edges' = edges \union Arrive(Inner.point)
  /\ open' = Inner.alt
  /\ nest' = Outer

=============================================================================
