------------------------------ MODULE Activations ------------------------------
(***************************************************************************)
(* What the instructions of the IR mean: every activation of a function    *)
(* has locations of its own, which only its own instructions change.       *)
(***************************************************************************)
EXTENDS Words

CONSTANTS Locations,   \* the registers and slots that values are allocated to
          Constants,   \* the immediate operands
          Operations   \* "add", "sub", "imulq", "idivq"

NoValue == <<"none">>

VARIABLES acts,    \* the activations, main first
          inputs,  \* how many numbers were read
          seen     \* the last number written, or the last comparison

abstract_vars == <<acts, inputs, seen>>

Activation(pars) == [locals |-> <<>>, args |-> <<>>, pars |-> pars, dest |-> NoValue]

Depth == Len(acts)
Top == acts[Depth]

\* An instruction other than GETPAR follows all of them.
InBody == acts # <<>> /\ Top.pars = 0

Operands == IF acts = <<>> THEN {} ELSE DOMAIN Top.locals \union Constants
Is(x) == IF x[1] = "imm" THEN Const(x[2]) ELSE Top.locals[x]

Assign(act, l, v) ==
  [act EXCEPT !.locals = [k \in DOMAIN @ \union {l} |-> IF k = l THEN v ELSE @[k]]]

Set(l, v) == acts' = [acts EXCEPT ![Depth] = Assign(@, l, v)]

\* An operation on two constants is done by the Parser.
Compute(op, l, x, y) ==
  /\ InBody /\ ~({x, y} \subseteq Constants)
  /\ Set(l, Arithmetic(op, Is(x), Is(y))) /\ UNCHANGED <<inputs, seen>>

Copy(l, x) == InBody /\ Set(l, Is(x)) /\ UNCHANGED <<inputs, seen>>

Exchange(k, l) ==
  /\ InBody
  /\ acts' = [acts EXCEPT ![Depth] = Assign(Assign(@, k, Is(l)), l, Is(k))]
  /\ UNCHANGED <<inputs, seen>>

Read(l) == InBody /\ Set(l, Input(inputs)) /\ inputs' = inputs + 1 /\ UNCHANGED seen

Write(x) == InBody /\ seen' = <<"write", Is(x)>> /\ UNCHANGED <<acts, inputs>>

\* x dies: its location may lose the value.
WriteLast(x) ==
  /\ InBody /\ x \in DOMAIN Top.locals /\ seen' = <<"write", Is(x)>>
  /\ acts' = [acts EXCEPT ![Depth].locals = [l \in DOMAIN @ \ {x} |-> @[l]]]
  /\ UNCHANGED inputs

Compare(x, y) ==
  InBody /\ seen' = <<"branch", <<Is(x), Is(y)>>>> /\ UNCHANGED <<acts, inputs>>

SetPar(x) ==
  /\ InBody
  /\ acts' = [acts EXCEPT ![Depth].args = Append(@, Is(x))]
  /\ UNCHANGED <<inputs, seen>>

\* A call of a function of n parameters, for the arguments set last.
Call(l, n) ==
  /\ InBody
  /\ n <= Len(Top.args)
  /\ acts' = Append([acts EXCEPT ![Depth].dest = l], Activation(n))
  /\ UNCHANGED <<inputs, seen>>

TakePar(act, l, v) == Assign([act EXCEPT !.pars = @ - 1], l, v)

\* The parameters are taken from the last one to the first.
GetPar(l) ==
  /\ acts # <<>> /\ Top.pars > 0
  /\ acts' = [acts EXCEPT ![Depth] = TakePar(@, l, Last(acts[Depth - 1].args)),
                          ![Depth - 1].args = Front(@)]
  /\ UNCHANGED <<inputs, seen>>

Returned(act, v) ==
  IF v = NoValue
    THEN [act EXCEPT !.locals = [l \in DOMAIN @ \ {act.dest} |-> @[l]], !.dest = NoValue]
    ELSE [Assign(act, act.dest, v) EXCEPT !.dest = NoValue]

\* Between the arguments of a call stand only expressions.
Return(x) ==
  /\ InBody /\ Depth > 1 /\ Top.args = <<>>
  /\ acts' = [Front(acts) EXCEPT ![Depth - 1] =
                Returned(@, IF x = NoValue THEN NoValue ELSE Is(x))]
  /\ UNCHANGED <<inputs, seen>>

Exit == InBody /\ Depth = 1 /\ Top.args = <<>> /\ acts' = <<>> /\ UNCHANGED <<inputs, seen>>

=============================================================================
