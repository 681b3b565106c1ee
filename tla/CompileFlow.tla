---------------------------- MODULE CompileFlow ------------------------------
(***************************************************************************)
(* The Parser run in lockstep with the meaning of the source it reads.     *)
(* The properties say that the blocks of a finished function have exactly  *)
(* the control flow of its source, once read as a graph and once read as   *)
(* the emitted text, in which a block that does not jump falls into the    *)
(* block that follows.                                                     *)
(*                                                                         *)
(* The two switches bound the source texts: each admits (TRUE) or leaves   *)
(* out (FALSE) one class of programs on which the compiler is known to go  *)
(* wrong, so that a run shows either that everything else is right or what *)
(* happens in that class.                                                  *)
(***************************************************************************)
EXTENDS ControlFlow, TinySource

CONSTANTS
  NestedForever,  \* a while with a constant true relation inside another
                  \* statement
  FoldedReturns   \* an if with a constant relation whose live part always
                  \* returns, the last time in another block than it began in

ASSUME SwitchesAssumption == NestedForever \in BOOLEAN /\ FoldedReturns \in BOOLEAN

VARIABLE
  else_alone   \* the function has an if whose else part always returns and
               \* whose then part does not

all_vars == <<vars, src_vars, else_alone>>

AlwaysReturns == open \union Inner.alt \union Inner.out = {}

ElseAlone == Live(Top) /\ Top.result = "NEITHER" /\ open = {} /\ ~AlwaysReturns

FiInScope ==
  Live(Top) => \/ FoldedReturns \/ Top.result = "NEITHER"
               \/ ~AlwaysReturns \/ will_return(ir, Top.cond)

WhileInScope(r) == NestedForever \/ r # "FALSE" \/ frames = <<>>

-----------------------------------------------------------------------------
CInit == Init /\ SrcInit /\ else_alone = FALSE

CSimple == SimpleStatement /\ SrcSimple(pos) /\ UNCHANGED else_alone
CReturn == ReturnStatement /\ SrcReturn(pos) /\ UNCHANGED else_alone
CIf(r) == IfThen(r) /\ SrcIf(pos, r) /\ UNCHANGED else_alone
CIfIgnored == IfThenIgnored /\ SrcIf(pos, "NEITHER") /\ UNCHANGED else_alone
CThenEnd == ThenEnd /\ SrcElse /\ UNCHANGED else_alone
CFi == Fi /\ FiInScope /\ SrcFi /\ else_alone' = (else_alone \/ ElseAlone)
CWhile(r) == WhileDo(r) /\ WhileInScope(r) /\ SrcWhile(pos, r) /\ UNCHANGED else_alone
CWhileIgnored == WhileDoIgnored /\ SrcWhile(pos, "NEITHER") /\ UNCHANGED else_alone
COd == Od /\ SrcOd /\ UNCHANGED else_alone
CBegin(kind) == Begin(kind) /\ SrcBegin(pos) /\ else_alone' = FALSE
CFunctionEnd == FunctionEnd /\ SrcReturn(pos) /\ UNCHANGED else_alone
CMainEnd == MainEnd /\ SrcReturn(Exit) /\ UNCHANGED else_alone

CNext ==
  \/ CSimple
  \/ CReturn
  \/ \E r \in Relation : CIf(r)
  \/ CIfIgnored
  \/ CThenEnd
  \/ CFi
  \/ \E r \in Relation : CWhile(r)
  \/ CWhileIgnored
  \/ COd
  \/ \E kind \in {"function", "main"} : CBegin(kind)
  \/ CFunctionEnd
  \/ CMainEnd

CSpec == CInit /\ [][CNext]_all_vars

-----------------------------------------------------------------------------
(* Reading the flow back from the blocks.                                  *)

\* Where execution goes after the last instruction of b, when it goes to
\* fall if no branch is taken.
NextBlocks(b, fall) ==
  CASE ir.blocks[b].op = "RET" -> {}
    [] ir.blocks[b].op = "BRA" -> {<<"next", ir.blocks[b].larg>>}
    [] ir.blocks[b].op = "Bcc" -> {<<"then", fall>>, <<"else", ir.blocks[b].rarg>>}
    [] ir.blocks[b].op = "EMPTY" -> {<<"next", fall>>}

\* Past the last block is the exit of the program.
Past == ir.size

\* In the graph, execution falls to the first successor.
GraphFall(b) == IF ir.blocks[b].successors = <<>> THEN Past
                ELSE ir.blocks[b].successors[1]

\* In the emitted text, to the block that follows.
LayoutFall(b) == b + 1

\* The edges between the program points in the blocks of the current function.
FlowEdges(Fall(_)) ==
  LET \* The first points executed from b on, through blocks without code.
      first[b \in 0..Past] ==
        IF b = Past THEN {Exit}
        ELSE IF ir.blocks[b].code # <<>> THEN {ir.blocks[b].code[1]}
        ELSE UNION {first[n[2]] : n \in NextBlocks(b, Fall(b))}
      inside(b) == {<<ir.blocks[b].code[i], "next", ir.blocks[b].code[i + 1]>> :
                      i \in 1..(Len(ir.blocks[b].code) - 1)}
      last(b) == ir.blocks[b].code[Len(ir.blocks[b].code)]
      leaving(b) == UNION {{<<last(b), n[1], m>> : m \in first[n[2]]} :
                             n \in NextBlocks(b, Fall(b))}
      coded == {b \in entry..(ir.size - 1) : ir.blocks[b].code # <<>>}
  IN UNION {inside(b) \union leaving(b) : b \in coded}

Complete == phase \in {"decl", "done"} /\ entry # 0

-----------------------------------------------------------------------------
(* Properties.                                                             *)

\* The graph of a finished function has the control flow of its source: no
\* statement is lost, duplicated, reached from a wrong place or left to one.
GraphFlowMatches == Complete => FlowEdges(GraphFall) = edges

\* So has the text CodeEmitter::emit_code writes, block after block, of a
\* function without an if whose else part alone always returns.
LayoutFlowMatches == Complete /\ ~else_alone => FlowEdges(LayoutFall) = edges

\* "If one of the blocks returns, no need to join.": the text is right with such
\* an if, too.
NoNeedToJoin == Complete => FlowEdges(LayoutFall) = edges

\* Ignore mode is on exactly where the source cannot be reached.
IgnoreIffUnreachable == Parsing => (ignore <=> open = {})

=============================================================================
