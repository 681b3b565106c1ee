--------------------------------- MODULE Ssa ----------------------------------
(***************************************************************************)
(* The values in the IR: instruction numbers, identifier_values, PHIs and  *)
(* common subexpression elimination, added to the control flow of one      *)
(* function.  Each action is the statement handler of CompileFlow together *)
(* with what it does to the instructions.                                  *)
(*                                                                         *)
(* An expression is a literal (there is one, 0, which is also the value of *)
(* a variable nothing was assigned to: instruction 0 of the const block),  *)
(* an identifier, a read, a call with one argument, or the sum of two      *)
(* identifiers.  Which function a JSR jumps to is left to Declarations.  A *)
(* relation compares an expression with a literal.  Opcodes the IR treats  *)
(* alike are one: ADD stands for the four operations, CMP for a CMP and    *)
(* its branch.  Instruction numbers are given in the order of the code,    *)
(* but branches, literals and EMPTY instructions take none.                *)
(***************************************************************************)
EXTENDS CompileFlow, FiniteSetsExt, SequencesExt

CONSTANTS
  NumIdents,       \* the identifiers of the function are 1..NumIdents
  NumParams,       \* the first of them are its parameters
  Lets,            \* the let statements: pairs <<identifier, expression>>
  Writes,          \* the expressions that are written,
  Conds,           \* ... compared in an if or a while,
  Results,         \* ... returned
  ReturnsInLoops,  \* admit the return of a value inside a while
  CrossedPhis      \* admit a loop that copies a variable it does not change

ASSUME SsaAssumption ==
  /\ NumIdents \in Nat /\ NumParams \in 0..NumIdents
  /\ ReturnsInLoops \in BOOLEAN /\ CrossedPhis \in BOOLEAN

VARIABLES
  ssa,   \* the instructions, identifier_values and returned value of each block
  text   \* the statement at each program point

ssa_vars == <<ssa, text>>

Idents == 1..NumIdents

Literal == [op |-> "CONST", args |-> <<>>]
Ident(x) == [op |-> "IDENT", args |-> <<x>>]
Read == [op |-> "READ", args |-> <<>>]
Call(x) == [op |-> "CALL", args |-> <<x>>]
Sum2(x, y) == [op |-> "ADD", args |-> <<x, y>>]
Nothing == [op |-> "NONE", args |-> <<>>]

-----------------------------------------------------------------------------
(* The methods of the IR.  Each takes the ssa record and returns the next. *)

Instruction(n, op, larg, rarg, owner) ==
  [number |-> n, op |-> op, larg |-> larg, rarg |-> rarg, owner |-> owner]

is_const_instruction(n) == n = 0

EmptySsa ==
  [count  |-> 0,
   insts  |-> [b \in {0} |-> <<>>],
   values |-> [b \in {0} |-> [x \in Idents |-> 0]],
   result |-> [b \in {0} |-> None]]

AddBlock(S, b, ident_vals) ==
  [S EXCEPT !.insts = @ @@ (b :> <<>>),
            !.values = @ @@ (b :> ident_vals),
            !.result = @ @@ (b :> None)]

AddInstruction(S, b, op, larg, rarg, owner) ==
  [S EXCEPT !.count = @ + 1,
            !.insts[b] = Append(@, Instruction(S.count + 1, op, larg, rarg, owner))]

change_ident_value(S, b, x, n) == [S EXCEPT !.values[b][x] = n]

\* The search goes through the blocks in order, not up the dominators.
search_cse_AnyBlock(S, doms, b, op, larg, rarg, in_loop) ==
  LET same(c) == {i \in DOMAIN S.insts[c] :
                    /\ S.insts[c][i].op = op
                    /\ S.insts[c][i].larg = larg
                    /\ S.insts[c][i].rarg = rarg}
      found[c \in 0..b] ==
        CASE same(c) # {} -> S.insts[c][Min(same(c))].number
          [] same(c) = {} /\ c = 0 -> None
          [] OTHER -> found[c - 1]
  IN IF in_loop \/ op # "ADD" THEN None ELSE found[b]

\* The number of an instruction that computes the same, in b or the nearest of
\* its dominators; in a loop the arguments are not final, so there is none.
search_cse(S, doms, b, op, larg, rarg, in_loop) ==
  LET same(c) == {i \in DOMAIN S.insts[c] :
                    /\ S.insts[c][i].op = op
                    /\ S.insts[c][i].larg = larg
                    /\ S.insts[c][i].rarg = rarg}
      found[c \in 0..b] ==
        CASE same(c) # {} -> S.insts[c][Min(same(c))].number
          [] same(c) = {} /\ c = 0 -> None
          [] OTHER -> found[doms[c]]
  IN IF in_loop \/ op # "ADD" THEN None ELSE found[b]

\* The block's identifiers come from p; each gets a PHI, right argument to come.
loop_header(S, b, p) ==
  FoldLeft(LAMBDA T, x :
             change_ident_value(
               AddInstruction(T, b, "PHI", S.values[p][x], None, x),
               b, x, T.count + 1),
           AddBlock(S, b, S.values[p]),
           [x \in Idents |-> x])

\* The arguments of the PHIs are swapped.
join_block_Swapped(S, b, p1, p2) ==
  FoldLeft(LAMBDA T, x :
             IF S.values[p1][x] = S.values[p2][x] THEN T
             ELSE change_ident_value(
                    AddInstruction(T, b, "PHI", S.values[p2][x], S.values[p1][x], x),
                    b, x, T.count + 1),
           AddBlock(S, b, S.values[p1]),
           [x \in Idents |-> x])

\* A JOIN gets a PHI for each identifier whose two values differ.
join_block(S, b, p1, p2) ==
  FoldLeft(LAMBDA T, x :
             IF S.values[p1][x] = S.values[p2][x] THEN T
             ELSE change_ident_value(
                    AddInstruction(T, b, "PHI", S.values[p1][x], S.values[p2][x], x),
                    b, x, T.count + 1),
           AddBlock(S, b, S.values[p1]),
           [x \in Idents |-> x])

-----------------------------------------------------------------------------
(* The end of a loop.                                                      *)

\* The blocks a recursion along successors visits from b on.
Reached(I, b) ==
  LET reach[k \in 0..I.size] ==
        IF k = 0 THEN {b}
        ELSE reach[k - 1] \union UNION {Succs(I, c) : c \in reach[k - 1]}
  IN reach[I.size]

\* The PHIs of the header whose variable the loop leaves alone, or all of them
\* when its last block returns.
Redundant(I, S, header, back) ==
  {i \in DOMAIN S.insts[header] :
     LET phi == S.insts[header][i] IN
     /\ phi.op = "PHI"
     /\ \/ S.values[header][phi.owner] = S.values[back][phi.owner]
        \/ will_return(I, back)}

\* The identifiers of the header keep the PHIs that are gone.
update_ident_vals_Body(I, S, header, new) ==
  LET renamed(n) == IF n \in DOMAIN new THEN new[n] ELSE n
      blocks == Reached(I, I.blocks[header].successors[1])
      update(b, inst) ==
        IF b \notin blocks \union {header} \/ (b = header /\ inst.op = "PHI") THEN inst
        ELSE [inst EXCEPT !.larg = renamed(@), !.rarg = renamed(@)]
  IN [S EXCEPT
        !.values = [b \in DOMAIN @ |->
           IF b \in blocks THEN [x \in Idents |-> renamed(S.values[b][x])] ELSE @[b]],
        !.insts = [b \in DOMAIN @ |->
           [i \in DOMAIN S.insts[b] |-> update(b, S.insts[b][i])]]]

\* References to a redundant PHI become references to its left argument: in the
\* header outside PHIs, and everywhere in the code reached from the loop's body.
update_ident_vals(I, S, header, new) ==
  LET renamed(n) == IF n \in DOMAIN new THEN new[n] ELSE n
      blocks == {header} \union Reached(I, I.blocks[header].successors[1])
      update(b, inst) ==
        IF b \notin blocks \/ (b = header /\ inst.op = "PHI") THEN inst
        ELSE [inst EXCEPT !.larg = renamed(@), !.rarg = renamed(@)]
  IN [S EXCEPT
        !.values = [b \in DOMAIN @ |->
           IF b \in blocks THEN [x \in Idents |-> renamed(S.values[b][x])] ELSE @[b]],
        !.insts = [b \in DOMAIN @ |->
           [i \in DOMAIN S.insts[b] |-> update(b, S.insts[b][i])]]]

update_phis(I, S, header, back) ==
  LET gone == Redundant(I, S, header, back)
      phi(i) == S.insts[header][i]
      new == [n \in {phi(i).number : i \in gone} |->
                phi(CHOOSE i \in gone : phi(i).number = n).larg]
      H == [S EXCEPT !.insts[header] = [i \in DOMAIN @ |->
              CASE i \in gone -> [phi(i) EXCEPT !.op = "DELETED", !.rarg = phi(i).larg]
                [] i \notin gone /\ phi(i).op = "PHI" ->
                     [phi(i) EXCEPT !.rarg = S.values[back][phi(i).owner]]
                [] OTHER -> phi(i)]]
  IN update_ident_vals(I, H, header, new)

\* The blocks commit_while comes to, in order: a block is visited once for each
\* way to it.
Visits(I, header, back) ==
  LET visits[b \in header..(I.size - 1)] ==
        IF b = back THEN <<b>>
        ELSE <<b>> \o FlattenSeq([i \in DOMAIN I.blocks[b].successors |->
                                     visits[I.blocks[b].successors[i]]])
  IN visits[header]

cse_replace(I, S, header, back, copy, n) ==
  FoldLeft(LAMBDA T, b :
             [T EXCEPT !.insts[b] = [i \in DOMAIN @ |->
                [@[i] EXCEPT !.larg = IF @ = n THEN copy ELSE @,
                             !.rarg = IF @ = n THEN copy ELSE @]]],
           S, Visits(I, header, back))

\* The earlier instruction that i repeats: in its own block, else above it.
copy_of(I, S, b, i) ==
  LET inst == S.insts[b][i]
      here == search_cse(S, I.doms, b, inst.op, inst.larg, inst.rarg, FALSE)
  IN IF here # inst.number THEN here
     ELSE search_cse(S, I.doms, I.doms[b], inst.op, inst.larg, inst.rarg, FALSE)

\* The earlier of the two instructions is deleted.
commit_instruction_Earlier(I, S, header, back, b, i) ==
  LET copy == copy_of(I, S, b, i)
  IN IF S.insts[b][i].op # "ADD" \/ copy = None THEN S
     ELSE cse_replace(I, [S EXCEPT !.insts = [c \in DOMAIN @ |->
                            [j \in DOMAIN @[c] |->
                               IF @[c][j].number = copy
                               THEN [@[c][j] EXCEPT !.op = "DELETED"] ELSE @[c][j]]]],
                      header, back, S.insts[b][i].number, copy)

commit_instruction(I, S, header, back, b, i) ==
  LET copy == copy_of(I, S, b, i)
  IN IF S.insts[b][i].op # "ADD" \/ copy = None THEN S
     ELSE cse_replace(I, [S EXCEPT !.insts[b][i].op = "DELETED"],
                      header, back, copy, S.insts[b][i].number)

\* The elimination that search_cse put off in the loop; last instruction first.
commit_while(I, S, header, back) ==
  FoldLeft(LAMBDA T, b :
             FoldRight(LAMBDA i, U : commit_instruction(I, U, header, back, b, i),
                       [i \in DOMAIN T.insts[b] |-> i], T),
           S, Visits(I, header, back))

\* close_loop for the values: commit_while waits for the outermost loop.
close_loop_values(I, S, f, back) ==
  LET T == update_phis(I, S, f.cond, back)
  IN IF f.prev_while_loop THEN T ELSE commit_while(I, T, f.cond, back)

-----------------------------------------------------------------------------
(* Expressions and relations.                                              *)

operate(I, S, b, l, r) ==
  LET copy == search_cse(S, I.doms, b, "ADD", l, r, while_loop)
  IN CASE is_const_instruction(l) /\ is_const_instruction(r) /\ ~while_loop ->
            [ssa |-> S, value |-> 0]
       [] ~(is_const_instruction(l) /\ is_const_instruction(r) /\ ~while_loop)
          /\ copy # None -> [ssa |-> S, value |-> copy]
       [] OTHER -> [ssa |-> AddInstruction(S, b, "ADD", l, r, None),
                    value |-> S.count + 1]

\* A call of a user function: a SETPAR for its argument, then the JSR.
function_statement(S, b, x) ==
  LET T == AddInstruction(S, b, "SETPAR", S.values[b][x], None, None)
  IN [ssa |-> AddInstruction(T, b, "JSR", None, None, None), value |-> T.count + 1]

expression(I, S, b, e) ==
  CASE e.op = "NONE" -> [ssa |-> S, value |-> None]
    [] e.op = "CONST" -> [ssa |-> S, value |-> 0]
    [] e.op = "IDENT" -> [ssa |-> S, value |-> S.values[b][e.args[1]]]
    [] e.op = "READ" -> [ssa |-> AddInstruction(S, b, "READ", None, None, None),
                         value |-> S.count + 1]
    [] e.op = "CALL" -> function_statement(S, b, e.args[1])
    [] e.op = "ADD" -> operate(I, S, b, S.values[b][e.args[1]],
                                        S.values[b][e.args[2]])

\* relation(): with a literal on the right.  A value that is constant folds an
\* if outside loops; a while only when it is constant by its own text.
Verdicts(e, value, while_statement) ==
  IF is_const_instruction(value)
     /\ (e.op = "CONST" \/ ~(while_statement \/ while_loop))
  THEN {"TRUE", "FALSE"} ELSE {"NEITHER"}

compare(S, b, value) == AddInstruction(S, b, "CMP", value, 0, None)

-----------------------------------------------------------------------------
(* The statements.                                                         *)

Says(kind, x, e) == text' = text @@ (pos :> [kind |-> kind, ident |-> x, expr |-> e])

LetStatement(t) ==
  /\ CSimple
  /\ IF ignore THEN UNCHANGED ssa_vars
     ELSE /\ LET v == expression(ir, ssa, curr_block, t[2])
             IN ssa' = change_ident_value(v.ssa, curr_block, t[1], v.value)
          /\ Says("let", t[1], t[2])

WriteStatement(e) ==
  /\ CSimple
  /\ IF ignore THEN UNCHANGED ssa_vars
     ELSE /\ LET v == expression(ir, ssa, curr_block, e)
             IN ssa' = AddInstruction(v.ssa, curr_block, "WRITE", v.value, None, None)
          /\ Says("write", None, e)

ReturnsValue(e) ==
  /\ CReturn
  /\ ReturnsInLoops \/ ~while_loop \/ e = Nothing
  /\ IF ignore THEN UNCHANGED ssa_vars
     ELSE /\ LET v == expression(ir, ssa, curr_block, e)
             IN ssa' = [v.ssa EXCEPT !.result[curr_block] = v.value]
          /\ Says("return", None, e)

IfValue(e, r) ==
  /\ CIf(r)
  /\ LET v == expression(ir, ssa, curr_block, e)
         S == compare(v.ssa, curr_block, v.value)
     IN /\ r \in Verdicts(e, v.value, FALSE)
        /\ ssa' = IF r = "NEITHER"
                    THEN AddBlock(S, ir.size, S.values[curr_block]) ELSE v.ssa
  /\ Says("cond", None, e)

IfValueIgnored == CIfIgnored /\ UNCHANGED ssa_vars

ThenValueEnd ==
  /\ CThenEnd
  /\ ssa' = IF Live(Top) /\ Top.result = "NEITHER"
              THEN AddBlock(ssa, ir.size, ssa.values[Top.cond]) ELSE ssa
  /\ UNCHANGED text

FiValue ==
  /\ CFi
  /\ ssa' = IF ir'.size > ir.size
              THEN join_block(ssa, ir.size, Top.then_block, curr_block) ELSE ssa
  /\ UNCHANGED text

WhileValue(e, r) ==
  /\ CWhile(r)
  /\ LET header == ir.size
         I == new_block(ir, curr_block, "LOOP_HEADER")
         v == expression(I, loop_header(ssa, header, curr_block), header, e)
         S == IF r = "NEITHER" THEN compare(v.ssa, header, v.value) ELSE v.ssa
     IN /\ r \in Verdicts(e, v.value, TRUE)
        /\ ssa' = IF r = "TRUE" THEN S
                  ELSE AddBlock(S, header + 1, S.values[header])
        /\ Says(IF r = "NEITHER" THEN "cond" ELSE "loop", None, e)

WhileValueIgnored == CWhileIgnored /\ UNCHANGED ssa_vars

\* A variable ends the loop with the value another one, which the loop leaves
\* alone, has in the header.
Crossed(header, back) ==
  \E x, y \in Idents :
    /\ x # y
    /\ ssa.values[back][x] = ssa.values[header][y]
    /\ ssa.values[back][y] = ssa.values[header][y]

OdValue ==
  /\ COd
  /\ (Live(Top) /\ Top.result # "TRUE" /\ ~will_return(ir, curr_block)) =>
       (CrossedPhis \/ ~Crossed(Top.cond, curr_block))
  /\ ssa' = CASE Live(Top) /\ Top.result = "FALSE" ->
                   close_loop_values(ir, ssa, Top, curr_block)
              [] Live(Top) /\ Top.result = "NEITHER" ->
                   LET S == close_loop_values(ir, ssa, Top, curr_block)
                   IN AddBlock(S, ir.size, S.values[Top.cond])
              [] OTHER -> ssa
  /\ UNCHANGED text

\* GETPAR takes the last argument first.
FunctionBegin ==
  /\ entry = 0
  /\ CBegin("function")
  /\ ssa' = FoldRight(LAMBDA x, S :
                        change_ident_value(
                          AddInstruction(S, ir.size, "GETPAR", None, None, None),
                          ir.size, x, S.count + 1),
                      [x \in 1..NumParams |-> x],
                      AddBlock(ssa, ir.size, [x \in Idents |-> 0]))
  /\ Says("begin", None, Nothing)

FunctionReturns ==
  /\ CFunctionEnd
  /\ UNCHANGED ssa
  /\ Says("end", None, Nothing)

-----------------------------------------------------------------------------
SInit == CInit /\ ssa = EmptySsa /\ text = <<>>

SNext ==
  \/ \E t \in Lets : LetStatement(t)
  \/ \E e \in Writes : WriteStatement(e)
  \/ \E e \in Results \union {Nothing} : ReturnsValue(e)
  \/ \E e \in Conds, r \in Relation : IfValue(e, r)
  \/ IfValueIgnored
  \/ ThenValueEnd
  \/ FiValue
  \/ \E e \in Conds, r \in Relation : WhileValue(e, r)
  \/ WhileValueIgnored
  \/ OdValue
  \/ FunctionBegin
  \/ FunctionReturns

-----------------------------------------------------------------------------
(* Properties.                                                             *)

\* The blocks on the way from b up the dominator tree.
Above(b) ==
  LET up[c \in 0..b] == IF c = 0 THEN {} ELSE {c} \union up[ir.doms[c]]
  IN up[b]

Carries(b, i, n) == ssa.insts[b][i].number = n /\ ssa.insts[b][i].op # "DELETED"

\* n has been computed whenever the end of block b is reached.
AtEnd(b, n) ==
  n = 0 \/ \E c \in Above(b) : \E i \in DOMAIN ssa.insts[c] : Carries(c, i, n)

\* n has been computed whenever the i-th instruction of block b is reached.
Before(b, i, n) ==
  \/ \E j \in 1..(i - 1) : Carries(b, j, n)
  \/ AtEnd(ir.doms[b], n)

\* The last blocks of the two edges whose arguments a PHI of b holds.
LeftEdge(b) == ir.blocks[b].predecessors[1]
RightEdge(b) == IF is_loop_header(ir, b) THEN ir.blocks[b].branch_block
                ELSE ir.blocks[b].predecessors[2]

\* Every argument of an instruction of a finished function, and every returned
\* value, is computed before it is needed, on all ways there; a PHI's on the
\* edge it belongs to.
DefinitionsDominateUses ==
  Complete =>
    \A b \in Blocks :
      /\ \A i \in DOMAIN ssa.insts[b] :
           LET inst == ssa.insts[b][i] IN
           CASE inst.op = "DELETED" -> TRUE
             [] inst.op = "PHI" ->
                  /\ AtEnd(LeftEdge(b), inst.larg)
                  /\ inst.rarg # None => AtEnd(RightEdge(b), inst.rarg)
             [] OTHER -> \A n \in {inst.larg, inst.rarg} \ {None} : Before(b, i, n)
      /\ ssa.result[b] # None => AtEnd(b, ssa.result[b])

\* The parser never finds a deleted instruction, or one from a block that may
\* not have run, behind an identifier.
ValuesUsable ==
  Parsing /\ ~ignore => \A x \in Idents : AtEnd(curr_block, ssa.values[curr_block][x])

\* "We want ALL references of that phi number to be replaced": nothing in a
\* finished function refers to a deleted instruction.
ReferencesReplaced ==
  Complete =>
    \A b, c \in Blocks : \A i \in DOMAIN ssa.insts[b] :
      ssa.insts[b][i].op = "DELETED" =>
        /\ ssa.result[c] # ssa.insts[b][i].number
        /\ \A j \in DOMAIN ssa.insts[c] :
             ssa.insts[c][j].op # "DELETED" =>
               ssa.insts[b][i].number \notin {ssa.insts[c][j].larg, ssa.insts[c][j].rarg}

\* Instructions are only ever appended, except that the end of a loop rewrites
\* those of the loop.
OnlyLoopsRewritten ==
  [][\A b \in Blocks :
       \/ IsPrefix(ssa.insts[b], ssa'.insts[b])
       \/ /\ Len(frames') < Len(frames)
          /\ Top.kind = "while" /\ Live(Top) /\ b >= Top.cond]_ssa

=============================================================================
