------------------------------ MODULE Declarations ------------------------------
(***************************************************************************)
(* Names: the identifier table of the Lexer, what the Parser does to it at *)
(* every declaration, and how a call finds the function it names.          *)
(*                                                                         *)
(* A name has an index only while its scope is parsed, and an index has a  *)
(* value only in a block (identifier_values).  The table is wiped and      *)
(* filled again for every function and once more for main, whose variables *)
(* were declared before all of them.  A call of a function that is not     *)
(* declared yet finds no value; it is noted under the last identifier the  *)
(* Lexer has seen and gets its place in the end.                           *)
(*                                                                         *)
(* Instruction numbers are terms: <<"entry", k>>, the first instruction of *)
(* the k-th function, <<"getpar", j>>, <<"let", k>>, <<"phi", l, i>>, the  *)
(* PHI of index i in the l-th loop.  Keywords, which are never removed     *)
(* from the table, are left out of it.                                     *)
(***************************************************************************)
EXTENDS Integers, Sequences, SequencesExt, FiniteSets, Functions

CONSTANTS
  MaxName,        \* names are numbers, in the order of std::map
  MaxFunctions,
  MaxLocals,      \* parameters and variables of one scope
  MaxStatements,  \* of the whole program
  Classes         \* the classes of programs that are admitted

ASSUME NameAssumption ==
  /\ MaxName \in Nat /\ MaxFunctions \in Nat /\ MaxLocals \in Nat /\ MaxStatements \in Nat
  /\ Classes \subseteq {"local named as function", "bare early call"}

Name == 1..MaxName
AKeyword == 0      \* as last_ident_string
Zero == <<"zero">>
NoValue == <<"none">>

VARIABLES
  lexer,             \* identifier_table, defineds, ident_index, func_count
  place,             \* "start", "function", "between" or "main"; "done" at the end
  func_strings,
  func_first_instructs,
  func_map,
  saved_identifier_strings,
  incomplete_func_calls,
  identifier_values, \* of curr_block, from index 0
  loops,             \* one record for each loop that is being parsed
  jsrs,              \* the JSRs: the name in the source, and the argument
  keyword_next,      \* a keyword follows a call without parentheses at once
  scope,             \* history: parameters, variables, and which of them were assigned
  statements         \* bound

parsing == <<func_strings, func_first_instructs, func_map, saved_identifier_strings>>
body == <<identifier_values, loops, jsrs, incomplete_func_calls>>
names_vars == <<lexer, place, parsing, body, keyword_next, scope, statements>>

-----------------------------------------------------------------------------
(* The Lexer.                                                              *)

NoIdentifiers == [x \in {} |-> 0]

\* The table without the names, and the names in the order of the table.
wipe(lex) == [lex EXCEPT !.identifier_table = NoIdentifiers, !.ident_index = 0, !.defineds = <<>>]
Wiped(lex) ==
  LET names == DOMAIN lex.identifier_table
  IN CHOOSE s \in [1..Cardinality(names) -> names] :
       \A i, j \in DOMAIN s : i < j => s[i] < s[j]

\* The table is left as it is when the name is known in it.
NewIdent(lex, name) ==
  [lex EXCEPT
    !.identifier_table = [n \in DOMAIN @ \union {name} |-> IF n = name THEN lex.ident_index ELSE @[n]],
    !.ident_index = @ + 1, !.defineds = Append(@, FALSE)]

\* A name that is in the table already keeps its index.
insert_ident_Keep(lex, names) ==
  FoldLeft(LAMBDA l, n : IF n \in DOMAIN l.identifier_table THEN l ELSE NewIdent(l, n), lex, names)

insert_ident(lex, names) == FoldLeft(NewIdent, lex, names)

tokenize_identifier(lex, name) ==
  IF name \in DOMAIN lex.identifier_table THEN lex ELSE NewIdent(lex, name)

Ident(lex, name) == lex.identifier_table[name]

set_defined(lex, name) == [lex EXCEPT !.defineds[Ident(lex, name) + 1] = TRUE]

\* The first variable behind the functions is left out.
check_all_defined_Behind(lex) ==
  {n \in DOMAIN lex.identifier_table :
     ~lex.defineds[Ident(lex, n) + 1] /\ Ident(lex, n) > lex.func_count}

\* The names of which a warning is printed when the scope ends.
check_all_defined(lex) ==
  {n \in DOMAIN lex.identifier_table :
     ~lex.defineds[Ident(lex, n) + 1] /\ Ident(lex, n) >= lex.func_count}

-----------------------------------------------------------------------------
(* Declarations.                                                           *)

Declared(lex, names) == FoldLeft(tokenize_identifier, lex, names)

Distinct(k) == {s \in UNION {[1..n -> Name] : n \in 0..k} : IsInjective(s)}

NoScope == [params |-> <<>>, variables |-> {}, assigned |-> {}]

Init ==
  /\ lexer = [identifier_table |-> NoIdentifiers, ident_index |-> 0, defineds |-> <<>>,
              func_count |-> 0]
  /\ place = "start"
  /\ func_strings = <<>> /\ func_first_instructs = <<>> /\ func_map = NoIdentifiers
  /\ saved_identifier_strings = <<>> /\ incomplete_func_calls = <<>>
  /\ identifier_values = <<>> /\ loops = <<>> /\ jsrs = <<>> /\ keyword_next = FALSE
  /\ scope = NoScope /\ statements = 0

\* "main" and its variables, wiped as soon as the functions begin.
MainVariables ==
  /\ place = "start"
  /\ \E vars \in Distinct(MaxLocals) :
       LET lex == Declared(lexer, vars)
       IN /\ lexer' = wipe(lex) /\ saved_identifier_strings' = Wiped(lex)
  /\ place' = "between"
  /\ UNCHANGED <<func_strings, func_first_instructs, func_map, body, keyword_next, scope, statements>>

\* new_function: every identifier is 0.
Zeros(lex) == [i \in 0..(lex.ident_index - 1) |-> Zero]

\* The GETPARs in the order of the parameters, although they pop from a stack.
GETPARs_InOrder(lex, values, params) ==
  FoldLeft(LAMBDA v, j : [v EXCEPT ![Ident(lex, params[j])] = <<"getpar", j>>],
           values, [j \in 1..Len(params) |-> j])

\* The GETPARs are added from the last parameter to the first.
GETPARs(lex, values, params) ==
  FoldLeft(LAMBDA v, j : [v EXCEPT ![Ident(lex, params[Len(params) + 1 - j])] = <<"getpar", j>>],
           values, [j \in 1..Len(params) |-> j])

\* change_ident_value for the functions of the table, from index 0.
Entries(values, firsts) ==
  [i \in DOMAIN values |-> IF i < Len(firsts) THEN firsts[i + 1] ELSE values[i]]

\* From "function" to the "{" of the body. A name is declared once: a second function
\* of the same name would write its entry to an index that is not its own.
FunctionHeader ==
  /\ place = "between" /\ Len(func_strings) < MaxFunctions
  /\ \E f \in Name \ Range(func_strings), params \in Distinct(MaxLocals), vars \in Distinct(MaxLocals) :
       LET k == Len(func_strings) + 1
           named == tokenize_identifier(insert_ident(wipe(lexer), func_strings), f)
           counted == [named EXCEPT !.func_count = @ + 1]
           with_params == FoldLeft(set_defined, Declared(counted, params), params)
           lex == Declared(with_params, vars)
           first == <<"entry", k>>
       IN /\ Range(params) \intersect Range(vars) = {} /\ Len(params) + Len(vars) <= MaxLocals
          /\ Range(vars) \intersect (Range(func_strings) \union {f}) # {}
               => "local named as function" \in Classes
          /\ lexer' = lex
          /\ func_strings' = Append(func_strings, f)
          /\ identifier_values' =
               GETPARs(lex, Entries(Zeros(lex), Append(func_first_instructs, first)), params)
          /\ scope' = [params |-> params, variables |-> Range(vars), assigned |-> {}]
  /\ place' = "function"
  /\ UNCHANGED <<func_first_instructs, func_map, saved_identifier_strings, loops, jsrs,
                 incomplete_func_calls, keyword_next, statements>>

-----------------------------------------------------------------------------
(* Statements. Left out: code that is ignored, where a call of a function  *)
(* asks for the instructions of block -1 and throws; if, whose JOIN keeps  *)
(* what both ways agree on; the expressions.                               *)

Parsing == place \in {"function", "main"}
Variables == Range(scope.params) \union scope.variables

get_ident_value(i) == IF i \in DOMAIN identifier_values THEN identifier_values[i] ELSE NoValue

Statement ==
  /\ Parsing /\ statements < MaxStatements /\ statements' = statements + 1
  /\ UNCHANGED <<place, parsing>>

LetStatement ==
  /\ Statement
  /\ \E x \in Variables :
       /\ lexer' = set_defined(lexer, x)
       /\ identifier_values' = [identifier_values EXCEPT ![Ident(lexer, x)] = <<"let", statements>>]
       /\ scope' = [scope EXCEPT !.assigned = @ \union {x}]
  /\ keyword_next' = FALSE
  /\ UNCHANGED <<loops, jsrs, incomplete_func_calls>>

\* Without parentheses or semicolon the Lexer has gone on to the next keyword when its
\* last identifier is taken for the name of the function.
FunctionStatement ==
  /\ Statement
  /\ \E f \in Name \ Variables, bare \in BOOLEAN :
       LET lex == tokenize_identifier(lexer, f)
           jump_location == get_ident_value(Ident(lex, f))
           func_name == IF bare THEN AKeyword ELSE f
       IN /\ bare /\ jump_location = NoValue => "bare early call" \in Classes
          /\ lexer' = lex
          /\ jsrs' = Append(jsrs, [name |-> f, larg |-> jump_location])
          /\ incomplete_func_calls' =
               IF jump_location = NoValue
                 THEN Append(incomplete_func_calls, [jsr |-> Len(jsrs) + 1, name |-> func_name])
                 ELSE incomplete_func_calls
          /\ keyword_next' = bare
  /\ UNCHANGED <<identifier_values, loops, scope>>

PHI(loop, i) == <<"phi", loop.id, i>>

\* The header has a PHI for every identifier, functions included.
WhileHeader ==
  /\ Statement
  /\ LET loop == [id |-> statements, values |-> identifier_values, first_jsr |-> Len(jsrs) + 1]
     IN /\ loops' = Append(loops, loop)
        /\ identifier_values' = [i \in DOMAIN identifier_values |-> PHI(loop, i)]
  /\ keyword_next' = FALSE
  /\ UNCHANGED <<lexer, jsrs, incomplete_func_calls, scope>>

\* The calls in the loop keep the PHIs.
Replaced_Values(loop, deleted, v, in_call) ==
  IF ~in_call /\ \E i \in deleted : v = PHI(loop, i) THEN loop.values[v[3]] ELSE v

\* update_phi and update_ident_vals: a PHI of an identifier the loop did not change is
\* deleted and replaced in every instruction of the loop.
Replaced(loop, deleted, v, in_call) ==
  IF \E i \in deleted : v = PHI(loop, i) THEN loop.values[v[3]] ELSE v

WhileEnd ==
  /\ Parsing /\ loops # <<>>
  /\ LET loop == Last(loops)
         deleted == {i \in DOMAIN identifier_values : identifier_values[i] = PHI(loop, i)}
     IN /\ identifier_values' =
             [i \in DOMAIN identifier_values |-> Replaced(loop, deleted, PHI(loop, i), FALSE)]
        /\ jsrs' = [j \in DOMAIN jsrs |->
             IF j < loop.first_jsr THEN jsrs[j]
             ELSE [jsrs[j] EXCEPT !.larg = Replaced(loop, deleted, @, TRUE)]]
        /\ loops' = Front(loops)
  /\ keyword_next' = FALSE
  /\ UNCHANGED <<lexer, place, parsing, incomplete_func_calls, scope, statements>>

-----------------------------------------------------------------------------
(* The end of a function, of all of them, and of main.                     *)

BodyEnds == loops = <<>> /\ ~keyword_next

FunctionEnd ==
  /\ place = "function" /\ BodyEnds
  /\ LET first == <<"entry", Len(func_strings)>>
         f == Last(func_strings)
     IN /\ func_first_instructs' = Append(func_first_instructs, first)
        /\ func_map' = [n \in DOMAIN func_map \union {f} |-> IF n = f THEN first ELSE func_map[n]]
  /\ place' = "between"
  /\ UNCHANGED <<lexer, func_strings, saved_identifier_strings, body, keyword_next, scope, statements>>

fix_func_call(calls, call) ==
  IF call.name \in DOMAIN func_map THEN [calls EXCEPT ![call.jsr].larg = func_map[call.name]] ELSE calls

\* The calls are fixed; then main gets the functions, and its variables behind them,
\* in the order of the table they were wiped from.
EstablishMain ==
  /\ place = "between"
  /\ jsrs' = FoldLeft(fix_func_call, jsrs, incomplete_func_calls)
  /\ LET lex == insert_ident(insert_ident(wipe(lexer), func_strings), saved_identifier_strings)
     IN /\ lexer' = lex
        /\ identifier_values' = Entries(Zeros(lex), func_first_instructs)
  /\ scope' = [params |-> <<>>, variables |-> Range(saved_identifier_strings), assigned |-> {}]
  /\ place' = "main"
  /\ UNCHANGED <<parsing, loops, incomplete_func_calls, keyword_next, statements>>

MainEnd ==
  /\ place = "main" /\ BodyEnds
  /\ place' = "done"
  /\ UNCHANGED <<lexer, parsing, body, keyword_next, scope, statements>>

Next ==
  \/ MainVariables \/ FunctionHeader \/ LetStatement \/ FunctionStatement
  \/ WhileHeader \/ WhileEnd \/ FunctionEnd \/ EstablishMain \/ MainEnd

Spec == Init /\ [][Next]_names_vars

-----------------------------------------------------------------------------
(* Properties.                                                             *)

\* When the program is parsed every call of a function it declares, before or behind
\* the call, in a loop or not, jumps to that function: the table was wiped and filled
\* again for every scope in between, and a call in a loop got a PHI for its function.
CallsReachFunctions ==
  place = "done" =>
    \A j \in DOMAIN jsrs, k \in DOMAIN func_strings :
      jsrs[j].name = func_strings[k] => jsrs[j].larg = <<"entry", k>>

\* The value of a name before anything is assigned to it: a parameter has the GETPAR
\* that pops it (the first one pops the last argument), a variable is 0, and what is
\* neither is one of the functions declared so far.
Meant(n) ==
  IF n \in Range(scope.params)
    THEN <<"getpar", Len(scope.params) + 1 - CHOOSE j \in DOMAIN scope.params : scope.params[j] = n>>
  ELSE IF n \in scope.variables THEN Zero
  ELSE <<"entry", CHOOSE k \in DOMAIN func_strings : func_strings[k] = n>>

\* A name that was not assigned means what its declaration says, whatever was assigned
\* to other names and however many loops are open: no two names of a scope share an
\* index, also when a parameter or a variable of main has the name of a function, and
\* every index has its place in the block.
NamesKeepMeaning ==
  Parsing =>
    \A n \in (Variables \union Range(func_strings)) \ scope.assigned :
      LET i == Ident(lexer, n)
          value(d) == IF d = Len(loops) THEN identifier_values[i] ELSE loops[d + 1].values[i]
      IN /\ value(0) = Meant(n)
         /\ \A d \in 1..Len(loops) : value(d) = PHI(loops[d], i)

\* check_all_defined, at the end of a scope, speaks of exactly those of its variables
\* that no let assigns: indices of functions, however many there are by then, and of
\* parameters are left out.
WarningsMatch ==
  Parsing => check_all_defined(lexer) \intersect Variables = scope.variables \ scope.assigned

=============================================================================
