--------------------------- MODULE DeclarationsProofs ---------------------------
(***************************************************************************)
(* Proofs about Declarations, for programs with any number of names,       *)
(* functions, parameters, variables, loops and statements: every call      *)
(* jumps to the function it names, every name means its declaration, and   *)
(* the warnings of a scope are of its unassigned variables.                *)
(*                                                                         *)
(* The program changes the table of the Lexer with loops over lists of     *)
(* names, the folds of the model.  The first part says what those folds    *)
(* are step by step, the second what each of them does to a table, the     *)
(* third what the table of a scope looks like when its declarations are    *)
(* parsed (Filled): the functions have the first indices, in their order,  *)
(* the variables are behind them, and no two names share an index.  From   *)
(* there the invariant follows action by action; its heart is that a call  *)
(* that was parsed waits in incomplete_func_calls, has its function for an *)
(* argument, or has the PHI of a loop that is still open, whose end turns  *)
(* it into the argument before the loop.                                   *)
(*                                                                         *)
(* The theorems assume that Classes is empty, as the run does: in the two  *)
(* classes of programs it names the properties are false.                  *)
(***************************************************************************)
EXTENDS Declarations, FiniteSetTheorems, SequenceTheorems, WellFoundedInduction, TLAPS

-----------------------------------------------------------------------------
(* Numbers, and the folds over lists.                                      *)

\* A set of numbers that is not empty has a least one.
LEMMA LeastNumber ==
  ASSUME NEW S \in SUBSET Nat, S # {}
  PROVE  \E i \in S : \A j \in S : i <= j
<1>1. PICK i \in S : \A j \in S : ~(<<j, i>> \in OpToRel(<, Nat))
  BY NatLessThanWellFounded, WFMin, Zenon
<1>2. ASSUME NEW k \in Nat, NEW m \in Nat, k < m
      PROVE  <<k, m>> \in OpToRel(<, Nat)
  BY <1>2 DEF OpToRel
<1>3. ASSUME NEW j \in S PROVE i <= j
  <2>1. i \in Nat /\ j \in Nat /\ ~(j < i)
    BY <1>1, <1>2, Zenon
  <2> QED
    BY <2>1
<1> QED
  BY <1>3

\* Induction up to n.
LEMMA UpTo ==
  ASSUME NEW n \in Nat, NEW S, 0 \in S, \A k \in 1..n : k - 1 \in S => k \in S
  PROVE  \A k \in 0..n : k \in S
<1> SUFFICES ASSUME {k \in 0..n : k \notin S} # {}
             PROVE  FALSE
  OBVIOUS
<1> DEFINE T == {k \in 0..n : k \notin S}
<1>1. PICK i \in T : \A j \in T : i <= j
  <2>1. T \in SUBSET Nat /\ T # {}
    OBVIOUS
  <2> HIDE DEF T
  <2> QED
    BY <2>1, LeastNumber
<1>2. i \in 1..n /\ i - 1 \in 0..n /\ i \notin S
  BY <1>1
<1> QED
  BY <1>1, <1>2

\* Max, which FoldLeft goes by, of some of the numbers up to n.
LEMMA LastOfSome ==
  ASSUME NEW n \in Nat, NEW s \in SUBSET (1..n), s # {}
  PROVE  Max(s) \in s /\ \A j \in s : j <= Max(s)
<1> DEFINE T == {m \in 0..n : \A j \in s : j <= m}
<1>1. PICK m \in T : \A j \in T : m <= j
  <2>1. n \in T /\ T \in SUBSET Nat
    OBVIOUS
  <2> QED
    BY <2>1, LeastNumber
<1>2. m \in s
  <2> SUFFICES ASSUME m \notin s
               PROVE  FALSE
    OBVIOUS
  <2>1. PICK j \in s : TRUE
    OBVIOUS
  <2>2. m - 1 \in T
    BY <1>1, <2>1
  <2> QED
    BY <1>1, <2>2
<1>3. \A j \in s : m >= j
  BY <1>1
<1>4. Max(s) \in s /\ \A j \in s : Max(s) >= j
  BY <1>2, <1>3, Zenon DEF Max
<1> QED
  BY <1>4

\* The prefixes of 1..n: taking the last number off one leaves the one before.
LEMMA LastOfFirst ==
  ASSUME NEW n \in Nat
  PROVE  /\ 1..0 = {} /\ {} \in SUBSET (1..n)
         /\ \A i \in 1..n : /\ (1..i) \in SUBSET (1..n) /\ 1..i # {} /\ Max(1..i) = i
                           /\ (1..i) \ {i} = 1..(i - 1)
<1> SUFFICES ASSUME NEW i \in 1..n
             PROVE  /\ (1..i) \in SUBSET (1..n) /\ 1..i # {} /\ Max(1..i) = i
                    /\ (1..i) \ {i} = 1..(i - 1)
  OBVIOUS
<1>1. (1..i) \in SUBSET (1..n) /\ 1..i # {}
  OBVIOUS
<1>2. Max(1..i) \in 1..i /\ \A j \in 1..i : j <= Max(1..i)
  BY <1>1, LastOfSome
<1>3. i \in 1..i
  OBVIOUS
<1> QED
  BY <1>1, <1>2, <1>3

\* FoldLeft is a recursive function over sets of positions.  That there is
\* one is proved once, for a step G that is a function, and then for each
\* operator the model folds with.
Folding(n, seq, base, G, g) ==
  \A s \in SUBSET (1..n) :
    g[s] = IF s = {} THEN base ELSE G[<<g[s \ {Max(s)}], seq[Max(s)]>>]

Folded(A, E, G, base, seq) ==
  \E g \in [SUBSET (1..Len(seq)) -> A] :
    /\ Folding(Len(seq), seq, base, G, g)
    /\ \A s \in SUBSET (1..Len(seq)) : s # {} => g[s \ {Max(s)}] \in A /\ seq[Max(s)] \in E

\* Built up one position after the other.
LEMMA FoldingExists ==
  ASSUME NEW A, NEW E, NEW G \in [A \X E -> A], NEW base \in A, NEW seq \in Seq(E)
  PROVE  Folded(A, E, G, base, seq)
<1> DEFINE N == Len(seq)
           Some(k) == \E g \in [SUBSET (1..k) -> A] : Folding(k, seq, base, G, g)
           S == {k \in 0..N : Some(k)}
<1>1. N \in Nat /\ \A k \in 1..N : seq[k] \in E
  OBVIOUS
<1> HIDE DEF N
<1>2. Some(0)
  <2> DEFINE g == [s \in SUBSET (1..0) |-> base]
  <2>1. g \in [SUBSET (1..0) -> A]
    OBVIOUS
  <2>2. \A s \in SUBSET (1..0) : s = {} /\ g[s] = base
    OBVIOUS
  <2> HIDE DEF g
  <2>3. Folding(0, seq, base, G, g)
    BY <2>2 DEF Folding
  <2> QED
    BY <2>1, <2>3
<1>3. ASSUME NEW k \in 1..N, Some(k - 1)
      PROVE  Some(k)
  <2>1. PICK f \in [SUBSET (1..(k - 1)) -> A] : Folding(k - 1, seq, base, G, f)
    BY <1>3
  <2> DEFINE g == [s \in SUBSET (1..k) |-> IF k \in s THEN G[<<f[s \ {k}], seq[k]>>] ELSE f[s]]
  <2>2. k \in Nat /\ \A s \in SUBSET (1..k) : s \ {k} \in SUBSET (1..(k - 1))
    BY <1>1
  <2>3. ASSUME NEW s \in SUBSET (1..k), k \notin s
        PROVE  s \in SUBSET (1..(k - 1)) /\ s \ {k} = s
    BY <1>1, <2>3
  <2>4. g \in [SUBSET (1..k) -> A]
    <3>1. \A s \in SUBSET (1..k) : f[s \ {k}] \in A
      BY <2>2
    <3>2. \A s \in SUBSET (1..k) : <<f[s \ {k}], seq[k]>> \in A \X E
      BY <1>1, <3>1
    <3>3. \A s \in SUBSET (1..k) : G[<<f[s \ {k}], seq[k]>>] \in A
      BY <3>2
    <3>4. \A s \in SUBSET (1..k) : k \notin s => f[s] \in A
      BY <2>3
    <3> QED
      BY <3>3, <3>4
  <2>5. \A s \in SUBSET (1..k) : g[s] = IF k \in s THEN G[<<f[s \ {k}], seq[k]>>] ELSE f[s]
    OBVIOUS
  <2> HIDE DEF g
  <2>6. ASSUME NEW s \in SUBSET (1..k)
        PROVE  g[s] = IF s = {} THEN base ELSE G[<<g[s \ {Max(s)}], seq[Max(s)]>>]
    <3>1. CASE k \in s
      <4>1. Max(s) = k
        <5>1. Max(s) \in s /\ \A j \in s : j <= Max(s)
          BY <2>2, <3>1, LastOfSome
        <5>2. Max(s) \in 1..k /\ k <= Max(s)
          BY <3>1, <5>1
        <5> QED
          BY <5>2
      <4>2. s \ {k} \in SUBSET (1..k) /\ k \notin s \ {k} /\ (s \ {k}) \ {k} = s \ {k}
        OBVIOUS
      <4>3. g[s \ {k}] = f[s \ {k}]
        BY <2>5, <4>2
      <4> QED
        BY <2>5, <3>1, <4>1, <4>3
    <3>2. CASE s = {}
      <4>1. {} \in SUBSET (1..(k - 1)) /\ k \notin s
        BY <3>2
      <4> QED
        BY <2>1, <2>5, <3>2, <4>1 DEF Folding
    <3>3. CASE k \notin s /\ s # {}
      <4>1. s \in SUBSET (1..(k - 1)) /\ k - 1 \in Nat
        BY <1>1, <2>3, <3>3
      <4>2. Max(s) \in s
        BY <2>2, <3>3, LastOfSome
      <4> DEFINE r == s \ {Max(s)}
      <4>3. r \in SUBSET (1..k) /\ k \notin r
        BY <3>3
      <4>4. g[s] = f[s] /\ g[r] = f[r]
        BY <2>5, <3>3, <4>3
      <4>5. f[s] = G[<<f[r], seq[Max(s)]>>]
        BY <2>1, <3>3, <4>1 DEF Folding
      <4> QED
        BY <3>3, <4>4, <4>5
    <3> QED
      BY <3>1, <3>2, <3>3
  <2>7. Folding(k, seq, base, G, g)
    BY <2>6 DEF Folding
  <2> QED
    BY <2>4, <2>7
<1>4. 0 \in S /\ \A k \in 1..N : k - 1 \in S => k \in S
  <2> HIDE DEF Some
  <2>1. \A k \in 1..N : k - 1 \in 0..N /\ k \in 0..N
    BY <1>1
  <2> QED
    BY <1>1, <1>2, <1>3, <2>1
<1>5. N \in S
  <2>1. N \in 0..N
    BY <1>1
  <2> HIDE DEF S
  <2> QED
    BY <1>1, <1>4, <2>1, UpTo
<1>6. PICK g \in [SUBSET (1..N) -> A] : Folding(N, seq, base, G, g)
  BY <1>5
<1>7. ASSUME NEW s \in SUBSET (1..N), s # {}
      PROVE  g[s \ {Max(s)}] \in A /\ seq[Max(s)] \in E
  <2>1. Max(s) \in 1..N
    BY <1>1, <1>7, LastOfSome
  <2>2. s \ {Max(s)} \in SUBSET (1..N)
    OBVIOUS
  <2> QED
    BY <1>1, <1>6, <2>1, <2>2
<1> QED
  BY <1>6, <1>7 DEF N, Folded

\* h[1..i] is the table after the first i names.
NewIdentSteps(h, base, seq) ==
  /\ h[{}] = base
  /\ \A i \in 1..Len(seq) : h[1..i] = NewIdent(h[1..(i - 1)], seq[i])
  /\ FoldLeft(NewIdent, base, seq) = h[1..Len(seq)]

LEMMA NewIdentFold ==
  ASSUME NEW A, NEW E, NEW base \in A, NEW seq \in Seq(E),
         \A a \in A, e \in E : NewIdent(a, e) \in A
  PROVE  \E h : NewIdentSteps(h, base, seq)
<1> DEFINE n == Len(seq)
           G == [p \in A \X E |-> NewIdent(p[1], p[2])]
           Is(g) == g = [s \in SUBSET (1..n) |->
                           IF s = {} THEN base ELSE NewIdent(g[s \ {Max(s)}], seq[Max(s)])]
           h == CHOOSE g : Is(g)
<1>1. n \in Nat /\ DOMAIN seq = 1..n
  OBVIOUS
<1>2. G \in [A \X E -> A] /\ \A a \in A, e \in E : G[<<a, e>>] = NewIdent(a, e)
  OBVIOUS
<1> HIDE DEF G
<1>3. PICK g \in [SUBSET (1..n) -> A] :
        /\ Folding(n, seq, base, G, g)
        /\ \A s \in SUBSET (1..n) : s # {} => g[s \ {Max(s)}] \in A /\ seq[Max(s)] \in E
  <2>1. Folded(A, E, G, base, seq)
    BY <1>2, FoldingExists
  <2> QED
    BY <2>1 DEF Folded
<1>4. FoldLeft(NewIdent, base, seq) = h[1..n]
  BY <1>1 DEF FoldLeft, MapThenFoldSet
<1>5. Is(h)
  <2>1. Is(g)
    BY <1>2, <1>3 DEF Folding
  <2> HIDE DEF Is
  <2> QED
    BY <2>1
<1> HIDE DEF h
<1>6. \A s \in SUBSET (1..n) :
        h[s] = IF s = {} THEN base ELSE NewIdent(h[s \ {Max(s)}], seq[Max(s)])
  BY <1>5
<1>7. ASSUME NEW i \in 1..n
      PROVE  h[1..i] = NewIdent(h[1..(i - 1)], seq[i])
  <2>1. h[1..i] = NewIdent(h[(1..i) \ {Max(1..i)}], seq[Max(1..i)])
    BY <1>1, <1>6, LastOfFirst
  <2>2. Max(1..i) = i /\ (1..i) \ {i} = 1..(i - 1)
    BY <1>1, LastOfFirst
  <2> QED
    BY <2>1, <2>2, Zenon
<1>8. h[{}] = base
  BY <1>1, <1>6, LastOfFirst
<1>9. NewIdentSteps(h, base, seq)
  BY <1>4, <1>7, <1>8, Zenon DEF NewIdentSteps
<1> QED
  BY <1>9

\* The same for the other folds, as no operator can be a parameter of a lemma.
TokenizeSteps(h, base, seq) ==
  /\ h[{}] = base
  /\ \A i \in 1..Len(seq) : h[1..i] = tokenize_identifier(h[1..(i - 1)], seq[i])
  /\ FoldLeft(tokenize_identifier, base, seq) = h[1..Len(seq)]

LEMMA TokenizeFold ==
  ASSUME NEW A, NEW E, NEW base \in A, NEW seq \in Seq(E),
         \A a \in A, e \in E : tokenize_identifier(a, e) \in A
  PROVE  \E h : TokenizeSteps(h, base, seq)
<1> DEFINE n == Len(seq)
           G == [p \in A \X E |-> tokenize_identifier(p[1], p[2])]
           Is(g) == g = [s \in SUBSET (1..n) |->
                           IF s = {} THEN base ELSE tokenize_identifier(g[s \ {Max(s)}], seq[Max(s)])]
           h == CHOOSE g : Is(g)
<1>1. n \in Nat /\ DOMAIN seq = 1..n
  OBVIOUS
<1>2. G \in [A \X E -> A] /\ \A a \in A, e \in E : G[<<a, e>>] = tokenize_identifier(a, e)
  OBVIOUS
<1> HIDE DEF G
<1>3. PICK g \in [SUBSET (1..n) -> A] :
        /\ Folding(n, seq, base, G, g)
        /\ \A s \in SUBSET (1..n) : s # {} => g[s \ {Max(s)}] \in A /\ seq[Max(s)] \in E
  <2>1. Folded(A, E, G, base, seq)
    BY <1>2, FoldingExists
  <2> QED
    BY <2>1 DEF Folded
<1>4. FoldLeft(tokenize_identifier, base, seq) = h[1..n]
  BY <1>1 DEF FoldLeft, MapThenFoldSet
<1>5. Is(h)
  <2>1. Is(g)
    BY <1>2, <1>3 DEF Folding
  <2> HIDE DEF Is
  <2> QED
    BY <2>1
<1> HIDE DEF h
<1>6. \A s \in SUBSET (1..n) :
        h[s] = IF s = {} THEN base ELSE tokenize_identifier(h[s \ {Max(s)}], seq[Max(s)])
  BY <1>5
<1>7. ASSUME NEW i \in 1..n
      PROVE  h[1..i] = tokenize_identifier(h[1..(i - 1)], seq[i])
  <2>1. h[1..i] = tokenize_identifier(h[(1..i) \ {Max(1..i)}], seq[Max(1..i)])
    BY <1>1, <1>6, LastOfFirst
  <2>2. Max(1..i) = i /\ (1..i) \ {i} = 1..(i - 1)
    BY <1>1, LastOfFirst
  <2> QED
    BY <2>1, <2>2, Zenon
<1>8. h[{}] = base
  BY <1>1, <1>6, LastOfFirst
<1>9. TokenizeSteps(h, base, seq)
  BY <1>4, <1>7, <1>8, Zenon DEF TokenizeSteps
<1> QED
  BY <1>9

SetDefinedSteps(h, base, seq) ==
  /\ h[{}] = base
  /\ \A i \in 1..Len(seq) : h[1..i] = set_defined(h[1..(i - 1)], seq[i])
  /\ FoldLeft(set_defined, base, seq) = h[1..Len(seq)]

LEMMA SetDefinedFold ==
  ASSUME NEW A, NEW E, NEW base \in A, NEW seq \in Seq(E),
         \A a \in A, e \in E : set_defined(a, e) \in A
  PROVE  \E h : SetDefinedSteps(h, base, seq)
<1> DEFINE n == Len(seq)
           G == [p \in A \X E |-> set_defined(p[1], p[2])]
           Is(g) == g = [s \in SUBSET (1..n) |->
                           IF s = {} THEN base ELSE set_defined(g[s \ {Max(s)}], seq[Max(s)])]
           h == CHOOSE g : Is(g)
<1>1. n \in Nat /\ DOMAIN seq = 1..n
  OBVIOUS
<1>2. G \in [A \X E -> A] /\ \A a \in A, e \in E : G[<<a, e>>] = set_defined(a, e)
  OBVIOUS
<1> HIDE DEF G
<1>3. PICK g \in [SUBSET (1..n) -> A] :
        /\ Folding(n, seq, base, G, g)
        /\ \A s \in SUBSET (1..n) : s # {} => g[s \ {Max(s)}] \in A /\ seq[Max(s)] \in E
  <2>1. Folded(A, E, G, base, seq)
    BY <1>2, FoldingExists
  <2> QED
    BY <2>1 DEF Folded
<1>4. FoldLeft(set_defined, base, seq) = h[1..n]
  BY <1>1 DEF FoldLeft, MapThenFoldSet
<1>5. Is(h)
  <2>1. Is(g)
    BY <1>2, <1>3 DEF Folding
  <2> HIDE DEF Is
  <2> QED
    BY <2>1
<1> HIDE DEF h
<1>6. \A s \in SUBSET (1..n) :
        h[s] = IF s = {} THEN base ELSE set_defined(h[s \ {Max(s)}], seq[Max(s)])
  BY <1>5
<1>7. ASSUME NEW i \in 1..n
      PROVE  h[1..i] = set_defined(h[1..(i - 1)], seq[i])
  <2>1. h[1..i] = set_defined(h[(1..i) \ {Max(1..i)}], seq[Max(1..i)])
    BY <1>1, <1>6, LastOfFirst
  <2>2. Max(1..i) = i /\ (1..i) \ {i} = 1..(i - 1)
    BY <1>1, LastOfFirst
  <2> QED
    BY <2>1, <2>2, Zenon
<1>8. h[{}] = base
  BY <1>1, <1>6, LastOfFirst
<1>9. SetDefinedSteps(h, base, seq)
  BY <1>4, <1>7, <1>8, Zenon DEF SetDefinedSteps
<1> QED
  BY <1>9

FixSteps(h, base, seq) ==
  /\ h[{}] = base
  /\ \A i \in 1..Len(seq) : h[1..i] = fix_func_call(h[1..(i - 1)], seq[i])
  /\ FoldLeft(fix_func_call, base, seq) = h[1..Len(seq)]

LEMMA FixFold ==
  ASSUME NEW A, NEW E, NEW base \in A, NEW seq \in Seq(E),
         \A a \in A, e \in E : fix_func_call(a, e) \in A
  PROVE  \E h : FixSteps(h, base, seq)
<1> DEFINE n == Len(seq)
           G == [p \in A \X E |-> fix_func_call(p[1], p[2])]
           Is(g) == g = [s \in SUBSET (1..n) |->
                           IF s = {} THEN base ELSE fix_func_call(g[s \ {Max(s)}], seq[Max(s)])]
           h == CHOOSE g : Is(g)
<1>1. n \in Nat /\ DOMAIN seq = 1..n
  OBVIOUS
<1>2. G \in [A \X E -> A] /\ \A a \in A, e \in E : G[<<a, e>>] = fix_func_call(a, e)
  OBVIOUS
<1> HIDE DEF G
<1>3. PICK g \in [SUBSET (1..n) -> A] :
        /\ Folding(n, seq, base, G, g)
        /\ \A s \in SUBSET (1..n) : s # {} => g[s \ {Max(s)}] \in A /\ seq[Max(s)] \in E
  <2>1. Folded(A, E, G, base, seq)
    BY <1>2, FoldingExists
  <2> QED
    BY <2>1 DEF Folded
<1>4. FoldLeft(fix_func_call, base, seq) = h[1..n]
  BY <1>1 DEF FoldLeft, MapThenFoldSet
<1>5. Is(h)
  <2>1. Is(g)
    BY <1>2, <1>3 DEF Folding
  <2> HIDE DEF Is
  <2> QED
    BY <2>1
<1> HIDE DEF h
<1>6. \A s \in SUBSET (1..n) :
        h[s] = IF s = {} THEN base ELSE fix_func_call(h[s \ {Max(s)}], seq[Max(s)])
  BY <1>5
<1>7. ASSUME NEW i \in 1..n
      PROVE  h[1..i] = fix_func_call(h[1..(i - 1)], seq[i])
  <2>1. h[1..i] = fix_func_call(h[(1..i) \ {Max(1..i)}], seq[Max(1..i)])
    BY <1>1, <1>6, LastOfFirst
  <2>2. Max(1..i) = i /\ (1..i) \ {i} = 1..(i - 1)
    BY <1>1, LastOfFirst
  <2> QED
    BY <2>1, <2>2, Zenon
<1>8. h[{}] = base
  BY <1>1, <1>6, LastOfFirst
<1>9. FixSteps(h, base, seq)
  BY <1>4, <1>7, <1>8, Zenon DEF FixSteps
<1> QED
  BY <1>9

-----------------------------------------------------------------------------
(* The Lexer.                                                              *)

Lexers(U) ==
  [identifier_table : UNION {[S -> Nat] : S \in SUBSET U}, ident_index : Nat,
   defineds : Seq(BOOLEAN), func_count : Nat]

Known(lex) == DOMAIN lex.identifier_table

Defined(lex, n) == lex.defineds[Ident(lex, n) + 1]

\* The names that are known have different indices, each with its flag.
Numbered(lex) ==
  /\ lex \in Lexers(Known(lex))
  /\ Len(lex.defineds) = lex.ident_index
  /\ \A n \in Known(lex) : Ident(lex, n) < lex.ident_index
  /\ \A m, n \in Known(lex) : Ident(lex, m) = Ident(lex, n) => m = n

\* A lexer has its fields,
LEMMA LexerFields ==
  ASSUME NEW U, NEW lex, lex \in Lexers(U)
  PROVE  /\ Known(lex) \in SUBSET U /\ lex.identifier_table \in [Known(lex) -> Nat]
         /\ \A n \in Known(lex) : Ident(lex, n) \in Nat
         /\ lex.ident_index \in Nat /\ lex.defineds \in Seq(BOOLEAN) /\ lex.func_count \in Nat
<1>1. PICK S \in SUBSET U : lex.identifier_table \in [S -> Nat]
  BY DEF Lexers
<1>2. DOMAIN lex.identifier_table = S
  BY <1>1
<1> QED
  BY <1>1, <1>2 DEF Lexers, Known, Ident

\* and a record of such fields is a lexer.
LEMMA LexerBuilt ==
  ASSUME NEW U, NEW S \in SUBSET U, NEW t \in [S -> Nat], NEW i \in Nat,
         NEW d \in Seq(BOOLEAN), NEW c \in Nat
  PROVE  [identifier_table |-> t, ident_index |-> i, defineds |-> d, func_count |-> c] \in Lexers(U)
<1>1. t \in UNION {[R -> Nat] : R \in SUBSET U}
  OBVIOUS
<1> QED
  BY <1>1 DEF Lexers

\* The elements of a list after Append.
LEMMA Appended ==
  ASSUME NEW V, NEW s \in Seq(V), NEW v \in V
  PROVE  /\ Append(s, v)[Len(s) + 1] = v
         /\ \A i \in 1..Len(s) : Append(s, v)[i] = s[i]
OBVIOUS

\* What NewIdent makes of lex.
Added(lex, l, name) ==
  /\ Known(l) = Known(lex) \union {name} /\ Ident(l, name) = lex.ident_index
  /\ \A n \in Known(lex) \ {name} : Ident(l, n) = Ident(lex, n)
  /\ l.ident_index = lex.ident_index + 1 /\ l.func_count = lex.func_count
  /\ l.defineds = Append(lex.defineds, FALSE)

\* A new name has the next index and is not flagged.
LEMMA NewIdentAdds ==
  ASSUME NEW U, NEW lex \in Lexers(U), NEW name \in U
  PROVE  NewIdent(lex, name) \in Lexers(U) /\ Added(lex, NewIdent(lex, name), name)
<1> DEFINE S == Known(lex) \union {name}
           t == [n \in S |-> IF n = name THEN lex.ident_index ELSE lex.identifier_table[n]]
           d == Append(lex.defineds, FALSE)
           l == [identifier_table |-> t, ident_index |-> lex.ident_index + 1, defineds |-> d,
                 func_count |-> lex.func_count]
<1>1. /\ Known(lex) \in SUBSET U /\ lex.identifier_table \in [Known(lex) -> Nat]
      /\ lex.ident_index \in Nat /\ lex.defineds \in Seq(BOOLEAN) /\ lex.func_count \in Nat
  BY LexerFields
<1>2. NewIdent(lex, name) = l
  <2>1. lex = [identifier_table |-> lex.identifier_table, ident_index |-> lex.ident_index,
               defineds |-> lex.defineds, func_count |-> lex.func_count]
    BY DEF Lexers
  <2>2. NewIdent(lex, name) =
          [lex EXCEPT !.identifier_table = t, !.ident_index = lex.ident_index + 1, !.defineds = d]
    BY <2>1, Zenon DEF NewIdent, Known
  <2> HIDE DEF S, t, d
  <2> QED
    BY <2>1, <2>2
<1>3. t \in [S -> Nat] /\ S \in SUBSET U /\ d \in Seq(BOOLEAN) /\ lex.ident_index + 1 \in Nat
  BY <1>1
<1>4. /\ DOMAIN t = S /\ t[name] = lex.ident_index
      /\ \A n \in Known(lex) \ {name} : t[n] = lex.identifier_table[n]
  OBVIOUS
<1> HIDE DEF S, t, d
<1>5. l \in Lexers(U)
  BY <1>1, <1>3, LexerBuilt
<1>6. Added(lex, l, name)
  BY <1>4 DEF Added, Known, Ident, S, d
<1> HIDE DEF l
<1> QED
  BY <1>2, <1>5, <1>6

\* The indices stay distinct.
LEMMA AddedNumbered ==
  ASSUME NEW lex, Numbered(lex), NEW name
  PROVE  LET l == NewIdent(lex, name) IN Numbered(l) /\ Added(lex, l, name)
<1> DEFINE l == NewIdent(lex, name)
           U == Known(lex) \union {name}
<1>1. lex \in Lexers(U) /\ name \in U
  <2>1. lex \in Lexers(Known(lex))
    BY DEF Numbered
  <2>2. \A S \in SUBSET Known(lex) : S \in SUBSET U
    OBVIOUS
  <2> QED
    BY <2>1, <2>2 DEF Lexers
<1>2. l \in Lexers(U) /\ Added(lex, l, name)
  BY <1>1, NewIdentAdds
<1>3. /\ lex.ident_index \in Nat /\ lex.defineds \in Seq(BOOLEAN)
      /\ \A n \in Known(lex) : Ident(lex, n) \in Nat
  BY <1>1, LexerFields
<1> HIDE DEF l
<1>4. U = Known(l)
  BY <1>2 DEF Added
<1>5. Len(l.defineds) = l.ident_index
  BY <1>2, <1>3 DEF Added, Numbered
<1>6. ASSUME NEW n \in Known(l)
      PROVE  Ident(l, n) < l.ident_index
  BY <1>2, <1>3, <1>6 DEF Added, Numbered
<1>7. ASSUME NEW m \in Known(l), NEW n \in Known(l), Ident(l, m) = Ident(l, n)
      PROVE  m = n
  <2>1. \A k \in Known(lex) \ {name} : Ident(l, k) # lex.ident_index
    BY <1>2, <1>3 DEF Added, Numbered
  <2> QED
    BY <1>2, <1>7, <2>1 DEF Added, Numbered
<1>8. l \in Lexers(Known(l))
  BY <1>2, <1>4
<1> QED
  BY <1>2, <1>5, <1>6, <1>7, <1>8 DEF Numbered, l

\* l knows the names of S besides, which got new indices.
Extends(lex, l, S) ==
  /\ Numbered(l) /\ Known(l) = Known(lex) \union S
  /\ l.ident_index >= lex.ident_index /\ l.func_count = lex.func_count
  /\ \A n \in Known(lex) : Ident(l, n) = Ident(lex, n)
  /\ \A n \in S \ Known(lex) : Ident(l, n) >= lex.ident_index /\ ~Defined(l, n)
  /\ \A i \in 1..lex.ident_index : l.defineds[i] = lex.defineds[i]

LEMMA NumberedFields ==
  ASSUME NEW lex, Numbered(lex)
  PROVE  /\ lex.identifier_table \in [Known(lex) -> Nat]
         /\ \A n \in Known(lex) : Ident(lex, n) \in 0..(lex.ident_index - 1)
         /\ lex.ident_index \in Nat /\ lex.defineds \in Seq(BOOLEAN) /\ lex.func_count \in Nat
         /\ Len(lex.defineds) = lex.ident_index
<1>1. lex \in Lexers(Known(lex))
  BY DEF Numbered
<1>2. /\ lex.identifier_table \in [Known(lex) -> Nat]
      /\ \A n \in Known(lex) : Ident(lex, n) \in Nat
      /\ lex.ident_index \in Nat /\ lex.defineds \in Seq(BOOLEAN) /\ lex.func_count \in Nat
  BY <1>1, LexerFields
<1> QED
  BY <1>2 DEF Numbered

\* tokenize_identifier keeps the names that are known.
LEMMA TokenizeExtends ==
  ASSUME NEW lex, Numbered(lex), NEW name
  PROVE  Extends(lex, tokenize_identifier(lex, name), {name})
<1> DEFINE l == NewIdent(lex, name)
<1>1. /\ lex.ident_index \in Nat /\ lex.defineds \in Seq(BOOLEAN)
      /\ Len(lex.defineds) = lex.ident_index
  BY NumberedFields
<1>2. CASE name \in Known(lex)
  <2>1. tokenize_identifier(lex, name) = lex
    BY <1>2 DEF tokenize_identifier, Known
  <2>2. Extends(lex, lex, {name})
    BY <1>1, <1>2 DEF Extends
  <2> QED
    BY <2>1, <2>2
<1>3. CASE name \notin Known(lex)
  <2>1. tokenize_identifier(lex, name) = l
    BY <1>3 DEF tokenize_identifier, Known
  <2>2. Numbered(l) /\ Added(lex, l, name)
    BY AddedNumbered
  <2> HIDE DEF l
  <2>3. \A n \in Known(lex) : Ident(l, n) = Ident(lex, n)
    BY <1>3, <2>2 DEF Added
  <2>4. l.ident_index >= lex.ident_index
    BY <1>1, <2>2 DEF Added
  <2>5. /\ l.defineds[lex.ident_index + 1] = FALSE
        /\ \A i \in 1..lex.ident_index : l.defineds[i] = lex.defineds[i]
    <3> DEFINE d == lex.defineds
               e == Append(d, FALSE)
    <3>1. /\ e[Len(d) + 1] = FALSE
          /\ \A i \in 1..Len(d) : e[i] = d[i]
      <4>1. d \in Seq(BOOLEAN) /\ FALSE \in BOOLEAN
        BY <1>1
      <4> HIDE DEF d
      <4> QED
        BY <4>1, Appended, Zenon
    <3>2. l.defineds = e /\ Len(d) = lex.ident_index
      BY <1>1, <2>2 DEF Added
    <3> HIDE DEF e
    <3> QED
      BY <3>1, <3>2, Zenon
  <2>6. ~Defined(l, name) /\ Ident(l, name) >= lex.ident_index /\ Known(l) = Known(lex) \union {name}
    BY <1>1, <2>2, <2>5 DEF Added, Defined
  <2>7. Extends(lex, l, {name})
    BY <2>2, <2>3, <2>4, <2>5, <2>6 DEF Extends, Added
  <2> QED
    BY <2>1, <2>7
<1> QED
  BY <1>2, <1>3

LEMMA ExtendsTwice ==
  ASSUME NEW lex, Numbered(lex), NEW l, NEW m, NEW S, NEW T, Extends(lex, l, S), Extends(l, m, T)
  PROVE  Extends(lex, m, S \union T)
<1>1. lex.ident_index \in Nat /\ l.ident_index \in Nat /\ m.ident_index \in Nat
  BY NumberedFields DEF Extends
<1>2. \A n \in Known(l) : Ident(l, n) \in 0..(l.ident_index - 1)
  BY NumberedFields DEF Extends
<1>3. ASSUME NEW n \in Known(lex)
      PROVE  Ident(m, n) = Ident(lex, n)
  BY DEF Extends
<1>4. ASSUME NEW n \in (S \union T) \ Known(lex)
      PROVE  Ident(m, n) >= lex.ident_index /\ ~Defined(m, n)
  <2>1. CASE n \in S
    <3>1. n \in Known(l) /\ Ident(m, n) = Ident(l, n)
      BY <2>1 DEF Extends
    <3>2. Ident(l, n) >= lex.ident_index /\ ~Defined(l, n)
      BY <1>4, <2>1 DEF Extends
    <3>3. Ident(l, n) + 1 \in 1..l.ident_index
      BY <1>1, <1>2, <3>1
    <3>4. m.defineds[Ident(l, n) + 1] = l.defineds[Ident(l, n) + 1]
      BY <3>3 DEF Extends
    <3> QED
      BY <3>1, <3>2, <3>4 DEF Defined
  <2>2. CASE n \notin S
    <3>1. n \in T \ Known(l)
      BY <1>4, <2>2 DEF Extends
    <3>2. Ident(m, n) >= l.ident_index /\ ~Defined(m, n) /\ n \in Known(m)
      BY <3>1 DEF Extends
    <3>3. Ident(m, n) \in Nat
      BY <3>2, NumberedFields DEF Extends
    <3>4. l.ident_index >= lex.ident_index
      BY DEF Extends
    <3> QED
      BY <1>1, <3>2, <3>3, <3>4
  <2> QED
    BY <2>1, <2>2
<1>5. ASSUME NEW i \in 1..lex.ident_index
      PROVE  m.defineds[i] = lex.defineds[i]
  <2>1. i \in 1..l.ident_index
    BY <1>1 DEF Extends
  <2> QED
    BY <2>1 DEF Extends
<1>6. m.ident_index >= lex.ident_index
  BY <1>1 DEF Extends
<1> QED
  BY <1>3, <1>4, <1>5, <1>6 DEF Extends

\* What the fold over tokenize_identifier needs of its steps.
LEMMA TokenizeTyped ==
  ASSUME NEW U, NEW lex \in Lexers(U), NEW name \in U
  PROVE  tokenize_identifier(lex, name) \in Lexers(U)
BY NewIdentAdds DEF tokenize_identifier

LEMMA WiderLexers ==
  ASSUME NEW lex, Numbered(lex), NEW E
  PROVE  lex \in Lexers(Known(lex) \union E)
<1>1. lex \in Lexers(Known(lex))
  BY DEF Numbered
<1>2. \A S \in SUBSET Known(lex) : S \in SUBSET (Known(lex) \union E)
  OBVIOUS
<1> QED
  BY <1>1, <1>2 DEF Lexers

\* The first k names.
Some(names, k) == {names[j] : j \in 1..k}

\* The names of a list, one more than those of the list before it.
LEMMA SomeNames ==
  ASSUME NEW E, NEW names \in Seq(E)
  PROVE  /\ Len(names) \in Nat /\ Some(names, 0) = {} /\ Some(names, Len(names)) = Range(names)
         /\ \A k \in 1..Len(names) : /\ names[k] \in E
                                     /\ Some(names, k) = Some(names, k - 1) \union {names[k]}
<1>1. Len(names) \in Nat /\ DOMAIN names = 1..Len(names) /\ 1..0 = {}
  OBVIOUS
<1>2. ASSUME NEW k \in 1..Len(names)
      PROVE  Some(names, k) = Some(names, k - 1) \union {names[k]}
  <2>1. 1..k = 1..(k - 1) \union {k}
    OBVIOUS
  <2> QED
    BY <2>1 DEF Some
<1> QED
  BY <1>1, <1>2 DEF Some, Range

\* A list of declarations only gives new names indices.
LEMMA DeclaredExtends ==
  ASSUME NEW lex, Numbered(lex), NEW E, NEW names \in Seq(E)
  PROVE  Extends(lex, Declared(lex, names), Range(names))
<1> DEFINE n == Len(names)
           U == Known(lex) \union E
           A == Lexers(U)
<1>1. lex \in A
  BY WiderLexers
<1>2. \A a \in A, e \in E : tokenize_identifier(a, e) \in A
  BY TokenizeTyped
<1> HIDE DEF A
<1>3. PICK h : /\ h[{}] = lex
               /\ \A i \in 1..n : h[1..i] = tokenize_identifier(h[1..(i - 1)], names[i])
               /\ FoldLeft(tokenize_identifier, lex, names) = h[1..n]
  <2>1. \E h : TokenizeSteps(h, lex, names)
    BY <1>1, <1>2, TokenizeFold
  <2> QED
    BY <2>1 DEF TokenizeSteps
<1>4. n \in Nat /\ 1..0 = {}
  BY SomeNames
<1> DEFINE S == {k \in 0..n : Extends(lex, h[1..k], Some(names, k))}
<1>5. 0 \in S
  <2>1. Extends(lex, lex, {})
    BY NumberedFields DEF Extends
  <2>2. h[1..0] = lex /\ Some(names, 0) = {} /\ 0 \in 0..n
    BY <1>3, <1>4, SomeNames
  <2> QED
    BY <2>1, <2>2
<1>6. ASSUME NEW k \in 1..n, k - 1 \in S
      PROVE  k \in S
  <2>1. Extends(lex, h[1..(k - 1)], Some(names, k - 1))
    BY <1>6
  <2>2. Numbered(h[1..(k - 1)])
    BY <2>1 DEF Extends
  <2>3. Extends(h[1..(k - 1)], h[1..k], {names[k]})
    BY <1>3, <2>2, TokenizeExtends
  <2>4. Extends(lex, h[1..k], Some(names, k - 1) \union {names[k]})
    BY <2>1, <2>3, ExtendsTwice
  <2>5. Some(names, k) = Some(names, k - 1) \union {names[k]} /\ k \in 0..n
    BY <1>4, SomeNames
  <2> QED
    BY <2>4, <2>5
<1>7. n \in S
  <2> HIDE DEF S, n
  <2>1. n \in 0..n
    BY <1>4
  <2> QED
    BY <1>4, <1>5, <1>6, <2>1, UpTo
<1> QED
  BY <1>3, <1>7, SomeNames DEF Declared

\* A list of names that are inserted, whether they are known or not.
Inserted(lex, l, names, k) ==
  /\ Numbered(l) /\ Known(l) = Known(lex) \union Some(names, k)
  /\ l.ident_index = lex.ident_index + k /\ l.func_count = lex.func_count
  /\ \A n \in Known(lex) \ Some(names, k) : Ident(l, n) = Ident(lex, n)
  /\ \A j \in 1..k : Ident(l, names[j]) >= lex.ident_index /\ ~Defined(l, names[j])
  /\ IsInjective(names) => \A j \in 1..k : Ident(l, names[j]) = lex.ident_index + j - 1

\* insert_ident: one name more,
LEMMA InsertOne ==
  ASSUME NEW lex, Numbered(lex), NEW E, NEW names \in Seq(E), NEW k \in 1..Len(names), NEW l,
         Inserted(lex, l, names, k - 1)
  PROVE  Inserted(lex, NewIdent(l, names[k]), names, k)
<1> DEFINE m == NewIdent(l, names[k])
<1>1. Numbered(m) /\ Added(l, m, names[k])
  BY AddedNumbered DEF Inserted
<1> HIDE DEF m
<1>2. /\ lex.ident_index \in Nat /\ l.ident_index = lex.ident_index + (k - 1)
      /\ l.defineds \in Seq(BOOLEAN) /\ Len(l.defineds) = l.ident_index
      /\ \A n \in Known(l) : Ident(l, n) \in 0..(l.ident_index - 1)
  BY NumberedFields DEF Inserted
<1>3. Some(names, k) = Some(names, k - 1) \union {names[k]} /\ DOMAIN names = 1..Len(names)
  BY SomeNames
<1>4. /\ m.defineds[l.ident_index + 1] = FALSE
      /\ \A i \in 1..l.ident_index : m.defineds[i] = l.defineds[i]
  <2> DEFINE d == l.defineds
             e == Append(d, FALSE)
  <2>1. d \in Seq(BOOLEAN) /\ FALSE \in BOOLEAN
    BY <1>2
  <2>2. m.defineds = e /\ Len(d) = l.ident_index
    BY <1>1, <1>2 DEF Added
  <2> HIDE DEF d
  <2>3. e[Len(d) + 1] = FALSE /\ \A i \in 1..Len(d) : e[i] = d[i]
    BY <2>1, Appended, Zenon
  <2> HIDE DEF e
  <2> QED
    BY <2>2, <2>3, Zenon DEF d
<1>5. Known(m) = Known(lex) \union Some(names, k)
  BY <1>1, <1>3 DEF Inserted, Added
<1>6. m.ident_index = lex.ident_index + k /\ m.func_count = lex.func_count
  BY <1>1, <1>2 DEF Inserted, Added
<1>7. ASSUME NEW n \in Known(lex) \ Some(names, k)
      PROVE  Ident(m, n) = Ident(lex, n)
  BY <1>1, <1>3 DEF Inserted, Added
<1>8. ASSUME NEW j \in 1..k
      PROVE  Ident(m, names[j]) >= lex.ident_index /\ ~Defined(m, names[j])
  <2>1. CASE names[j] = names[k]
    <3>1. Ident(m, names[j]) = l.ident_index
      BY <1>1, <2>1 DEF Added
    <3> QED
      BY <1>2, <1>4, <3>1 DEF Defined
  <2>2. CASE names[j] # names[k]
    <3>1. j \in 1..(k - 1)
      BY <2>2
    <3>2. names[j] \in Known(l)
      BY <3>1 DEF Inserted, Some
    <3>3. Ident(m, names[j]) = Ident(l, names[j])
      BY <1>1, <2>2, <3>2 DEF Added
    <3>4. Ident(l, names[j]) >= lex.ident_index /\ ~Defined(l, names[j])
      BY <3>1 DEF Inserted
    <3>5. Ident(l, names[j]) + 1 \in 1..l.ident_index
      BY <1>2, <3>2
    <3>6. m.defineds[Ident(l, names[j]) + 1] = l.defineds[Ident(l, names[j]) + 1]
      BY <1>4, <3>5
    <3> QED
      BY <3>3, <3>4, <3>6 DEF Defined
  <2> QED
    BY <2>1, <2>2
<1>9. ASSUME IsInjective(names), NEW j \in 1..k
      PROVE  Ident(m, names[j]) = lex.ident_index + j - 1
  <2>1. CASE j = k
    BY <1>1, <1>2, <2>1 DEF Added
  <2>2. CASE j # k
    <3>1. j \in 1..(k - 1) /\ j \in 1..Len(names) /\ k \in 1..Len(names)
      BY <2>2
    <3>2. names[j] # names[k]
      BY <1>3, <1>9, <2>2, <3>1 DEF IsInjective
    <3>3. names[j] \in Known(l)
      BY <3>1 DEF Inserted, Some
    <3> QED
      BY <1>1, <1>9, <3>1, <3>2, <3>3 DEF Added, Inserted
  <2> QED
    BY <2>1, <2>2
<1>10. Inserted(lex, m, names, k)
  BY <1>1, <1>5, <1>6, <1>7, <1>8, <1>9 DEF Inserted
<1> QED
  BY <1>10 DEF m

\* all of them: the k-th name has the index k - 1 behind those that were there.
LEMMA InsertedAll ==
  ASSUME NEW lex, Numbered(lex), NEW E, NEW names \in Seq(E)
  PROVE  Inserted(lex, insert_ident(lex, names), names, Len(names))
<1> DEFINE n == Len(names)
           U == Known(lex) \union E
           A == Lexers(U)
<1>1. lex \in A
  BY WiderLexers
<1>2. \A a \in A, e \in E : NewIdent(a, e) \in A
  BY NewIdentAdds
<1> HIDE DEF A
<1>3. PICK h : /\ h[{}] = lex
               /\ \A i \in 1..n : h[1..i] = NewIdent(h[1..(i - 1)], names[i])
               /\ FoldLeft(NewIdent, lex, names) = h[1..n]
  <2>1. \E h : NewIdentSteps(h, lex, names)
    BY <1>1, <1>2, NewIdentFold
  <2> QED
    BY <2>1 DEF NewIdentSteps
<1>4. n \in Nat /\ 1..0 = {}
  BY SomeNames
<1> DEFINE S == {k \in 0..n : Inserted(lex, h[1..k], names, k)}
<1>5. 0 \in S
  <2>1. Inserted(lex, lex, names, 0)
    BY <1>4, NumberedFields, SomeNames DEF Inserted
  <2> QED
    BY <1>3, <1>4, <2>1
<1>6. ASSUME NEW k \in 1..n, k - 1 \in S
      PROVE  k \in S
  <2>1. Inserted(lex, h[1..(k - 1)], names, k - 1)
    BY <1>6
  <2>2. Inserted(lex, h[1..k], names, k)
    BY <1>3, <2>1, InsertOne
  <2> QED
    BY <1>4, <2>2
<1>7. n \in S
  <2> HIDE DEF S, n
  <2>1. n \in 0..n
    BY <1>4
  <2> QED
    BY <1>4, <1>5, <1>6, <2>1, UpTo
<1> QED
  BY <1>3, <1>7 DEF insert_ident

LEMMA OneReplaced ==
  ASSUME NEW V, NEW s \in Seq(V), NEW i, NEW v \in V
  PROVE  /\ [s EXCEPT ![i] = v] \in Seq(V) /\ Len([s EXCEPT ![i] = v]) = Len(s)
         /\ \A k \in 1..Len(s) : [s EXCEPT ![i] = v][k] = IF k = i THEN v ELSE s[k]
<1> DEFINE n == Len(s)
           r == [s EXCEPT ![i] = v]
<1>1. n \in Nat /\ s \in [1..n -> V]
  OBVIOUS
<1> HIDE DEF n
<1>2. r \in [1..n -> V] /\ \A k \in 1..n : r[k] = IF k = i THEN v ELSE s[k]
  BY <1>1
<1> HIDE DEF r
<1>3. r \in Seq(V) /\ Len(r) = n
  BY <1>1, <1>2
<1> QED
  BY <1>2, <1>3 DEF r, n

\* d is s with the flag at i set.
SetAt(s, i, d) ==
  /\ d \in Seq(BOOLEAN) /\ Len(d) = Len(s)
  /\ \A k \in 1..Len(s) : d[k] = IF k = i THEN TRUE ELSE s[k]

LEMMA OneSet ==
  ASSUME NEW s \in Seq(BOOLEAN), NEW i
  PROVE  SetAt(s, i, [s EXCEPT ![i] = TRUE])
<1> DEFINE v == TRUE
           V == BOOLEAN
<1>1. s \in Seq(V) /\ v \in V
  OBVIOUS
<1> HIDE DEF v, V
<1>2. /\ [s EXCEPT ![i] = v] \in Seq(V) /\ Len([s EXCEPT ![i] = v]) = Len(s)
      /\ \A k \in 1..Len(s) : [s EXCEPT ![i] = v][k] = IF k = i THEN v ELSE s[k]
  BY <1>1, OneReplaced
<1> QED
  BY <1>2 DEF v, V, SetAt

\* The names of S were assigned to.
Flagged(lex, l, S) ==
  /\ Numbered(l) /\ l.identifier_table = lex.identifier_table
  /\ l.ident_index = lex.ident_index /\ l.func_count = lex.func_count
  /\ \A n \in Known(lex) : Defined(l, n) <=> n \in S \/ Defined(lex, n)

\* What the fold over set_defined needs of its steps.
LEMMA SetDefinedTyped ==
  ASSUME NEW U, NEW lex \in Lexers(U), NEW name
  PROVE  LET l == set_defined(lex, name)
         IN  /\ l \in Lexers(U) /\ l.identifier_table = lex.identifier_table
             /\ l.ident_index = lex.ident_index /\ l.func_count = lex.func_count
             /\ SetAt(lex.defineds, Ident(lex, name) + 1, l.defineds)
<1> DEFINE i == Ident(lex, name) + 1
           d == [lex.defineds EXCEPT ![i] = TRUE]
           l == [lex EXCEPT !.defineds = d]
<1>1. set_defined(lex, name) = l
  BY Zenon DEF set_defined
<1> HIDE DEF i
<1>2. lex.defineds \in Seq(BOOLEAN)
  BY LexerFields
<1>3. SetAt(lex.defineds, i, d)
  BY <1>2, OneSet
<1>4. d \in Seq(BOOLEAN)
  BY <1>3 DEF SetAt
<1> HIDE DEF d
<1>5. /\ l \in Lexers(U) /\ l.identifier_table = lex.identifier_table
      /\ l.ident_index = lex.ident_index /\ l.func_count = lex.func_count /\ l.defineds = d
  BY <1>4 DEF Lexers
<1> HIDE DEF l
<1> QED
  BY <1>1, <1>3, <1>5, Zenon DEF i

\* set_defined flags one name and no other, since indices are distinct.
LEMMA SetDefinedFlags ==
  ASSUME NEW lex, Numbered(lex), NEW name \in Known(lex)
  PROVE  Flagged(lex, set_defined(lex, name), {name})
<1> DEFINE l == set_defined(lex, name)
<1>1. /\ l \in Lexers(Known(lex)) /\ l.identifier_table = lex.identifier_table
      /\ l.ident_index = lex.ident_index /\ l.func_count = lex.func_count
      /\ SetAt(lex.defineds, Ident(lex, name) + 1, l.defineds)
  BY SetDefinedTyped DEF Numbered
<1>2. /\ lex.ident_index \in Nat /\ lex.defineds \in Seq(BOOLEAN)
      /\ Len(lex.defineds) = lex.ident_index
      /\ \A n \in Known(lex) : Ident(lex, n) \in 0..(lex.ident_index - 1)
  BY NumberedFields
<1> HIDE DEF l
<1>3. ASSUME NEW n \in Known(lex)
      PROVE  l.defineds[Ident(lex, n) + 1] = (IF n = name THEN TRUE ELSE Defined(lex, n))
  <2>1. Ident(lex, n) + 1 \in 1..Len(lex.defineds)
    BY <1>2
  <2>2. l.defineds[Ident(lex, n) + 1] =
          IF Ident(lex, n) + 1 = Ident(lex, name) + 1 THEN TRUE ELSE Defined(lex, n)
    BY <1>1, <2>1, Zenon DEF SetAt, Defined
  <2>3. Ident(lex, n) + 1 = Ident(lex, name) + 1 <=> n = name
    <3>1. Ident(lex, n) = Ident(lex, name) => n = name
      BY DEF Numbered
    <3> QED
      BY <1>2, <3>1
  <2> QED
    BY <2>2, <2>3, Zenon
<1>4. Known(l) = Known(lex) /\ \A n : Ident(l, n) = Ident(lex, n)
  BY <1>1 DEF Known, Ident
<1>5. Numbered(l)
  BY <1>1, <1>2, <1>4 DEF Numbered, SetAt
<1>6. ASSUME NEW n \in Known(lex)
      PROVE  Defined(l, n) = (IF n = name THEN TRUE ELSE Defined(lex, n))
  <2>1. Defined(l, n) = l.defineds[Ident(lex, n) + 1]
    BY <1>4, Zenon DEF Defined
  <2> QED
    BY <1>3, <2>1, Zenon
<1>7. Flagged(lex, l, {name})
  BY <1>1, <1>5, <1>6, Zenon DEF Flagged
<1> QED
  BY <1>7 DEF l

LEMMA FlaggedTwice ==
  ASSUME NEW lex, NEW l, NEW m, NEW S, NEW T, Flagged(lex, l, S), Flagged(l, m, T)
  PROVE  Flagged(lex, m, S \union T)
<1>1. Known(l) = Known(lex)
  BY DEF Flagged, Known
<1>2. \A n \in Known(lex) : Defined(m, n) <=> n \in S \union T \/ Defined(lex, n)
  BY <1>1, Zenon DEF Flagged
<1> QED
  BY <1>2 DEF Flagged

\* The flags after the header: the parameters have theirs.
LEMMA ParametersFlagged ==
  ASSUME NEW lex, Numbered(lex), NEW names \in Seq(Known(lex))
  PROVE  Flagged(lex, FoldLeft(set_defined, lex, names), Range(names))
<1> DEFINE n == Len(names)
           E == Known(lex)
           A == Lexers(E)
<1>1. lex \in A
  BY DEF Numbered
<1>2. \A a \in A, e \in E : set_defined(a, e) \in A
  BY SetDefinedTyped
<1> HIDE DEF A
<1>3. PICK h : /\ h[{}] = lex
               /\ \A i \in 1..n : h[1..i] = set_defined(h[1..(i - 1)], names[i])
               /\ FoldLeft(set_defined, lex, names) = h[1..n]
  <2>1. \E h : SetDefinedSteps(h, lex, names)
    BY <1>1, <1>2, SetDefinedFold
  <2> QED
    BY <2>1 DEF SetDefinedSteps
<1>4. n \in Nat /\ 1..0 = {}
  BY SomeNames
<1> DEFINE S == {k \in 0..n : Flagged(lex, h[1..k], Some(names, k))}
<1>5. 0 \in S
  <2>1. Flagged(lex, lex, {})
    BY DEF Flagged
  <2>2. h[1..0] = lex /\ Some(names, 0) = {} /\ 0 \in 0..n
    BY <1>3, <1>4, SomeNames
  <2> QED
    BY <2>1, <2>2
<1>6. ASSUME NEW k \in 1..n, k - 1 \in S
      PROVE  k \in S
  <2>1. Flagged(lex, h[1..(k - 1)], Some(names, k - 1))
    BY <1>6
  <2>2. Numbered(h[1..(k - 1)]) /\ Known(h[1..(k - 1)]) = Known(lex)
    BY <2>1 DEF Flagged, Known
  <2>3. names[k] \in Known(lex)
    BY <1>4, SomeNames
  <2>4. Flagged(h[1..(k - 1)], h[1..k], {names[k]})
    BY <1>3, <2>2, <2>3, SetDefinedFlags
  <2>5. Flagged(lex, h[1..k], Some(names, k - 1) \union {names[k]})
    BY <2>1, <2>4, FlaggedTwice
  <2>6. Some(names, k) = Some(names, k - 1) \union {names[k]} /\ k \in 0..n
    BY <1>4, SomeNames
  <2> QED
    BY <2>5, <2>6
<1>7. n \in S
  <2> HIDE DEF S, n
  <2>1. n \in 0..n
    BY <1>4
  <2> QED
    BY <1>4, <1>5, <1>6, <2>1, UpTo
<1> QED
  BY <1>3, <1>7, SomeNames

LEMMA WipedEmpty ==
  ASSUME NEW lex, Numbered(lex)
  PROVE  LET l == wipe(lex)
         IN  Numbered(l) /\ Known(l) = {} /\ l.ident_index = 0 /\ l.func_count = lex.func_count
<1> DEFINE l == wipe(lex)
           t == NoIdentifiers
<1>1. t \in [{} -> Nat] /\ DOMAIN t = {} /\ <<>> \in Seq(BOOLEAN) /\ Len(<<>>) = 0
  BY DEF NoIdentifiers
<1>2. lex \in Lexers(Known(lex))
  BY DEF Numbered
<1> HIDE DEF t
<1>3. /\ l = [lex EXCEPT !.identifier_table = t, !.ident_index = 0, !.defineds = <<>>]
      /\ t \in UNION {[S -> Nat] : S \in SUBSET {}}
  BY <1>1 DEF wipe, t
<1> HIDE DEF l
<1>4. /\ l.identifier_table = t /\ l.ident_index = 0 /\ l.defineds = <<>>
      /\ l.func_count = lex.func_count /\ l \in Lexers({})
  BY <1>1, <1>2, <1>3 DEF Lexers
<1>5. Known(l) = {}
  BY <1>1, <1>4 DEF Known
<1>6. Numbered(l)
  BY <1>1, <1>4, <1>5 DEF Numbered
<1> QED
  BY <1>4, <1>5, <1>6 DEF l

-----------------------------------------------------------------------------
(* The values of a scope.                                                  *)

Popped(lex, params, v, j) == [v EXCEPT ![Ident(lex, params[Len(params) + 1 - j])] = <<"getpar", j>>]

PoppedSteps(lex, params, h, values) ==
  /\ h[{}] = values
  /\ \A i \in 1..Len(params) : h[1..i] = Popped(lex, params, h[1..(i - 1)], i)
  /\ GETPARs(lex, values, params) = h[1..Len(params)]

LEMMA PoppedFold ==
  ASSUME NEW lex, NEW E, NEW params \in Seq(E), NEW D, NEW V, NEW values \in [D -> V],
         \A j \in 1..Len(params) : <<"getpar", j>> \in V
  PROVE  \E h : PoppedSteps(lex, params, h, values)
<1> DEFINE n == Len(params)
           A == [D -> V]
           seq == [j \in 1..n |-> j]
           G == [p \in A \X (1..n) |-> Popped(lex, params, p[1], p[2])]
           Is(g) == g = [s \in SUBSET (1..n) |->
                           IF s = {} THEN values
                           ELSE Popped(lex, params, g[s \ {Max(s)}], seq[Max(s)])]
           h == CHOOSE g : Is(g)
<1>1. n \in Nat /\ seq \in Seq(1..n) /\ Len(seq) = n
  OBVIOUS
<1>2. G \in [A \X (1..n) -> A] /\ \A a \in A, e \in 1..n : G[<<a, e>>] = Popped(lex, params, a, e)
  <2>1. ASSUME NEW a \in A, NEW e \in 1..n
        PROVE  Popped(lex, params, a, e) \in A
    BY DEF Popped
  <2> QED
    BY <2>1
<1>3. PICK g \in [SUBSET (1..n) -> A] :
        /\ Folding(n, seq, values, G, g)
        /\ \A s \in SUBSET (1..n) : s # {} => g[s \ {Max(s)}] \in A /\ seq[Max(s)] \in 1..n
  <2> HIDE DEF G, A, seq, n
  <2>1. values \in A
    BY DEF A
  <2>2. Folded(A, 1..n, G, values, seq)
    BY <1>1, <1>2, <2>1, FoldingExists
  <2> QED
    BY <1>1, <2>2 DEF Folded
<1>4. GETPARs(lex, values, params) = h[1..n]
  BY <1>1 DEF GETPARs, FoldLeft, MapThenFoldSet, Popped
<1>5. Is(h)
  <2>1. Is(g)
    <3> HIDE DEF G, A, seq, n
    <3> QED
      BY <1>1, <1>2, <1>3 DEF Folding
  <2> HIDE DEF Is
  <2> QED
    BY <2>1
<1> HIDE DEF h, seq
<1>6. \A s \in SUBSET (1..n) :
        h[s] = IF s = {} THEN values ELSE Popped(lex, params, h[s \ {Max(s)}], seq[Max(s)])
  BY <1>5
<1>7. ASSUME NEW i \in 1..n
      PROVE  h[1..i] = Popped(lex, params, h[1..(i - 1)], i)
  <2>1. h[1..i] = Popped(lex, params, h[(1..i) \ {Max(1..i)}], seq[Max(1..i)])
    BY <1>1, <1>6, LastOfFirst
  <2>2. Max(1..i) = i /\ (1..i) \ {i} = 1..(i - 1)
    BY <1>1, LastOfFirst
  <2>3. seq[i] = i
    BY DEF seq
  <2> QED
    BY <2>1, <2>2, <2>3, Zenon
<1>8. h[{}] = values
  BY <1>1, <1>6, LastOfFirst
<1>9. PoppedSteps(lex, params, h, values)
  BY <1>4, <1>7, <1>8, Zenon DEF PoppedSteps
<1> QED
  BY <1>9

\* The values v after the first k GETPARs.
Pushed(lex, params, values, v, k) ==
  /\ DOMAIN v = DOMAIN values
  /\ \A p \in 1..Len(params) :
       Len(params) + 1 - p <= k => v[Ident(lex, params[p])] = <<"getpar", Len(params) + 1 - p>>
  /\ \A i \in DOMAIN values :
       (\A p \in 1..Len(params) : Ident(lex, params[p]) # i) => v[i] = values[i]

\* The GETPAR of one parameter,
LEMMA PushOne ==
  ASSUME NEW lex, Numbered(lex), NEW params \in Seq(Known(lex)), IsInjective(params),
         NEW values, \A p \in 1..Len(params) : Ident(lex, params[p]) \in DOMAIN values,
         NEW k \in 1..Len(params), NEW v, Pushed(lex, params, values, v, k - 1)
  PROVE  Pushed(lex, params, values, Popped(lex, params, v, k), k)
<1> DEFINE n == Len(params)
           q == n + 1 - k
           x == Ident(lex, params[q])
           w == Popped(lex, params, v, k)
<1>1. n \in Nat /\ DOMAIN params = 1..n /\ \A p \in 1..n : params[p] \in Known(lex)
  OBVIOUS
<1>2. q \in 1..n
  BY <1>1
<1>3. w = [v EXCEPT ![x] = <<"getpar", k>>]
  BY DEF Popped
<1>4. \A p \in 1..n : Ident(lex, params[p]) = x => p = q
  BY <1>1, <1>2 DEF Numbered, IsInjective
<1> HIDE DEF w, x
<1>5. DOMAIN w = DOMAIN v /\ \A i \in DOMAIN v : w[i] = IF i = x THEN <<"getpar", k>> ELSE v[i]
  BY <1>3
<1>6. DOMAIN v = DOMAIN values
  BY DEF Pushed
<1>7. ASSUME NEW p \in 1..n, n + 1 - p <= k
      PROVE  w[Ident(lex, params[p])] = <<"getpar", n + 1 - p>>
  <2>1. Ident(lex, params[p]) \in DOMAIN v
    BY <1>6
  <2>2. CASE p = q
    <3>1. Ident(lex, params[p]) = x /\ n + 1 - p = k
      BY <1>1, <2>2 DEF x
    <3> QED
      BY <1>5, <2>1, <3>1
  <2>3. CASE p # q
    <3>1. Ident(lex, params[p]) # x
      BY <1>4, <2>3
    <3>2. n + 1 - p <= k - 1
      BY <1>1, <1>7, <2>3
    <3>3. v[Ident(lex, params[p])] = <<"getpar", n + 1 - p>>
      BY <3>2 DEF Pushed
    <3> QED
      BY <1>5, <2>1, <3>1, <3>3
  <2> QED
    BY <2>2, <2>3
<1>8. ASSUME NEW i \in DOMAIN values, \A p \in 1..n : Ident(lex, params[p]) # i
      PROVE  w[i] = values[i]
  <2>1. i # x
    BY <1>2, <1>8 DEF x
  <2>2. v[i] = values[i]
    BY <1>8 DEF Pushed
  <2> QED
    BY <1>5, <1>6, <2>1, <2>2
<1>9. Pushed(lex, params, values, w, k)
  BY <1>5, <1>6, <1>7, <1>8 DEF Pushed
<1> QED
  BY <1>9 DEF w

\* A parameter has the GETPAR of its place, and nothing else changes.
LEMMA ParametersPushed ==
  ASSUME NEW lex, Numbered(lex), NEW params \in Seq(Known(lex)), IsInjective(params),
         NEW D, NEW V, NEW values \in [D -> V],
         \A p \in 1..Len(params) : Ident(lex, params[p]) \in D
  PROVE  Pushed(lex, params, values, GETPARs(lex, values, params), Len(params))
<1> DEFINE n == Len(params)
           W == V \union {<<"getpar", j>> : j \in 1..n}
<1>1. values \in [D -> W] /\ (\A j \in 1..n : <<"getpar", j>> \in W) /\ DOMAIN values = D
  OBVIOUS
<1> HIDE DEF W
<1>2. PICK h : PoppedSteps(lex, params, h, values)
  BY <1>1, PoppedFold
<1>3. /\ h[{}] = values
      /\ \A i \in 1..n : h[1..i] = Popped(lex, params, h[1..(i - 1)], i)
      /\ GETPARs(lex, values, params) = h[1..n]
  BY <1>2 DEF PoppedSteps
<1>4. n \in Nat /\ 1..0 = {}
  OBVIOUS
<1> DEFINE S == {k \in 0..n : Pushed(lex, params, values, h[1..k], k)}
<1>5. 0 \in S
  <2>1. Pushed(lex, params, values, values, 0)
    BY <1>4 DEF Pushed
  <2> QED
    BY <1>3, <1>4, <2>1
<1>6. ASSUME NEW k \in 1..n, k - 1 \in S
      PROVE  k \in S
  <2>1. Pushed(lex, params, values, h[1..(k - 1)], k - 1)
    BY <1>6
  <2>2. Pushed(lex, params, values, Popped(lex, params, h[1..(k - 1)], k), k)
    BY <1>1, <2>1, PushOne
  <2> QED
    BY <1>3, <1>4, <2>2
<1>7. n \in S
  <2> HIDE DEF S, n
  <2>1. n \in 0..n
    BY <1>4
  <2> QED
    BY <1>4, <1>5, <1>6, <2>1, UpTo
<1> QED
  BY <1>3, <1>7

-----------------------------------------------------------------------------
(* The table of a function and of main.                                    *)

\* The functions fs, then the parameters, which have a value, then the variables.
Filled(lex, fs, params, vars) ==
  /\ Numbered(lex) /\ lex.func_count = Len(fs)
  /\ Known(lex) = Range(fs) \union params \union vars
  /\ \A k \in DOMAIN fs : fs[k] \notin vars => Ident(lex, fs[k]) = k - 1
  /\ \A n \in vars : Ident(lex, n) >= Len(fs) /\ ~Defined(lex, n)
  /\ \A n \in params : Defined(lex, n)

\* The functions, whose indices are their places.
Counted(lex, fs) ==
  /\ Numbered(lex) /\ lex.func_count = Len(fs) /\ lex.ident_index = Len(fs)
  /\ Known(lex) = Range(fs) /\ \A k \in DOMAIN fs : Ident(lex, fs[k]) = k - 1

\* The functions in an empty table.
LEMMA FunctionsInserted ==
  ASSUME NEW lex, Numbered(lex), NEW E, NEW fs \in Seq(E), IsInjective(fs)
  PROVE  LET l == insert_ident(wipe(lex), fs)
         IN  /\ Numbered(l) /\ l.func_count = lex.func_count /\ l.ident_index = Len(fs)
             /\ Known(l) = Range(fs) /\ \A k \in DOMAIN fs : Ident(l, fs[k]) = k - 1
<1> DEFINE w == wipe(lex)
           l == insert_ident(w, fs)
<1>1. Numbered(w) /\ Known(w) = {} /\ w.ident_index = 0 /\ w.func_count = lex.func_count
  BY WipedEmpty
<1> HIDE DEF w
<1>2. Inserted(w, l, fs, Len(fs))
  BY <1>1, InsertedAll
<1> HIDE DEF l
<1>3. Some(fs, Len(fs)) = Range(fs) /\ Len(fs) \in Nat /\ DOMAIN fs = 1..Len(fs)
  BY SomeNames
<1>4. /\ Numbered(l) /\ l.func_count = lex.func_count /\ l.ident_index = Len(fs)
      /\ Known(l) = Range(fs)
  BY <1>1, <1>2, <1>3 DEF Inserted
<1>5. \A k \in 1..Len(fs) : Ident(l, fs[k]) = 0 + k - 1
  BY <1>1, <1>2 DEF Inserted
<1>6. \A k \in DOMAIN fs : Ident(l, fs[k]) = k - 1
  BY <1>3, <1>5
<1> QED
  BY <1>4, <1>6 DEF l, w

\* Counting a function changes nothing else.
LEMMA NumberedCounted ==
  ASSUME NEW lex, Numbered(lex)
  PROVE  LET l == [lex EXCEPT !.func_count = @ + 1]
         IN  /\ Numbered(l) /\ l.identifier_table = lex.identifier_table
             /\ l.ident_index = lex.ident_index /\ l.defineds = lex.defineds
             /\ l.func_count = lex.func_count + 1
<1> DEFINE l == [lex EXCEPT !.func_count = @ + 1]
<1>1. lex \in Lexers(Known(lex)) /\ lex.func_count \in Nat
  BY NumberedFields DEF Numbered
<1>2. /\ l.identifier_table = lex.identifier_table /\ l.ident_index = lex.ident_index
      /\ l.defineds = lex.defineds /\ l.func_count = lex.func_count + 1 /\ l \in Lexers(Known(lex))
  BY <1>1 DEF Lexers
<1> HIDE DEF l
<1>3. Known(l) = Known(lex) /\ \A n : Ident(l, n) = Ident(lex, n)
  BY <1>2 DEF Known, Ident
<1>4. Numbered(l)
  BY <1>2, <1>3 DEF Numbered
<1> QED
  BY <1>2, <1>4 DEF l

\* The functions with one more,
LEMMA AppendFunction ==
  ASSUME NEW E, NEW fs \in Seq(E), NEW f \in E
  PROVE  LET gs == Append(fs, f)
         IN  /\ gs \in Seq(E) /\ Len(gs) = Len(fs) + 1 /\ Len(fs) \in Nat /\ DOMAIN gs = 1..Len(gs)
             /\ DOMAIN fs = 1..Len(fs)
             /\ gs[Len(gs)] = f /\ \A i \in 1..Len(fs) : gs[i] = fs[i]
             /\ Range(gs) = Range(fs) \union {f}
<1> DEFINE gs == Append(fs, f)
<1>1. /\ gs \in Seq(E) /\ Len(gs) = Len(fs) + 1 /\ Len(fs) \in Nat /\ DOMAIN gs = 1..Len(gs)
      /\ gs[Len(gs)] = f /\ DOMAIN fs = 1..Len(fs)
  OBVIOUS
<1>2. \A i \in 1..Len(fs) : gs[i] = fs[i]
  OBVIOUS
<1> HIDE DEF gs
<1>3. \A i \in DOMAIN gs : i \in 1..Len(fs) \/ i = Len(gs)
  BY <1>1
<1>4. Range(gs) = Range(fs) \union {f}
  <2>1. ASSUME NEW x \in Range(gs) PROVE x \in Range(fs) \union {f}
    <3>1. PICK i \in DOMAIN gs : x = gs[i]
      BY DEF Range
    <3> QED
      BY <1>1, <1>2, <1>3, <3>1 DEF Range
  <2>2. ASSUME NEW x \in Range(fs) PROVE x \in Range(gs)
    <3>1. PICK i \in DOMAIN fs : x = fs[i]
      BY DEF Range
    <3>2. i \in DOMAIN gs
      BY <1>1
    <3> QED
      BY <1>1, <1>2, <3>1, <3>2 DEF Range
  <2>3. f \in Range(gs)
    <3>1. Len(gs) \in DOMAIN gs
      BY <1>1
    <3> QED
      BY <1>1, <3>1 DEF Range
  <2> QED
    BY <2>1, <2>2, <2>3
<1> QED
  BY <1>1, <1>2, <1>4 DEF gs

\* whose name gets the index behind theirs.
LEMMA FunctionNamed ==
  ASSUME NEW lex, Numbered(lex), NEW E, NEW fs \in Seq(E), IsInjective(fs),
         lex.func_count = Len(fs), NEW f \in E \ Range(fs)
  PROVE  Counted([tokenize_identifier(insert_ident(wipe(lex), fs), f) EXCEPT !.func_count = @ + 1],
                 Append(fs, f))
<1> DEFINE i == insert_ident(wipe(lex), fs)
           m == tokenize_identifier(i, f)
           l == [m EXCEPT !.func_count = @ + 1]
           gs == Append(fs, f)
<1>1. /\ Numbered(i) /\ i.func_count = Len(fs) /\ i.ident_index = Len(fs)
      /\ Known(i) = Range(fs) /\ \A k \in DOMAIN fs : Ident(i, fs[k]) = k - 1
  BY FunctionsInserted
<1> HIDE DEF i
<1>2. Numbered(m) /\ Added(i, m, f)
  <2>1. m = NewIdent(i, f)
    BY <1>1 DEF tokenize_identifier, Known
  <2> QED
    BY <1>1, <2>1, AddedNumbered
<1> HIDE DEF m
<1>3. /\ Numbered(l) /\ l.identifier_table = m.identifier_table
      /\ l.ident_index = m.ident_index /\ l.func_count = m.func_count + 1
  BY <1>2, NumberedCounted
<1> HIDE DEF l
<1>4. /\ Len(gs) = Len(fs) + 1 /\ Len(fs) \in Nat /\ DOMAIN gs = 1..Len(gs)
      /\ gs[Len(gs)] = f /\ (\A k \in 1..Len(fs) : gs[k] = fs[k])
      /\ Range(gs) = Range(fs) \union {f} /\ DOMAIN fs = 1..Len(fs)
  BY AppendFunction
<1> HIDE DEF gs
<1>5. Known(l) = Range(gs) /\ \A n : Ident(l, n) = Ident(m, n)
  BY <1>1, <1>2, <1>3, <1>4 DEF Known, Ident, Added
<1>6. ASSUME NEW k \in DOMAIN gs
      PROVE  Ident(l, gs[k]) = k - 1
  <2>1. CASE k = Len(gs)
    BY <1>1, <1>2, <1>4, <1>5, <2>1 DEF Added
  <2>2. CASE k # Len(gs)
    <3>1. k \in 1..Len(fs) /\ gs[k] = fs[k]
      BY <1>4, <2>2
    <3>2. fs[k] \in Range(fs) /\ fs[k] # f
      BY <1>4, <3>1 DEF Range
    <3>3. Ident(m, fs[k]) = Ident(i, fs[k])
      BY <1>1, <1>2, <3>2 DEF Added
    <3> QED
      BY <1>1, <1>4, <1>5, <3>1, <3>3
  <2> QED
    BY <2>1, <2>2
<1>7. l.func_count = Len(gs) /\ l.ident_index = Len(gs)
  BY <1>1, <1>2, <1>3, <1>4 DEF Added
<1>8. Counted(l, gs)
  BY <1>3, <1>5, <1>6, <1>7 DEF Counted
<1> QED
  BY <1>8 DEF l, m, i, gs

\* The parameters, which may have the names of functions,
LEMMA ParametersDeclared ==
  ASSUME NEW lex, NEW E, NEW fs \in Seq(E), NEW params \in Seq(E), Counted(lex, fs)
  PROVE  LET l == FoldLeft(set_defined, Declared(lex, params), params)
         IN  /\ Filled(l, fs, Range(params), {}) /\ l.ident_index >= Len(fs)
<1> DEFINE m == Declared(lex, params)
           l == FoldLeft(set_defined, m, params)
           R == Range(params)
<1>1. Numbered(lex) /\ Extends(lex, m, R)
  BY DeclaredExtends DEF Counted
<1> HIDE DEF m
<1>2. params \in Seq(Known(m)) /\ R \subseteq Known(m)
  <2>1. R \subseteq Known(m)
    BY <1>1 DEF Extends
  <2>2. \A i \in 1..Len(params) : params[i] \in Known(m)
    BY <2>1 DEF Range
  <2> QED
    BY <2>1, <2>2
<1>3. Flagged(m, l, R)
  BY <1>1, <1>2, ParametersFlagged DEF Extends
<1> HIDE DEF l, R
<1>4. Known(l) = Known(m) /\ \A n : Ident(l, n) = Ident(m, n)
  BY <1>3 DEF Flagged, Known, Ident
<1>5. ASSUME NEW k \in DOMAIN fs
      PROVE  Ident(l, fs[k]) = k - 1
  <2>1. fs[k] \in Known(lex)
    BY DEF Counted, Range
  <2>2. Ident(m, fs[k]) = Ident(lex, fs[k])
    BY <1>1, <2>1 DEF Extends
  <2> QED
    BY <1>4, <2>2 DEF Counted
<1>6. \A n \in R : Defined(l, n)
  BY <1>2, <1>3, Zenon DEF Flagged
<1>7. Known(l) = Range(fs) \union R \union {}
  BY <1>1, <1>4 DEF Extends, Counted
<1>8. Numbered(l) /\ l.func_count = Len(fs) /\ l.ident_index >= Len(fs)
  BY <1>1, <1>3 DEF Flagged, Extends, Counted
<1>9. Filled(l, fs, R, {})
  BY <1>5, <1>6, <1>7, <1>8 DEF Filled
<1> QED
  BY <1>8, <1>9 DEF l, m, R

\* and the variables, which in the programs admitted do not.
LEMMA VariablesDeclared ==
  ASSUME NEW lex, NEW E, NEW fs \in Seq(E), NEW params, NEW vars \in Seq(E),
         Filled(lex, fs, params, {}), lex.ident_index >= Len(fs),
         Range(vars) \intersect (Range(fs) \union params) = {}
  PROVE  Filled(Declared(lex, vars), fs, params, Range(vars))
<1> DEFINE l == Declared(lex, vars)
           R == Range(vars)
<1>1. Numbered(lex) /\ Extends(lex, l, R)
  BY DeclaredExtends DEF Filled
<1> HIDE DEF l, R
<1>2. R \intersect (Range(fs) \union params) = {}
  BY DEF R
<1>3. Known(lex) = Range(fs) \union params
  BY DEF Filled
<1>4. lex.ident_index \in Nat /\ Len(fs) \in Nat /\ l.ident_index \in Nat
      /\ \A n \in Known(l) : Ident(l, n) \in 0..(l.ident_index - 1)
  BY <1>1, NumberedFields DEF Extends
<1>5. ASSUME NEW k \in DOMAIN fs
      PROVE  Ident(l, fs[k]) = k - 1
  <2>1. fs[k] \in Known(lex)
    BY <1>3 DEF Range
  <2>2. Ident(l, fs[k]) = Ident(lex, fs[k])
    BY <1>1, <2>1 DEF Extends
  <2> QED
    BY <2>2 DEF Filled
<1>6. ASSUME NEW n \in R
      PROVE  Ident(l, n) >= Len(fs) /\ ~Defined(l, n)
  <2>1. n \in R \ Known(lex) /\ n \in Known(l)
    BY <1>1, <1>2, <1>3 DEF Extends
  <2>2. Ident(l, n) >= lex.ident_index /\ ~Defined(l, n)
    BY <1>1, <2>1 DEF Extends
  <2>3. Ident(l, n) \in Nat
    BY <1>4, <2>1
  <2> QED
    BY <1>4, <2>2, <2>3
<1>7. ASSUME NEW n \in params
      PROVE  Defined(l, n)
  <2>1. n \in Known(lex)
    BY <1>3
  <2>2. Ident(l, n) = Ident(lex, n) /\ Defined(lex, n)
    BY <1>1, <2>1 DEF Extends, Filled
  <2>3. Ident(lex, n) + 1 \in 1..lex.ident_index
    BY <1>1, <2>1, NumberedFields
  <2>4. l.defineds[Ident(lex, n) + 1] = lex.defineds[Ident(lex, n) + 1]
    BY <1>1, <2>3 DEF Extends
  <2> QED
    BY <2>2, <2>4, Zenon DEF Defined
<1>8. Known(l) = Range(fs) \union params \union R
  BY <1>1, <1>3 DEF Extends
<1>9. Numbered(l) /\ l.func_count = Len(fs)
  BY <1>1 DEF Extends, Filled
<1>10. Filled(l, fs, params, R)
  BY <1>5, <1>6, <1>7, <1>8, <1>9 DEF Filled
<1> QED
  BY <1>10 DEF l, R

\* main's variables come last, also when one has the name of a function.
LEMMA MainFilled ==
  ASSUME NEW lex, Numbered(lex), NEW E, NEW fs \in Seq(E), IsInjective(fs),
         lex.func_count = Len(fs), NEW F, NEW vars \in Seq(F)
  PROVE  Filled(insert_ident(insert_ident(wipe(lex), fs), vars), fs, {}, Range(vars))
<1> DEFINE m == insert_ident(wipe(lex), fs)
           l == insert_ident(m, vars)
           R == Range(vars)
<1>1. /\ Numbered(m) /\ m.func_count = Len(fs) /\ m.ident_index = Len(fs)
      /\ Known(m) = Range(fs) /\ \A k \in DOMAIN fs : Ident(m, fs[k]) = k - 1
  BY FunctionsInserted
<1> HIDE DEF m
<1>2. Inserted(m, l, vars, Len(vars))
  BY <1>1, InsertedAll
<1> HIDE DEF l
<1>3. Some(vars, Len(vars)) = R /\ \A n \in R : \E j \in 1..Len(vars) : n = vars[j]
  <2>1. Some(vars, Len(vars)) = R
    BY SomeNames
  <2> QED
    BY <2>1 DEF Some
<1> HIDE DEF R
<1>4. ASSUME NEW k \in DOMAIN fs, fs[k] \notin R
      PROVE  Ident(l, fs[k]) = k - 1
  <2>1. fs[k] \in Known(m) \ R
    BY <1>1, <1>4 DEF Range
  <2> QED
    BY <1>1, <1>2, <1>3, <2>1 DEF Inserted
<1>5. \A n \in R : Ident(l, n) >= Len(fs) /\ ~Defined(l, n)
  BY <1>1, <1>2, <1>3 DEF Inserted
<1>6. Known(l) = Range(fs) \union {} \union R /\ Numbered(l) /\ l.func_count = Len(fs)
  BY <1>1, <1>2, <1>3 DEF Inserted
<1>7. Filled(l, fs, {}, R)
  BY <1>4, <1>5, <1>6 DEF Filled
<1> QED
  BY <1>7 DEF l, m, R

\* The names of a set in their order.
Sorted(s, S, n) ==
  /\ s \in [1..n -> S] /\ \A x \in S : \E i \in 1..n : s[i] = x
  /\ \A i, j \in 1..n : i < j => s[i] < s[j]

\* A set of numbers with a bound can be listed in their order,
LEMMA SortedExists ==
  ASSUME NEW b \in Nat, NEW S \in SUBSET (1..b)
  PROVE  \E n \in Nat : \E s : Sorted(s, S, n)
<1> DEFINE Is(k) == \E n \in Nat : \E s : Sorted(s, S \intersect (1..k), n)
           T == {k \in 0..b : Is(k)}
<1>1. Is(0)
  <2>1. S \intersect (1..0) = {} /\ 1..0 = {}
    OBVIOUS
  <2>2. Sorted([i \in {} |-> i], S \intersect (1..0), 0)
    BY <2>1 DEF Sorted
  <2> QED
    BY <2>2
<1>2. ASSUME NEW k \in 1..b, Is(k - 1)
      PROVE  Is(k)
  <2>1. PICK n \in Nat : \E s : Sorted(s, S \intersect (1..(k - 1)), n)
    BY <1>2
  <2> PICK s : Sorted(s, S \intersect (1..(k - 1)), n)
    BY <2>1
  <2>2. CASE k \notin S
    <3>1. S \intersect (1..k) = S \intersect (1..(k - 1))
      BY <2>2
    <3> QED
      BY <2>1, <3>1
  <2>3. CASE k \in S
    <3> DEFINE R == S \intersect (1..(k - 1))
               W == S \intersect (1..k)
               t == [i \in 1..(n + 1) |-> IF i = n + 1 THEN k ELSE s[i]]
    <3>1. W = R \union {k} /\ \A x \in R : x \in Nat /\ x < k
      BY <2>3
    <3>2. s \in [1..n -> R] /\ \A i \in 1..(n + 1) : i \in 1..n \/ i = n + 1
      <4>1. s \in [1..n -> R]
        BY DEF Sorted
      <4>2. \A i \in 1..(n + 1) : i \in 1..n \/ i = n + 1
        OBVIOUS
      <4> QED
        BY <4>1, <4>2
    <3>3. \A i \in 1..n : i \in 1..(n + 1) /\ i # n + 1 /\ s[i] \in R
      BY <3>2
    <3> HIDE DEF R, W
    <3>4. t \in [1..(n + 1) -> W]
      BY <3>1, <3>2, <3>3
    <3>5. t[n + 1] = k /\ \A i \in 1..n : t[i] = s[i]
      BY <3>3
    <3> HIDE DEF t
    <3>6. ASSUME NEW x \in W PROVE \E i \in 1..(n + 1) : t[i] = x
      <4>1. CASE x = k
        BY <3>5, <4>1
      <4>2. CASE x \in R
        <5>1. PICK i \in 1..n : s[i] = x
          BY <2>1, <4>2 DEF Sorted, R
        <5> QED
          BY <3>3, <3>5, <5>1
      <4> QED
        BY <3>1, <4>1, <4>2
    <3>7. ASSUME NEW i \in 1..(n + 1), NEW j \in 1..(n + 1), i < j
          PROVE  t[i] < t[j]
      <4>1. i \in 1..n /\ t[i] = s[i]
        BY <3>5, <3>7
      <4>2. CASE j = n + 1
        BY <3>1, <3>3, <3>5, <4>1, <4>2
      <4>3. CASE j # n + 1
        <5>1. j \in 1..n /\ t[j] = s[j]
          BY <3>5, <4>3
        <5> QED
          BY <2>1, <3>7, <4>1, <5>1 DEF Sorted
      <4> QED
        BY <4>2, <4>3
    <3>8. Sorted(t, W, n + 1)
      BY <3>4, <3>6, <3>7 DEF Sorted
    <3> QED
      BY <3>8 DEF W
  <2> QED
    BY <2>2, <2>3
<1>3. b \in T
  <2> HIDE DEF Is
  <2>1. 0 \in T /\ b \in 0..b /\ \A k \in 1..b : k - 1 \in T => k \in T
    BY <1>1, <1>2
  <2> HIDE DEF T
  <2> QED
    BY <2>1, UpTo
<1>4. S \intersect (1..b) = S
  OBVIOUS
<1> QED
  BY <1>3, <1>4

\* as names can.
LEMMA NamesAreNumbers == \A x \in Name : x \in Nat
BY DEF Name

\* The names that are wiped are a list of them.
LEMMA WipedList ==
  ASSUME NEW lex, Known(lex) \subseteq Name
  PROVE  \E S : Wiped(lex) \in Seq(S)
<1> DEFINE S == Known(lex)
<1>1. PICK n \in Nat : \E s : Sorted(s, S, n)
  <2>1. MaxName \in Nat
    BY NameAssumption
  <2> QED
    BY <2>1, SortedExists DEF Name
<1> PICK s : Sorted(s, S, n)
  BY <1>1
<1>2. ExistsBijection(1..n, S)
  <2>1. s \in [1..n -> S] /\ \A x \in S : \E i \in 1..n : s[i] = x
    BY <1>1 DEF Sorted
  <2>2. ASSUME NEW i \in 1..n, NEW j \in 1..n, s[i] = s[j] PROVE i = j
    <3>1. s[i] \in Nat /\ ~(i < j) /\ ~(j < i)
      <4>1. s[i] \in Name
        BY <2>1
      <4> QED
        <5>1. s[i] \in Nat
          BY <4>1, NamesAreNumbers, Zenon
        <5>2. s[i] = s[j] /\ (i < j => s[i] < s[j]) /\ (j < i => s[j] < s[i])
          BY <2>2 DEF Sorted
        <5> QED
          BY <5>1, <5>2
    <3> QED
      BY <3>1
  <2>3. s \in Bijection(1..n, S)
    BY <2>1, <2>2 DEF Bijection, Injection, Surjection, IsInjective
  <2> QED
    BY <2>3 DEF ExistsBijection
<1>3. Cardinality(S) = n
  BY <1>2, FS_CountingElements
<1>4. \E t \in [1..Cardinality(S) -> S] : \A i, j \in DOMAIN t : i < j => t[i] < t[j]
  <2>1. s \in [1..n -> S] /\ DOMAIN s = 1..n /\ \A i, j \in 1..n : i < j => s[i] < s[j]
    BY <1>1 DEF Sorted
  <2> QED
    BY <1>3, <2>1
<1>5. Wiped(lex) \in [1..n -> S]
  <2>1. Wiped(lex) = CHOOSE t \in [1..Cardinality(S) -> S] :
                       \A i, j \in DOMAIN t : i < j => t[i] < t[j]
    BY DEF Wiped, Known
  <2> HIDE DEF S
  <2> QED
    BY <1>3, <1>4, <2>1
<1>6. Wiped(lex) \in Seq(S)
  BY <1>5
<1> QED
  BY <1>6

-----------------------------------------------------------------------------
(* The inductive invariant.                                                *)

IsList(s) == \E S : s \in Seq(S)
Jsrs(js) == \E V : js \in Seq([name : Name, larg : V])

\* The functions whose end was parsed.
Finished == IF place = "function" THEN Len(func_strings) - 1 ELSE Len(func_strings)

FunctionsKept ==
  /\ func_strings \in Seq(Name) /\ IsInjective(func_strings) /\ Finished \in Nat
  /\ func_first_instructs = [i \in 1..Finished |-> <<"entry", i>>]
  /\ DOMAIN func_map = {func_strings[i] : i \in 1..Finished}
  /\ \A i \in 1..Finished : func_map[func_strings[i]] = <<"entry", i>>

LexerKept ==
  /\ Numbered(lexer) /\ lexer.func_count = Len(func_strings)
  /\ place = "start" => Known(lexer) = {}

ListsKept ==
  /\ place \in {"start", "function", "between", "main", "done"}
  /\ statements \in Nat /\ IsList(loops) /\ IsList(saved_identifier_strings)
  /\ Jsrs(jsrs) /\ incomplete_func_calls \in Seq([jsr : Nat, name : Name])
  /\ ~Parsing => loops = <<>>

\* The table of a scope: a variable is behind the functions, a function that has not the
\* name of a variable is in its place, and what was assigned to is flagged.
ScopeKept ==
  Parsing =>
    /\ scope = [params |-> scope.params, variables |-> scope.variables, assigned |-> scope.assigned]
    /\ scope.params \in Seq(Name) /\ IsInjective(scope.params)
    /\ Range(scope.params) \intersect scope.variables = {}
    /\ scope.assigned \subseteq Variables
    /\ Variables \union Range(func_strings) \subseteq Known(lexer)
    /\ \A k \in DOMAIN func_strings :
         func_strings[k] \notin Variables => Ident(lexer, func_strings[k]) = k - 1
    /\ \A n \in scope.variables : Ident(lexer, n) >= Len(func_strings)
    /\ \A n \in Variables : Defined(lexer, n) <=> n \in Range(scope.params) \union scope.assigned

\* A name has a value unless a call of it was read before its declaration.
ValuesKept ==
  Parsing =>
    /\ DOMAIN identifier_values \subseteq 0..(lexer.ident_index - 1)
    /\ \A n \in Known(lexer) :
         Ident(lexer, n) \in DOMAIN identifier_values <=> n \in Variables \union Range(func_strings)

LoopsKept ==
  /\ \A d \in DOMAIN loops :
       /\ loops[d].id \in Nat /\ loops[d].id < statements
       /\ DOMAIN loops[d].values = DOMAIN identifier_values
       /\ loops[d].first_jsr \in 1..(Len(jsrs) + 1)
  /\ \A d, e \in DOMAIN loops :
       d < e => loops[d].id < loops[e].id /\ loops[d].first_jsr <= loops[e].first_jsr

\* What a call has for an argument while the program is parsed.
Waits(j) ==
  /\ jsrs[j].larg = NoValue
  /\ \E c \in DOMAIN incomplete_func_calls : incomplete_func_calls[c].jsr = j
  /\ place \in {"main", "done"} => jsrs[j].name \notin Range(func_strings)
Jumps(j) ==
  \E k \in DOMAIN func_strings : func_strings[k] = jsrs[j].name /\ jsrs[j].larg = <<"entry", k>>
Turns(j) ==
  \E d \in DOMAIN loops :
    /\ j >= loops[d].first_jsr /\ jsrs[j].name \in Range(func_strings) \ Variables
    /\ jsrs[j].larg = PHI(loops[d], Ident(lexer, jsrs[j].name))

CallsKept ==
  /\ \A j \in DOMAIN jsrs : Waits(j) \/ Jumps(j) \/ Turns(j)
  /\ \A c \in DOMAIN incomplete_func_calls :
       LET call == incomplete_func_calls[c]
       IN call.jsr \in DOMAIN jsrs /\ call.name = jsrs[call.jsr].name

\* The values of the block that d loops are around, and of the current block.
Values(d) == IF d = Len(loops) THEN identifier_values ELSE loops[d + 1].values

NamesKept ==
  Parsing =>
    \A n \in (Variables \union Range(func_strings)) \ scope.assigned :
      /\ Values(0)[Ident(lexer, n)] = Meant(n)
      /\ \A d \in 1..Len(loops) : Values(d)[Ident(lexer, n)] = PHI(loops[d], Ident(lexer, n))

DeclInv ==
  /\ FunctionsKept /\ LexerKept /\ ListsKept /\ ScopeKept /\ ValuesKept /\ LoopsKept
  /\ NamesKept /\ CallsKept

-----------------------------------------------------------------------------
(* Lists.                                                                  *)

LEMMA ListFields ==
  ASSUME NEW s, IsList(s)
  PROVE  Len(s) \in Nat /\ DOMAIN s = 1..Len(s)
BY DEF IsList

LEMMA ListAppended ==
  ASSUME NEW s, IsList(s), NEW v
  PROVE  LET t == Append(s, v)
         IN  /\ IsList(t) /\ Len(t) = Len(s) + 1 /\ t[Len(s) + 1] = v
             /\ \A i \in 1..Len(s) : t[i] = s[i]
<1>1. PICK S : s \in Seq(S)
  BY DEF IsList
<1> DEFINE T == S \union {v}
<1>2. s \in Seq(T) /\ v \in T
  BY <1>1
<1> HIDE DEF T
<1>3. Append(s, v) \in Seq(T) /\ Len(Append(s, v)) = Len(s) + 1
  BY <1>2
<1>4. Append(s, v)[Len(s) + 1] = v /\ \A i \in 1..Len(s) : Append(s, v)[i] = s[i]
  BY <1>2, Appended
<1> QED
  BY <1>3, <1>4 DEF IsList

LEMMA ListFront ==
  ASSUME NEW s, IsList(s), s # <<>>
  PROVE  LET t == Front(s)
         IN  /\ IsList(t) /\ Len(t) = Len(s) - 1 /\ Len(s) \in Nat \ {0}
             /\ Last(s) = s[Len(s)]
             /\ \A i \in 1..Len(t) : t[i] = s[i]
<1>1. PICK S : s \in Seq(S)
  BY DEF IsList
<1>2. Len(s) \in Nat \ {0}
  BY <1>1
<1>3. Front(s) \in Seq(S) /\ Len(Front(s)) = Len(s) - 1
  <2>1. \A i \in 1..(Len(s) - 1) : s[i] \in S
    BY <1>1
  <2>2. Len(s) - 1 \in Int /\ 1 \in Int /\ Len(s) - 1 - 1 + 1 = Len(s) - 1
    BY <1>2
  <2> QED
    BY <1>2, <2>1, <2>2, SubSeqProperties DEF Front
<1>4. \A i \in 1..Len(Front(s)) : Front(s)[i] = s[i]
  <2>1. \A i \in 1..(Len(s) - 1) : s[i] \in S
    BY <1>1
  <2>2. Len(s) - 1 \in Int /\ 1 \in Int
    BY <1>2
  <2>3. \A i \in 1..(Len(s) - 1 - 1 + 1) : SubSeq(s, 1, Len(s) - 1)[i] = s[1 + i - 1]
    BY <2>1, <2>2, SubSeqProperties
  <2> QED
    BY <1>2, <1>3, <2>3 DEF Front
<1> QED
  BY <1>2, <1>3, <1>4 DEF IsList, Last

\* The elements of a list.
LEMMA Elements ==
  ASSUME NEW R, NEW s \in Seq(R)
  PROVE  IsList(s) /\ Len(s) \in Nat /\ DOMAIN s = 1..Len(s) /\ \A j \in DOMAIN s : s[j] \in R
BY DEF IsList

LEMMA WiderAppended ==
  ASSUME NEW R, NEW T, R \subseteq T, NEW s \in Seq(R), NEW v \in T
  PROVE  Append(s, v) \in Seq(T)
OBVIOUS

LEMMA JsrFields ==
  ASSUME NEW js, Jsrs(js)
  PROVE  /\ IsList(js) /\ Len(js) \in Nat /\ DOMAIN js = 1..Len(js)
         /\ \A j \in DOMAIN js : /\ js[j].name \in Name
                                 /\ js[j] = [name |-> js[j].name, larg |-> js[j].larg]
<1>1. PICK V : js \in Seq([name : Name, larg : V])
  BY DEF Jsrs
<1>2. /\ IsList(js) /\ Len(js) \in Nat /\ DOMAIN js = 1..Len(js)
      /\ \A j \in DOMAIN js : js[j] \in [name : Name, larg : V]
  BY <1>1, Elements, Zenon
<1> QED
  BY <1>2

LEMMA JsrAppended ==
  ASSUME NEW js, Jsrs(js), NEW f \in Name, NEW v
  PROVE  Jsrs(Append(js, [name |-> f, larg |-> v]))
<1>1. PICK V : js \in Seq([name : Name, larg : V])
  BY DEF Jsrs
<1> DEFINE W == V \union {v}
           R == [name : Name, larg : V]
           T == [name : Name, larg : W]
           r == [name |-> f, larg |-> v]
<1>2. R \subseteq T /\ r \in T
  OBVIOUS
<1> HIDE DEF R, T, r
<1>3. js \in Seq(R)
  BY <1>1 DEF R
<1>4. Append(js, r) \in Seq(T)
  BY <1>2, <1>3, WiderAppended
<1> QED
  BY <1>4 DEF T, r, Jsrs

LEMMA JsrsOf ==
  ASSUME NEW n \in Nat, NEW js, js = [j \in 1..n |-> js[j]],
         \A j \in 1..n : js[j].name \in Name /\ js[j] = [name |-> js[j].name, larg |-> js[j].larg]
  PROVE  Jsrs(js) /\ Len(js) = n
<1> DEFINE V == {js[j].larg : j \in 1..n}
           R == [name : Name, larg : V]
<1>1. ASSUME NEW j \in 1..n PROVE js[j] \in R
  <2>1. js[j].larg \in V /\ js[j].name \in Name
    OBVIOUS
  <2>2. [name |-> js[j].name, larg |-> js[j].larg] \in R
    BY <2>1
  <2> HIDE DEF R
  <2> QED
    BY <2>2
<1> HIDE DEF R
<1>2. js \in [1..n -> R]
  BY <1>1
<1>3. js \in Seq(R) /\ Len(js) = n
  BY <1>2
<1> QED
  BY <1>3 DEF R, Jsrs

LEMMA DistinctList ==
  ASSUME NEW s \in Distinct(MaxLocals)
  PROVE  s \in Seq(Name) /\ IsInjective(s)
<1>1. PICK n \in 0..MaxLocals : s \in [1..n -> Name]
  BY DEF Distinct
<1>2. n \in Nat
  BY <1>1
<1> QED
  BY <1>1, <1>2 DEF Distinct

-----------------------------------------------------------------------------
(* The steps.                                                              *)

\* Nothing is declared at the start.
LEMMA InitKept == Init => DeclInv
<1> SUFFICES ASSUME Init
             PROVE  DeclInv
  OBVIOUS
<1>1. FunctionsKept
  <2>1. func_strings = <<>> /\ func_first_instructs = <<>> /\ place = "start"
        /\ func_map = [x \in {} |-> 0]
    BY DEF Init, NoIdentifiers
  <2>2. Finished = 0 /\ 1..0 = {}
    BY <2>1 DEF Finished
  <2> QED
    BY <2>1, <2>2 DEF FunctionsKept, IsInjective
<1>2. LexerKept
  <2> DEFINE t == NoIdentifiers
  <2>1. t \in [{} -> Nat] /\ DOMAIN t = {}
    BY DEF NoIdentifiers
  <2> HIDE DEF t
  <2>2. lexer = [identifier_table |-> t, ident_index |-> 0, defineds |-> <<>>, func_count |-> 0]
    BY DEF Init, t
  <2>3. {} \in SUBSET {} /\ <<>> \in Seq(BOOLEAN) /\ 0 \in Nat
    OBVIOUS
  <2>4. lexer \in Lexers({})
    BY <2>1, <2>2, <2>3, LexerBuilt
  <2>5. lexer.identifier_table = t /\ lexer.ident_index = 0 /\ lexer.defineds = <<>>
        /\ lexer.func_count = 0
    BY <2>2
  <2>6. Known(lexer) = {}
    BY <2>1, <2>5 DEF Known
  <2>7. Numbered(lexer)
    BY <2>4, <2>5, <2>6 DEF Numbered
  <2> QED
    BY <2>5, <2>6, <2>7 DEF LexerKept, Init
<1>3. ListsKept
  <2>1. <<>> \in Seq({}) /\ <<>> \in Seq([name : Name, larg : {}]) /\ <<>> \in Seq([jsr : Nat, name : Name])
    OBVIOUS
  <2> QED
    BY <2>1 DEF Init, ListsKept, IsList, Jsrs
<1>4. ~Parsing
  BY DEF Init, Parsing
<1>5. LoopsKept /\ CallsKept
  BY DEF Init, LoopsKept, CallsKept
<1> QED
  BY <1>1, <1>2, <1>3, <1>4, <1>5 DEF DeclInv, ScopeKept, ValuesKept, NamesKept

\* Outside of a scope nothing is said of the scope, the values or a loop.
LEMMA OutsideKept ==
  ASSUME DeclInv, loops = <<>>, ~Parsing',
         UNCHANGED <<loops, jsrs, incomplete_func_calls, func_strings>>,
         place' \in {"main", "done"} => place \in {"main", "done"}
  PROVE  ScopeKept' /\ ValuesKept' /\ NamesKept' /\ LoopsKept' /\ CallsKept'
<1>1. loops = <<>> /\ loops' = <<>> /\ DOMAIN loops = {} /\ DOMAIN loops' = {}
  OBVIOUS
<1>2. LoopsKept'
  BY <1>1 DEF LoopsKept
<1>3. ASSUME NEW j \in DOMAIN jsrs
      PROVE  Waits(j)' \/ Jumps(j)'
  <2>1. Waits(j) \/ Jumps(j)
    BY <1>1, <1>3 DEF DeclInv, CallsKept, Turns
  <2> QED
    BY <2>1 DEF Waits, Jumps
<1>4. CallsKept'
  <2>1. \A c \in DOMAIN incomplete_func_calls :
          LET call == incomplete_func_calls[c]
          IN call.jsr \in DOMAIN jsrs /\ call.name = jsrs[call.jsr].name
    BY DEF DeclInv, CallsKept
  <2> QED
    BY <1>3, <2>1 DEF CallsKept
<1> QED
  BY <1>2, <1>4 DEF ScopeKept, ValuesKept, NamesKept

\* The variables of main are listed and wiped from the table.
LEMMA MainVariablesKept == DeclInv /\ MainVariables => DeclInv'
<1> SUFFICES ASSUME DeclInv, MainVariables
             PROVE  DeclInv'
  OBVIOUS
<1>1. /\ place = "start" /\ place' = "between"
      /\ UNCHANGED <<func_strings, func_first_instructs, func_map>>
      /\ UNCHANGED <<loops, jsrs, incomplete_func_calls, statements>>
  BY DEF MainVariables, body
<1>2. PICK vars \in Distinct(MaxLocals) :
        /\ lexer' = wipe(Declared(lexer, vars))
        /\ saved_identifier_strings' = Wiped(Declared(lexer, vars))
  BY DEF MainVariables
<1>3. ~Parsing /\ ~Parsing'
  BY <1>1 DEF Parsing
<1>4. vars \in Seq(Name)
  BY DistinctList
<1> DEFINE lex == Declared(lexer, vars)
<1>5. Numbered(lexer) /\ lexer.func_count = Len(func_strings) /\ Known(lexer) = {}
  BY <1>1 DEF DeclInv, LexerKept
<1>6. Extends(lexer, lex, Range(vars))
  BY <1>4, <1>5, DeclaredExtends
<1> HIDE DEF lex
<1>7. Numbered(lex) /\ lex.func_count = Len(func_strings) /\ Known(lex) \subseteq Name
  <2>1. Range(vars) \subseteq Name
    BY <1>4 DEF Range
  <2> QED
    BY <1>5, <1>6, <2>1 DEF Extends
<1>8. LexerKept'
  <2>1. Numbered(lexer') /\ lexer'.func_count = Len(func_strings)
    BY <1>2, <1>7, WipedEmpty DEF lex
  <2> QED
    BY <1>1, <2>1 DEF LexerKept
<1>9. ListsKept'
  <2>1. IsList(saved_identifier_strings')
    BY <1>2, <1>7, WipedList DEF lex, IsList
  <2>2. ListsKept
    BY DEF DeclInv
  <2> QED
    BY <1>1, <1>3, <2>1, <2>2 DEF ListsKept
<1>10. FunctionsKept'
  <2>1. Finished' = Finished
    BY <1>1 DEF Finished
  <2> QED
    BY <1>1, <2>1 DEF DeclInv, FunctionsKept
<1> QED
  <2>1. loops = <<>>
    BY <1>3 DEF DeclInv, ListsKept
  <2>2. ScopeKept' /\ ValuesKept' /\ NamesKept' /\ LoopsKept' /\ CallsKept'
    BY <1>1, <1>3, <2>1, OutsideKept
  <2> QED
    BY <1>8, <1>9, <1>10, <2>2 DEF DeclInv

-----------------------------------------------------------------------------
(* A function begins.                                                      *)

EntriesOf(n) == [i \in 1..n |-> <<"entry", i>>]

\* The entries of one function more.
LEMMA EntryAppended ==
  ASSUME NEW n \in Nat
  PROVE  Append(EntriesOf(n), <<"entry", n + 1>>) = EntriesOf(n + 1)
<1> DEFINE S == {<<"entry", i>> : i \in 1..(n + 1)}
           s == EntriesOf(n)
           e == <<"entry", n + 1>>
           t == Append(s, e)
           u == EntriesOf(n + 1)
<1>1. s \in Seq(S) /\ Len(s) = n /\ e \in S
  BY DEF EntriesOf
<1>2. (\A i \in 1..n : s[i] = <<"entry", i>>) /\ u \in [1..(n + 1) -> S]
      /\ \A i \in 1..(n + 1) : u[i] = <<"entry", i>>
  BY DEF EntriesOf
<1> HIDE DEF S, s, u
<1>3. /\ t \in Seq(S) /\ Len(t) = n + 1 /\ t[n + 1] = e /\ \A i \in 1..n : t[i] = s[i]
  <2> HIDE DEF e
  <2> QED
    BY <1>1, Appended
<1>4. t \in [1..(n + 1) -> S]
  <2> HIDE DEF t
  <2> QED
    BY <1>3
<1>5. \A i \in 1..(n + 1) : t[i] = u[i]
  <2>1. \A i \in 1..(n + 1) : i \in 1..n \/ i = n + 1
    OBVIOUS
  <2> HIDE DEF t
  <2> QED
    BY <1>2, <1>3, <2>1
<1> HIDE DEF t
<1>6. t = u
  BY <1>2, <1>4, <1>5
<1> QED
  BY <1>6 DEF t, s, u

\* The values of a scope before the GETPARs: the functions, and 0.
LEMMA EntryValues ==
  ASSUME NEW lex, NEW E, NEW fs \in Seq(E), NEW params, NEW vars, Filled(lex, fs, params, vars)
  PROVE  LET v == Entries(Zeros(lex), EntriesOf(Len(fs)))
             D == 0..(lex.ident_index - 1)
         IN  /\ v \in [D -> {v[i] : i \in D}]
             /\ \A n \in Known(lex) : Ident(lex, n) \in D
             /\ \A n \in vars : v[Ident(lex, n)] = Zero
             /\ \A k \in DOMAIN fs :
                  fs[k] \notin vars => v[Ident(lex, fs[k])] = <<"entry", k>>
<1> DEFINE v == Entries(Zeros(lex), EntriesOf(Len(fs)))
           D == 0..(lex.ident_index - 1)
<1>1. /\ lex.ident_index \in Nat /\ \A n \in Known(lex) : Ident(lex, n) \in D
  BY NumberedFields DEF Filled
<1>2. Len(fs) \in Nat /\ DOMAIN fs = 1..Len(fs)
  OBVIOUS
<1>3. Len(EntriesOf(Len(fs))) = Len(fs) /\ \A k \in 1..Len(fs) : EntriesOf(Len(fs))[k] = <<"entry", k>>
  BY <1>2 DEF EntriesOf
<1>4. v = [i \in D |-> IF i < Len(fs) THEN EntriesOf(Len(fs))[i + 1] ELSE Zero]
  BY <1>3 DEF Entries, Zeros
<1> HIDE DEF v
<1>5. v \in [D -> {v[i] : i \in D}]
  BY <1>4
<1>6. ASSUME NEW n \in vars PROVE v[Ident(lex, n)] = Zero
  <2>1. n \in Known(lex) /\ Ident(lex, n) >= Len(fs)
    BY DEF Filled
  <2>2. Ident(lex, n) \in D /\ ~(Ident(lex, n) < Len(fs))
    BY <1>1, <1>2, <2>1
  <2> QED
    BY <1>4, <2>2
<1>7. ASSUME NEW k \in DOMAIN fs, fs[k] \notin vars
      PROVE  v[Ident(lex, fs[k])] = <<"entry", k>>
  <2>1. fs[k] \in Known(lex) /\ Ident(lex, fs[k]) = k - 1
    BY <1>7 DEF Filled, Range
  <2>2. k - 1 \in D /\ k - 1 < Len(fs) /\ k - 1 + 1 = k /\ k \in 1..Len(fs)
    BY <1>1, <1>2, <2>1
  <2> QED
    BY <1>3, <1>4, <2>1, <2>2
<1> QED
  BY <1>1, <1>5, <1>6, <1>7 DEF v

\* What the names of a function mean in its first block.
LEMMA HeaderValues ==
  ASSUME NEW lex, NEW E, NEW fs \in Seq(E), NEW params \in Seq(E), IsInjective(params), NEW vars,
         Filled(lex, fs, Range(params), vars), Range(params) \intersect vars = {}
  PROVE  LET v == GETPARs(lex, Entries(Zeros(lex), EntriesOf(Len(fs))), params)
         IN  /\ DOMAIN v = 0..(lex.ident_index - 1)
             /\ \A n \in Known(lex) : Ident(lex, n) \in DOMAIN v
             /\ \A p \in DOMAIN params :
                  v[Ident(lex, params[p])] = <<"getpar", Len(params) + 1 - p>>
             /\ \A n \in vars : v[Ident(lex, n)] = Zero
             /\ \A k \in DOMAIN fs :
                  fs[k] \notin Range(params) \union vars => v[Ident(lex, fs[k])] = <<"entry", k>>
<1> DEFINE u == Entries(Zeros(lex), EntriesOf(Len(fs)))
           v == GETPARs(lex, u, params)
           D == 0..(lex.ident_index - 1)
           V == {u[i] : i \in D}
<1>1. /\ u \in [D -> V] /\ \A n \in Known(lex) : Ident(lex, n) \in D
      /\ \A n \in vars : u[Ident(lex, n)] = Zero
      /\ \A k \in DOMAIN fs : fs[k] \notin vars => u[Ident(lex, fs[k])] = <<"entry", k>>
  BY EntryValues
<1>2. Numbered(lex) /\ Range(params) \subseteq Known(lex) /\ vars \subseteq Known(lex)
      /\ Range(fs) \subseteq Known(lex)
  BY DEF Filled
<1>3. DOMAIN params = 1..Len(params) /\ \A p \in 1..Len(params) : params[p] \in Range(params)
  BY DEF Range
<1>4. params \in Seq(Known(lex)) /\ \A p \in 1..Len(params) : Ident(lex, params[p]) \in D
  <2> HIDE DEF D, u, V
  <2>1. \A p \in 1..Len(params) : params[p] \in Known(lex)
    BY <1>2, <1>3
  <2>2. params \in Seq(Known(lex))
    <3>1. Len(params) \in Nat /\ params \in [1..Len(params) -> Known(lex)]
      BY <1>3, <2>1
    <3> QED
      BY <3>1
  <2> QED
    BY <1>1, <2>1, <2>2
<1> HIDE DEF u, D, V
<1>5. Pushed(lex, params, u, v, Len(params))
  BY <1>1, <1>2, <1>4, ParametersPushed
<1> HIDE DEF v
<1>6. DOMAIN v = D /\ DOMAIN u = D
  BY <1>1, <1>5 DEF Pushed
<1>7. ASSUME NEW p \in DOMAIN params
      PROVE  v[Ident(lex, params[p])] = <<"getpar", Len(params) + 1 - p>>
  <2>1. p \in 1..Len(params) /\ Len(params) + 1 - p <= Len(params)
    BY <1>3
  <2> QED
    BY <1>5, <2>1 DEF Pushed
<1>8. ASSUME NEW n \in Known(lex) \ Range(params)
      PROVE  v[Ident(lex, n)] = u[Ident(lex, n)]
  <2>1. \A p \in 1..Len(params) : Ident(lex, params[p]) # Ident(lex, n)
    <3>1. \A p \in 1..Len(params) : params[p] \in Known(lex) /\ params[p] # n
      BY <1>2, <1>3, <1>8
    <3> QED
      BY <1>2, <3>1 DEF Numbered
  <2>2. Ident(lex, n) \in DOMAIN u
    BY <1>1, <1>6
  <2> QED
    BY <1>5, <2>1, <2>2 DEF Pushed
<1>9. \A n \in vars : v[Ident(lex, n)] = Zero
  BY <1>1, <1>2, <1>8
<1>10. ASSUME NEW k \in DOMAIN fs, fs[k] \notin Range(params) \union vars
       PROVE  v[Ident(lex, fs[k])] = <<"entry", k>>
  <2>1. fs[k] \in Known(lex) \ Range(params)
    BY <1>2, <1>10 DEF Range
  <2> QED
    BY <1>1, <1>8, <1>10, <2>1
<1> QED
  BY <1>1, <1>6, <1>7, <1>9, <1>10 DEF u, v, D

MeantOf(fs, params, vars, n) ==
  IF n \in Range(params)
    THEN <<"getpar", Len(params) + 1 - CHOOSE j \in DOMAIN params : params[j] = n>>
  ELSE IF n \in vars THEN Zero
  ELSE <<"entry", CHOOSE k \in DOMAIN fs : fs[k] = n>>

\* The position CHOOSE finds in a list without repetitions.
LEMMA Found ==
  ASSUME NEW s, IsInjective(s), NEW j \in DOMAIN s
  PROVE  s[j] \in Range(s) /\ (CHOOSE i \in DOMAIN s : s[i] = s[j]) = j
<1>1. \A i \in DOMAIN s : s[i] = s[j] => i = j
  BY DEF IsInjective
<1> QED
  BY <1>1 DEF Range

Meanings(fs, params, vars) ==
  /\ \A j \in DOMAIN params :
       MeantOf(fs, params, vars, params[j]) = <<"getpar", Len(params) + 1 - j>>
  /\ \A n \in vars : MeantOf(fs, params, vars, n) = Zero
  /\ \A k \in DOMAIN fs :
       fs[k] \notin Range(params) \union vars => MeantOf(fs, params, vars, fs[k]) = <<"entry", k>>

\* Meant, with the lists as parameters.
LEMMA MeantHere ==
  \A n : /\ Meant(n) = MeantOf(func_strings, scope.params, scope.variables, n)
         /\ Meant(n)' = MeantOf(func_strings', scope'.params, scope'.variables, n)
<1>1. ASSUME NEW n PROVE Meant(n) = MeantOf(func_strings, scope.params, scope.variables, n)
  BY DEF Meant, MeantOf
<1>2. ASSUME NEW n PROVE Meant(n)' = MeantOf(func_strings', scope'.params, scope'.variables, n)
  BY DEF Meant, MeantOf
<1> QED
  BY <1>1, <1>2

\* Its three cases.
LEMMA MeantCases ==
  ASSUME NEW fs, IsInjective(fs), NEW params, IsInjective(params), NEW vars,
         Range(params) \intersect vars = {}
  PROVE  Meanings(fs, params, vars)
<1>1. ASSUME NEW j \in DOMAIN params
      PROVE  MeantOf(fs, params, vars, params[j]) = <<"getpar", Len(params) + 1 - j>>
  BY Found, Zenon DEF MeantOf
<1>2. ASSUME NEW n \in vars PROVE MeantOf(fs, params, vars, n) = Zero
  <2>1. n \notin Range(params)
    OBVIOUS
  <2> QED
    BY <2>1, Zenon DEF MeantOf
<1>3. ASSUME NEW k \in DOMAIN fs, fs[k] \notin Range(params) \union vars
      PROVE  MeantOf(fs, params, vars, fs[k]) = <<"entry", k>>
  <2>1. fs[k] \notin Range(params) /\ fs[k] \notin vars
    BY <1>3
  <2> QED
    BY <2>1, Found, Zenon DEF MeantOf
<1> QED
  BY <1>1, <1>2, <1>3 DEF Meanings

\* A list without repetitions stays one when a new element is appended.
LEMMA AppendedInjective ==
  ASSUME NEW E, NEW fs \in Seq(E), IsInjective(fs), NEW f \in E \ Range(fs)
  PROVE  IsInjective(Append(fs, f))
<1> DEFINE gs == Append(fs, f)
<1>1. /\ Len(gs) = Len(fs) + 1 /\ Len(fs) \in Nat /\ DOMAIN gs = 1..Len(gs)
      /\ DOMAIN fs = 1..Len(fs) /\ gs[Len(gs)] = f /\ \A i \in 1..Len(fs) : gs[i] = fs[i]
  BY AppendFunction
<1> HIDE DEF gs
<1>2. \A i \in DOMAIN gs : i = Len(gs) \/ (i \in DOMAIN fs /\ gs[i] = fs[i] /\ fs[i] # f)
  BY <1>1 DEF Range
<1>3. ASSUME NEW i \in DOMAIN gs, NEW j \in DOMAIN gs, gs[i] = gs[j]
      PROVE  i = j
  BY <1>1, <1>2, <1>3 DEF IsInjective
<1>4. IsInjective(gs)
  BY <1>3 DEF IsInjective
<1> QED
  BY <1>4 DEF gs

\* The table and the lists after the header of a function.
LEMMA HeaderTable ==
  ASSUME DeclInv, Classes = {}, FunctionHeader
  PROVE  \E f \in Name \ Range(func_strings), params \in Seq(Name), vars \in Seq(Name) :
           LET fs == Append(func_strings, f)
           IN  /\ IsInjective(params) /\ Range(params) \intersect Range(vars) = {}
               /\ func_strings' = fs /\ fs \in Seq(Name) /\ IsInjective(fs)
               /\ Filled(lexer', fs, Range(params), Range(vars))
               /\ identifier_values' =
                    GETPARs(lexer', Entries(Zeros(lexer'), EntriesOf(Len(fs))), params)
               /\ scope' = [params |-> params, variables |-> Range(vars), assigned |-> {}]
<1> USE DEF FunctionHeader
<1>1. PICK f \in Name \ Range(func_strings), params \in Distinct(MaxLocals),
           vars \in Distinct(MaxLocals) :
         LET k == Len(func_strings) + 1
             named == tokenize_identifier(insert_ident(wipe(lexer), func_strings), f)
             counted == [named EXCEPT !.func_count = @ + 1]
             with_params == FoldLeft(set_defined, Declared(counted, params), params)
             lex == Declared(with_params, vars)
             first == <<"entry", k>>
         IN /\ Range(params) \intersect Range(vars) = {}
            /\ Range(vars) \intersect (Range(func_strings) \union {f}) # {}
                 => "local named as function" \in Classes
            /\ lexer' = lex
            /\ func_strings' = Append(func_strings, f)
            /\ identifier_values' =
                 GETPARs(lex, Entries(Zeros(lex), Append(func_first_instructs, first)), params)
            /\ scope' = [params |-> params, variables |-> Range(vars), assigned |-> {}]
  OBVIOUS
<1> HIDE DEF FunctionHeader
<1> DEFINE fs == Append(func_strings, f)
           counted == [tokenize_identifier(insert_ident(wipe(lexer), func_strings), f)
                         EXCEPT !.func_count = @ + 1]
           with_params == FoldLeft(set_defined, Declared(counted, params), params)
           lex == Declared(with_params, vars)
<1>2. params \in Seq(Name) /\ IsInjective(params) /\ vars \in Seq(Name)
  BY DistinctList
<1>3. /\ func_strings \in Seq(Name) /\ IsInjective(func_strings) /\ Numbered(lexer)
      /\ lexer.func_count = Len(func_strings)
  BY DEF DeclInv, FunctionsKept, LexerKept
<1>4. fs \in Seq(Name) /\ IsInjective(fs) /\ Len(fs) = Len(func_strings) + 1
      /\ Range(fs) = Range(func_strings) \union {f} /\ Len(func_strings) \in Nat
  BY <1>3, AppendFunction, AppendedInjective
<1>5. Range(vars) \intersect (Range(fs) \union Range(params)) = {}
  BY <1>1, <1>4
<1>6. Counted(counted, fs)
  BY <1>3, FunctionNamed
<1> HIDE DEF counted
<1>7. Filled(with_params, fs, Range(params), {}) /\ with_params.ident_index >= Len(fs)
  <2> HIDE DEF fs
  <2> QED
    BY <1>2, <1>4, <1>6, ParametersDeclared
<1> HIDE DEF with_params
<1>8. Filled(lex, fs, Range(params), Range(vars))
  <2> HIDE DEF fs
  <2> QED
    BY <1>2, <1>4, <1>5, <1>7, VariablesDeclared
<1>9. lexer' = lex
  BY <1>1, Zenon DEF with_params, counted
<1>10. Append(func_first_instructs, <<"entry", Len(func_strings) + 1>>) = EntriesOf(Len(fs))
  <2>1. func_first_instructs = EntriesOf(Len(func_strings))
    <3>1. place = "between"
      BY DEF FunctionHeader
    <3> QED
      BY <3>1 DEF DeclInv, FunctionsKept, Finished, EntriesOf
  <2> QED
    BY <1>4, <2>1, EntryAppended
<1> HIDE DEF fs, lex
<1>11. identifier_values' = GETPARs(lexer', Entries(Zeros(lexer'), EntriesOf(Len(fs))), params)
  BY <1>1, <1>9, <1>10, Zenon DEF lex, with_params, counted
<1> QED
  BY <1>1, <1>2, <1>4, <1>8, <1>9, <1>11, Zenon DEF fs

\* The header sets up the whole scope: Filled, HeaderValues.
LEMMA FunctionHeaderKept ==
  ASSUME DeclInv, Classes = {}, FunctionHeader
  PROVE  DeclInv'
<1>1. PICK f \in Name \ Range(func_strings), params \in Seq(Name), vars \in Seq(Name) :
        LET fs == Append(func_strings, f)
        IN  /\ IsInjective(params) /\ Range(params) \intersect Range(vars) = {}
            /\ func_strings' = fs /\ fs \in Seq(Name) /\ IsInjective(fs)
            /\ Filled(lexer', fs, Range(params), Range(vars))
            /\ identifier_values' =
                 GETPARs(lexer', Entries(Zeros(lexer'), EntriesOf(Len(fs))), params)
            /\ scope' = [params |-> params, variables |-> Range(vars), assigned |-> {}]
  BY HeaderTable
<1> DEFINE fs == Append(func_strings, f)
           P == Range(params)
           V == Range(vars)
<1>2. /\ place = "between" /\ place' = "function"
      /\ UNCHANGED <<func_first_instructs, func_map, saved_identifier_strings>>
      /\ UNCHANGED <<loops, jsrs, incomplete_func_calls, statements>>
  BY DEF FunctionHeader
<1>3. Parsing' /\ ~Parsing /\ loops = <<>> /\ DOMAIN loops = {} /\ Len(loops) = 0
  BY <1>2 DEF Parsing, DeclInv, ListsKept
<1>4. /\ func_strings \in Seq(Name) /\ Len(func_strings) \in Nat
      /\ Len(fs) = Len(func_strings) + 1 /\ DOMAIN fs = 1..Len(fs)
      /\ DOMAIN func_strings = 1..Len(func_strings)
      /\ (\A k \in 1..Len(func_strings) : fs[k] = func_strings[k])
      /\ Range(fs) = Range(func_strings) \union {f}
  <2>1. func_strings \in Seq(Name)
    BY DEF DeclInv, FunctionsKept
  <2> QED
    BY <2>1, AppendFunction
<1>5. func_strings' = fs /\ fs \in Seq(Name) /\ IsInjective(fs) /\ Filled(lexer', fs, P, V)
  BY <1>1
<1>6. scope'.params = params /\ scope'.variables = V /\ scope'.assigned = {} /\ Variables' = P \union V
  BY <1>1 DEF Variables
<1>7. P \intersect V = {} /\ IsInjective(params)
  BY <1>1
<1>8. LET v == identifier_values'
      IN  /\ DOMAIN v = 0..(lexer'.ident_index - 1)
          /\ \A n \in Known(lexer') : Ident(lexer', n) \in DOMAIN v
          /\ \A p \in DOMAIN params :
               v[Ident(lexer', params[p])] = <<"getpar", Len(params) + 1 - p>>
          /\ \A n \in V : v[Ident(lexer', n)] = Zero
          /\ \A k \in DOMAIN fs :
               fs[k] \notin P \union V => v[Ident(lexer', fs[k])] = <<"entry", k>>
  <2>1. identifier_values' = GETPARs(lexer', Entries(Zeros(lexer'), EntriesOf(Len(fs))), params)
    BY <1>1
  <2> HIDE DEF fs, V
  <2> QED
    BY <1>5, <1>7, <2>1, HeaderValues
<1> HIDE DEF fs, P, V
<1>9. FunctionsKept'
  <2>1. Finished = Len(func_strings) /\ Finished' = Len(func_strings)
    BY <1>2, <1>4, <1>5 DEF Finished
  <2>2. /\ func_first_instructs = [i \in 1..Finished |-> <<"entry", i>>]
        /\ DOMAIN func_map = {func_strings[i] : i \in 1..Finished}
        /\ \A i \in 1..Finished : func_map[func_strings[i]] = <<"entry", i>>
    BY DEF DeclInv, FunctionsKept
  <2>3. {fs[i] : i \in 1..Len(func_strings)} = {func_strings[i] : i \in 1..Len(func_strings)}
    BY <1>4
  <2> QED
    BY <1>2, <1>4, <1>5, <2>1, <2>2, <2>3 DEF FunctionsKept
<1>10. LexerKept'
  BY <1>2, <1>5 DEF LexerKept, Filled
<1>11. ListsKept'
  BY <1>2, <1>3 DEF DeclInv, ListsKept
<1>12. ScopeKept'
  <2>1. params \in Seq(Name) /\ scope' = [params |-> params, variables |-> V, assigned |-> {}]
    BY <1>1 DEF V
  <2>2. Known(lexer') = Range(fs) \union P \union V
    BY <1>5 DEF Filled
  <2>3. ASSUME NEW n \in P \union V
        PROVE  Defined(lexer', n) <=> n \in P \union {}
    <3>1. n \in V => ~Defined(lexer', n) /\ n \notin P
      BY <1>5, <1>7 DEF Filled
    <3>2. n \in P => Defined(lexer', n)
      BY <1>5 DEF Filled
    <3> QED
      BY <3>1, <3>2
  <2>4. \A k \in DOMAIN fs : fs[k] \notin P \union V => Ident(lexer', fs[k]) = k - 1
    BY <1>5 DEF Filled
  <2>5. \A n \in V : Ident(lexer', n) >= Len(fs)
    BY <1>5 DEF Filled
  <2>6. P = Range(params)
    BY DEF P
  <2> QED
    BY <1>5, <1>6, <1>7, <2>1, <2>2, <2>3, <2>4, <2>5, <2>6, Zenon DEF ScopeKept
<1>13. ValuesKept'
  <2>1. Known(lexer') = Range(fs) \union P \union V
    BY <1>5 DEF Filled
  <2> QED
    BY <1>5, <1>6, <1>8, <2>1 DEF ValuesKept
<1>14. LoopsKept'
  BY <1>2, <1>3 DEF LoopsKept
<1>15. NamesKept'
  <2>1. \A n : Meant(n)' = MeantOf(fs, params, V, n)
    BY <1>5, <1>6, MeantHere, Zenon
  <2>2. loops' = <<>> /\ Len(loops') = 0
    BY <1>2, <1>3
  <2>3. Values(0)' = identifier_values'
    BY <2>2 DEF Values
  <2>4. P = Range(params)
    BY DEF P
  <2>5. Meanings(fs, params, V)
    <3>1. Range(params) \intersect V = {}
      BY <1>7, <2>4
    <3> QED
      BY <1>5, <1>7, <3>1, MeantCases
  <2>6. ASSUME NEW n \in P \union V \union Range(fs)
        PROVE  identifier_values'[Ident(lexer', n)] = MeantOf(fs, params, V, n)
    <3>1. CASE n \in P
      <4>1. PICK j \in DOMAIN params : n = params[j]
        BY <2>4, <3>1 DEF Range
      <4>2. MeantOf(fs, params, V, n) = <<"getpar", Len(params) + 1 - j>>
        BY <2>5, <4>1 DEF Meanings
      <4> QED
        BY <1>8, <4>1, <4>2
    <3>2. CASE n \in V
      <4>1. MeantOf(fs, params, V, n) = Zero
        BY <2>5, <3>2 DEF Meanings
      <4> QED
        BY <1>8, <3>2, <4>1
    <3>3. CASE n \notin P \union V
      <4>1. PICK k \in DOMAIN fs : n = fs[k]
        BY <2>6, <3>3 DEF Range
      <4>2. fs[k] \notin Range(params) \union V
        BY <2>4, <3>3, <4>1
      <4>3. MeantOf(fs, params, V, n) = <<"entry", k>>
        BY <2>5, <4>1, <4>2 DEF Meanings
      <4> QED
        BY <1>8, <3>3, <4>1, <4>3
    <3> QED
      BY <3>1, <3>2, <3>3
  <2>7. 1..Len(loops') = {}
    BY <2>2
  <2> QED
    BY <1>5, <1>6, <2>1, <2>3, <2>6, <2>7 DEF NamesKept
<1>16. CallsKept'
  <2>1. ASSUME NEW j \in DOMAIN jsrs
        PROVE  Waits(j)' \/ Jumps(j)'
    <3>1. Waits(j) \/ Jumps(j)
      BY <1>3, <2>1 DEF DeclInv, CallsKept, Turns
    <3>2. CASE Waits(j)
      BY <1>2, <3>2 DEF Waits
    <3>3. CASE Jumps(j)
      <4>1. PICK k \in DOMAIN func_strings :
              func_strings[k] = jsrs[j].name /\ jsrs[j].larg = <<"entry", k>>
        BY <3>3 DEF Jumps
      <4>2. k \in DOMAIN fs /\ fs[k] = func_strings[k]
        BY <1>4
      <4> QED
        BY <1>2, <1>5, <4>1, <4>2 DEF Jumps
    <3> QED
      BY <3>1, <3>2, <3>3
  <2>2. \A c \in DOMAIN incomplete_func_calls :
          LET call == incomplete_func_calls[c]
          IN call.jsr \in DOMAIN jsrs /\ call.name = jsrs[call.jsr].name
    BY DEF DeclInv, CallsKept
  <2> QED
    BY <1>2, <2>1, <2>2 DEF CallsKept
<1> QED
  BY <1>9, <1>10, <1>11, <1>12, <1>13, <1>14, <1>15, <1>16 DEF DeclInv

-----------------------------------------------------------------------------
(* Statements.                                                             *)

\* An assignment changes one index, which no other name has.
LEMMA LetStatementKept ==
  ASSUME DeclInv, LetStatement
  PROVE  DeclInv'
<1>1. PICK x \in Variables :
        /\ lexer' = set_defined(lexer, x)
        /\ identifier_values' = [identifier_values EXCEPT ![Ident(lexer, x)] = <<"let", statements>>]
        /\ scope' = [scope EXCEPT !.assigned = @ \union {x}]
  BY DEF LetStatement
<1>2. /\ Parsing /\ Parsing' /\ place' = place /\ statements' = statements + 1
      /\ UNCHANGED <<func_strings, func_first_instructs, func_map, saved_identifier_strings>>
      /\ UNCHANGED <<loops, jsrs, incomplete_func_calls>>
  BY DEF LetStatement, Statement, Parsing, parsing
<1>3. /\ Numbered(lexer) /\ lexer.func_count = Len(func_strings)
      /\ place # "start" /\ Variables \union Range(func_strings) \subseteq Known(lexer)
  BY <1>2 DEF DeclInv, LexerKept, ScopeKept, Parsing
<1>4. Flagged(lexer, lexer', {x})
  BY <1>1, <1>3, SetDefinedFlags
<1>5. Known(lexer') = Known(lexer) /\ \A n : Ident(lexer', n) = Ident(lexer, n)
  BY <1>4 DEF Flagged, Known, Ident
<1>6. /\ scope'.params = scope.params /\ scope'.variables = scope.variables
      /\ scope'.assigned = scope.assigned \union {x} /\ Variables' = Variables
      /\ scope' = [params |-> scope'.params, variables |-> scope'.variables,
                   assigned |-> scope'.assigned]
  <2>1. scope = [params |-> scope.params, variables |-> scope.variables,
                 assigned |-> scope.assigned]
    BY <1>2 DEF DeclInv, ScopeKept
  <2>2. /\ scope'.params = scope.params /\ scope'.variables = scope.variables
        /\ scope'.assigned = scope.assigned \union {x}
        /\ scope' = [params |-> scope'.params, variables |-> scope'.variables,
                     assigned |-> scope'.assigned]
    BY <1>1, <2>1
  <2> QED
    BY <2>2 DEF Variables
<1>7. /\ DOMAIN identifier_values' = DOMAIN identifier_values
      /\ \A i \in DOMAIN identifier_values :
           i # Ident(lexer, x) => identifier_values'[i] = identifier_values[i]
  BY <1>1
<1>8. FunctionsKept'
  <2>1. Finished' = Finished
    BY <1>2 DEF Finished
  <2> QED
    BY <1>2, <2>1 DEF DeclInv, FunctionsKept
<1>9. LexerKept'
  BY <1>2, <1>3, <1>4 DEF LexerKept, Flagged
<1>10. ListsKept'
  <2>1. statements' \in Nat
    BY <1>2 DEF DeclInv, ListsKept
  <2> QED
    BY <1>2, <2>1 DEF DeclInv, ListsKept
<1>11. ScopeKept'
  <2>1. ASSUME NEW n \in Variables
        PROVE  Defined(lexer', n) <=> n \in Range(scope.params) \union scope'.assigned
    <3>1. n \in Known(lexer)
      BY <1>3
    <3>2. Defined(lexer', n) <=> n \in {x} \/ Defined(lexer, n)
      BY <1>4, <3>1 DEF Flagged
    <3>3. Defined(lexer, n) <=> n \in Range(scope.params) \union scope.assigned
      BY <1>2 DEF DeclInv, ScopeKept
    <3>4. n \in scope'.assigned <=> n \in scope.assigned \/ n \in {x}
      BY <1>6
    <3> QED
      BY <3>2, <3>3, <3>4, Zenon
  <2>2. scope'.assigned \subseteq Variables
    BY <1>2, <1>6 DEF DeclInv, ScopeKept
  <2>3. /\ scope.params \in Seq(Name) /\ IsInjective(scope.params)
        /\ Range(scope.params) \intersect scope.variables = {}
        /\ Variables \union Range(func_strings) \subseteq Known(lexer)
        /\ \A k \in DOMAIN func_strings :
             func_strings[k] \notin Variables => Ident(lexer, func_strings[k]) = k - 1
        /\ \A n \in scope.variables : Ident(lexer, n) >= Len(func_strings)
    BY <1>2 DEF DeclInv, ScopeKept
  <2> QED
    BY <1>2, <1>5, <1>6, <2>1, <2>2, <2>3, Zenon DEF ScopeKept
<1>12. ValuesKept'
  <2>1. lexer'.ident_index = lexer.ident_index
    BY <1>4 DEF Flagged
  <2> QED
    BY <1>2, <1>5, <1>6, <1>7, <2>1 DEF DeclInv, ValuesKept
<1>13. LoopsKept'
  <2>1. statements \in Nat
    BY DEF DeclInv, ListsKept
  <2> QED
    BY <1>2, <1>7, <2>1 DEF DeclInv, LoopsKept
<1>14. NamesKept'
  <2>1. ASSUME NEW n \in (Variables \union Range(func_strings)) \ (scope.assigned \union {x})
        PROVE  \A d : Values(d)'[Ident(lexer, n)] = Values(d)[Ident(lexer, n)]
    <3>1. n \in Known(lexer) /\ x \in Known(lexer) /\ n # x
      BY <1>3, <2>1
    <3>2. Ident(lexer, n) # Ident(lexer, x)
      BY <1>3, <3>1 DEF Numbered
    <3>3. Ident(lexer, n) \in DOMAIN identifier_values
      BY <1>2, <2>1, <3>1 DEF DeclInv, ValuesKept
    <3> QED
      BY <1>2, <1>7, <3>2, <3>3 DEF Values
  <2>2. \A n : Meant(n)' = Meant(n)
    BY <1>2, <1>6, MeantHere, Zenon
  <2>3. \A n \in (Variables \union Range(func_strings)) \ scope.assigned :
          /\ Values(0)[Ident(lexer, n)] = Meant(n)
          /\ \A d \in 1..Len(loops) : Values(d)[Ident(lexer, n)] = PHI(loops[d], Ident(lexer, n))
    BY <1>2 DEF DeclInv, NamesKept
  <2>4. ASSUME NEW n \in (Variables \union Range(func_strings)) \ (scope.assigned \union {x})
        PROVE  /\ Values(0)'[Ident(lexer, n)] = Meant(n)
               /\ \A d \in 1..Len(loops) :
                    Values(d)'[Ident(lexer, n)] = PHI(loops[d], Ident(lexer, n))
    BY <2>1, <2>3, <2>4
  <2> QED
    BY <1>2, <1>5, <1>6, <2>2, <2>4 DEF NamesKept
<1>15. CallsKept'
  <2>1. ASSUME NEW j \in DOMAIN jsrs
        PROVE  Waits(j)' \/ Jumps(j)' \/ Turns(j)'
    <3>1. Waits(j) \/ Jumps(j) \/ Turns(j)
      BY <2>1 DEF DeclInv, CallsKept
    <3>2. Waits(j) => Waits(j)'
      BY <1>2 DEF Waits
    <3>3. Jumps(j) => Jumps(j)'
      BY <1>2 DEF Jumps
    <3>4. Turns(j) => Turns(j)'
      BY <1>2, <1>5, <1>6 DEF Turns
    <3> QED
      BY <3>1, <3>2, <3>3, <3>4
  <2>2. \A c \in DOMAIN incomplete_func_calls :
          LET call == incomplete_func_calls[c]
          IN call.jsr \in DOMAIN jsrs /\ call.name = jsrs[call.jsr].name
    BY DEF DeclInv, CallsKept
  <2> QED
    BY <1>2, <2>1, <2>2 DEF CallsKept
<1> QED
  BY <1>8, <1>9, <1>10, <1>11, <1>12, <1>13, <1>14, <1>15 DEF DeclInv

\* The terms are different.
LEMMA TermsApart ==
  \A k, l, i : NoValue # <<"entry", k>> /\ NoValue # <<"phi", l, i>> /\ <<"entry", k>> # <<"phi", l, i>>
<1> SUFFICES ASSUME NEW k, NEW l, NEW i
             PROVE  /\ NoValue # <<"entry", k>> /\ NoValue # <<"phi", l, i>>
                    /\ <<"entry", k>> # <<"phi", l, i>>
  OBVIOUS
<1>1. NoValue[1] = "none" /\ <<"entry", k>>[1] = "entry" /\ <<"phi", l, i>>[1] = "phi"
  BY DEF NoValue
<1> QED
  BY <1>1

\* A name that is looked up leaves the scope as it is.
LEMMA LookedUp ==
  ASSUME DeclInv, Parsing, NEW f, lexer' = tokenize_identifier(lexer, f)
  PROVE  /\ Numbered(lexer') /\ lexer'.func_count = lexer.func_count
         /\ Known(lexer') = Known(lexer) \union {f}
         /\ lexer'.ident_index >= lexer.ident_index /\ lexer'.ident_index \in Nat
         /\ lexer.ident_index \in Nat
         /\ \A n \in Variables \union Range(func_strings) :
              /\ n \in Known(lexer) /\ Ident(lexer', n) = Ident(lexer, n)
              /\ Defined(lexer', n) <=> Defined(lexer, n)
         /\ \A n \in Known(lexer) : Ident(lexer', n) = Ident(lexer, n)
         /\ f \notin Known(lexer) => Ident(lexer', f) >= lexer.ident_index
         /\ Ident(lexer', f) \in DOMAIN identifier_values <=> f \in Variables \union Range(func_strings)
<1>1. Numbered(lexer) /\ Variables \union Range(func_strings) \subseteq Known(lexer)
  BY DEF DeclInv, LexerKept, ScopeKept
<1>2. Extends(lexer, lexer', {f})
  BY <1>1, TokenizeExtends
<1>3. lexer'.ident_index \in Nat /\ lexer.ident_index \in Nat
  BY <1>1, <1>2, NumberedFields DEF Extends
<1>4. ASSUME NEW n \in Known(lexer)
      PROVE  Ident(lexer', n) = Ident(lexer, n) /\ (Defined(lexer', n) <=> Defined(lexer, n))
  <2>1. Ident(lexer', n) = Ident(lexer, n)
    BY <1>2 DEF Extends
  <2>2. Ident(lexer, n) \in 0..(lexer.ident_index - 1)
    BY <1>1, NumberedFields
  <2>3. Ident(lexer, n) + 1 \in 1..lexer.ident_index
    BY <1>3, <2>2
  <2>4. lexer'.defineds[Ident(lexer, n) + 1] = lexer.defineds[Ident(lexer, n) + 1]
    BY <1>2, <2>3 DEF Extends
  <2> QED
    BY <2>1, <2>4, Zenon DEF Defined
<1>5. f \notin Known(lexer) => Ident(lexer', f) >= lexer.ident_index
  BY <1>2 DEF Extends
<1>6. Ident(lexer', f) \in DOMAIN identifier_values <=> f \in Variables \union Range(func_strings)
  <2>1. CASE f \in Known(lexer)
    BY <1>4, <2>1 DEF DeclInv, ValuesKept
  <2>2. CASE f \notin Known(lexer)
    <3>1. DOMAIN identifier_values \subseteq 0..(lexer.ident_index - 1)
      BY DEF DeclInv, ValuesKept
    <3>2. Ident(lexer', f) \notin DOMAIN identifier_values
      BY <1>3, <1>5, <2>2, <3>1
    <3> QED
      BY <1>1, <2>2, <3>2
  <2> QED
    BY <2>1, <2>2
<1>7. /\ Numbered(lexer') /\ lexer'.func_count = lexer.func_count
      /\ Known(lexer') = Known(lexer) \union {f} /\ lexer'.ident_index >= lexer.ident_index
  BY <1>2 DEF Extends
<1> QED
  BY <1>1, <1>3, <1>4, <1>5, <1>6, <1>7

\* What a call of f, whose index is i, has for an argument at once.
Located(f, v, i) ==
  /\ f \notin Range(func_strings) => v = NoValue
  /\ f \in Range(func_strings) =>
       /\ v # NoValue
       /\ \/ loops = <<>> /\ \E k \in DOMAIN func_strings : func_strings[k] = f /\ v = <<"entry", k>>
          \/ loops # <<>> /\ v = PHI(loops[Len(loops)], i)

\* The value a call finds for the name of its function.
LEMMA JumpLocation ==
  ASSUME DeclInv, Parsing, NEW f \in Name \ Variables, lexer' = tokenize_identifier(lexer, f)
  PROVE  Located(f, get_ident_value(Ident(lexer', f)), Ident(lexer', f))
<1> DEFINE v == get_ident_value(Ident(lexer', f))
<1> SUFFICES Located(f, v, Ident(lexer', f))
  OBVIOUS
<1>1. Ident(lexer', f) \in DOMAIN identifier_values <=> f \in Range(func_strings)
  BY LookedUp
<1>2. CASE f \notin Range(func_strings)
  <2>1. v = NoValue
    BY <1>1, <1>2 DEF get_ident_value
  <2> QED
    BY <1>2, <2>1 DEF Located
<1>3. CASE f \in Range(func_strings)
  <2>1. v = identifier_values[Ident(lexer', f)] /\ Ident(lexer', f) = Ident(lexer, f)
    BY <1>1, <1>3, LookedUp DEF get_ident_value
  <2>2. /\ f \notin scope.assigned
        /\ scope.assigned \subseteq Variables /\ IsInjective(scope.params)
        /\ IsInjective(func_strings) /\ Range(scope.params) \intersect scope.variables = {}
    BY DEF DeclInv, ScopeKept, FunctionsKept
  <2>3. /\ Values(0)[Ident(lexer, f)] = Meant(f)
        /\ \A d \in 1..Len(loops) : Values(d)[Ident(lexer, f)] = PHI(loops[d], Ident(lexer, f))
    BY <1>3, <2>2 DEF DeclInv, NamesKept
  <2>4. Len(loops) \in Nat /\ Values(Len(loops)) = identifier_values
    BY ListFields DEF DeclInv, ListsKept, Values
  <2>5. CASE Len(loops) = 0
    <3>1. PICK k \in DOMAIN func_strings : func_strings[k] = f
      BY <1>3 DEF Range
    <3>2. Meanings(func_strings, scope.params, scope.variables)
      BY <2>2, MeantCases
    <3>3. func_strings[k] \notin Range(scope.params) \union scope.variables
      BY <3>1 DEF Variables
    <3>4. MeantOf(func_strings, scope.params, scope.variables, f) = <<"entry", k>>
      BY <3>1, <3>2, <3>3, Zenon DEF Meanings
    <3>5. v = <<"entry", k>>
      BY <2>1, <2>3, <2>4, <2>5, <3>4, MeantHere
    <3>6. loops = <<>>
      BY <2>5 DEF DeclInv, ListsKept, IsList
    <3> HIDE DEF v
    <3> QED
      BY <1>3, <3>1, <3>5, <3>6, TermsApart DEF Located
  <2>6. CASE Len(loops) # 0
    <3>1. Len(loops) \in 1..Len(loops)
      BY <2>4, <2>6
    <3>2. v = PHI(loops[Len(loops)], Ident(lexer', f))
      BY <2>1, <2>3, <2>4, <3>1
    <3>3. loops # <<>>
      BY <2>6
    <3> HIDE DEF v
    <3> QED
      BY <1>3, <3>2, <3>3, TermsApart DEF PHI, Located
  <2> QED
    BY <2>5, <2>6
<1> QED
  BY <1>2, <1>3

\* The argument of a call waits, jumps or turns, whatever is known of its function.
LEMMA FunctionStatementKept ==
  ASSUME DeclInv, Classes = {}, FunctionStatement
  PROVE  DeclInv'
<1>0. PICK n : n = Len(jsrs) + 1
  OBVIOUS
<1>1. PICK f \in Name \ Variables, bare \in BOOLEAN :
        LET v == get_ident_value(Ident(tokenize_identifier(lexer, f), f))
            func_name == IF bare THEN AKeyword ELSE f
        IN  /\ bare /\ v = NoValue => "bare early call" \in Classes
            /\ lexer' = tokenize_identifier(lexer, f)
            /\ jsrs' = Append(jsrs, [name |-> f, larg |-> v])
            /\ incomplete_func_calls' =
                 IF v = NoValue THEN Append(incomplete_func_calls, [jsr |-> n, name |-> func_name])
                 ELSE incomplete_func_calls
  BY <1>0 DEF FunctionStatement
<1> DEFINE v == get_ident_value(Ident(lexer', f))
<1>2. /\ lexer' = tokenize_identifier(lexer, f)
      /\ jsrs' = Append(jsrs, [name |-> f, larg |-> v])
      /\ incomplete_func_calls' =
           IF v = NoValue THEN Append(incomplete_func_calls, [jsr |-> n, name |-> f])
           ELSE incomplete_func_calls
  BY <1>1
<1>3. /\ Parsing /\ Parsing' /\ place' = place /\ statements' = statements + 1
      /\ UNCHANGED <<func_strings, func_first_instructs, func_map, saved_identifier_strings>>
      /\ UNCHANGED <<identifier_values, loops, scope>>
  BY DEF FunctionStatement, Statement, Parsing, parsing
<1>4. Variables' = Variables
  BY <1>3 DEF Variables
<1>5. Located(f, v, Ident(lexer', f))
  BY <1>2, <1>3, JumpLocation
<1> HIDE DEF v
<1>6. /\ IsList(jsrs) /\ Len(jsrs) \in Nat /\ DOMAIN jsrs = 1..Len(jsrs) /\ Jsrs(jsrs)
      /\ incomplete_func_calls \in Seq([jsr : Nat, name : Name]) /\ statements \in Nat
      /\ IsList(loops) /\ Len(loops) \in Nat /\ DOMAIN loops = 1..Len(loops)
  BY JsrFields, ListFields DEF DeclInv, ListsKept
<1>7. /\ Jsrs(jsrs') /\ Len(jsrs') = n /\ DOMAIN jsrs' = 1..n
      /\ jsrs'[n] = [name |-> f, larg |-> v] /\ \A j \in 1..Len(jsrs) : jsrs'[j] = jsrs[j]
  <2>1. Jsrs(jsrs')
    BY <1>2, <1>6, JsrAppended
  <2>2. Len(jsrs') = n /\ jsrs'[n] = [name |-> f, larg |-> v] /\ \A j \in 1..Len(jsrs) : jsrs'[j] = jsrs[j]
    BY <1>0, <1>2, <1>6, ListAppended
  <2> QED
    BY <2>1, <2>2, JsrFields
<1>8. /\ lexer'.func_count = lexer.func_count /\ Numbered(lexer')
      /\ Known(lexer') = Known(lexer) \union {f}
      /\ lexer'.ident_index >= lexer.ident_index
      /\ lexer'.ident_index \in Nat /\ lexer.ident_index \in Nat
      /\ \A m \in Variables \union Range(func_strings) :
           /\ m \in Known(lexer) /\ Ident(lexer', m) = Ident(lexer, m)
           /\ Defined(lexer', m) <=> Defined(lexer, m)
      /\ \A m \in Known(lexer) : Ident(lexer', m) = Ident(lexer, m)
      /\ Ident(lexer', f) \in DOMAIN identifier_values <=> f \in Variables \union Range(func_strings)
  BY <1>2, <1>3, LookedUp
<1>9. FunctionsKept'
  <2>1. Finished' = Finished
    BY <1>3 DEF Finished
  <2> QED
    BY <1>3, <2>1 DEF DeclInv, FunctionsKept
<1>10. LexerKept'
  <2>1. place # "start"
    BY <1>3 DEF Parsing
  <2> QED
    BY <1>3, <1>8, <2>1 DEF DeclInv, LexerKept
<1>11. \/ v # NoValue /\ incomplete_func_calls' = incomplete_func_calls
       \/ /\ v = NoValue /\ f \notin Range(func_strings)
          /\ Len(incomplete_func_calls') = Len(incomplete_func_calls) + 1
          /\ Len(incomplete_func_calls) \in Nat
          /\ DOMAIN incomplete_func_calls' = 1..(Len(incomplete_func_calls) + 1)
          /\ DOMAIN incomplete_func_calls = 1..Len(incomplete_func_calls)
          /\ incomplete_func_calls'[Len(incomplete_func_calls) + 1] = [jsr |-> n, name |-> f]
          /\ \A c \in 1..Len(incomplete_func_calls) :
               incomplete_func_calls'[c] = incomplete_func_calls[c]
  <2>1. IsList(incomplete_func_calls)
    BY <1>6 DEF IsList
  <2>2. v = NoValue => f \notin Range(func_strings)
    BY <1>5 DEF Located
  <2>3. CASE v = NoValue
    <3>1. incomplete_func_calls' = Append(incomplete_func_calls, [jsr |-> n, name |-> f])
      BY <1>2, <2>3
    <3> QED
      BY <2>1, <2>2, <2>3, <3>1, ListAppended, ListFields
  <2>4. CASE v # NoValue
    BY <1>2, <2>4
  <2> QED
    BY <2>3, <2>4
<1>12. ListsKept'
  <2>1. incomplete_func_calls' \in Seq([jsr : Nat, name : Name])
    <3> DEFINE R == [jsr : Nat, name : Name]
               r == [jsr |-> n, name |-> f]
    <3>1. r \in R
      BY <1>0, <1>6
    <3>2. incomplete_func_calls \in Seq(R)
      BY <1>6
    <3> HIDE DEF R, r
    <3>3. Append(incomplete_func_calls, r) \in Seq(R)
      BY <3>1, <3>2
    <3> QED
      BY <1>2, <3>2, <3>3 DEF R, r
  <2>2. statements' \in Nat
    BY <1>3, <1>6
  <2> QED
    BY <1>3, <1>7, <2>1, <2>2 DEF DeclInv, ListsKept
<1>13. ScopeKept'
  <2>1. /\ scope = [params |-> scope.params, variables |-> scope.variables, assigned |-> scope.assigned]
        /\ scope.params \in Seq(Name) /\ IsInjective(scope.params)
        /\ Range(scope.params) \intersect scope.variables = {} /\ scope.assigned \subseteq Variables
        /\ Variables \union Range(func_strings) \subseteq Known(lexer)
    BY <1>3 DEF DeclInv, ScopeKept
  <2>2. /\ \A k \in DOMAIN func_strings :
             func_strings[k] \notin Variables => Ident(lexer, func_strings[k]) = k - 1
        /\ \A m \in scope.variables : Ident(lexer, m) >= Len(func_strings)
        /\ \A m \in Variables : Defined(lexer, m) <=> m \in Range(scope.params) \union scope.assigned
    BY <1>3 DEF DeclInv, ScopeKept
  <2>3. \A k \in DOMAIN func_strings : func_strings[k] \in Range(func_strings)
    BY DEF Range
  <2>4. scope.variables \subseteq Variables
    BY DEF Variables
  <2>5. /\ \A k \in DOMAIN func_strings :
             func_strings[k] \notin Variables => Ident(lexer', func_strings[k]) = k - 1
        /\ \A m \in scope.variables : Ident(lexer', m) >= Len(func_strings)
    BY <1>8, <2>2, <2>3, <2>4
  <2>6. \A m \in Variables : Defined(lexer', m) <=> m \in Range(scope.params) \union scope.assigned
    BY <1>8, <2>2, Zenon
  <2>7. Variables \union Range(func_strings) \subseteq Known(lexer')
    BY <1>8, <2>1
  <2> QED
    BY <1>3, <1>4, <2>1, <2>5, <2>6, <2>7 DEF ScopeKept
<1>14. ValuesKept'
  <2>1. DOMAIN identifier_values \subseteq 0..(lexer'.ident_index - 1)
    BY <1>3, <1>8 DEF DeclInv, ValuesKept
  <2>2. ASSUME NEW m \in Known(lexer')
        PROVE  Ident(lexer', m) \in DOMAIN identifier_values <=> m \in Variables \union Range(func_strings)
    <3>1. CASE m = f
      BY <1>8, <3>1
    <3>2. CASE m \in Known(lexer)
      BY <1>3, <1>8, <3>2 DEF DeclInv, ValuesKept
    <3> QED
      BY <1>8, <3>1, <3>2
  <2> QED
    BY <1>3, <1>4, <2>1, <2>2 DEF ValuesKept
<1>15. LoopsKept'
  BY <1>0, <1>3, <1>6, <1>7 DEF DeclInv, LoopsKept
<1>16. NamesKept'
  <2>1. \A m : Meant(m)' = Meant(m)
    BY <1>3, MeantHere, Zenon
  <2>2. \A d : Values(d)' = Values(d)
    BY <1>3 DEF Values
  <2>3. \A m \in Variables \union Range(func_strings) : Ident(lexer', m) = Ident(lexer, m)
    BY <1>8
  <2>4. \A m \in (Variables \union Range(func_strings)) \ scope.assigned :
          /\ Values(0)[Ident(lexer, m)] = Meant(m)
          /\ \A d \in 1..Len(loops) : Values(d)[Ident(lexer, m)] = PHI(loops[d], Ident(lexer, m))
    BY <1>3 DEF DeclInv, NamesKept
  <2> QED
    BY <1>3, <1>4, <2>1, <2>2, <2>3, <2>4 DEF NamesKept
<1>17. CallsKept'
  <2>1. ASSUME NEW j \in 1..Len(jsrs)
        PROVE  Waits(j)' \/ Jumps(j)' \/ Turns(j)'
    <3>1. jsrs'[j] = jsrs[j] /\ (Waits(j) \/ Jumps(j) \/ Turns(j))
      BY <1>6, <1>7 DEF DeclInv, CallsKept
    <3>2. ASSUME Waits(j) PROVE Waits(j)'
      <4>1. PICK c \in DOMAIN incomplete_func_calls : incomplete_func_calls[c].jsr = j
        BY <3>2 DEF Waits
      <4>2. c \in DOMAIN incomplete_func_calls' /\ incomplete_func_calls'[c] = incomplete_func_calls[c]
        BY <1>11
      <4> QED
        BY <1>3, <3>1, <3>2, <4>1, <4>2 DEF Waits
    <3>3. Jumps(j) => Jumps(j)'
      BY <1>3, <3>1 DEF Jumps
    <3>4. Turns(j) => Turns(j)'
      BY <1>3, <1>4, <1>8, <3>1 DEF Turns
    <3> QED
      BY <3>1, <3>2, <3>3, <3>4
  <2>2. Waits(n)' \/ Jumps(n)' \/ Turns(n)'
    <3>1. jsrs'[n].name = f /\ jsrs'[n].larg = v
      BY <1>7
    <3>2. CASE f \notin Range(func_strings)
      <4>1. v = NoValue
        BY <1>5, <3>2 DEF Located
      <4>2. /\ Len(incomplete_func_calls) + 1 \in DOMAIN incomplete_func_calls'
            /\ incomplete_func_calls'[Len(incomplete_func_calls) + 1].jsr = n
        BY <1>11, <4>1
      <4>3. Waits(n)'
        BY <1>3, <3>1, <3>2, <4>1, <4>2 DEF Waits
      <4> QED
        BY <4>3
    <3>3. CASE f \in Range(func_strings)
      <4>1. \/ loops = <<>> /\ \E k \in DOMAIN func_strings : func_strings[k] = f /\ v = <<"entry", k>>
            \/ loops # <<>> /\ v = PHI(loops[Len(loops)], Ident(lexer', f))
        BY <1>5, <3>3 DEF Located
      <4>2. CASE loops = <<>>
        BY <1>3, <3>1, <4>1, <4>2 DEF Jumps
      <4>3. CASE loops # <<>>
        <5>1. Len(loops) \in DOMAIN loops
          BY <1>6, <4>3 DEF IsList
        <5>2. loops[Len(loops)].first_jsr \in 1..n
          BY <1>0, <5>1 DEF DeclInv, LoopsKept
        <5>3. n >= loops[Len(loops)].first_jsr
          BY <1>0, <1>6, <5>2
        <5> QED
          BY <1>3, <1>4, <3>1, <3>3, <4>1, <4>3, <5>1, <5>3 DEF Turns
      <4> QED
        BY <4>2, <4>3
    <3> QED
      BY <3>2, <3>3
  <2>3. ASSUME NEW c \in DOMAIN incomplete_func_calls'
        PROVE  LET call == incomplete_func_calls'[c]
               IN call.jsr \in DOMAIN jsrs' /\ call.name = jsrs'[call.jsr].name
    <3>1. \A b \in DOMAIN incomplete_func_calls :
            LET call == incomplete_func_calls[b]
            IN call.jsr \in DOMAIN jsrs /\ call.name = jsrs[call.jsr].name
      BY DEF DeclInv, CallsKept
    <3>2. CASE c \in DOMAIN incomplete_func_calls /\ incomplete_func_calls'[c] = incomplete_func_calls[c]
      BY <1>0, <1>6, <1>7, <3>1, <3>2
    <3>3. CASE incomplete_func_calls'[c] = [jsr |-> n, name |-> f]
      BY <1>0, <1>6, <1>7, <3>3
    <3> QED
      BY <1>11, <3>2, <3>3
  <2>4. \A j \in 1..n : j \in 1..Len(jsrs) \/ j = n
    BY <1>0, <1>6
  <2> QED
    BY <1>7, <2>1, <2>2, <2>3, <2>4 DEF CallsKept
<1> QED
  BY <1>9, <1>10, <1>12, <1>13, <1>14, <1>15, <1>16, <1>17 DEF DeclInv

\* Every value becomes a PHI of the new loop; no call is in the loop yet.
LEMMA WhileHeaderKept ==
  ASSUME DeclInv, WhileHeader
  PROVE  DeclInv'
<1>1. /\ IsList(loops) /\ Len(loops) \in Nat /\ DOMAIN loops = 1..Len(loops)
      /\ Len(jsrs) \in Nat /\ statements \in Nat
  BY JsrFields, ListFields DEF DeclInv, ListsKept
<1> DEFINE it == [id |-> statements, values |-> identifier_values, first_jsr |-> Len(jsrs) + 1]
<1>2. PICK loop : loop = it
  OBVIOUS
<1>3. PICK L \in Nat : L = Len(loops)
  BY <1>1
<1>4. /\ loop.id = statements /\ loop.values = identifier_values /\ loop.first_jsr = Len(jsrs) + 1
      /\ loops' = Append(loops, loop)
      /\ identifier_values' = [i \in DOMAIN identifier_values |-> PHI(loop, i)]
  BY <1>2 DEF WhileHeader
<1>5. /\ Parsing /\ Parsing' /\ place' = place /\ statements' = statements + 1
      /\ UNCHANGED <<func_strings, func_first_instructs, func_map, saved_identifier_strings>>
      /\ UNCHANGED <<lexer, jsrs, incomplete_func_calls, scope>>
  BY DEF WhileHeader, Statement, Parsing, parsing
<1>6. Variables' = Variables
  BY <1>5 DEF Variables
<1>7. /\ IsList(loops') /\ Len(loops') = L + 1 /\ DOMAIN loops' = 1..(L + 1)
      /\ loops'[L + 1] = loop /\ \A d \in 1..L : loops'[d] = loops[d]
  <2>1. /\ IsList(loops') /\ Len(loops') = L + 1
        /\ loops'[L + 1] = loop /\ \A d \in 1..L : loops'[d] = loops[d]
    BY <1>1, <1>3, <1>4, ListAppended
  <2> QED
    BY <2>1, ListFields
<1>8. /\ DOMAIN identifier_values' = DOMAIN identifier_values
      /\ \A i \in DOMAIN identifier_values : identifier_values'[i] = PHI(loop, i)
  BY <1>4
<1>9. FunctionsKept'
  <2>1. Finished' = Finished
    BY <1>5 DEF Finished
  <2> QED
    BY <1>5, <2>1 DEF DeclInv, FunctionsKept
<1>10. LexerKept'
  BY <1>5 DEF DeclInv, LexerKept
<1>11. ListsKept'
  <2>1. statements' \in Nat
    BY <1>1, <1>5
  <2> QED
    BY <1>5, <1>7, <2>1 DEF DeclInv, ListsKept
<1>12. ScopeKept'
  BY <1>5, <1>6 DEF DeclInv, ScopeKept
<1>13. ValuesKept'
  BY <1>5, <1>6, <1>8 DEF DeclInv, ValuesKept
<1>14. LoopsKept'
  <2>1. \A d \in 1..L :
          /\ loops[d].id \in Nat /\ loops[d].id < statements
          /\ DOMAIN loops[d].values = DOMAIN identifier_values
          /\ loops[d].first_jsr \in 1..(Len(jsrs) + 1)
    BY <1>1, <1>3 DEF DeclInv, LoopsKept
  <2>2. \A d, e \in 1..L :
          d < e => loops[d].id < loops[e].id /\ loops[d].first_jsr <= loops[e].first_jsr
    BY <1>1, <1>3 DEF DeclInv, LoopsKept
  <2>3. ASSUME NEW d \in 1..(L + 1)
        PROVE  /\ loops'[d].id \in Nat /\ loops'[d].id < statements + 1
               /\ DOMAIN loops'[d].values = DOMAIN identifier_values'
               /\ loops'[d].first_jsr \in 1..(Len(jsrs) + 1)
    <3>1. CASE d \in 1..L
      BY <1>1, <1>7, <1>8, <2>1, <3>1
    <3>2. CASE d = L + 1
      BY <1>1, <1>4, <1>7, <1>8, <3>2
    <3> QED
      BY <3>1, <3>2
  <2>4. ASSUME NEW d \in 1..(L + 1), NEW e \in 1..(L + 1), d < e
        PROVE  loops'[d].id < loops'[e].id /\ loops'[d].first_jsr <= loops'[e].first_jsr
    <3>1. d \in 1..L /\ loops'[d] = loops[d]
      BY <1>7, <2>4
    <3>2. CASE e = L + 1
      <4>1. loops'[e].id = statements /\ loops'[e].first_jsr = Len(jsrs) + 1
        BY <1>4, <1>7, <3>2
      <4>2. loops[d].id < statements /\ loops[d].first_jsr <= Len(jsrs) + 1
        BY <1>1, <2>1, <3>1
      <4> QED
        BY <3>1, <4>1, <4>2
    <3>3. CASE e # L + 1
      <4>1. e \in 1..L /\ loops'[e] = loops[e]
        BY <1>7, <3>3
      <4> QED
        BY <2>2, <2>4, <3>1, <4>1
    <3> QED
      BY <3>2, <3>3
  <2> QED
    BY <1>5, <1>7, <2>3, <2>4 DEF LoopsKept
<1>15. NamesKept'
  <2>1. \A n : Meant(n)' = Meant(n)
    BY <1>5, MeantHere, Zenon
  <2>2. ASSUME NEW d \in 0..L
        PROVE  Values(d)' = Values(d)
    <3>1. d # L + 1 /\ d + 1 \in 1..(L + 1) /\ (d # L => d + 1 \in 1..L)
      OBVIOUS
    <3>2. CASE d = L
      BY <1>3, <1>4, <1>7, <3>1, <3>2 DEF Values
    <3>3. CASE d # L
      BY <1>3, <1>7, <3>1, <3>3 DEF Values
    <3> QED
      BY <3>2, <3>3
  <2>3. Values(L + 1)' = identifier_values'
    BY <1>7 DEF Values
  <2>4. ASSUME NEW n \in (Variables \union Range(func_strings)) \ scope.assigned
        PROVE  /\ Values(0)'[Ident(lexer, n)] = Meant(n)
               /\ \A d \in 1..(L + 1) : Values(d)'[Ident(lexer, n)] = PHI(loops'[d], Ident(lexer, n))
    <3>1. /\ Values(0)[Ident(lexer, n)] = Meant(n)
          /\ \A d \in 1..L : Values(d)[Ident(lexer, n)] = PHI(loops[d], Ident(lexer, n))
      BY <1>3, <1>5 DEF DeclInv, NamesKept
    <3>2. Ident(lexer, n) \in DOMAIN identifier_values
      BY <1>5 DEF DeclInv, ValuesKept, ScopeKept
    <3>3. Values(0)'[Ident(lexer, n)] = Meant(n)
      BY <2>2, <3>1
    <3>4. \A d \in 1..L : Values(d)'[Ident(lexer, n)] = PHI(loops'[d], Ident(lexer, n))
      BY <1>7, <2>2, <3>1
    <3>5. Values(L + 1)'[Ident(lexer, n)] = PHI(loops'[L + 1], Ident(lexer, n))
      BY <1>7, <1>8, <2>3, <3>2
    <3>6. \A d \in 1..(L + 1) : d \in 1..L \/ d = L + 1
      OBVIOUS
    <3> QED
      BY <3>3, <3>4, <3>5, <3>6
  <2> QED
    BY <1>5, <1>6, <1>7, <2>1, <2>4 DEF NamesKept
<1>16. CallsKept'
  <2>1. ASSUME NEW j \in DOMAIN jsrs
        PROVE  Waits(j)' \/ Jumps(j)' \/ Turns(j)'
    <3>1. Waits(j) \/ Jumps(j) \/ Turns(j)
      BY <2>1 DEF DeclInv, CallsKept
    <3>2. Waits(j) => Waits(j)'
      BY <1>5 DEF Waits
    <3>3. Jumps(j) => Jumps(j)'
      BY <1>5 DEF Jumps
    <3>4. ASSUME Turns(j) PROVE Turns(j)'
      <4>1. PICK d \in DOMAIN loops :
              /\ j >= loops[d].first_jsr /\ jsrs[j].name \in Range(func_strings) \ Variables
              /\ jsrs[j].larg = PHI(loops[d], Ident(lexer, jsrs[j].name))
        BY <3>4 DEF Turns
      <4>2. d \in DOMAIN loops' /\ loops'[d] = loops[d]
        BY <1>1, <1>3, <1>7
      <4> QED
        BY <1>5, <1>6, <4>1, <4>2 DEF Turns
    <3> QED
      BY <3>1, <3>2, <3>3, <3>4
  <2>2. \A c \in DOMAIN incomplete_func_calls :
          LET call == incomplete_func_calls[c]
          IN call.jsr \in DOMAIN jsrs /\ call.name = jsrs[call.jsr].name
    BY DEF DeclInv, CallsKept
  <2> QED
    BY <1>5, <2>1, <2>2 DEF CallsKept
<1> QED
  BY <1>9, <1>10, <1>11, <1>12, <1>13, <1>14, <1>15, <1>16 DEF DeclInv

\* PHIs of different loops or indices are different.
LEMMA PHIsApart ==
  \A l, m, i, k : /\ PHI(l, i) = PHI(m, k) <=> l.id = m.id /\ i = k
                  /\ PHI(l, i)[3] = i
BY DEF PHI

\* What a deleted PHI is replaced by.
Replacing(loop, deleted, in_call) ==
  /\ \A i \in deleted : Replaced(loop, deleted, PHI(loop, i), in_call) = loop.values[i]
  /\ \A v : (\A i \in deleted : v # PHI(loop, i)) => Replaced(loop, deleted, v, in_call) = v

\* What the end of a loop makes of a value.
LEMMA ReplacedIs ==
  ASSUME NEW loop, NEW deleted, NEW in_call
  PROVE  Replacing(loop, deleted, in_call)
<1>1. ASSUME NEW i \in deleted
      PROVE  Replaced(loop, deleted, PHI(loop, i), in_call) = loop.values[i]
  <2>1. \E k \in deleted : PHI(loop, i) = PHI(loop, k)
    OBVIOUS
  <2>2. PHI(loop, i)[3] = i
    BY PHIsApart
  <2> QED
    BY <2>1, <2>2, Zenon DEF Replaced
<1>2. ASSUME NEW v, \A i \in deleted : v # PHI(loop, i)
      PROVE  Replaced(loop, deleted, v, in_call) = v
  BY <1>2, Zenon DEF Replaced
<1> QED
  BY <1>1, <1>2 DEF Replacing

\* The PHIs of functions are deleted, and calls that had them jump, or turn in the
\* loop around this one.
LEMMA WhileEndKept ==
  ASSUME DeclInv, WhileEnd
  PROVE  DeclInv'
<1>1. /\ IsList(loops) /\ Len(loops) \in Nat /\ DOMAIN loops = 1..Len(loops) /\ loops # <<>>
      /\ Jsrs(jsrs) /\ Len(jsrs) \in Nat /\ DOMAIN jsrs = 1..Len(jsrs) /\ statements \in Nat
  BY JsrFields, ListFields DEF DeclInv, ListsKept, WhileEnd
<1>2. PICK L \in Nat \ {0} : L = Len(loops)
  BY <1>1, ListFront
<1>3. PICK loop : loop = loops[L]
  OBVIOUS
<1>4. PICK deleted : deleted = {i \in DOMAIN identifier_values : identifier_values[i] = PHI(loop, i)}
  OBVIOUS
<1>5. Last(loops) = loop
  BY <1>1, <1>2, <1>3, ListFront
<1>6. /\ identifier_values' =
           [i \in DOMAIN identifier_values |-> Replaced(loop, deleted, PHI(loop, i), FALSE)]
      /\ jsrs' = [j \in DOMAIN jsrs |->
           IF j < loop.first_jsr THEN jsrs[j]
           ELSE [jsrs[j] EXCEPT !.larg = Replaced(loop, deleted, @, TRUE)]]
      /\ loops' = Front(loops)
  BY <1>4, <1>5, Zenon DEF WhileEnd
<1>7. /\ Parsing /\ Parsing' /\ place' = place
      /\ UNCHANGED <<func_strings, func_first_instructs, func_map, saved_identifier_strings>>
      /\ UNCHANGED <<lexer, incomplete_func_calls, scope, statements>>
  BY DEF WhileEnd, Parsing, parsing
<1>8. Variables' = Variables
  BY <1>7 DEF Variables
<1>9. /\ IsList(loops') /\ Len(loops') = L - 1 /\ DOMAIN loops' = 1..(L - 1)
      /\ \A d \in 1..(L - 1) : loops'[d] = loops[d]
  <2>1. /\ IsList(loops') /\ Len(loops') = L - 1
        /\ \A d \in 1..Len(loops') : loops'[d] = loops[d]
    BY <1>1, <1>2, <1>6, ListFront
  <2> QED
    BY <2>1, ListFields
<1>10. /\ DOMAIN identifier_values' = DOMAIN identifier_values
       /\ \A i \in deleted : identifier_values'[i] = loop.values[i]
  <2>1. \A i \in deleted : i \in DOMAIN identifier_values
    BY <1>4
  <2>2. \A i \in deleted : identifier_values'[i] = Replaced(loop, deleted, PHI(loop, i), FALSE)
    BY <1>6, <2>1
  <2>3. \A i \in deleted : Replaced(loop, deleted, PHI(loop, i), FALSE) = loop.values[i]
    <3>1. Replacing(loop, deleted, FALSE)
      BY ReplacedIs, Zenon
    <3> QED
      BY <3>1, Zenon DEF Replacing
  <2> QED
    BY <1>6, <2>2, <2>3
\* The jsrs keep their names, and those before the loop their arguments.
<1>11. ASSUME NEW j \in DOMAIN jsrs
       PROVE  /\ jsrs'[j].name = jsrs[j].name /\ jsrs[j].name \in Name
              /\ jsrs'[j] = [name |-> jsrs'[j].name, larg |-> jsrs'[j].larg]
              /\ j < loop.first_jsr => jsrs'[j].larg = jsrs[j].larg
              /\ ~(j < loop.first_jsr) =>
                   jsrs'[j].larg = Replaced(loop, deleted, jsrs[j].larg, TRUE)
  <2>1. jsrs[j].name \in Name /\ jsrs[j] = [name |-> jsrs[j].name, larg |-> jsrs[j].larg]
    BY <1>1, JsrFields
  <2>2. PICK w : w = Replaced(loop, deleted, jsrs[j].larg, TRUE)
    OBVIOUS
  <2>3. jsrs'[j] = IF j < loop.first_jsr THEN jsrs[j] ELSE [jsrs[j] EXCEPT !.larg = w]
    BY <1>6, <2>2, Zenon
  <2> QED
    BY <2>1, <2>2, <2>3
<1>12. DOMAIN jsrs' = DOMAIN jsrs /\ Len(jsrs') = Len(jsrs) /\ Jsrs(jsrs')
  <2>1. DOMAIN jsrs' = 1..Len(jsrs) /\ jsrs' = [j \in 1..Len(jsrs) |-> jsrs'[j]]
    BY <1>1, <1>6
  <2> QED
    BY <1>1, <1>11, <2>1, JsrsOf
<1>13. FunctionsKept'
  <2>1. Finished' = Finished
    BY <1>7 DEF Finished
  <2> QED
    BY <1>7, <2>1 DEF DeclInv, FunctionsKept
<1>14. LexerKept'
  BY <1>7 DEF DeclInv, LexerKept
<1>15. ListsKept'
  BY <1>7, <1>9, <1>12 DEF DeclInv, ListsKept
<1>16. ScopeKept'
  BY <1>7, <1>8 DEF DeclInv, ScopeKept
<1>17. ValuesKept'
  BY <1>7, <1>8, <1>10 DEF DeclInv, ValuesKept
<1>18. LoopsKept'
  <2>1. \A d \in 1..(L - 1) : d \in 1..L
    BY <1>2
  <2>2. /\ \A d \in 1..L :
             /\ loops[d].id \in Nat /\ loops[d].id < statements
             /\ DOMAIN loops[d].values = DOMAIN identifier_values
             /\ loops[d].first_jsr \in 1..(Len(jsrs) + 1)
        /\ \A d, e \in 1..L :
             d < e => loops[d].id < loops[e].id /\ loops[d].first_jsr <= loops[e].first_jsr
    BY <1>1, <1>2 DEF DeclInv, LoopsKept
  <2> QED
    BY <1>7, <1>9, <1>10, <1>12, <2>1, <2>2 DEF LoopsKept
<1>19. ASSUME NEW d \in 0..(L - 1), NEW n \in (Variables \union Range(func_strings)) \ scope.assigned
       PROVE  Values(d)'[Ident(lexer, n)] = Values(d)[Ident(lexer, n)]
  <2>1. d # L /\ d + 1 \in 1..L /\ (d # L - 1 => d + 1 \in 1..(L - 1)) /\ L \in 1..L
    BY <1>2
  <2>2. Values(d) = loops[d + 1].values
    BY <1>2, <2>1 DEF Values
  <2>3. CASE d = L - 1
    <3>1. Values(L)[Ident(lexer, n)] = PHI(loops[L], Ident(lexer, n))
      BY <1>2, <1>7, <2>1 DEF DeclInv, NamesKept
    <3>2. Ident(lexer, n) \in DOMAIN identifier_values
      BY <1>7 DEF DeclInv, ValuesKept, ScopeKept
    <3>3. Ident(lexer, n) \in deleted
      BY <1>2, <1>3, <1>4, <3>1, <3>2 DEF Values
    <3>4. identifier_values'[Ident(lexer, n)] = loop.values[Ident(lexer, n)]
      BY <1>10, <3>3
    <3>5. Values(d)' = identifier_values' /\ d + 1 = L
      BY <1>2, <1>9, <2>3 DEF Values
    <3> QED
      BY <1>3, <2>2, <3>4, <3>5
  <2>4. CASE d # L - 1
    <3>1. Values(d)' = loops'[d + 1].values /\ loops'[d + 1] = loops[d + 1]
      BY <1>9, <2>1, <2>4 DEF Values
    <3> QED
      BY <2>2, <3>1
  <2> QED
    BY <2>3, <2>4
<1>20. ASSUME NEW n \in (Variables \union Range(func_strings)) \ scope.assigned
       PROVE  /\ Values(0)[Ident(lexer, n)] = Meant(n)
              /\ \A d \in 1..L : Values(d)[Ident(lexer, n)] = PHI(loops[d], Ident(lexer, n))
              /\ Ident(lexer, n) \in deleted
  <2>1. /\ Values(0)[Ident(lexer, n)] = Meant(n)
        /\ \A d \in 1..L : Values(d)[Ident(lexer, n)] = PHI(loops[d], Ident(lexer, n))
    BY <1>2, <1>7 DEF DeclInv, NamesKept
  <2>2. Ident(lexer, n) \in DOMAIN identifier_values
    BY <1>7 DEF DeclInv, ValuesKept, ScopeKept
  <2>3. Values(L) = identifier_values /\ L \in 1..L
    BY <1>2 DEF Values
  <2> QED
    BY <1>3, <1>4, <2>1, <2>2, <2>3
<1>21. NamesKept'
  <2>1. \A n : Meant(n)' = Meant(n)
    BY <1>7, MeantHere, Zenon
  <2>2. 0 \in 0..(L - 1) /\ \A d \in 1..(L - 1) : d \in 0..(L - 1) /\ d \in 1..L
    BY <1>2
  <2>3. ASSUME NEW n \in (Variables \union Range(func_strings)) \ scope.assigned
        PROVE  /\ Values(0)'[Ident(lexer, n)] = Meant(n)
               /\ \A d \in 1..(L - 1) : Values(d)'[Ident(lexer, n)] = PHI(loops'[d], Ident(lexer, n))
    BY <1>9, <1>19, <1>20, <2>2
  <2> QED
    BY <1>7, <1>8, <1>9, <2>1, <2>3 DEF NamesKept
<1>22. CallsKept'
  <2>1. ASSUME NEW j \in DOMAIN jsrs
        PROVE  Waits(j)' \/ Jumps(j)' \/ Turns(j)'
    <3>1. Waits(j) \/ Jumps(j) \/ Turns(j)
      BY <2>1 DEF DeclInv, CallsKept
    <3>2. ASSUME \A i \in deleted : jsrs[j].larg # PHI(loop, i)
          PROVE  jsrs'[j].larg = jsrs[j].larg
      <4>1. Replaced(loop, deleted, jsrs[j].larg, TRUE) = jsrs[j].larg
        <5>1. Replacing(loop, deleted, TRUE)
          BY ReplacedIs, Zenon
        <5> QED
          BY <3>2, <5>1, Zenon DEF Replacing
      <4> QED
        BY <1>11, <4>1
    <3>3. CASE Waits(j)
      <4>1. \A i \in deleted : jsrs[j].larg # PHI(loop, i)
        BY <3>3, TermsApart DEF Waits, PHI
      <4> QED
        BY <1>7, <1>11, <3>2, <3>3, <4>1 DEF Waits
    <3>4. CASE Jumps(j)
      <4>1. \A i \in deleted : jsrs[j].larg # PHI(loop, i)
        BY <3>4, TermsApart DEF Jumps, PHI
      <4> QED
        BY <1>7, <1>11, <3>2, <3>4, <4>1 DEF Jumps
    <3>5. CASE Turns(j)
      <4>1. PICK d \in 1..L :
              /\ j >= loops[d].first_jsr /\ jsrs[j].name \in Range(func_strings) \ Variables
              /\ jsrs[j].larg = PHI(loops[d], Ident(lexer, jsrs[j].name))
        BY <1>1, <1>2, <3>5 DEF Turns
      <4>2. PICK f : f = jsrs[j].name
        OBVIOUS
      <4>3. f \in (Variables \union Range(func_strings)) \ scope.assigned /\ f \notin Variables
        BY <1>7, <4>1, <4>2 DEF DeclInv, ScopeKept
      <4>4. CASE d # L
        <5>1. loops[d].id # loop.id
          <6>1. d < L /\ L \in 1..L
            BY <1>2, <4>4
          <6>2. loops[d].id < loops[L].id /\ loops[d].id \in Nat /\ loops[L].id \in Nat
            BY <1>1, <1>2, <6>1 DEF DeclInv, LoopsKept
          <6> QED
            BY <1>3, <6>2
        <5>2. \A i \in deleted : jsrs[j].larg # PHI(loop, i)
          BY <4>1, <5>1, PHIsApart
        <5>3. jsrs'[j].larg = jsrs[j].larg /\ jsrs'[j].name = jsrs[j].name
          BY <1>11, <3>2, <5>2
        <5>4. d \in DOMAIN loops' /\ loops'[d] = loops[d]
          BY <1>2, <1>9, <4>4
        <5> QED
          BY <1>7, <1>8, <4>1, <5>3, <5>4 DEF Turns
      <4>5. CASE d = L
        <5>1. ~(j < loop.first_jsr)
          <6>1. L \in DOMAIN loops
            BY <1>1, <1>2
          <6>2. loop.first_jsr \in 1..(Len(jsrs) + 1)
            BY <1>3, <6>1 DEF DeclInv, LoopsKept
          <6> QED
            BY <1>1, <1>3, <4>1, <4>5, <6>2
        <5>2. jsrs[j].larg = PHI(loop, Ident(lexer, f)) /\ Ident(lexer, f) \in deleted
          BY <1>3, <1>20, <4>1, <4>2, <4>3, <4>5
        <5>3. jsrs'[j].larg = loop.values[Ident(lexer, f)] /\ jsrs'[j].name = f
          <6>1. Replacing(loop, deleted, TRUE)
            BY ReplacedIs, Zenon
          <6>2. Replaced(loop, deleted, PHI(loop, Ident(lexer, f)), TRUE) = loop.values[Ident(lexer, f)]
            BY <5>2, <6>1, Zenon DEF Replacing
          <6>3. jsrs'[j].larg = Replaced(loop, deleted, jsrs[j].larg, TRUE) /\ jsrs'[j].name = jsrs[j].name
            BY <1>11, <5>1
          <6> QED
            BY <4>2, <5>2, <6>2, <6>3, Zenon
        <5>4. loop.values = Values(L - 1)
          BY <1>2, <1>3 DEF Values
        <5>5. CASE L = 1
          <6>1. jsrs'[j].larg = Meant(f)
            BY <1>20, <4>3, <5>3, <5>4, <5>5
          <6>2. PICK k \in DOMAIN func_strings : func_strings[k] = f
            BY <4>1, <4>2 DEF Range
          <6>3. Meanings(func_strings, scope.params, scope.variables)
            BY <1>7, MeantCases DEF DeclInv, ScopeKept, FunctionsKept
          <6>4. func_strings[k] \notin Range(scope.params) \union scope.variables
            BY <4>3, <6>2 DEF Variables
          <6>5. MeantOf(func_strings, scope.params, scope.variables, f) = <<"entry", k>>
            BY <6>2, <6>3, <6>4, Zenon DEF Meanings
          <6>6. jsrs'[j].larg = <<"entry", k>>
            BY <6>1, <6>5, MeantHere
          <6> QED
            BY <1>7, <5>3, <6>2, <6>6 DEF Jumps
        <5>6. CASE L # 1
          <6>1. L - 1 \in 1..L /\ L - 1 \in 1..(L - 1) /\ L - 1 < L /\ L \in 1..L
            BY <1>2, <5>6
          <6>2. jsrs'[j].larg = PHI(loops[L - 1], Ident(lexer, f))
            BY <1>20, <4>3, <5>3, <5>4, <6>1
          <6>3. j >= loops[L - 1].first_jsr
            <7>1. /\ loops[L - 1].first_jsr <= loops[L].first_jsr
                  /\ loops[L - 1].first_jsr \in 1..(Len(jsrs) + 1)
                  /\ loops[L].first_jsr \in 1..(Len(jsrs) + 1)
              BY <1>1, <1>2, <6>1 DEF DeclInv, LoopsKept
            <7> QED
              BY <1>1, <4>1, <4>5, <7>1
          <6>4. L - 1 \in DOMAIN loops' /\ loops'[L - 1] = loops[L - 1]
            BY <1>9, <6>1
          <6> QED
            BY <1>7, <1>8, <4>1, <4>2, <5>3, <6>2, <6>3, <6>4 DEF Turns
        <5> QED
          BY <5>5, <5>6
      <4> QED
        BY <4>4, <4>5
    <3> QED
      BY <3>1, <3>3, <3>4, <3>5
  <2>2. ASSUME NEW c \in DOMAIN incomplete_func_calls
        PROVE  LET call == incomplete_func_calls[c]
               IN call.jsr \in DOMAIN jsrs /\ call.name = jsrs'[call.jsr].name
    BY <1>11 DEF DeclInv, CallsKept
  <2> QED
    BY <1>7, <1>12, <2>1, <2>2 DEF CallsKept
<1> QED
  BY <1>13, <1>14, <1>15, <1>16, <1>17, <1>18, <1>21, <1>22 DEF DeclInv

-----------------------------------------------------------------------------
(* The end of a function, and main.                                        *)

\* The function is finished: its entry is known to all that follow.
LEMMA FunctionEndKept ==
  ASSUME DeclInv, FunctionEnd
  PROVE  DeclInv'
<1>1. PICK n : n = Len(func_strings)
  OBVIOUS
<1>2. /\ place = "function" /\ place' = "between" /\ loops = <<>>
      /\ func_first_instructs' = Append(func_first_instructs, <<"entry", n>>)
      /\ func_map' = [m \in DOMAIN func_map \union {Last(func_strings)} |->
                        IF m = Last(func_strings) THEN <<"entry", n>> ELSE func_map[m]]
      /\ UNCHANGED <<lexer, func_strings, saved_identifier_strings>>
      /\ UNCHANGED <<loops, jsrs, incomplete_func_calls, statements>>
  BY <1>1 DEF FunctionEnd, BodyEnds, body
<1>3. /\ func_strings \in Seq(Name) /\ IsInjective(func_strings) /\ n - 1 \in Nat /\ n \in Nat
      /\ DOMAIN func_strings = 1..n
      /\ func_first_instructs = EntriesOf(n - 1)
      /\ DOMAIN func_map = {func_strings[i] : i \in 1..(n - 1)}
      /\ \A i \in 1..(n - 1) : func_map[func_strings[i]] = <<"entry", i>>
  BY <1>1, <1>2 DEF DeclInv, FunctionsKept, Finished, EntriesOf
<1>4. Finished' = n
  BY <1>1, <1>2 DEF Finished
<1>5. func_first_instructs' = EntriesOf(n)
  <2>1. n - 1 + 1 = n
    BY <1>3
  <2> QED
    BY <1>2, <1>3, <2>1, EntryAppended
<1>6. Last(func_strings) = func_strings[n]
  BY <1>1 DEF Last
<1>7. \A i \in 1..n : i \in 1..(n - 1) \/ i = n
  BY <1>3
<1>8. DOMAIN func_map' = {func_strings[i] : i \in 1..n}
  <2>1. DOMAIN func_map' = {func_strings[i] : i \in 1..(n - 1)} \union {func_strings[n]}
    BY <1>2, <1>3, <1>6
  <2>2. n \in 1..n /\ \A i \in 1..(n - 1) : i \in 1..n
    BY <1>3
  <2> QED
    BY <1>7, <2>1, <2>2
<1>9. ASSUME NEW i \in 1..n
      PROVE  func_map'[func_strings[i]] = <<"entry", i>>
  <2>1. CASE i = n
    BY <1>2, <1>6, <2>1
  <2>2. CASE i # n
    <3>1. i \in 1..(n - 1) /\ n \in 1..n
      BY <1>3, <1>7, <2>2
    <3>2. func_strings[i] # func_strings[n]
      BY <1>3, <2>2, <3>1 DEF IsInjective
    <3>3. func_strings[i] \in DOMAIN func_map
      BY <1>3, <3>1
    <3> QED
      BY <1>2, <1>3, <1>6, <3>1, <3>2, <3>3
  <2> QED
    BY <2>1, <2>2
<1>10. FunctionsKept'
  BY <1>2, <1>3, <1>4, <1>5, <1>8, <1>9 DEF FunctionsKept, EntriesOf
<1>11. LexerKept'
  BY <1>2 DEF DeclInv, LexerKept
<1>12. ~Parsing'
  BY <1>2 DEF Parsing
<1>13. ListsKept'
  BY <1>2, <1>12 DEF DeclInv, ListsKept
<1>14. ScopeKept' /\ ValuesKept' /\ NamesKept' /\ LoopsKept' /\ CallsKept'
  BY <1>2, <1>12, OutsideKept
<1> QED
  BY <1>10, <1>11, <1>13, <1>14 DEF DeclInv

\* The program ends with no loop open, so no call turns any more.
LEMMA MainEndKept ==
  ASSUME DeclInv, MainEnd
  PROVE  DeclInv'
<1>1. /\ place = "main" /\ place' = "done" /\ loops = <<>>
      /\ UNCHANGED <<lexer, func_strings, func_first_instructs, func_map, saved_identifier_strings>>
      /\ UNCHANGED <<loops, jsrs, incomplete_func_calls, statements>>
  BY DEF MainEnd, BodyEnds, parsing, body
<1>2. ~Parsing'
  BY <1>1 DEF Parsing
<1>3. FunctionsKept'
  <2>1. Finished' = Finished
    BY <1>1 DEF Finished
  <2> QED
    BY <1>1, <2>1 DEF DeclInv, FunctionsKept
<1>4. LexerKept'
  BY <1>1 DEF DeclInv, LexerKept
<1>5. ListsKept'
  BY <1>1, <1>2 DEF DeclInv, ListsKept
<1>6. ScopeKept' /\ ValuesKept' /\ NamesKept' /\ LoopsKept' /\ CallsKept'
  BY <1>1, <1>2, OutsideKept
<1> QED
  BY <1>3, <1>4, <1>5, <1>6 DEF DeclInv

LEMMA StutterKept == DeclInv /\ UNCHANGED names_vars => DeclInv'
<1> SUFFICES ASSUME DeclInv, UNCHANGED names_vars
             PROVE  DeclInv'
  OBVIOUS
<1>1. /\ UNCHANGED <<lexer, place, func_strings, func_first_instructs, func_map>>
      /\ UNCHANGED <<saved_identifier_strings, identifier_values, loops, jsrs>>
      /\ UNCHANGED <<incomplete_func_calls, scope, statements>>
  BY DEF names_vars, parsing, body
<1>2. Finished' = Finished /\ Parsing' = Parsing /\ Variables' = Variables
  BY <1>1 DEF Finished, Parsing, Variables
<1>3. FunctionsKept' /\ LexerKept' /\ ListsKept'
  BY <1>1, <1>2 DEF DeclInv, FunctionsKept, LexerKept, ListsKept
<1>4. ScopeKept' /\ ValuesKept' /\ LoopsKept'
  BY <1>1, <1>2 DEF DeclInv, ScopeKept, ValuesKept, LoopsKept
<1>5. NamesKept'
  <2>1. \A n : Meant(n)' = Meant(n)
    BY <1>1, MeantHere, Zenon
  <2>2. \A d : Values(d)' = Values(d)
    BY <1>1 DEF Values
  <2> QED
    BY <1>1, <1>2, <2>1, <2>2 DEF DeclInv, NamesKept
<1>6. CallsKept'
  <2>1. \A j : (Waits(j) => Waits(j)') /\ (Jumps(j) => Jumps(j)') /\ (Turns(j) => Turns(j)')
    BY <1>1, <1>2 DEF Waits, Jumps, Turns
  <2> QED
    BY <1>1, <2>1 DEF DeclInv, CallsKept
<1> QED
  BY <1>3, <1>4, <1>5, <1>6 DEF DeclInv

\* The jsrs after the first k notes.
FixedTo(k, js) ==
  /\ DOMAIN js = DOMAIN jsrs /\ js = [j \in DOMAIN jsrs |-> js[j]]
  /\ \A j \in DOMAIN jsrs :
       /\ js[j].name = jsrs[j].name /\ js[j] = [name |-> js[j].name, larg |-> js[j].larg]
       /\ \/ js[j].larg = jsrs[j].larg /\ \A c \in 1..k : incomplete_func_calls[c].jsr # j
          \/ js[j].larg = jsrs[j].larg /\ jsrs[j].name \notin DOMAIN func_map
          \/ jsrs[j].name \in DOMAIN func_map /\ js[j].larg = func_map[jsrs[j].name]

\* fix_func_call of one note.
LEMMA FixOne ==
  ASSUME NEW n, DOMAIN jsrs = 1..n,
         NEW k \in 1..Len(incomplete_func_calls),
         LET call == incomplete_func_calls[k]
         IN call.jsr \in DOMAIN jsrs /\ call.name = jsrs[call.jsr].name,
         NEW js, FixedTo(k - 1, js)
  PROVE  FixedTo(k, fix_func_call(js, incomplete_func_calls[k]))
<1> DEFINE call == incomplete_func_calls[k]
           ks == fix_func_call(js, call)
<1>1. \A c \in 1..k : c \in 1..(k - 1) \/ c = k
  OBVIOUS
<1>2. CASE call.name \notin DOMAIN func_map
  <2>1. ks = js
    BY <1>2 DEF fix_func_call
  <2> HIDE DEF ks
  <2>2. ASSUME NEW j \in DOMAIN jsrs
        PROVE  /\ js[j].name = jsrs[j].name /\ js[j] = [name |-> js[j].name, larg |-> js[j].larg]
               /\ \/ js[j].larg = jsrs[j].larg /\ \A c \in 1..k : incomplete_func_calls[c].jsr # j
                  \/ js[j].larg = jsrs[j].larg /\ jsrs[j].name \notin DOMAIN func_map
                  \/ jsrs[j].name \in DOMAIN func_map /\ js[j].larg = func_map[jsrs[j].name]
    <3>1. CASE call.jsr = j
      <4>1. jsrs[j].name \notin DOMAIN func_map
        BY <1>2, <3>1
      <4> QED
        BY <4>1 DEF FixedTo
    <3>2. CASE call.jsr # j
      BY <1>1, <3>2 DEF FixedTo
    <3> QED
      BY <3>1, <3>2
  <2>3. FixedTo(k, js)
    BY <2>2 DEF FixedTo
  <2> QED
    BY <2>1, <2>3 DEF ks
<1>3. CASE call.name \in DOMAIN func_map
  <2>1. ks = [js EXCEPT ![call.jsr].larg = func_map[call.name]]
    BY <1>3 DEF fix_func_call
  <2>2. PICK i : i = call.jsr
    OBVIOUS
  <2>3. PICK w : w = func_map[call.name]
    OBVIOUS
  <2>4. i \in DOMAIN jsrs /\ call.name = jsrs[i].name /\ DOMAIN js = DOMAIN jsrs
    BY <2>2 DEF FixedTo
  <2>5. ks = [js EXCEPT ![i] = [js[i] EXCEPT !.larg = w]]
    BY <2>1, <2>2, <2>3
  <2> HIDE DEF ks, call
  <2>6. DOMAIN ks = DOMAIN jsrs /\ ks[i] = [js[i] EXCEPT !.larg = w]
        /\ \A j \in DOMAIN jsrs : j # i => ks[j] = js[j]
    BY <2>4, <2>5
  <2>11. ks = [j \in DOMAIN jsrs |-> ks[j]]
    BY <2>4, <2>5
  <2>7. js[i] = [name |-> js[i].name, larg |-> js[i].larg] /\ js[i].name = jsrs[i].name
    BY <2>4 DEF FixedTo
  <2>8. ks[i].name = jsrs[i].name /\ ks[i].larg = w /\ ks[i] = [name |-> ks[i].name, larg |-> ks[i].larg]
    BY <2>6, <2>7
  <2>9. ASSUME NEW j \in DOMAIN jsrs
        PROVE  /\ ks[j].name = jsrs[j].name /\ ks[j] = [name |-> ks[j].name, larg |-> ks[j].larg]
               /\ \/ ks[j].larg = jsrs[j].larg /\ \A c \in 1..k : incomplete_func_calls[c].jsr # j
                  \/ ks[j].larg = jsrs[j].larg /\ jsrs[j].name \notin DOMAIN func_map
                  \/ jsrs[j].name \in DOMAIN func_map /\ ks[j].larg = func_map[jsrs[j].name]
    <3>1. CASE j = i
      BY <1>3, <2>3, <2>4, <2>8, <3>1
    <3>2. CASE j # i
      <4>1. ks[j] = js[j] /\ incomplete_func_calls[k].jsr # j
        BY <2>2, <2>6, <3>2 DEF call
      <4> QED
        BY <1>1, <4>1 DEF FixedTo
    <3> QED
      BY <3>1, <3>2
  <2>10. FixedTo(k, ks)
    BY <2>6, <2>9, <2>11 DEF FixedTo
  <2> QED
    BY <2>10 DEF ks, call
<1> QED
  BY <1>2, <1>3

\* After all notes, a call that was noted jumps to its function.
LEMMA AllFixed ==
  ASSUME DeclInv
  PROVE  FixedTo(Len(incomplete_func_calls), FoldLeft(fix_func_call, jsrs, incomplete_func_calls))
<1> DEFINE n == Len(jsrs)
           m == Len(incomplete_func_calls)
           V == {jsrs[j].larg : j \in 1..n} \union {func_map[f] : f \in DOMAIN func_map}
           R == [name : Name, larg : V]
           A == [1..n -> R]
           E == [jsr : 1..n, name : Name]
<1>1. /\ Jsrs(jsrs) /\ n \in Nat /\ DOMAIN jsrs = 1..n /\ IsList(jsrs)
      /\ \A j \in 1..n : jsrs[j].name \in Name /\ jsrs[j] = [name |-> jsrs[j].name, larg |-> jsrs[j].larg]
  BY JsrFields DEF DeclInv, ListsKept
<1>2. \A c \in DOMAIN incomplete_func_calls :
        LET call == incomplete_func_calls[c]
        IN call.jsr \in DOMAIN jsrs /\ call.name = jsrs[call.jsr].name
  BY DEF DeclInv, CallsKept
<1>3. /\ m \in Nat /\ DOMAIN incomplete_func_calls = 1..m
      /\ \A c \in 1..m : incomplete_func_calls[c] \in [jsr : Nat, name : Name]
  <2>1. incomplete_func_calls \in Seq([jsr : Nat, name : Name])
    BY DEF DeclInv, ListsKept
  <2> QED
    BY <2>1, Elements, Zenon
<1>4. jsrs \in A
  <2>1. ASSUME NEW j \in 1..n PROVE jsrs[j] \in R
    <3>1. [name |-> jsrs[j].name, larg |-> jsrs[j].larg] \in R
      BY <1>1
    <3> HIDE DEF R
    <3> QED
      BY <1>1, <3>1
  <2>2. jsrs = [j \in 1..n |-> jsrs[j]]
    BY <1>1 DEF IsList
  <2> HIDE DEF R, n
  <2> QED
    BY <2>1, <2>2
<1>5. incomplete_func_calls \in Seq(E)
  <2>1. ASSUME NEW c \in 1..m PROVE incomplete_func_calls[c] \in E
    BY <1>1, <1>2, <1>3
  <2>2. incomplete_func_calls = [c \in 1..m |-> incomplete_func_calls[c]]
    BY <1>3 DEF DeclInv, ListsKept
  <2> HIDE DEF E, m
  <2>3. incomplete_func_calls \in [1..m -> E]
    BY <2>1, <2>2
  <2> QED
    BY <1>3, <2>3
<1>6. ASSUME NEW a \in A, NEW e \in E
      PROVE  fix_func_call(a, e) \in A
  <2>1. CASE e.name \notin DOMAIN func_map
    <3> HIDE DEF A
    <3> QED
      BY <1>6, <2>1 DEF fix_func_call
  <2>2. CASE e.name \in DOMAIN func_map
    <3>1. func_map[e.name] \in V /\ e.jsr \in 1..n
      BY <2>2
    <3>2. PICK w : w = func_map[e.name]
      OBVIOUS
    <3>3. PICK i : i = e.jsr
      OBVIOUS
    <3>4. fix_func_call(a, e) = [a EXCEPT ![i] = [a[i] EXCEPT !.larg = w]]
      BY <2>2, <3>2, <3>3 DEF fix_func_call
    <3>5. a[i] \in R
      BY <3>1, <3>3
    <3>6. [a[i] EXCEPT !.larg = w] \in R
      <4> HIDE DEF V
      <4> QED
        BY <3>1, <3>2, <3>5
    <3> HIDE DEF R, V
    <3> QED
      BY <3>4, <3>6
  <2> QED
    BY <2>1, <2>2
<1> HIDE DEF A, E
<1>7. PICK h : FixSteps(h, jsrs, incomplete_func_calls)
  BY <1>4, <1>5, <1>6, FixFold
<1>8. /\ h[{}] = jsrs
      /\ \A i \in 1..m : h[1..i] = fix_func_call(h[1..(i - 1)], incomplete_func_calls[i])
      /\ FoldLeft(fix_func_call, jsrs, incomplete_func_calls) = h[1..m]
  BY <1>7 DEF FixSteps
<1> DEFINE S == {k \in 0..m : FixedTo(k, h[1..k])}
<1>9. 0 \in S
  <2>1. 1..0 = {} /\ 0 \in 0..m
    BY <1>3
  <2>2. jsrs = [j \in DOMAIN jsrs |-> jsrs[j]]
    BY <1>1 DEF IsList
  <2>3. FixedTo(0, jsrs)
    BY <1>1, <2>1, <2>2 DEF FixedTo
  <2> QED
    BY <1>8, <2>1, <2>3
<1>10. ASSUME NEW k \in 1..m, k - 1 \in S
       PROVE  k \in S
  <2>1. FixedTo(k - 1, h[1..(k - 1)])
    BY <1>10
  <2>2. FixedTo(k, h[1..k])
    BY <1>1, <1>2, <1>3, <1>8, <2>1, FixOne
  <2>3. k \in 0..m
    BY <1>3
  <2> QED
    BY <2>2, <2>3
<1>11. m \in S
  <2> HIDE DEF S, m
  <2>1. m \in 0..m
    BY <1>3
  <2> QED
    BY <1>3, <1>9, <1>10, <2>1, UpTo
<1> QED
  BY <1>8, <1>11

\* The calls that waited are fixed, and the scope of main is set up.
LEMMA EstablishMainKept ==
  ASSUME DeclInv, EstablishMain
  PROVE  DeclInv'
<1>1. /\ place = "between" /\ place' = "main"
      /\ UNCHANGED <<func_strings, func_first_instructs, func_map, saved_identifier_strings>>
      /\ UNCHANGED <<loops, incomplete_func_calls, statements>>
  BY DEF EstablishMain, parsing
<1>2. /\ jsrs' = FoldLeft(fix_func_call, jsrs, incomplete_func_calls)
      /\ lexer' = insert_ident(insert_ident(wipe(lexer), func_strings), saved_identifier_strings)
      /\ identifier_values' = Entries(Zeros(lexer'), func_first_instructs)
      /\ scope' = [params |-> <<>>, variables |-> Range(saved_identifier_strings), assigned |-> {}]
  BY DEF EstablishMain
<1>3. Parsing' /\ ~Parsing /\ loops = <<>> /\ DOMAIN loops = {} /\ Len(loops) = 0
  BY <1>1 DEF Parsing, DeclInv, ListsKept
<1>4. /\ func_strings \in Seq(Name) /\ IsInjective(func_strings) /\ Len(func_strings) \in Nat
      /\ DOMAIN func_strings = 1..Len(func_strings)
      /\ func_first_instructs = EntriesOf(Len(func_strings))
      /\ DOMAIN func_map = {func_strings[i] : i \in 1..Len(func_strings)}
      /\ \A i \in 1..Len(func_strings) : func_map[func_strings[i]] = <<"entry", i>>
  BY <1>1 DEF DeclInv, FunctionsKept, Finished, EntriesOf
<1>5. PICK V : V = Range(saved_identifier_strings)
  OBVIOUS
<1>6. Filled(lexer', func_strings, {}, V)
  <2>1. PICK S : saved_identifier_strings \in Seq(S)
    BY DEF DeclInv, ListsKept, IsList
  <2>2. Numbered(lexer) /\ lexer.func_count = Len(func_strings)
    BY DEF DeclInv, LexerKept
  <2> QED
    BY <1>2, <1>4, <1>5, <2>1, <2>2, MainFilled
<1>7. /\ scope'.params = <<>> /\ Range(<<>>) = {} /\ scope'.variables = V /\ scope'.assigned = {}
      /\ Variables' = V /\ IsInjective(<<>>) /\ <<>> \in Seq(Name)
      /\ scope' = [params |-> <<>>, variables |-> V, assigned |-> {}]
  <2>1. Range(<<>>) = {} /\ IsInjective(<<>>) /\ <<>> \in Seq(Name)
    BY DEF Range, IsInjective
  <2>2. /\ scope'.params = <<>> /\ scope'.variables = V /\ scope'.assigned = {}
        /\ scope' = [params |-> <<>>, variables |-> V, assigned |-> {}]
    BY <1>2, <1>5
  <2>3. Variables' = V
    BY <2>1, <2>2 DEF Variables
  <2> QED
    BY <2>1, <2>2, <2>3
<1>8. /\ DOMAIN identifier_values' = 0..(lexer'.ident_index - 1)
      /\ \A n \in Known(lexer') : Ident(lexer', n) \in DOMAIN identifier_values'
      /\ \A n \in V : identifier_values'[Ident(lexer', n)] = Zero
      /\ \A k \in DOMAIN func_strings :
           func_strings[k] \notin V =>
             identifier_values'[Ident(lexer', func_strings[k])] = <<"entry", k>>
  <2> DEFINE D == 0..(lexer'.ident_index - 1)
             v == Entries(Zeros(lexer'), EntriesOf(Len(func_strings)))
  <2>1. identifier_values' = v
    BY <1>2, <1>4
  <2>2. /\ v \in [D -> {v[i] : i \in D}]
        /\ \A n \in Known(lexer') : Ident(lexer', n) \in D
        /\ \A n \in V : v[Ident(lexer', n)] = Zero
        /\ \A k \in DOMAIN func_strings :
             func_strings[k] \notin V => v[Ident(lexer', func_strings[k])] = <<"entry", k>>
    BY <1>4, <1>6, EntryValues
  <2> HIDE DEF v
  <2>3. DOMAIN v = D
    BY <2>2
  <2> QED
    BY <2>1, <2>2, <2>3
<1>9. FunctionsKept'
  <2>1. Finished' = Finished
    BY <1>1 DEF Finished
  <2> QED
    BY <1>1, <2>1 DEF DeclInv, FunctionsKept
<1>10. LexerKept'
  BY <1>1, <1>6 DEF LexerKept, Filled
<1>11. FixedTo(Len(incomplete_func_calls), jsrs')
  BY <1>2, AllFixed
<1>12. Len(jsrs) \in Nat /\ DOMAIN jsrs = 1..Len(jsrs) /\ \A j \in DOMAIN jsrs : jsrs[j].name \in Name
  BY JsrFields DEF DeclInv, ListsKept
<1>13. Jsrs(jsrs') /\ DOMAIN jsrs' = DOMAIN jsrs
  <2>1. DOMAIN jsrs' = 1..Len(jsrs)
    BY <1>11, <1>12 DEF FixedTo
  <2>2. \A j \in 1..Len(jsrs) :
          /\ jsrs'[j].name \in Name
          /\ jsrs'[j] = [name |-> jsrs'[j].name, larg |-> jsrs'[j].larg]
    BY <1>11, <1>12 DEF FixedTo
  <2>3. jsrs' = [j \in 1..Len(jsrs) |-> jsrs'[j]]
    BY <1>11, <1>12 DEF FixedTo
  <2> QED
    BY <1>12, <2>1, <2>2, <2>3, JsrsOf
<1>14. ListsKept'
  BY <1>1, <1>3, <1>13 DEF DeclInv, ListsKept
<1>15. ScopeKept'
  <2>1. Known(lexer') = Range(func_strings) \union {} \union V
    BY <1>6 DEF Filled
  <2>2. \A k \in DOMAIN func_strings :
          func_strings[k] \notin V => Ident(lexer', func_strings[k]) = k - 1
    BY <1>6 DEF Filled
  <2>3. \A n \in V : Ident(lexer', n) >= Len(func_strings) /\ ~Defined(lexer', n)
    BY <1>6 DEF Filled
  <2>4. \A n \in V : Defined(lexer', n) <=> n \in {} \union {}
    BY <2>3, Zenon
  <2> QED
    BY <1>1, <1>7, <2>1, <2>2, <2>3, <2>4 DEF ScopeKept
<1>16. ValuesKept'
  <2>1. Known(lexer') = Range(func_strings) \union {} \union V
    BY <1>6 DEF Filled
  <2> QED
    BY <1>1, <1>7, <1>8, <2>1 DEF ValuesKept
<1>17. LoopsKept'
  BY <1>1, <1>3 DEF LoopsKept
<1>18. NamesKept'
  <2>1. \A n : Meant(n)' = MeantOf(func_strings, <<>>, V, n)
    BY <1>1, <1>7, MeantHere, Zenon
  <2>2. loops' = <<>> /\ Len(loops') = 0 /\ 1..Len(loops') = {}
    BY <1>1, <1>3
  <2>3. Values(0)' = identifier_values'
    BY <2>2 DEF Values
  <2>4. Meanings(func_strings, <<>>, V)
    <3>1. Range(<<>>) \intersect V = {}
      BY <1>7
    <3> QED
      BY <1>4, <1>7, <3>1, MeantCases
  <2>5. ASSUME NEW n \in V \union Range(func_strings)
        PROVE  identifier_values'[Ident(lexer', n)] = MeantOf(func_strings, <<>>, V, n)
    <3>1. CASE n \in V
      <4>1. MeantOf(func_strings, <<>>, V, n) = Zero
        BY <2>4, <3>1 DEF Meanings
      <4> QED
        BY <1>8, <3>1, <4>1
    <3>2. CASE n \notin V
      <4>1. PICK k \in DOMAIN func_strings : n = func_strings[k]
        BY <2>5, <3>2 DEF Range
      <4>2. func_strings[k] \notin Range(<<>>) \union V
        BY <1>7, <3>2, <4>1
      <4>3. MeantOf(func_strings, <<>>, V, n) = <<"entry", k>>
        BY <2>4, <4>1, <4>2 DEF Meanings
      <4> QED
        BY <1>8, <3>2, <4>1, <4>3
    <3> QED
      BY <3>1, <3>2
  <2> QED
    BY <1>1, <1>7, <2>1, <2>2, <2>3, <2>5 DEF NamesKept
<1>19. CallsKept'
  <2>1. ASSUME NEW j \in DOMAIN jsrs
        PROVE  Waits(j)' \/ Jumps(j)'
    <3>1. Waits(j) \/ Jumps(j)
      BY <1>3, <2>1 DEF DeclInv, CallsKept, Turns
    <3>2. PICK f : f = jsrs[j].name
      OBVIOUS
    <3>3. /\ jsrs'[j].name = f
          /\ \/ /\ jsrs'[j].larg = jsrs[j].larg
                /\ \A c \in 1..Len(incomplete_func_calls) : incomplete_func_calls[c].jsr # j
             \/ jsrs'[j].larg = jsrs[j].larg /\ f \notin DOMAIN func_map
             \/ f \in DOMAIN func_map /\ jsrs'[j].larg = func_map[f]
      BY <1>11, <3>2 DEF FixedTo
    <3>4. CASE f \in DOMAIN func_map /\ jsrs'[j].larg = func_map[f]
      <4>1. PICK k \in 1..Len(func_strings) : f = func_strings[k]
        BY <1>4, <3>4
      <4>2. k \in DOMAIN func_strings /\ jsrs'[j].larg = <<"entry", k>>
        BY <1>4, <3>4, <4>1
      <4> QED
        BY <1>1, <3>3, <4>1, <4>2 DEF Jumps
    <3>5. CASE Jumps(j) /\ jsrs'[j].larg = jsrs[j].larg
      BY <1>1, <3>2, <3>3, <3>5 DEF Jumps
    <3>6. CASE Waits(j) /\ jsrs'[j].larg = jsrs[j].larg /\ f \notin DOMAIN func_map
      <4>1. f \notin Range(func_strings)
        BY <1>4, <3>6 DEF Range
      <4> QED
        BY <1>1, <3>3, <3>6, <4>1 DEF Waits
    <3>7. CASE Waits(j) /\ \A c \in 1..Len(incomplete_func_calls) : incomplete_func_calls[c].jsr # j
      <4>1. DOMAIN incomplete_func_calls = 1..Len(incomplete_func_calls)
        BY Elements, Zenon DEF DeclInv, ListsKept
      <4> QED
        BY <3>7, <4>1 DEF Waits
    <3> QED
      BY <3>1, <3>3, <3>4, <3>5, <3>6, <3>7
  <2>2. ASSUME NEW c \in DOMAIN incomplete_func_calls
        PROVE  LET call == incomplete_func_calls[c]
               IN call.jsr \in DOMAIN jsrs' /\ call.name = jsrs'[call.jsr].name
    BY <1>11, <1>13 DEF DeclInv, CallsKept, FixedTo
  <2> QED
    BY <1>1, <1>13, <2>1, <2>2 DEF CallsKept
<1> QED
  BY <1>9, <1>10, <1>14, <1>15, <1>16, <1>17, <1>18, <1>19 DEF DeclInv

-----------------------------------------------------------------------------
(* The theorems.                                                           *)

\* The invariant holds in every state of every program admitted.
LEMMA DeclInvHolds ==
  ASSUME Classes = {}
  PROVE  Spec => []DeclInv
<1>1. DeclInv /\ [Next]_names_vars => DeclInv'
  <2> SUFFICES ASSUME DeclInv, [Next]_names_vars
               PROVE  DeclInv'
    OBVIOUS
  <2>1. CASE MainVariables
    BY <2>1, MainVariablesKept
  <2>2. CASE FunctionHeader
    BY <2>2, FunctionHeaderKept
  <2>3. CASE LetStatement
    BY <2>3, LetStatementKept
  <2>4. CASE FunctionStatement
    BY <2>4, FunctionStatementKept
  <2>5. CASE WhileHeader
    BY <2>5, WhileHeaderKept
  <2>6. CASE WhileEnd
    BY <2>6, WhileEndKept
  <2>7. CASE FunctionEnd
    BY <2>7, FunctionEndKept
  <2>8. CASE EstablishMain
    BY <2>8, EstablishMainKept
  <2>9. CASE MainEnd
    BY <2>9, MainEndKept
  <2>10. CASE UNCHANGED names_vars
    BY <2>10, StutterKept
  <2> QED
    BY <2>1, <2>2, <2>3, <2>4, <2>5, <2>6, <2>7, <2>8, <2>9, <2>10 DEF Next
<1> QED
  BY <1>1, InitKept, PTL DEF Spec

\* When the program is parsed, every call of a declared function jumps to it, declared
\* before or behind the call, in a loop or not, whatever the number of names, functions
\* and statements: parse_function_statement, update_phi and fix_func_calls.
THEOREM CallsFindFunctions ==
  ASSUME Classes = {}
  PROVE  Spec => []CallsReachFunctions
<1>1. DeclInv => CallsReachFunctions
  <2> SUFFICES ASSUME DeclInv, place = "done", NEW j \in DOMAIN jsrs, NEW k \in DOMAIN func_strings,
                      jsrs[j].name = func_strings[k]
               PROVE  jsrs[j].larg = <<"entry", k>>
    BY DEF CallsReachFunctions
  <2>1. DOMAIN loops = {} /\ IsInjective(func_strings)
    BY DEF DeclInv, ListsKept, Parsing, FunctionsKept
  <2>2. Waits(j) \/ Jumps(j)
    BY <2>1 DEF DeclInv, CallsKept, Turns
  <2>3. func_strings[k] \in Range(func_strings)
    BY DEF Range
  <2>4. Jumps(j)
    BY <2>2, <2>3 DEF Waits
  <2> QED
    BY <2>1, <2>4 DEF Jumps, IsInjective
<1> QED
  BY <1>1, DeclInvHolds, PTL

\* A name that nothing was assigned to has the value its declaration gives it, in every
\* block around the current one: no two names of a scope have the same index.
THEOREM NamesMeanDeclarations ==
  ASSUME Classes = {}
  PROVE  Spec => []NamesKeepMeaning
<1>1. DeclInv => NamesKeepMeaning
  <2> SUFFICES ASSUME DeclInv, Parsing,
                      NEW n \in (Variables \union Range(func_strings)) \ scope.assigned
               PROVE  LET i == Ident(lexer, n)
                          value(d) == IF d = Len(loops) THEN identifier_values[i]
                                      ELSE loops[d + 1].values[i]
                      IN /\ value(0) = Meant(n)
                         /\ \A d \in 1..Len(loops) : value(d) = PHI(loops[d], i)
    BY DEF NamesKeepMeaning
  <2>1. /\ Values(0)[Ident(lexer, n)] = Meant(n)
        /\ \A d \in 1..Len(loops) : Values(d)[Ident(lexer, n)] = PHI(loops[d], Ident(lexer, n))
    BY DEF DeclInv, NamesKept
  <2>2. \A d : Values(d)[Ident(lexer, n)] =
                 IF d = Len(loops) THEN identifier_values[Ident(lexer, n)]
                 ELSE loops[d + 1].values[Ident(lexer, n)]
    BY DEF Values
  <2> QED
    BY <2>1, <2>2
<1> QED
  BY <1>1, DeclInvHolds, PTL

\* The warnings of a scope are of its unassigned variables, however many functions there
\* are: check_all_defined leaves out exactly the indices of the functions.
THEOREM WarningsOfScope ==
  ASSUME Classes = {}
  PROVE  Spec => []WarningsMatch
<1>1. DeclInv => WarningsMatch
  <2> SUFFICES ASSUME DeclInv, Parsing
               PROVE  check_all_defined(lexer) \intersect Variables = scope.variables \ scope.assigned
    BY DEF WarningsMatch
  <2>1. /\ Range(scope.params) \intersect scope.variables = {}
        /\ Variables \union Range(func_strings) \subseteq Known(lexer)
        /\ \A n \in scope.variables : Ident(lexer, n) >= Len(func_strings)
        /\ \A n \in Variables : Defined(lexer, n) <=> n \in Range(scope.params) \union scope.assigned
        /\ lexer.func_count = Len(func_strings)
    BY DEF DeclInv, ScopeKept, LexerKept
  <2>2. ASSUME NEW n \in Variables
        PROVE  n \in check_all_defined(lexer) <=> n \in scope.variables \ scope.assigned
    <3>1. n \in check_all_defined(lexer) <=> ~Defined(lexer, n) /\ Ident(lexer, n) >= Len(func_strings)
      BY <2>1 DEF check_all_defined, Known, Defined
    <3>2. ~Defined(lexer, n) <=> n \notin Range(scope.params) \union scope.assigned
      BY <2>1, Zenon
    <3>3. n \notin Range(scope.params) => n \in scope.variables
      BY DEF Variables
    <3> QED
      BY <2>1, <3>1, <3>2, <3>3
  <2>3. scope.variables \subseteq Variables
    BY DEF Variables
  <2> QED
    BY <2>2, <2>3
<1> QED
  BY <1>1, DeclInvHolds, PTL

=============================================================================
