---------------------------- MODULE CallFrameProofs ----------------------------
(***************************************************************************)
(* Proofs about CallFrame: the emitted text keeps every value of every     *)
(* activation, for any locations, any number of slots and arguments, any   *)
(* depth of calls and any sequence of instructions, calls and returns.     *)
(*                                                                         *)
(* The invariant FrameInv says there are cells F[1] > F[2] > ..., one for  *)
(* each activation, such that its slots and then its waiting arguments are *)
(* below its cell, what its call and its prologue have saved for the       *)
(* caller is above it, up to the return address at F[j] + 13, and between  *)
(* that and the caller's last argument is nothing a program knows of.      *)
(* Below the last frame there is room for what may still be called.  The   *)
(* function that runs has its frame in rbp and its other values in the     *)
(* registers (Body); one that still takes its parameters has the frame     *)
(* of its caller in rbp and its own in r11 (Entry).                        *)
(*                                                                         *)
(* The module goes upward: what it means to run a text; what one           *)
(* instruction of the machine changes (Same, Like); what the text of one   *)
(* instruction of the IR does with places and free cells (Keeps); what     *)
(* that does to a stack of frames (Body); the invariant, action by action; *)
(* and that the invariant puts everything where the properties of          *)
(* CallFrame look for it.                                                  *)
(*                                                                         *)
(* The theorems assume that Admit is empty, as the run frames does: the    *)
(* emitted code is wrong for the classes of instructions it may name.      *)
(***************************************************************************)
EXTENDS CallFrame, FiniteSetTheorems, SequenceTheorems, WellFoundedInduction, TLAPS

-----------------------------------------------------------------------------
(* What it means to run a text.                                            *)

\* A set of numbers that is not empty has a least one.
LEMMA LeastNumber ==
  ASSUME NEW S \in SUBSET Nat, S # {}
  PROVE  \E i \in S : \A j \in S : i <= j
<1>1. PICK i \in S : \A j \in S : ~(<<j, i>> \in OpToRel(<, Nat))
  BY NatLessThanWellFounded, WFMin, Zenon
<1>2. ASSUME NEW k \in Nat, NEW m1 \in Nat, k < m1
      PROVE  <<k, m1>> \in OpToRel(<, Nat)
  BY <1>2 DEF OpToRel
<1>3. ASSUME NEW j \in S PROVE i <= j
  <2>1. i \in Nat /\ j \in Nat /\ ~(j < i)
    BY <1>1, <1>2, Zenon
  <2> QED
    BY <2>1
<1> QED
  BY <1>3

\* Induction up to n.
LEMMA UpTo ==
  ASSUME NEW n \in Nat, NEW S, 0 \in S, \A k \in 1..n : k - 1 \in S => k \in S
  PROVE  \A k \in 0..n : k \in S
<1> SUFFICES ASSUME {k \in 0..n : k \notin S} # {}
             PROVE  FALSE
  OBVIOUS
<1> DEFINE T == {k \in 0..n : k \notin S}
<1>1. PICK i \in T : \A j \in T : i <= j
  <2>1. T \in SUBSET Nat /\ T # {}
    OBVIOUS
  <2> HIDE DEF T
  <2> QED
    BY <2>1, LeastNumber
<1>2. i \in 1..n /\ i - 1 \in 0..n /\ i \notin S
  BY <1>1
<1> QED
  BY <1>1, <1>2

\* The folds take the elements of a set of numbers by Max.
LEMMA LastOfSome ==
  ASSUME NEW n \in Nat, NEW s \in SUBSET (1..n), s # {}
  PROVE  Max(s) \in s /\ \A j \in s : j <= Max(s)
<1> DEFINE T == {k \in 0..n : \A j \in s : j <= k}
<1>1. PICK k \in T : \A j \in T : k <= j
  <2>1. n \in T /\ T \in SUBSET Nat
    OBVIOUS
  <2> QED
    BY <2>1, LeastNumber
<1>2. k \in s
  <2> SUFFICES ASSUME k \notin s
               PROVE  FALSE
    OBVIOUS
  <2>1. PICK j \in s : TRUE
    OBVIOUS
  <2>2. k - 1 \in T
    BY <1>1, <2>1
  <2> QED
    BY <1>1, <2>2
<1>3. \A j \in s : k >= j
  BY <1>1
<1>4. Max(s) \in s /\ \A j \in s : Max(s) >= j
  BY <1>2, <1>3, Zenon DEF Max
<1> QED
  BY <1>4

\* Taking the last number away from 1..i leaves 1..(i - 1).
LEMMA LastOfFirst ==
  ASSUME NEW n \in Nat
  PROVE  /\ 1..0 = {} /\ {} \in SUBSET (1..n)
         /\ \A i \in 1..n : /\ (1..i) \in SUBSET (1..n) /\ 1..i # {} /\ Max(1..i) = i
                           /\ (1..i) \ {i} = 1..(i - 1)
<1> SUFFICES ASSUME NEW i \in 1..n
             PROVE  /\ (1..i) \in SUBSET (1..n) /\ 1..i # {} /\ Max(1..i) = i
                    /\ (1..i) \ {i} = 1..(i - 1)
  OBVIOUS
<1>1. (1..i) \in SUBSET (1..n) /\ 1..i # {}
  OBVIOUS
<1>2. Max(1..i) \in 1..i /\ \A j \in 1..i : j <= Max(1..i)
  BY <1>1, LastOfSome
<1>3. i \in 1..i
  OBVIOUS
<1> QED
  BY <1>1, <1>2, <1>3

\* The recursive function FoldLeft is, for the texts of n instructions.
Folds(n, mm, s, g) ==
  g = [t \in SUBSET (1..n) |-> IF t = {} THEN mm ELSE Execute(g[t \ {Max(t)}], s[Max(t)])]

\* The recursive function that a fold over n instructions is exists.
LEMMA FoldsExist ==
  ASSUME NEW n \in Nat, NEW mm, NEW s
  PROVE  \E g : Folds(n, mm, s, g)
<1> DEFINE T == {k \in 0..n : \E g : Folds(k, mm, s, g)}
<1>1. 0 \in T
  <2> DEFINE g == [t \in SUBSET (1..0) |-> mm]
  <2>1. \A t \in SUBSET (1..0) : t = {}
    OBVIOUS
  <2>2. g = [t \in SUBSET (1..0) |-> IF t = {} THEN mm ELSE Execute(g[t \ {Max(t)}], s[Max(t)])]
    BY <2>1
  <2> HIDE DEF g
  <2>3. Folds(0, mm, s, g)
    BY <2>2 DEF Folds
  <2> QED
    BY <2>3
<1>2. ASSUME NEW k \in 1..n, k - 1 \in T
      PROVE  k \in T
  <2>1. PICK f : Folds(k - 1, mm, s, f)
    BY <1>2
  <2> DEFINE g == [t \in SUBSET (1..k) |-> IF k \in t THEN Execute(f[t \ {k}], s[k]) ELSE f[t]]
  <2>2. k \in Nat /\ \A t \in SUBSET (1..k) : t \ {k} \in SUBSET (1..(k - 1))
    OBVIOUS
  <2>3. ASSUME NEW t \in SUBSET (1..k), k \notin t
        PROVE  t \in SUBSET (1..(k - 1)) /\ t \ {k} = t
    BY <2>3
  <2>4. \A t \in SUBSET (1..k) : g[t] = IF k \in t THEN Execute(f[t \ {k}], s[k]) ELSE f[t]
    OBVIOUS
  <2>5. g = [t \in SUBSET (1..k) |-> g[t]]
    OBVIOUS
  <2>6. \A t \in SUBSET (1..(k - 1)) :
          f[t] = IF t = {} THEN mm ELSE Execute(f[t \ {Max(t)}], s[Max(t)])
    BY <2>1 DEF Folds
  <2> HIDE DEF g
  <2>7. ASSUME NEW t \in SUBSET (1..k)
        PROVE  g[t] = IF t = {} THEN mm ELSE Execute(g[t \ {Max(t)}], s[Max(t)])
    <3>1. CASE k \in t
      <4>1. Max(t) = k
        <5>1. Max(t) \in t /\ \A j \in t : j <= Max(t)
          BY <2>2, <3>1, LastOfSome
        <5>2. Max(t) \in 1..k /\ k <= Max(t)
          BY <3>1, <5>1
        <5> QED
          BY <5>2
      <4>2. t \ {k} \in SUBSET (1..k) /\ k \notin t \ {k}
        OBVIOUS
      <4>3. g[t \ {k}] = f[t \ {k}]
        BY <2>4, <4>2
      <4> QED
        BY <2>4, <3>1, <4>1, <4>3
    <3>2. CASE t = {}
      <4>1. {} \in SUBSET (1..(k - 1)) /\ k \notin t
        BY <3>2
      <4> QED
        BY <2>4, <2>6, <3>2, <4>1
    <3>3. CASE k \notin t /\ t # {}
      <4>1. t \in SUBSET (1..(k - 1)) /\ k - 1 \in Nat
        BY <2>3, <3>3
      <4> DEFINE r == t \ {Max(t)}
      <4>2. r \in SUBSET (1..k) /\ k \notin r
        BY <3>3
      <4>3. g[t] = f[t] /\ g[r] = f[r]
        BY <2>4, <3>3, <4>2
      <4>4. f[t] = Execute(f[r], s[Max(t)])
        BY <2>6, <3>3, <4>1
      <4> QED
        BY <3>3, <4>3, <4>4
    <3> QED
      BY <3>1, <3>2, <3>3
  <2>8. g = [t \in SUBSET (1..k) |-> IF t = {} THEN mm ELSE Execute(g[t \ {Max(t)}], s[Max(t)])]
    BY <2>5, <2>7
  <2>9. Folds(k, mm, s, g)
    BY <2>8 DEF Folds
  <2> QED
    BY <2>2, <2>9
<1>3. n \in T
  <2>1. n \in 0..n /\ \A k \in 1..n : k - 1 \in T => k \in T
    BY <1>2
  <2> HIDE DEF T
  <2> QED
    BY <1>1, <2>1, UpTo
<1> QED
  BY <1>3

\* h[i] is the machine behind the first i instructions of the text.
Steps(h, mm, s, n) == h[0] = mm /\ \A i \in 1..n : h[i] = Execute(h[i - 1], s[i])

\* Run is n steps of Execute, one for each instruction of the text.
LEMMA RunSteps ==
  ASSUME NEW mm, NEW n \in Nat, NEW s, DOMAIN s = 1..n
  PROVE  \E h : Steps(h, mm, s, n) /\ Run(mm, s) = h[n]
<1> DEFINE h == CHOOSE g : Folds(n, mm, s, g)
           k == [i \in 0..n |-> h[1..i]]
<1>1. Run(mm, s) = h[1..n]
  BY DEF Run, FoldLeft, MapThenFoldSet, Folds
<1>2. Folds(n, mm, s, h)
  BY FoldsExist
<1> HIDE DEF h
<1>3. \A t \in SUBSET (1..n) : h[t] = IF t = {} THEN mm ELSE Execute(h[t \ {Max(t)}], s[Max(t)])
  BY <1>2 DEF Folds
<1>4. h[1..0] = mm
  BY <1>3, LastOfFirst
<1>5. ASSUME NEW i \in 1..n
      PROVE  h[1..i] = Execute(h[1..(i - 1)], s[i])
  <2>1. h[1..i] = Execute(h[(1..i) \ {Max(1..i)}], s[Max(1..i)])
    BY <1>3, LastOfFirst
  <2>2. Max(1..i) = i /\ (1..i) \ {i} = 1..(i - 1)
    BY LastOfFirst
  <2> QED
    BY <2>1, <2>2, Zenon
<1>6. \A i \in 0..n : k[i] = h[1..i]
  OBVIOUS
<1> HIDE DEF k
<1>7. Steps(k, mm, s, n)
  BY <1>4, <1>5, <1>6 DEF Steps
<1>8. Run(mm, s) = k[n]
  BY <1>1, <1>6
<1> QED
  BY <1>7, <1>8

\* Whatever takes these steps is Run.
LEMMA RunUnique ==
  ASSUME NEW mm, NEW n \in Nat, NEW s, DOMAIN s = 1..n, NEW h, Steps(h, mm, s, n)
  PROVE  Run(mm, s) = h[n]
<1>1. PICK g : Steps(g, mm, s, n) /\ Run(mm, s) = g[n]
  BY RunSteps
<1> DEFINE T == {i \in 0..n : g[i] = h[i]}
<1>2. 0 \in T
  BY <1>1 DEF Steps
<1>3. \A i \in 1..n : i - 1 \in T => i \in T
  BY <1>1 DEF Steps
<1>4. n \in T
  <2>1. n \in 0..n
    OBVIOUS
  <2> HIDE DEF T
  <2> QED
    BY <1>2, <1>3, <2>1, UpTo
<1> QED
  BY <1>1, <1>4

IsText(s) == \E E : s \in Seq(E)

\* Two texts behind each other.
LEMMA TextConcat ==
  ASSUME NEW s, NEW t, IsText(s), IsText(t)
  PROVE  /\ IsText(s \o t) /\ Len(s) \in Nat /\ Len(t) \in Nat
         /\ DOMAIN s = 1..Len(s) /\ DOMAIN t = 1..Len(t) /\ DOMAIN (s \o t) = 1..(Len(s) + Len(t))
         /\ \A i \in 1..Len(s) : (s \o t)[i] = s[i]
         /\ \A i \in 1..Len(t) : (s \o t)[Len(s) + i] = t[i]
<1>1. PICK E : s \in Seq(E)
  BY DEF IsText
<1>2. PICK G : t \in Seq(G)
  BY DEF IsText
<1>3. s \in Seq(E \union G) /\ t \in Seq(E \union G)
  BY <1>1, <1>2
<1>4. s \o t \in Seq(E \union G) /\ Len(s \o t) = Len(s) + Len(t)
  BY <1>3
<1>5. IsText(s \o t)
  BY <1>4 DEF IsText
<1> QED
  BY <1>3, <1>4, <1>5

\* Running them is running one behind the other.
LEMMA RunConcat ==
  ASSUME NEW mm, NEW s, NEW t, IsText(s), IsText(t)
  PROVE  Run(mm, s \o t) = Run(Run(mm, s), t)
<1> DEFINE n == Len(s)
           k == Len(t)
           u == s \o t
<1>1. /\ n \in Nat /\ k \in Nat /\ DOMAIN s = 1..n /\ DOMAIN t = 1..k /\ DOMAIN u = 1..(n + k)
      /\ \A i \in 1..n : u[i] = s[i]
      /\ \A i \in 1..k : u[n + i] = t[i]
  BY TextConcat
<1>2. PICK g : Steps(g, mm, s, n) /\ Run(mm, s) = g[n]
  BY <1>1, RunSteps
<1>3. PICK h : Steps(h, g[n], t, k) /\ Run(g[n], t) = h[k]
  BY <1>1, RunSteps
<1> HIDE DEF n, k, u
<1> DEFINE f == [i \in 0..(n + k) |-> IF i <= n THEN g[i] ELSE h[i - n]]
<1>4. \A i \in 0..(n + k) : f[i] = IF i <= n THEN g[i] ELSE h[i - n]
  OBVIOUS
<1> HIDE DEF f
<1>5. f[0] = mm
  BY <1>1, <1>2, <1>4 DEF Steps
<1>6. ASSUME NEW i \in 1..(n + k)
      PROVE  f[i] = Execute(f[i - 1], u[i])
  <2>1. CASE i <= n
    BY <1>1, <1>2, <1>4, <2>1 DEF Steps
  <2>2. CASE i > n
    <3>1. i - n \in 1..k /\ u[i] = t[i - n]
      <4>1. i - n \in 1..k /\ n + (i - n) = i
        BY <1>1, <2>2
      <4> QED
        BY <1>1, <4>1
    <3>2. f[i] = h[i - n] /\ h[i - n] = Execute(h[i - n - 1], t[i - n])
      BY <1>1, <1>3, <1>4, <2>2, <3>1 DEF Steps
    <3>3. f[i - 1] = h[i - n - 1]
      <4>1. CASE i = n + 1
        <5>1. i - 1 = n /\ i - n - 1 = 0 /\ n \in 0..(n + k) /\ n <= n
          BY <1>1, <4>1
        <5>2. f[n] = g[n] /\ h[0] = g[n]
          BY <1>3, <1>4, <5>1 DEF Steps
        <5> QED
          BY <5>1, <5>2
      <4>2. CASE i # n + 1
        <5>1. i - 1 \in 0..(n + k) /\ ~(i - 1 <= n) /\ (i - 1) - n = i - n - 1
          BY <1>1, <2>2, <4>2
        <5> QED
          BY <1>4, <5>1
      <4> QED
        BY <4>1, <4>2
    <3> QED
      BY <3>1, <3>2, <3>3
  <2> QED
    BY <1>1, <2>1, <2>2
<1>7. Run(mm, u) = f[n + k]
  <2>1. Steps(f, mm, u, n + k)
    BY <1>5, <1>6 DEF Steps
  <2>2. n + k \in Nat
    BY <1>1
  <2> QED
    BY <1>1, <2>1, <2>2, RunUnique
<1>8. f[n + k] = h[k]
  <2>1. CASE k = 0
    BY <1>1, <1>3, <1>4, <2>1 DEF Steps
  <2>2. CASE k # 0
    <3>1. n + k \in 0..(n + k) /\ ~(n + k <= n) /\ (n + k) - n = k
      BY <1>1, <2>2
    <3> QED
      BY <1>4, <3>1
  <2> QED
    BY <2>1, <2>2
<1> QED
  BY <1>2, <1>3, <1>7, <1>8 DEF u

\* Texts of no, one and two instructions.
LEMMA RunNothing ==
  ASSUME NEW mm
  PROVE  Run(mm, <<>>) = mm /\ IsText(<<>>)
<1>1. PICK h : Steps(h, mm, <<>>, 0) /\ Run(mm, <<>>) = h[0]
  BY RunSteps
<1>2. <<>> \in Seq({})
  OBVIOUS
<1> QED
  BY <1>1, <1>2 DEF Steps, IsText

LEMMA RunOne ==
  ASSUME NEW mm, NEW i
  PROVE  Run(mm, <<i>>) = Execute(mm, i) /\ IsText(<<i>>)
<1> DEFINE s == <<i>>
<1>1. DOMAIN s = 1..1 /\ s[1] = i /\ 1 \in Nat /\ 1 \in 1..1 /\ 1 - 1 = 0
  OBVIOUS
<1>2. s \in Seq({i})
  OBVIOUS
<1> HIDE DEF s
<1>3. PICK h : Steps(h, mm, s, 1) /\ Run(mm, s) = h[1]
  BY <1>1, RunSteps
<1> QED
  BY <1>1, <1>2, <1>3 DEF Steps, IsText

LEMMA RunTwo ==
  ASSUME NEW mm, NEW i, NEW j
  PROVE  Run(mm, <<i, j>>) = Execute(Execute(mm, i), j) /\ IsText(<<i, j>>)
<1> DEFINE s == <<i, j>>
<1>1. s[1] = i /\ s[2] = j /\ 1 \in 1..2 /\ 2 \in 1..2 /\ 1 - 1 = 0 /\ 2 - 1 = 1
  OBVIOUS
<1>2. s \in Seq({i, j}) /\ s = <<i, j>>
  OBVIOUS
<1> DEFINE n == 2
<1>3. DOMAIN s = 1..n /\ n \in Nat
  OBVIOUS
<1> HIDE DEF s, n
<1>4. PICK h : Steps(h, mm, s, n) /\ Run(mm, s) = h[n]
  BY <1>3, RunSteps
<1>5. h[0] = mm /\ h[1] = Execute(h[0], i) /\ h[2] = Execute(h[1], j)
  BY <1>1, <1>4 DEF Steps, n
<1> QED
  BY <1>2, <1>4, <1>5 DEF IsText, n

IsMachine(n) ==
  /\ DOMAIN n = {"reg", "mem", "flags", "inputs", "seen"}
  /\ DOMAIN n.reg = MachineRegisters /\ DOMAIN n.mem = 0..StackSize

\* The registers values are kept in.
Kept_Registers == {RegisterList[i] : i \in 1..REGISTER_COUNT}

\* The registers calls save, and the others.
LEMMA Registers ==
  /\ REGISTER_COUNT = 11 /\ DOMAIN RegisterList = 1..11 /\ IsText(RegisterList)
  /\ Kept_Registers = {"rax", "rbx", "rcx", "rdx", "rsi", "rdi", "r8", "r9", "r10", "r14", "r15"}
  /\ MachineRegisters = Kept_Registers \union {"rsp", "rbp", "r11"}
  /\ \A i \in 1..11 : RegisterList[i] \in Kept_Registers
<1>1. REGISTER_COUNT = 11 /\ DOMAIN RegisterList = 1..11
  BY DEF REGISTER_COUNT, RegisterList
<1>2. RegisterList \in Seq({"rax", "rbx", "rcx", "rdx", "rsi", "rdi", "r8", "r9", "r10", "r14", "r15"})
  BY DEF RegisterList
<1>3. Kept_Registers \subseteq {"rax", "rbx", "rcx", "rdx", "rsi", "rdi", "r8", "r9", "r10", "r14", "r15"}
  <2>1. \A i \in 1..11 : RegisterList[i] \in {"rax", "rbx", "rcx", "rdx", "rsi", "rdi", "r8", "r9", "r10", "r14", "r15"}
    BY DEF RegisterList
  <2> QED
    BY <1>1, <2>1 DEF Kept_Registers
<1>4. {"rax", "rbx", "rcx", "rdx", "rsi", "rdi", "r8", "r9", "r10", "r14", "r15"} \subseteq Kept_Registers
  BY <1>1 DEF Kept_Registers, RegisterList
<1> QED
  BY <1>1, <1>2, <1>3, <1>4 DEF Kept_Registers, MachineRegisters, IsText

\* Every one of them has a place of its own in RegisterList.
LEMMA Positions ==
  /\ \A i, j \in 1..11 : RegisterList[i] = RegisterList[j] => i = j
  /\ \A i \in 1..11 : Position(RegisterList[i]) = i
  /\ \A r \in Kept_Registers : Position(r) \in 1..11 /\ RegisterList[Position(r)] = r
<1>1. \A i, j \in 1..11 : RegisterList[i] = RegisterList[j] => i = j
  BY DEF RegisterList
<1>2. ASSUME NEW i \in 1..11
      PROVE  Position(RegisterList[i]) = i
  <2>1. \E k \in 1..11 : RegisterList[k] = RegisterList[i]
    OBVIOUS
  <2>2. Position(RegisterList[i]) \in 1..11
        /\ RegisterList[Position(RegisterList[i])] = RegisterList[i]
    BY <2>1, Registers DEF Position
  <2> QED
    BY <1>1, <2>2
<1> QED
  BY <1>1, <1>2, Registers DEF Kept_Registers

\* Behind n the machine p differs only in the registers R and the cells C.
Like(n, p, R, C) ==
  /\ IsMachine(p)
  /\ \A r \in MachineRegisters : r \notin R => p.reg[r] = n.reg[r]
  /\ \A a \in 0..StackSize : a \notin C => p.mem[a] = n.mem[a]

\* It has also read and written nothing.
Same(n, p, R, C) == Like(n, p, R, C) /\ p.inputs = n.inputs /\ p.seen = n.seen

\* Same and Like compose, and may be weakened.
LEMMA SameSelf ==
  ASSUME NEW n, IsMachine(n)
  PROVE  Same(n, n, {}, {})
BY DEF Same, Like

LEMMA LikeThen ==
  ASSUME NEW n, NEW p, NEW q, NEW R, NEW C, NEW R2, NEW C2,
         Like(n, p, R, C), Like(p, q, R2, C2)
  PROVE  Like(n, q, R \union R2, C \union C2)
<1>1. IsMachine(q)
  BY DEF Like
<1>2. ASSUME NEW r \in MachineRegisters, r \notin R \union R2
      PROVE  q.reg[r] = n.reg[r]
  BY <1>2 DEF Like
<1>3. ASSUME NEW a \in 0..StackSize, a \notin C \union C2
      PROVE  q.mem[a] = n.mem[a]
  BY <1>3 DEF Like
<1> QED
  BY <1>1, <1>2, <1>3 DEF Like

LEMMA SameThen ==
  ASSUME NEW n, NEW p, NEW q, NEW R, NEW C, NEW R2, NEW C2,
         Same(n, p, R, C), Same(p, q, R2, C2)
  PROVE  Same(n, q, R \union R2, C \union C2)
BY LikeThen DEF Same

\* What has its value back has not changed.
LEMMA LikeLess ==
  ASSUME NEW n, NEW p, NEW R, NEW C, NEW R2, NEW C2, Like(n, p, R, C),
         \A r \in R : r \in MachineRegisters => r \in R2 \/ p.reg[r] = n.reg[r],
         \A a \in C : a \in 0..StackSize => a \in C2 \/ p.mem[a] = n.mem[a]
  PROVE  Like(n, p, R2, C2)
BY DEF Like

LEMMA SameMore ==
  ASSUME NEW n, NEW p, NEW R, NEW C, NEW R2, NEW C2,
         Same(n, p, R, C), R \subseteq R2, C \subseteq C2
  PROVE  Same(n, p, R2, C2)
BY DEF Same, Like

\* What a write into a register changes.
LEMMA SetRegister ==
  ASSUME NEW n, IsMachine(n), NEW r \in MachineRegisters, NEW w
  PROVE  LET p == Store(n, Reg(r), w)
         IN  Same(n, p, {r}, {}) /\ p.reg[r] = w /\ p.flags = n.flags
<1> DEFINE p == Store(n, Reg(r), w)
<1>1. p = [n EXCEPT !.reg = [n.reg EXCEPT ![r] = w]]
  BY DEF Store, Reg
<1>2. /\ DOMAIN p = DOMAIN n /\ p.reg = [n.reg EXCEPT ![r] = w] /\ p.mem = n.mem
      /\ p.flags = n.flags /\ p.inputs = n.inputs /\ p.seen = n.seen
  <2> HIDE DEF p
  <2> QED
    BY <1>1 DEF IsMachine
<1> HIDE DEF p
<1>3. DOMAIN p.reg = MachineRegisters /\ \A q \in MachineRegisters : p.reg[q] = IF q = r THEN w ELSE n.reg[q]
  BY <1>2 DEF IsMachine
<1>4. Same(n, p, {r}, {}) /\ p.reg[r] = w /\ p.flags = n.flags
  BY <1>2, <1>3 DEF Same, Like, IsMachine
<1> QED
  BY <1>4 DEF p

\* What a write into a cell of the stack changes.
LEMMA SetCell ==
  ASSUME NEW n, IsMachine(n), NEW r, NEW k \in Int, NEW b \in Int, n.reg[r] = Address(b),
         NEW c \in 1..StackSize, c = b + k, NEW w
  PROVE  LET p == Store(n, Mem(r, k), w)
         IN  Same(n, p, {}, {c}) /\ p.mem[c] = w /\ p.flags = n.flags
<1> DEFINE p == Store(n, Mem(r, k), w)
<1>1. Cell(n.reg[r], k) = c
  BY DEF Cell, Address
<1>2. p = [n EXCEPT !.mem = [n.mem EXCEPT ![c] = w]]
  <2>1. Mem(r, k)[1] # "reg" /\ Mem(r, k)[2] = r /\ Mem(r, k)[3] = k
    BY DEF Mem
  <2> QED
    BY <1>1, <2>1, Zenon DEF Store
<1>3. c \in 0..StackSize
  BY StackAssumption
<1>4. /\ DOMAIN p = DOMAIN n /\ p.mem = [n.mem EXCEPT ![c] = w] /\ p.reg = n.reg
      /\ p.flags = n.flags /\ p.inputs = n.inputs /\ p.seen = n.seen
  <2> HIDE DEF p
  <2> QED
    BY <1>2 DEF IsMachine
<1> HIDE DEF p
<1>5. DOMAIN p.mem = 0..StackSize /\ \A q \in 0..StackSize : p.mem[q] = IF q = c THEN w ELSE n.mem[q]
  BY <1>4 DEF IsMachine
<1>6. Same(n, p, {}, {c}) /\ p.mem[c] = w /\ p.flags = n.flags
  BY <1>3, <1>4, <1>5 DEF Same, Like, IsMachine
<1> QED
  BY <1>6 DEF p

\* What registers and cells of the stack hold.
LEMMA Values ==
  ASSUME NEW n, NEW r, NEW k \in Int
  PROVE  /\ ValueOf(n, Reg(r)) = n.reg[r]
         /\ \A b \in Int : n.reg[r] = Address(b) /\ b + k \in 1..StackSize =>
              /\ Cell(n.reg[r], k) = b + k
              /\ ValueOf(n, Mem(r, k)) = n.mem[b + k] /\ ValueOf(n, UpperHalf(r, k)) = n.mem[b + k]
<1>1. ValueOf(n, Reg(r)) = n.reg[r]
  <2>1. Reg(r)[1] # "imm" /\ Reg(r)[1] = "reg" /\ Reg(r)[2] = r /\ ~IsMemory(Reg(r))
    BY DEF Reg, IsMemory
  <2> QED
    BY <2>1, Zenon DEF ValueOf
<1>2. ASSUME NEW b \in Int, n.reg[r] = Address(b), b + k \in 1..StackSize
      PROVE  Cell(n.reg[r], k) = b + k
  BY <1>2 DEF Cell, Address
<1>3. ValueOf(n, Mem(r, k)) = n.mem[Cell(n.reg[r], k)]
  BY DEF ValueOf, Mem, IsMemory
<1>4. ValueOf(n, UpperHalf(r, k)) = n.mem[Cell(n.reg[r], k)]
  BY DEF ValueOf, UpperHalf, IsMemory
<1> QED
  BY <1>1, <1>2, <1>3, <1>4

\* An immediate stands for itself.
LEMMA ConstantValue ==
  ASSUME NEW n, NEW c
  PROVE  ValueOf(n, Imm(c)) = Const(c)
<1>1. Imm(c)[1] = "imm" /\ Imm(c)[2] = c /\ ~IsMemory(Imm(c)) /\ Imm(c)[1] # "reg"
  BY DEF Imm, IsMemory
<1> QED
  BY <1>1, Zenon DEF ValueOf

\* The instructions by the number of their operands.
LEMMA ExecutesOfTwo ==
  ASSUME NEW n, NEW x, NEW y
  PROVE  /\ Execute(n, <<"mov", x, y>>) = mov(n, x, y)
         /\ Execute(n, <<"add", x, y>>) = arithmetic(n, "add", x, y)
         /\ Execute(n, <<"sub", x, y>>) = arithmetic(n, "sub", x, y)
BY DEF Execute

LEMMA ExecutesCompare ==
  ASSUME NEW n, NEW x, NEW y
  PROVE  Execute(n, <<"cmp", x, y>>) = [n EXCEPT !.flags = <<ValueOf(n, y), ValueOf(n, x)>>]
BY DEF Execute

LEMMA ExecutesOfOne ==
  ASSUME NEW n, NEW x
  PROVE  /\ Execute(n, <<"imulq", x>>) = imulq(n, x)
         /\ Execute(n, <<"idivq", x>>) = idivq(n, x)
         /\ Execute(n, <<"push", x>>) = push(n, x)
         /\ Execute(n, <<"pop", x>>) = pop(n, x)
         /\ Execute(n, <<"call", x>>) = call(n, x)
BY DEF Execute

LEMMA ExecutesOfNone ==
  ASSUME NEW n
  PROVE  /\ Execute(n, <<"cqto">>) = cqto(n)
         /\ Execute(n, <<"write">>) = call_write(n)
         /\ Execute(n, <<"read">>) = call_read(n)
         /\ Execute(n, <<"newline">>) = call_newline(n)
BY DEF Execute

LEMMA ExecutesBranch ==
  ASSUME NEW n
  PROVE  Execute(n, <<"jcc">>) = [n EXCEPT !.seen = <<"branch", n.flags>>]
BY DEF Execute

\* Moving the stack pointer changes nothing else.
LEMMA MoveStackPointer ==
  ASSUME NEW n, IsMachine(n), NEW b \in Int, n.reg["rsp"] = Address(b), NEW k \in Int
  PROVE  LET p == Moved(n, k)
         IN  Same(n, p, {"rsp"}, {}) /\ p.reg["rsp"] = Address(b + k) /\ p.flags = n.flags
<1>1. Arithmetic("add", n.reg["rsp"], Const(k)) = Address(b + k)
  BY DEF Arithmetic, Address, Const
<1>2. Moved(n, k) = Store(n, Reg("rsp"), Arithmetic("add", n.reg["rsp"], Const(k)))
  BY DEF Moved, Store, Reg
<1>3. "rsp" \in MachineRegisters
  BY Registers
<1> QED
  BY <1>1, <1>2, <1>3, SetRegister

\* The same as an instruction.
LEMMA AddStackPointer ==
  ASSUME NEW n, IsMachine(n), NEW b \in Int, n.reg["rsp"] = Address(b), NEW k \in Int
  PROVE  LET p == Execute(n, <<"add", Imm(k), Rsp>>)
         IN  Same(n, p, {"rsp"}, {}) /\ p.reg["rsp"] = Address(b + k)
<1> DEFINE d == [n EXCEPT !.flags = Junk]
           w == Arithmetic("add", n.reg["rsp"], Const(k))
           p == Execute(n, <<"add", Imm(k), Rsp>>)
<1>1. w = Address(b + k)
  BY DEF Arithmetic, Address, Const
<1>2. p = Store(d, Reg("rsp"), w)
  <2>1. ValueOf(n, Imm(k)) = Const(k) /\ ValueOf(n, Rsp) = n.reg["rsp"]
    BY Values, ConstantValue DEF Rsp
  <2>2. ~IsMemory(Rsp) /\ Rsp = Reg("rsp")
    BY DEF Rsp, IsMemory, Reg
  <2>3. p = arithmetic(n, "add", Imm(k), Rsp)
    BY ExecutesOfTwo
  <2> QED
    BY <2>1, <2>2, <2>3, Zenon DEF arithmetic
<1>3. /\ IsMachine(d) /\ d.reg = n.reg /\ d.mem = n.mem /\ d.inputs = n.inputs /\ d.seen = n.seen
  BY DEF IsMachine
<1>4. "rsp" \in MachineRegisters
  BY Registers
<1> HIDE DEF d, w
<1>5. Same(d, p, {"rsp"}, {}) /\ p.reg["rsp"] = w
  BY <1>2, <1>3, <1>4, SetRegister
<1>6. Same(n, p, {"rsp"}, {})
  BY <1>3, <1>5 DEF Same, Like
<1> QED
  BY <1>1, <1>5, <1>6

\* A push writes the cell below the stack pointer and nothing else.
LEMMA PushWord ==
  ASSUME NEW n, IsMachine(n), NEW b \in Int, n.reg["rsp"] = Address(b),
         NEW c \in 1..StackSize, b = c + 1, NEW w
  PROVE  LET p == push_word(n, w)
         IN  /\ Same(n, p, {"rsp"}, {c}) /\ p.reg["rsp"] = Address(c)
             /\ p.mem[c] = w /\ p.flags = n.flags
<1> DEFINE o == Moved(n, -1)
           p == push_word(n, w)
<1>1. Same(n, o, {"rsp"}, {}) /\ o.reg["rsp"] = Address(c) /\ o.flags = n.flags
  <2>1. -1 \in Int /\ b + -1 = c
    OBVIOUS
  <2> QED
    BY <2>1, MoveStackPointer
<1>2. p = Store(o, Mem("rsp", 0), w)
  BY DEF push_word
<1> HIDE DEF o, p
<1>3. Same(o, p, {}, {c}) /\ p.mem[c] = w /\ p.flags = o.flags
  <2>1. IsMachine(o) /\ c \in Int /\ c = c + 0 /\ 0 \in Int
    BY <1>1 DEF Same, Like
  <2> QED
    BY <1>1, <1>2, <2>1, SetCell
<1>4. Same(n, p, {"rsp"}, {c})
  <2>1. Same(n, p, {"rsp"} \union {}, {} \union {c})
    BY <1>1, <1>3, SameThen
  <2> QED
    BY <2>1, SameMore
<1>5. p.reg["rsp"] = o.reg["rsp"]
  BY <1>3, Registers DEF Same, Like
<1>6. /\ Same(n, p, {"rsp"}, {c}) /\ p.reg["rsp"] = Address(c)
      /\ p.mem[c] = w /\ p.flags = n.flags
  BY <1>1, <1>3, <1>4, <1>5
<1> QED
  BY <1>6 DEF p

\* A pop gives a register the word the stack pointer points to.
LEMMA PopRegister ==
  ASSUME NEW n, IsMachine(n), NEW b \in Int, n.reg["rsp"] = Address(b), b \in 1..StackSize,
         NEW r \in MachineRegisters, r # "rsp"
  PROVE  LET p == pop(n, Reg(r))
         IN  /\ Same(n, p, {"rsp", r}, {}) /\ p.reg["rsp"] = Address(b + 1)
             /\ p.reg[r] = n.mem[b] /\ p.flags = n.flags
<1> DEFINE o == Moved(n, 1)
           p == pop(n, Reg(r))
<1>1. Same(n, o, {"rsp"}, {}) /\ o.reg["rsp"] = Address(b + 1) /\ o.flags = n.flags
  BY MoveStackPointer
<1>2. p = Store(o, Reg(r), n.mem[b])
  <2>1. b + 0 = b /\ 0 \in Int
    OBVIOUS
  <2>2. ValueOf(n, Mem("rsp", 0)) = n.mem[b]
    BY <2>1, Values
  <2> QED
    BY <2>2 DEF pop
<1> HIDE DEF o, p
<1>3. Same(o, p, {r}, {}) /\ p.reg[r] = n.mem[b] /\ p.flags = o.flags
  <2>1. IsMachine(o)
    BY <1>1 DEF Same, Like
  <2> QED
    BY <1>2, <2>1, SetRegister
<1>4. Same(n, p, {"rsp", r}, {})
  <2>1. Same(n, p, {"rsp"} \union {r}, {} \union {})
    BY <1>1, <1>3, SameThen
  <2>2. {"rsp"} \union {r} = {"rsp", r} /\ {} \union {} = {}
    OBVIOUS
  <2> QED
    BY <2>1, <2>2
<1>5. p.reg["rsp"] = o.reg["rsp"]
  BY <1>3, Registers DEF Same, Like
<1>6. /\ Same(n, p, {"rsp", r}, {}) /\ p.reg["rsp"] = Address(b + 1)
      /\ p.reg[r] = n.mem[b] /\ p.flags = n.flags
  BY <1>1, <1>3, <1>4, <1>5
<1> QED
  BY <1>6 DEF p

\* The same for a slot.
LEMMA PopSlot ==
  ASSUME NEW n, IsMachine(n), NEW b \in Int, n.reg["rsp"] = Address(b), b \in 1..StackSize,
         NEW f \in Int, n.reg["rbp"] = Address(f), NEW k \in Int,
         NEW c \in 1..StackSize, c = f + k
  PROVE  LET p == pop(n, Mem("rbp", k))
         IN  /\ Same(n, p, {"rsp"}, {c}) /\ p.reg["rsp"] = Address(b + 1)
             /\ p.mem[c] = n.mem[b] /\ p.flags = n.flags
<1> DEFINE o == Moved(n, 1)
           p == pop(n, Mem("rbp", k))
<1>1. Same(n, o, {"rsp"}, {}) /\ o.reg["rsp"] = Address(b + 1) /\ o.flags = n.flags
  BY MoveStackPointer
<1>2. p = Store(o, Mem("rbp", k), n.mem[b])
  <2>1. b + 0 = b /\ 0 \in Int
    OBVIOUS
  <2>2. ValueOf(n, Mem("rsp", 0)) = n.mem[b]
    BY <2>1, Values
  <2> QED
    BY <2>2 DEF pop
<1> HIDE DEF o, p
<1>3. Same(o, p, {}, {c}) /\ p.mem[c] = n.mem[b] /\ p.flags = o.flags
  <2>1. IsMachine(o) /\ o.reg["rbp"] = Address(f)
    BY <1>1, Registers DEF Same, Like
  <2> QED
    BY <1>2, <2>1, SetCell
<1>4. Same(n, p, {"rsp"}, {c})
  <2>1. Same(n, p, {"rsp"} \union {}, {} \union {c})
    BY <1>1, <1>3, SameThen
  <2>2. {"rsp"} \union {} = {"rsp"} /\ {} \union {c} = {c}
    OBVIOUS
  <2> QED
    BY <2>1, <2>2
<1>5. p.reg["rsp"] = o.reg["rsp"]
  BY <1>3, Registers DEF Same, Like
<1>6. /\ Same(n, p, {"rsp"}, {c}) /\ p.reg["rsp"] = Address(b + 1)
      /\ p.mem[c] = n.mem[b] /\ p.flags = n.flags
  BY <1>1, <1>3, <1>4, <1>5
<1> QED
  BY <1>6 DEF p

\* A list of c registers, none of which is the stack pointer.
IsRegisterList(rs, c) ==
  /\ c \in Nat /\ DOMAIN rs = 1..c /\ Len(rs) = c
  /\ \A i \in 1..c : rs[i] \in MachineRegisters /\ rs[i] # "rsp"

Pushed(n, p, rs, b, c) ==
  /\ Same(n, p, {"rsp"}, (b - c)..(b - 1)) /\ p.reg["rsp"] = Address(b - c)
  /\ \A i \in 1..c : p.mem[b - i] = n.reg[rs[i]]

\* The pushes of different registers write one cell each, the first one highest.
LEMMA PushAll ==
  ASSUME NEW n, IsMachine(n), NEW rs, NEW c, IsRegisterList(rs, c),
         NEW b \in Int, n.reg["rsp"] = Address(b), b - c >= 1, b <= StackSize + 1
  PROVE  IsText(Pushes(rs)) /\ Pushed(n, Run(n, Pushes(rs)), rs, b, c)
<1> DEFINE s == Pushes(rs)
<1>1. c \in Nat /\ DOMAIN s = 1..c /\ \A i \in 1..c : s[i] = <<"push", Reg(rs[i])>>
  BY DEF IsRegisterList, Pushes
<1>2. IsText(s)
  <2> DEFINE E == {s[i] : i \in 1..c}
  <2>1. s \in [1..c -> E]
    BY DEF IsRegisterList, Pushes
  <2> HIDE DEF s, E
  <2>2. s \in Seq(E)
    BY <1>1, <2>1
  <2> QED
    BY <2>2 DEF IsText
<1> HIDE DEF s
<1>3. PICK h : Steps(h, n, s, c) /\ Run(n, s) = h[c]
  BY <1>1, RunSteps
<1> DEFINE T == {i \in 0..c : Pushed(n, h[i], rs, b, i)}
<1>4. 0 \in T
  <2>1. h[0] = n
    BY <1>3 DEF Steps
  <2>2. Same(n, n, {"rsp"}, (b - 0)..(b - 1))
    <3>1. Same(n, n, {}, {})
      BY SameSelf
    <3>2. {} \subseteq {"rsp"} /\ {} \subseteq (b - 0)..(b - 1)
      OBVIOUS
    <3> QED
      BY <3>1, <3>2, SameMore
  <2>3. Pushed(n, n, rs, b, 0)
    <3>1. b - 0 = b
      OBVIOUS
    <3> QED
      BY <2>2, <3>1 DEF Pushed
  <2> QED
    BY <1>1, <2>1, <2>3
<1>5. ASSUME NEW i \in 1..c, i - 1 \in T
      PROVE  i \in T
  <2> DEFINE o == h[i - 1]
             p == h[i]
             a == b - i
             r == rs[i]
  <2>1. Pushed(n, o, rs, b, i - 1)
    BY <1>5
  <2>2. /\ IsMachine(o) /\ o.reg["rsp"] = Address(a + 1) /\ b - (i - 1) = a + 1 /\ a + 1 \in Int
        /\ (a + 1) - 1 = a /\ a \in 1..StackSize /\ a \in Int
    <3>1. b - (i - 1) = a + 1 /\ a + 1 \in Int /\ (a + 1) - 1 = a /\ a \in 1..StackSize /\ a \in Int
      BY <1>1, StackAssumption
    <3> QED
      BY <2>1, <3>1 DEF Pushed, Same, Like
  <2>3. p = push_word(o, o.reg[r])
    <3>1. p = Execute(o, <<"push", Reg(r)>>)
      BY <1>1, <1>3 DEF Steps
    <3>2. ValueOf(o, Reg(r)) = o.reg[r]
      <4>1. 0 \in Int
        OBVIOUS
      <4> QED
        BY <4>1, Values
    <3>3. p = push(o, Reg(r))
      BY <3>1, ExecutesOfOne
    <3> QED
      BY <3>2, <3>3 DEF push
  <2>4. r \in MachineRegisters /\ r # "rsp" /\ "rsp" \in MachineRegisters
    BY Registers DEF IsRegisterList
  <2>5. o.reg[r] = n.reg[r]
    BY <2>1, <2>4 DEF Pushed, Same, Like
  <2> HIDE DEF o, p, r, a
  <2>6. Same(o, p, {"rsp"}, {a}) /\ p.reg["rsp"] = Address(a) /\ p.mem[a] = o.reg[r]
    BY <2>2, <2>3, PushWord
  <2>7. Same(n, p, {"rsp"}, a..(b - 1))
    <3>1. Same(n, o, {"rsp"}, (a + 1)..(b - 1))
      BY <2>1, <2>2 DEF Pushed
    <3>2. {"rsp"} \union {"rsp"} \subseteq {"rsp"} /\ ((a + 1)..(b - 1)) \union {a} \subseteq a..(b - 1)
      BY <1>1, <2>2 DEF a
    <3>3. Same(n, p, {"rsp"} \union {"rsp"}, ((a + 1)..(b - 1)) \union {a})
      BY <2>6, <3>1, SameThen
    <3> QED
      BY <3>2, <3>3, SameMore
  <2>8. ASSUME NEW j \in 1..i
        PROVE  p.mem[b - j] = n.reg[rs[j]]
    <3>1. CASE j = i
      BY <2>5, <2>6, <3>1 DEF a, r
    <3>2. CASE j # i
      <4>1. j \in 1..(i - 1) /\ b - j # a /\ b - j \in 0..StackSize
        BY <1>1, <3>2, StackAssumption DEF a
      <4>2. o.mem[b - j] = n.reg[rs[j]]
        BY <2>1, <4>1 DEF Pushed
      <4> QED
        BY <2>6, <4>1, <4>2 DEF Same, Like
    <3> QED
      BY <3>1, <3>2
  <2>9. Pushed(n, p, rs, b, i)
    BY <2>6, <2>7, <2>8 DEF Pushed, a
  <2> QED
    BY <2>9 DEF p
<1>6. c \in T
  <2>1. c \in 0..c
    BY <1>1
  <2> HIDE DEF T
  <2> QED
    BY <1>1, <1>4, <1>5, <2>1, UpTo
<1> QED
  BY <1>2, <1>3, <1>6 DEF s

\* The registers between d and c of the list are taken from the stack.
Popped(n, p, rs, b, c, d) ==
  /\ Same(n, p, {"rsp"} \union {rs[i] : i \in (d + 1)..c}, {}) /\ p.reg["rsp"] = Address(b + (c - d))
  /\ \A i \in (d + 1)..c : p.reg[rs[i]] = n.mem[b + c - i]

\* The pops in the opposite order give every register its cell back.
LEMMA PopAll ==
  ASSUME NEW n, IsMachine(n), NEW rs, NEW c, IsRegisterList(rs, c),
         \A i, j \in 1..c : rs[i] = rs[j] => i = j,
         NEW b \in Int, n.reg["rsp"] = Address(b), b >= 1, b + c <= StackSize + 1
  PROVE  IsText(Pops(Reverse(rs))) /\ Popped(n, Run(n, Pops(Reverse(rs))), rs, b, c, 0)
<1> DEFINE s == Pops(Reverse(rs))
<1>1. c \in Nat /\ DOMAIN s = 1..c /\ \A i \in 1..c : s[i] = <<"pop", Reg(rs[c - i + 1])>>
  BY DEF IsRegisterList, Pops, Reverse
<1>2. IsText(s)
  <2> DEFINE E == {s[i] : i \in 1..c}
  <2>1. s \in [1..c -> E]
    BY DEF IsRegisterList, Pops, Reverse
  <2> HIDE DEF s, E
  <2>2. s \in Seq(E)
    BY <1>1, <2>1
  <2> QED
    BY <2>2 DEF IsText
<1> HIDE DEF s
<1>3. PICK h : Steps(h, n, s, c) /\ Run(n, s) = h[c]
  BY <1>1, RunSteps
<1> DEFINE T == {i \in 0..c : Popped(n, h[i], rs, b, c, c - i)}
<1>4. 0 \in T
  <2>1. h[0] = n
    BY <1>3 DEF Steps
  <2>2. Same(n, n, {"rsp"} \union {rs[i] : i \in (c + 1)..c}, {})
    <3>1. Same(n, n, {}, {})
      BY SameSelf
    <3> QED
      BY <3>1, SameMore
  <2>3. Popped(n, n, rs, b, c, c)
    <3>1. b + (c - c) = b /\ (c + 1)..c = {}
      BY <1>1
    <3> QED
      BY <2>2, <3>1 DEF Popped
  <2>4. c - 0 = c /\ 0 \in 0..c
    BY <1>1
  <2> QED
    BY <2>1, <2>3, <2>4
<1>5. ASSUME NEW i \in 1..c, i - 1 \in T
      PROVE  i \in T
  <2> DEFINE o == h[i - 1]
             p == h[i]
             d == c - i
             a == b + i - 1
             r == rs[d + 1]
  <2>1. Popped(n, o, rs, b, c, d + 1) /\ d + 1 \in 1..c /\ d \in Nat /\ d < c
    <3>1. c - (i - 1) = d + 1 /\ d + 1 \in 1..c /\ d \in Nat /\ d < c
      BY <1>1
    <3>2. Popped(n, o, rs, b, c, c - (i - 1))
      BY <1>5
    <3> QED
      BY <3>1, <3>2
  <2>2. /\ IsMachine(o) /\ o.reg["rsp"] = Address(a) /\ a \in Int /\ a \in 1..StackSize
        /\ b + (c - d) = a + 1
    <3>1. b + (c - (d + 1)) = a /\ a \in Int /\ a \in 1..StackSize /\ b + (c - d) = a + 1
      BY <1>1, StackAssumption
    <3> QED
      BY <2>1, <3>1 DEF Popped, Same, Like
  <2>3. p = pop(o, Reg(r))
    <3>1. c - i + 1 = d + 1
      OBVIOUS
    <3>2. p = Execute(o, <<"pop", Reg(r)>>)
      BY <1>1, <1>3, <3>1 DEF Steps
    <3> QED
      BY <3>2, ExecutesOfOne
  <2>4. r \in MachineRegisters /\ r # "rsp"
    BY <2>1 DEF IsRegisterList
  <2>5. o.mem[a] = n.mem[a]
    <3>1. a \in 0..StackSize /\ a \notin {}
      BY <2>2
    <3> QED
      BY <2>1, <3>1 DEF Popped, Same, Like
  <2>6. b + c - (d + 1) = a
    BY <1>1
  <2> HIDE DEF o, p, r, a
  <2>7. Same(o, p, {"rsp", r}, {}) /\ p.reg["rsp"] = Address(a + 1) /\ p.reg[r] = o.mem[a]
    BY <2>2, <2>3, <2>4, PopRegister
  <2>8. Same(n, p, {"rsp"} \union {rs[j] : j \in (d + 1)..c}, {})
    <3>1. Same(n, o, {"rsp"} \union {rs[j] : j \in ((d + 1) + 1)..c}, {})
      BY <2>1 DEF Popped
    <3> DEFINE U == {"rsp"} \union {rs[j] : j \in ((d + 1) + 1)..c}
               V == {"rsp"} \union {rs[j] : j \in (d + 1)..c}
    <3>2. U \subseteq V /\ "rsp" \in V /\ r \in V
      BY <1>1, <2>1 DEF r
    <3> HIDE DEF U, V
    <3>3. Same(n, p, U \union {"rsp", r}, {} \union {})
      BY <2>7, <3>1, SameThen DEF U
    <3>4. U \union {"rsp", r} \subseteq V /\ {} \union {} \subseteq {}
      BY <3>2
    <3>5. Same(n, p, V, {})
      BY <3>3, <3>4, SameMore
    <3> QED
      BY <3>5 DEF V
  <2>9. ASSUME NEW j \in (d + 1)..c
        PROVE  p.reg[rs[j]] = n.mem[b + c - j]
    <3>1. CASE j = d + 1
      BY <2>5, <2>6, <2>7, <3>1 DEF r
    <3>2. CASE j # d + 1
      <4>1. j \in ((d + 1) + 1)..c /\ j \in 1..c
        BY <1>1, <2>1, <3>2
      <4>2. o.reg[rs[j]] = n.mem[b + c - j]
        BY <2>1, <4>1 DEF Popped
      <4>3. rs[j] # r /\ rs[j] # "rsp" /\ rs[j] \in MachineRegisters
        BY <2>1, <3>2, <4>1 DEF IsRegisterList, r
      <4> QED
        BY <2>7, <4>2, <4>3 DEF Same, Like
    <3> QED
      BY <3>1, <3>2
  <2>10. Popped(n, p, rs, b, c, d)
    BY <2>2, <2>7, <2>8, <2>9 DEF Popped
  <2> QED
    BY <2>10 DEF p, d
<1>6. c \in T
  <2>1. c \in 0..c
    BY <1>1
  <2> HIDE DEF T
  <2> QED
    BY <1>1, <1>4, <1>5, <2>1, UpTo
<1>7. c - c = 0
  BY <1>1
<1> QED
  BY <1>2, <1>3, <1>6, <1>7 DEF s

\* Where values may be kept: the allocatable registers and the slots.
Places == {Reg(r) : r \in Kept_Registers} \union {Mem("rbp", -k) : k \in 1..SpillCount}
Good(x) == x \in Places \/ x = Imm(x[2])

\* The register or the cell a place is, in a frame at f.
RegOf(y) == IF is_virtual_reg(y) THEN {} ELSE {y[2]}
CellOf(f, y) == IF is_virtual_reg(y) THEN {f + y[3]} ELSE {}

\* The frame pointer is f and all slots are in the stack.
Based(n, f) ==
  /\ IsMachine(n) /\ f \in Int /\ n.reg["rbp"] = Address(f)
  /\ f <= StackSize /\ f - SpillCount >= 1

\* A place is a register that calls save or a slot of the frame.
LEMMA PlaceKinds ==
  ASSUME NEW y \in Places
  PROVE  /\ ~is_const_instruction(y) /\ y # NoValue /\ ~(y[1] = "upper")
         /\ \/ /\ ~is_virtual_reg(y) /\ y[2] \in Kept_Registers /\ y = Reg(y[2]) /\ y[1] = "reg"
               /\ ~IsMemory(y)
            \/ /\ is_virtual_reg(y) /\ y[3] \in Int /\ -y[3] \in 1..SpillCount
               /\ y = Mem("rbp", y[3]) /\ y[2] = "rbp" /\ IsMemory(y)
<1>1. CASE \E r \in Kept_Registers : y = Reg(r)
  BY <1>1 DEF Reg, is_const_instruction, is_virtual_reg, NoValue, IsMemory
<1>2. CASE \E k \in 1..SpillCount : y = Mem("rbp", -k)
  <2>1. PICK k \in 1..SpillCount : y = Mem("rbp", -k)
    BY <1>2
  <2>2. k \in Int /\ -k \in Int /\ -(-k) = k
    BY FrameAssumption
  <2>3. y[1] = "mem" /\ y[2] = "rbp" /\ y[3] = -k
    BY <2>1 DEF Mem
  <2>4. y # NoValue
    BY <2>1 DEF Mem, NoValue
  <2> QED
    BY <2>1, <2>2, <2>3, <2>4 DEF is_const_instruction, is_virtual_reg, IsMemory
<1> QED
  BY <1>1, <1>2 DEF Places

\* A register has its value itself, a slot has it in its cell below the frame.
LEMMA PlaceValue ==
  ASSUME NEW n, NEW f, Based(n, f), NEW y \in Places
  PROVE  /\ is_virtual_reg(y) => /\ ValueOf(n, y) = n.mem[f + y[3]] /\ f + y[3] \in 1..StackSize
                                 /\ f + y[3] \in (f - SpillCount)..(f - 1)
         /\ ~is_virtual_reg(y) => ValueOf(n, y) = n.reg[y[2]] /\ y[2] \in MachineRegisters
<1>1. CASE ~is_virtual_reg(y)
  <2>1. y = Reg(y[2]) /\ y[2] \in Kept_Registers
    BY <1>1, PlaceKinds
  <2>2. ValueOf(n, Reg(y[2])) = n.reg[y[2]]
    <3>1. 0 \in Int
      OBVIOUS
    <3> QED
      BY <3>1, Values
  <2> QED
    BY <1>1, <2>1, <2>2, Registers
<1>2. CASE is_virtual_reg(y)
  <2> DEFINE k == y[3]
  <2>1. y = Mem("rbp", k) /\ k \in Int /\ -k \in 1..SpillCount
    BY <1>2, PlaceKinds
  <2> HIDE DEF k
  <2>2. f + k \in 1..StackSize /\ f + k \in (f - SpillCount)..(f - 1)
    BY <2>1, FrameAssumption, StackAssumption DEF Based
  <2>3. ValueOf(n, Mem("rbp", k)) = n.mem[f + k]
    BY <2>1, <2>2, Values DEF Based
  <2> QED
    BY <1>2, <2>1, <2>2, <2>3 DEF k
<1> QED
  BY <1>1, <1>2

\* Different places share no register and no cell.
LEMMA PlacesApart ==
  ASSUME NEW x \in Places, NEW y \in Places, x # y, NEW f \in Int
  PROVE  RegOf(x) \intersect RegOf(y) = {} /\ CellOf(f, x) \intersect CellOf(f, y) = {}
<1>1. CASE ~is_virtual_reg(x) /\ ~is_virtual_reg(y)
  BY <1>1, PlaceKinds DEF RegOf, CellOf
<1>2. CASE is_virtual_reg(x) /\ is_virtual_reg(y)
  <2>1. x[3] # y[3] /\ x[3] \in Int /\ y[3] \in Int
    BY <1>2, PlaceKinds
  <2> QED
    BY <1>2, <2>1 DEF RegOf, CellOf
<1> QED
  BY <1>1, <1>2 DEF RegOf, CellOf

\* A place keeps its value where neither its register nor its cell changes.
LEMMA PlaceKept ==
  ASSUME NEW n, NEW f, Based(n, f), NEW p, NEW R, NEW C, Like(n, p, R, C), "rbp" \notin R
  PROVE  /\ Based(p, f)
         /\ \A y \in Places : /\ RegOf(y) \intersect R = {}
                              /\ CellOf(f, y) \intersect C = {}
                              => ValueOf(p, y) = ValueOf(n, y)
         /\ \A c : ValueOf(p, Imm(c)) = ValueOf(n, Imm(c))
<1>1. Based(p, f)
  BY Registers DEF Based, Like
<1>2. ASSUME NEW y \in Places, RegOf(y) \intersect R = {}, CellOf(f, y) \intersect C = {}
      PROVE  ValueOf(p, y) = ValueOf(n, y)
  <2>1. CASE ~is_virtual_reg(y)
    <3>1. y[2] \notin R
      BY <1>2, <2>1 DEF RegOf
    <3>2. p.reg[y[2]] = n.reg[y[2]]
      BY <2>1, <3>1, PlaceValue DEF Like
    <3> QED
      BY <1>1, <2>1, <3>2, PlaceValue
  <2>2. CASE is_virtual_reg(y)
    <3>1. f + y[3] \notin C /\ f + y[3] \in 0..StackSize
      <4>1. f + y[3] \in 1..StackSize
        BY <2>2, PlaceValue
      <4> QED
        BY <1>2, <2>2, <4>1 DEF CellOf
    <3>2. p.mem[f + y[3]] = n.mem[f + y[3]]
      BY <3>1 DEF Like
    <3> QED
      BY <1>1, <2>2, <3>2, PlaceValue
  <2> QED
    BY <2>1, <2>2
<1>3. ASSUME NEW c
      PROVE  ValueOf(p, Imm(c)) = ValueOf(n, Imm(c))
  BY ConstantValue
<1> QED
  BY <1>1, <1>2, <1>3

\* A write into a place changes only that.
LEMMA StorePlace ==
  ASSUME NEW n, NEW f, Based(n, f), NEW y \in Places, NEW w
  PROVE  LET p == Store(n, y, w)
         IN  /\ Same(n, p, RegOf(y), CellOf(f, y)) /\ ValueOf(p, y) = w /\ p.flags = n.flags
             /\ Based(p, f)
<1> DEFINE p == Store(n, y, w)
<1>1. CASE ~is_virtual_reg(y)
  <2> DEFINE r == y[2]
  <2>1. y = Reg(r) /\ r \in MachineRegisters /\ RegOf(y) = {r} /\ CellOf(f, y) = {} /\ r # "rbp"
    BY <1>1, PlaceKinds, Registers DEF RegOf, CellOf
  <2> HIDE DEF r
  <2>2. Same(n, p, {r}, {}) /\ p.reg[r] = w /\ p.flags = n.flags
    BY <2>1, SetRegister DEF Based
  <2> HIDE DEF p
  <2>3. Based(p, f)
    BY <2>1, <2>2, PlaceKept DEF Same
  <2>4. ValueOf(p, y) = w
    BY <1>1, <2>2, <2>3, PlaceValue DEF r
  <2> QED
    BY <2>1, <2>2, <2>3, <2>4 DEF p
<1>2. CASE is_virtual_reg(y)
  <2> DEFINE k == y[3]
             c == f + k
  <2>1. y = Mem("rbp", k) /\ k \in Int /\ RegOf(y) = {} /\ CellOf(f, y) = {c}
    BY <1>2, PlaceKinds DEF RegOf, CellOf
  <2>2. c \in 1..StackSize
    BY <1>2, PlaceValue
  <2>3. IsMachine(n) /\ n.reg["rbp"] = Address(f) /\ f \in Int /\ c = f + k
    BY DEF Based
  <2> HIDE DEF k, c
  <2>4. Same(n, p, {}, {c}) /\ p.mem[c] = w /\ p.flags = n.flags
    BY <2>1, <2>2, <2>3, SetCell
  <2> HIDE DEF p
  <2>5. Based(p, f)
    BY <2>1, <2>4, PlaceKept DEF Same
  <2>6. ValueOf(p, y) = w
    BY <1>2, <2>4, <2>5, PlaceValue DEF c, k
  <2> QED
    BY <2>1, <2>4, <2>5, <2>6 DEF p
<1> QED
  BY <1>1, <1>2

\* A mov into a register works with every source.
LEMMA MovToRegister ==
  ASSUME NEW n, IsMachine(n), NEW x, NEW r \in MachineRegisters
  PROVE  LET p == Execute(n, <<"mov", x, Reg(r)>>)
         IN  Same(n, p, {r}, {}) /\ p.reg[r] = ValueOf(n, x) /\ p.flags = n.flags
<1>1. ~IsMemory(Reg(r)) /\ Reg(r)[1] # "mem" /\ Reg(r)[1] # "upper"
  BY DEF Reg, IsMemory
<1>2. mov(n, x, Reg(r)) = Store(n, Reg(r), ValueOf(n, x))
  BY <1>1, Zenon DEF mov
<1>3. Execute(n, <<"mov", x, Reg(r)>>) = Store(n, Reg(r), ValueOf(n, x))
  BY <1>2, ExecutesOfTwo
<1> QED
  BY <1>3, SetRegister

\* A mov into a place works unless both operands are in memory or a constant goes to
\* a slot.
LEMMA MovToPlace ==
  ASSUME NEW n, NEW f, Based(n, f), NEW x, NEW y \in Places,
         \/ ~is_virtual_reg(y)
         \/ \E r : x = Reg(r)
  PROVE  LET p == Execute(n, <<"mov", x, y>>)
         IN  /\ Same(n, p, RegOf(y), CellOf(f, y)) /\ ValueOf(p, y) = ValueOf(n, x)
             /\ p.flags = n.flags /\ Based(p, f)
<1>1. mov(n, x, y) = Store(n, y, ValueOf(n, x))
  <2>1. ~(y[1] = "upper") /\ ~(IsMemory(x) /\ IsMemory(y)) /\ ~(x[1] = "imm" /\ y[1] = "mem")
    <3>1. CASE ~is_virtual_reg(y)
      BY <3>1, PlaceKinds DEF is_virtual_reg
    <3>2. CASE \E r : x = Reg(r)
      BY <3>2, PlaceKinds DEF Reg, IsMemory
    <3> QED
      BY <3>1, <3>2
  <2> QED
    BY <2>1, Zenon DEF mov
<1>2. Execute(n, <<"mov", x, y>>) = Store(n, y, ValueOf(n, x))
  BY <1>1, ExecutesOfTwo
<1> QED
  BY <1>2, StorePlace

\* A constant goes to a slot in two halves.
LEMMA MovConstantToSlot ==
  ASSUME NEW n, NEW f, Based(n, f), NEW c, NEW y \in Places, is_virtual_reg(y)
  PROVE  LET o == Execute(n, <<"mov", Imm(c), UpperHalf(y[2], y[3])>>)
             p == Execute(o, <<"mov", Imm(c), y>>)
         IN  Same(n, p, {}, CellOf(f, y)) /\ ValueOf(p, y) = ValueOf(n, Imm(c)) /\ p.flags = n.flags
<1> DEFINE k == y[3]
           w == Const(c)
           old == ValueOf(n, y)
           o == Execute(n, <<"mov", Imm(c), UpperHalf("rbp", k)>>)
           p == Execute(o, <<"mov", Imm(c), y>>)
<1>1. y = Mem("rbp", k) /\ k \in Int /\ y[2] = "rbp" /\ y[1] = "mem"
  BY PlaceKinds DEF is_virtual_reg
<1>2. f + k \in 1..StackSize
  BY PlaceValue
<1>3. Imm(c)[1] = "imm" /\ ~IsMemory(Imm(c)) /\ \A q : ValueOf(q, Imm(c)) = w
  <2>1. Imm(c)[1] = "imm" /\ ~IsMemory(Imm(c))
    BY DEF Imm, IsMemory
  <2> QED
    BY <2>1, ConstantValue
<1>4. o = Store(n, y, Halves(w, Lower(old)))
  <2> DEFINE u == UpperHalf("rbp", k)
  <2>1. u[1] = "upper" /\ u[1] # "mem" /\ u[1] # "reg" /\ u[2] = "rbp" /\ u[3] = k
    BY DEF UpperHalf
  <2>2. ValueOf(n, u) = old
    <3>1. ValueOf(n, u) = n.mem[f + k] /\ ValueOf(n, Mem("rbp", k)) = n.mem[f + k]
      BY <1>1, <1>2, Values DEF Based
    <3> QED
      BY <1>1, <3>1
  <2>3. mov(n, Imm(c), u) = Store(n, u, Halves(w, Lower(old)))
    <3> HIDE DEF u, w, old
    <3> QED
      BY <1>3, <2>1, <2>2, Zenon DEF mov
  <2>4. \A v : Store(n, u, v) = Store(n, y, v)
    <3>1. y[2] = "rbp" /\ y[3] = k /\ y[1] # "reg"
      BY <1>1
    <3> HIDE DEF u, k
    <3> QED
      BY <2>1, <3>1, Zenon DEF Store
  <2> HIDE DEF u
  <2>5. Execute(n, <<"mov", Imm(c), u>>) = mov(n, Imm(c), u)
    BY ExecutesOfTwo
  <2> QED
    BY <2>3, <2>4, <2>5 DEF u
<1> HIDE DEF o
<1>5. Same(n, o, RegOf(y), CellOf(f, y)) /\ ValueOf(o, y) = Halves(w, Lower(old)) /\ o.flags = n.flags
      /\ Based(o, f)
  BY <1>4, StorePlace
<1>6. p = Store(o, y, w)
  <2>1. mov(o, Imm(c), y) = Store(o, y, Halves(Upper(ValueOf(o, y)), w))
    BY <1>1, <1>3, Zenon DEF mov
  <2>2. Halves(Upper(ValueOf(o, y)), w) = w
    <3>1. Upper(Halves(w, Lower(old))) = w
      <4>1. w[1] # "mixed"
        BY DEF Const
      <4> HIDE DEF w, old
      <4>2. CASE w = Lower(old)
        BY <4>1, <4>2 DEF Halves, Upper
      <4>3. CASE w # Lower(old)
        BY <4>3 DEF Halves, Upper
      <4> QED
        BY <4>2, <4>3
    <3> QED
      BY <1>5, <3>1 DEF Halves
  <2> QED
    BY <2>1, <2>2, ExecutesOfTwo
<1> HIDE DEF p
<1>7. Same(o, p, RegOf(y), CellOf(f, y)) /\ ValueOf(p, y) = w /\ p.flags = o.flags
  BY <1>5, <1>6, StorePlace
<1>8. Same(n, p, RegOf(y), CellOf(f, y))
  <2>1. Same(n, p, RegOf(y) \union RegOf(y), CellOf(f, y) \union CellOf(f, y))
    BY <1>5, <1>7, SameThen
  <2> QED
    BY <2>1, SameMore
<1>9. RegOf(y) = {}
  BY DEF RegOf
<1> QED
  BY <1>1, <1>3, <1>5, <1>7, <1>8, <1>9 DEF o, p

\* p is n with the value w moved to y, by way of r11 perhaps.
MovesTo(n, p, f, y, w) ==
  /\ Same(n, p, {"r11"} \union RegOf(y), CellOf(f, y)) /\ ValueOf(p, y) = w /\ p.flags = n.flags
  /\ Based(p, f)

\* The text of a mov moves any value to any place.
LEMMA MovInstruction ==
  ASSUME NEW n, NEW f, Based(n, f), NEW x, Good(x), NEW y \in Places
  PROVE  IsText(mov_instruction(x, y)) /\ MovesTo(n, Run(n, mov_instruction(x, y)), f, y, ValueOf(n, x))
<1>0. "rbp" \notin {"r11"} \union RegOf(y) /\ "r11" \in MachineRegisters /\ "r11" \notin RegOf(y)
  BY PlaceKinds, Registers DEF RegOf
<1>a. ASSUME NEW R, NEW C, NEW p, Same(n, p, R, C), ValueOf(p, y) = ValueOf(n, x), p.flags = n.flags,
             R \subseteq {"r11"} \union RegOf(y), C \subseteq CellOf(f, y)
      PROVE  MovesTo(n, p, f, y, ValueOf(n, x))
  <2>1. Same(n, p, {"r11"} \union RegOf(y), CellOf(f, y))
    BY <1>a, SameMore
  <2>2. Based(p, f)
    BY <1>0, <2>1, PlaceKept DEF Same
  <2> QED
    BY <1>a, <2>1, <2>2 DEF MovesTo
<1>1. CASE x = y
  <2>1. mov_instruction(x, y) = <<>>
    BY <1>1 DEF mov_instruction
  <2>2. Same(n, n, {}, {})
    BY SameSelf DEF Based
  <2>3. MovesTo(n, n, f, y, ValueOf(n, x))
    BY <1>1, <1>a, <2>2
  <2> QED
    BY <2>1, <2>3, RunNothing
<1>2. CASE x # y /\ is_virtual_reg(x) /\ is_virtual_reg(y)
  <2> DEFINE o == Execute(n, <<"mov", x, R11>>)
             p == Execute(o, <<"mov", R11, y>>)
  <2>1. mov_instruction(x, y) = <<<<"mov", x, R11>>, <<"mov", R11, y>>>>
    BY <1>2 DEF mov_instruction
  <2>2. Same(n, o, {"r11"}, {}) /\ o.reg["r11"] = ValueOf(n, x) /\ o.flags = n.flags
    BY <1>0, MovToRegister DEF R11, Based
  <2> HIDE DEF o
  <2>3. Based(o, f)
    BY <2>2, PlaceKept DEF Same
  <2>4. Same(o, p, RegOf(y), CellOf(f, y)) /\ ValueOf(p, y) = ValueOf(o, R11) /\ p.flags = o.flags
    BY <2>3, MovToPlace DEF R11
  <2>5. ValueOf(o, R11) = o.reg["r11"]
    <3>1. 0 \in Int
      OBVIOUS
    <3> QED
      BY <3>1, Values DEF R11
  <2> HIDE DEF p
  <2>6. Same(n, p, {"r11"} \union RegOf(y), {} \union CellOf(f, y))
    BY <2>2, <2>4, SameThen
  <2>7. MovesTo(n, p, f, y, ValueOf(n, x))
    BY <1>a, <2>2, <2>4, <2>5, <2>6
  <2> QED
    BY <2>1, <2>7, RunTwo DEF o, p
<1>3. CASE x # y /\ is_const_instruction(x) /\ is_virtual_reg(y)
  <2> DEFINE o == Execute(n, <<"mov", x, UpperHalf(y[2], y[3])>>)
             p == Execute(o, <<"mov", x, y>>)
  <2>1. x = Imm(x[2]) /\ ~is_virtual_reg(x)
    BY <1>3, PlaceKinds DEF Good, is_const_instruction, is_virtual_reg
  <2>2. mov_instruction(x, y) = <<<<"mov", x, UpperHalf(y[2], y[3])>>, <<"mov", x, y>>>>
    BY <1>3, <2>1 DEF mov_instruction
  <2>3. Same(n, p, {}, CellOf(f, y)) /\ ValueOf(p, y) = ValueOf(n, x) /\ p.flags = n.flags
    BY <1>3, <2>1, MovConstantToSlot
  <2> HIDE DEF o, p
  <2>4. MovesTo(n, p, f, y, ValueOf(n, x))
    BY <1>a, <2>3
  <2> QED
    BY <2>2, <2>4, RunTwo DEF o, p
<1>4. CASE x # y /\ ~(is_virtual_reg(x) /\ is_virtual_reg(y)) /\ ~(is_const_instruction(x) /\ is_virtual_reg(y))
  <2> DEFINE p == Execute(n, <<"mov", x, y>>)
  <2>1. mov_instruction(x, y) = <<<<"mov", x, y>>>>
    BY <1>4 DEF mov_instruction
  <2>2. ~is_virtual_reg(y) \/ \E r : x = Reg(r)
    BY <1>4, PlaceKinds DEF Good, is_const_instruction, Imm
  <2>3. Same(n, p, RegOf(y), CellOf(f, y)) /\ ValueOf(p, y) = ValueOf(n, x) /\ p.flags = n.flags
    BY <2>2, MovToPlace
  <2> HIDE DEF p
  <2>4. MovesTo(n, p, f, y, ValueOf(n, x))
    BY <1>a, <2>3
  <2> QED
    BY <2>1, <2>4, RunOne DEF p
<1> QED
  BY <1>1, <1>2, <1>3, <1>4

\* A body runs: the frame is at f and the stack pointer at s, with room below it
\* for what an instruction pushes.
Framed(n, f, s) ==
  Based(n, f) /\ s \in Int /\ n.reg["rsp"] = Address(s) /\ 7 <= s /\ s <= f - SpillCount

SlotCells(f) == (f - SpillCount)..(f - 1)

\* p has in every place but those of L what n has, and in every cell from s on
\* that is not a slot.
Holds(n, p, f, s, L) ==
  /\ Based(p, f)
  /\ \A y \in Places : y \notin L => ValueOf(p, y) = ValueOf(n, y)
  /\ \A a \in s..StackSize : a \notin SlotCells(f) => p.mem[a] = n.mem[a]

Keeps(n, p, f, s, L) == Holds(n, p, f, s, L) /\ p.reg["rsp"] = Address(s)

\* Holds composes with what changes only the places in L, r11 and cells below the
\* stack pointer.
LEMMA HoldsSelf ==
  ASSUME NEW n, NEW f, NEW s, Framed(n, f, s)
  PROVE  Holds(n, n, f, s, {})
BY DEF Holds, Framed

LEMMA HoldsThen ==
  ASSUME NEW n, NEW p, NEW q, NEW f, NEW s, NEW L, NEW R, NEW C, Holds(n, p, f, s, L), s \in Int,
         1 <= s, Like(p, q, R, C), "rbp" \notin R,
         \A y \in Places : y \notin L => RegOf(y) \intersect R = {} /\ CellOf(f, y) \intersect C = {},
         \A a \in C : a \in s..StackSize => a \in SlotCells(f)
  PROVE  Holds(n, q, f, s, L)
<1>1. Based(p, f)
  BY DEF Holds
<1>2. Based(q, f) /\ \A y \in Places : y \notin L => ValueOf(q, y) = ValueOf(p, y)
  BY <1>1, PlaceKept
<1>3. ASSUME NEW a \in s..StackSize, a \notin SlotCells(f)
      PROVE  q.mem[a] = p.mem[a]
  <2>1. a \in 0..StackSize /\ a \notin C
    BY <1>3
  <2> QED
    BY <2>1 DEF Like
<1> QED
  BY <1>2, <1>3 DEF Holds

LEMMA HoldsMore ==
  ASSUME NEW n, NEW p, NEW f, NEW s, NEW L, NEW L2, Holds(n, p, f, s, L),
         \A y \in L : y \in L2 \/ ValueOf(p, y) = ValueOf(n, y)
  PROVE  Holds(n, p, f, s, L2)
BY DEF Holds

\* The cells below s hold no place.
LEMMA BelowIsFree ==
  ASSUME NEW n, NEW f, NEW s, Framed(n, f, s), NEW y \in Places
  PROVE  /\ CellOf(f, y) \intersect (0..(s - 1)) = {}
         /\ \A a \in CellOf(f, y) : a \in SlotCells(f)
         /\ RegOf(y) \intersect {"rsp", "rbp", "r11"} = {}
<1>1. CASE is_virtual_reg(y)
  <2>1. f + y[3] \in (f - SpillCount)..(f - 1) /\ CellOf(f, y) = {f + y[3]} /\ RegOf(y) = {}
    BY <1>1, PlaceValue DEF Framed, CellOf, RegOf
  <2>2. f + y[3] \notin 0..(s - 1)
    <3>1. s \in Int /\ SpillCount \in Int /\ f \in Int /\ s <= f - SpillCount
      BY FrameAssumption DEF Framed, Based
    <3>2. f + y[3] \in Int /\ f + y[3] >= f - SpillCount
      BY <2>1, <3>1
    <3> QED
      BY <3>1, <3>2
  <2> QED
    BY <2>1, <2>2 DEF SlotCells
<1>2. CASE ~is_virtual_reg(y)
  BY <1>2, PlaceKinds, Registers DEF CellOf, RegOf
<1> QED
  BY <1>1, <1>2

\* p computes the value w into y.
Computes(n, p, f, y, w) ==
  Same(n, p, {"r11"} \union RegOf(y), CellOf(f, y)) /\ ValueOf(p, y) = w /\ Based(p, f)

\* What computes a value for y and touches only r11 besides keeps all other places.
LEMMA ComputesKeeps ==
  ASSUME NEW n, NEW p, NEW f, NEW s, Framed(n, f, s), NEW y \in Places, NEW w, Computes(n, p, f, y, w)
  PROVE  Keeps(n, p, f, s, {y}) /\ ValueOf(p, y) = w /\ p.inputs = n.inputs /\ p.seen = n.seen
<1>1. Like(n, p, {"r11"} \union RegOf(y), CellOf(f, y))
  BY DEF Computes, Same
<1>2. "rbp" \notin {"r11"} \union RegOf(y) /\ "rsp" \notin {"r11"} \union RegOf(y) /\ "rsp" \in MachineRegisters
  BY BelowIsFree, Registers
<1>3. ASSUME NEW z \in Places, z \notin {y}
      PROVE  RegOf(z) \intersect ({"r11"} \union RegOf(y)) = {} /\ CellOf(f, z) \intersect CellOf(f, y) = {}
  <2>1. RegOf(z) \intersect RegOf(y) = {} /\ CellOf(f, z) \intersect CellOf(f, y) = {}
    BY <1>3, PlacesApart DEF Framed, Based
  <2> QED
    BY <2>1, BelowIsFree
<1>4. \A a \in CellOf(f, y) : a \in s..StackSize => a \in SlotCells(f)
  BY BelowIsFree
<1>5. Holds(n, n, f, s, {y}) /\ s \in Int /\ 1 <= s
  BY HoldsSelf, HoldsMore DEF Framed
<1>6. Holds(n, p, f, s, {y})
  BY <1>1, <1>2, <1>3, <1>4, <1>5, HoldsThen
<1>7. p.reg["rsp"] = Address(s)
  BY <1>1, <1>2 DEF Like, Framed
<1> QED
  BY <1>6, <1>7 DEF Computes, Keeps, Same

\* A mov is such a computation.
LEMMA MovesCompute ==
  ASSUME NEW n, NEW p, NEW f, NEW y, NEW w, MovesTo(n, p, f, y, w)
  PROVE  Computes(n, p, f, y, w)
BY DEF MovesTo, Computes

-----------------------------------------------------------------------------
(* add and sub.                                                            *)

\* So is an addition or subtraction that is not of a constant in memory.
LEMMA ArithmeticStep ==
  ASSUME NEW n, NEW f, Based(n, f), NEW y \in Places, NEW x, NEW op \in {"add", "sub"},
         is_virtual_reg(y) => ~IsMemory(x) /\ x[1] # "imm"
  PROVE  Computes(n, Execute(n, <<op, x, y>>), f, y, Arithmetic(op, ValueOf(n, y), ValueOf(n, x)))
<1> DEFINE d == [n EXCEPT !.flags = Junk]
           w == Arithmetic(op, ValueOf(n, y), ValueOf(n, x))
           p == Store(d, y, w)
<1>1. Execute(n, <<op, x, y>>) = p
  <2>1. Execute(n, <<op, x, y>>) = arithmetic(n, op, x, y)
    BY ExecutesOfTwo
  <2>2. ~(IsMemory(x) /\ IsMemory(y)) /\ ~(x[1] = "imm" /\ IsMemory(y))
    BY PlaceKinds
  <2>3. arithmetic(n, op, x, y) = p
    BY <2>2, Zenon DEF arithmetic
  <2> QED
    BY <2>1, <2>3
<1>2. IsMachine(d) /\ d.reg = n.reg /\ d.mem = n.mem /\ d.inputs = n.inputs /\ d.seen = n.seen
  BY DEF IsMachine, Based
<1> HIDE DEF d, w
<1>3. Based(d, f)
  BY <1>2 DEF Based
<1>4. Same(d, p, RegOf(y), CellOf(f, y)) /\ ValueOf(p, y) = w /\ Based(p, f)
  BY <1>3, StorePlace
<1>5. Same(n, p, RegOf(y), CellOf(f, y))
  BY <1>2, <1>4 DEF Same, Like
<1>6. Same(n, p, {"r11"} \union RegOf(y), CellOf(f, y))
  BY <1>5, SameMore
<1> QED
  BY <1>1, <1>4, <1>6 DEF Computes, w

\* And one that goes through r11.
LEMMA ThroughR11 ==
  ASSUME NEW n, NEW o, NEW p, NEW f, NEW y \in Places, NEW w, Same(n, o, {"r11"}, {}),
         Computes(o, p, f, y, w)
  PROVE  Computes(n, p, f, y, w)
<1>1. Same(n, p, {"r11"} \union ({"r11"} \union RegOf(y)), {} \union CellOf(f, y))
  BY SameThen DEF Computes
<1>2. Same(n, p, {"r11"} \union RegOf(y), CellOf(f, y))
  BY <1>1, SameMore
<1> QED
  BY <1>2 DEF Computes

\* A mov to r11 changes the value of no place.
LEMMA ToR11 ==
  ASSUME NEW n, NEW f, Based(n, f), NEW x
  PROVE  LET p == Execute(n, <<"mov", x, R11>>)
         IN  /\ Same(n, p, {"r11"}, {}) /\ p.reg["r11"] = ValueOf(n, x) /\ p.flags = n.flags /\ Based(p, f)
             /\ ValueOf(p, R11) = ValueOf(n, x)
             /\ \A y \in Places : ValueOf(p, y) = ValueOf(n, y)
<1> DEFINE p == Execute(n, <<"mov", x, Reg("r11")>>)
<1>0. IsMachine(n) /\ "r11" \in MachineRegisters
  BY Registers DEF Based
<1>1. Same(n, p, {"r11"}, {}) /\ p.reg["r11"] = ValueOf(n, x) /\ p.flags = n.flags
  BY <1>0, MovToRegister
<1> HIDE DEF p
<1>2. Based(p, f)
  BY <1>1, PlaceKept DEF Same
<1>3. ValueOf(p, Reg("r11")) = p.reg["r11"]
  <2>1. 0 \in Int
    OBVIOUS
  <2> QED
    BY <2>1, Values
<1>4. ASSUME NEW y \in Places
      PROVE  ValueOf(p, y) = ValueOf(n, y)
  <2>1. RegOf(y) \intersect {"r11"} = {}
    BY PlaceKinds, Registers DEF RegOf
  <2> QED
    BY <1>1, <2>1, PlaceKept DEF Same
<1> QED
  BY <1>1, <1>2, <1>3, <1>4 DEF p, R11

\* r11 is no place, and an operand is in memory, a register or an immediate.
LEMMA NotMemory ==
  /\ ~IsMemory(R11) /\ R11[1] # "imm" /\ R11[1] = "reg" /\ R11 = Reg("r11")
  /\ \A x : Good(x) => \/ /\ is_virtual_reg(x) /\ x \in Places /\ IsMemory(x)
                       \/ /\ is_const_instruction(x) /\ ~IsMemory(x) /\ x = Imm(x[2])
                          /\ ~is_virtual_reg(x) /\ x \notin Places
                       \/ /\ ~is_virtual_reg(x) /\ ~is_const_instruction(x) /\ x \in Places
                          /\ ~IsMemory(x) /\ x[1] # "imm"
<1>1. ~IsMemory(R11) /\ R11[1] # "imm" /\ R11[1] = "reg" /\ R11 = Reg("r11")
  BY DEF R11, Reg, IsMemory
<1>2. ASSUME NEW x \in Places
      PROVE  \/ is_virtual_reg(x) /\ IsMemory(x)
             \/ ~is_virtual_reg(x) /\ ~is_const_instruction(x) /\ ~IsMemory(x) /\ x[1] # "imm"
  BY PlaceKinds DEF is_const_instruction
<1>3. ASSUME NEW x, x = Imm(x[2])
      PROVE  is_const_instruction(x) /\ ~IsMemory(x) /\ ~is_virtual_reg(x)
  <2>1. x[1] = "imm"
    BY <1>3 DEF Imm
  <2> QED
    BY <2>1 DEF is_const_instruction, is_virtual_reg, IsMemory
<1>4. \A x \in Places : ~is_const_instruction(x)
  BY PlaceKinds
<1> QED
  BY <1>1, <1>2, <1>3, <1>4 DEF Good

\* The text of an addition to its left operand.
LEMMA AdditiveInstruction ==
  ASSUME NEW n, NEW f, Based(n, f), NEW y \in Places, NEW x, Good(x), NEW op \in {"add", "sub"},
         ~(is_virtual_reg(y) /\ is_const_instruction(x))
  PROVE  LET s == additive_instruction(x, y, op)
         IN  /\ IsText(s)
             /\ Computes(n, Run(n, s), f, y, Arithmetic(op, ValueOf(n, y), ValueOf(n, x)))
<1>1. CASE is_virtual_reg(x) /\ is_virtual_reg(y)
  <2> DEFINE o == Execute(n, <<"mov", x, R11>>)
             p == Execute(o, <<op, R11, y>>)
             w == Arithmetic(op, ValueOf(n, y), ValueOf(n, x))
  <2>1. additive_instruction(x, y, op) = <<<<"mov", x, R11>>, <<op, R11, y>>>>
    BY <1>1 DEF additive_instruction
  <2>2. Same(n, o, {"r11"}, {}) /\ Based(o, f) /\ ValueOf(o, R11) = ValueOf(n, x) /\ ValueOf(o, y) = ValueOf(n, y)
    BY ToR11
  <2> HIDE DEF o
  <2>3. Computes(o, p, f, y, w)
    BY <2>2, NotMemory, ArithmeticStep
  <2> HIDE DEF p, w
  <2>4. Computes(n, p, f, y, w)
    BY <2>2, <2>3, ThroughR11
  <2> QED
    BY <2>1, <2>4, RunTwo DEF o, p, w
<1>2. CASE ~(is_virtual_reg(x) /\ is_virtual_reg(y))
  <2>1. additive_instruction(x, y, op) = <<<<op, x, y>>>>
    BY <1>2 DEF additive_instruction
  <2>2. is_virtual_reg(y) => ~IsMemory(x) /\ x[1] # "imm"
    BY <1>2, NotMemory
  <2>3. Computes(n, Execute(n, <<op, x, y>>), f, y, Arithmetic(op, ValueOf(n, y), ValueOf(n, x)))
    BY <2>2, ArithmeticStep
  <2> QED
    BY <2>1, <2>3, RunOne
<1> QED
  BY <1>1, <1>2

\* The text of an addition or subtraction, unless it is of the classes Admit names.
LEMMA AdditiveText ==
  ASSUME NEW n, NEW f, Based(n, f), NEW y \in Places, NEW x, Good(x), NEW z, Good(z),
         NEW op \in {"add", "sub"}, op = "sub" /\ z = y => x = y,
         ~(is_virtual_reg(y) /\ is_const_instruction(IF z = y THEN x ELSE z)),
         ValueOf(n, x)[1] # "address", ValueOf(n, z)[1] # "address"
  PROVE  LET s == additive(y, x, z, op)
         IN  /\ IsText(s)
             /\ Computes(n, Run(n, s), f, y, Arithmetic(op, ValueOf(n, x), ValueOf(n, z)))
<1> DEFINE s == additive(y, x, z, op)
           w == Arithmetic(op, ValueOf(n, x), ValueOf(n, z))
<1>1. CASE x = y
  <2>1. s = additive_instruction(z, y, op)
    BY <1>1 DEF additive
  <2>2. ~(is_virtual_reg(y) /\ is_const_instruction(z))
    BY <1>1
  <2> QED
    BY <1>1, <2>1, <2>2, AdditiveInstruction
<1>2. CASE x # y /\ z = y
  <2>1. s = additive_instruction(x, y, op) /\ op = "add"
    BY <1>2 DEF additive
  <2>2. ~(is_virtual_reg(y) /\ is_const_instruction(x))
    BY <1>2
  <2>3. w = Arithmetic(op, ValueOf(n, z), ValueOf(n, x))
    <3>1. \A u, v : {u, v} = {v, u}
      OBVIOUS
    <3> QED
      BY <2>1, <3>1 DEF Arithmetic
  <2> HIDE DEF w
  <2>4. IsText(s) /\ Computes(n, Run(n, s), f, y, Arithmetic(op, ValueOf(n, y), ValueOf(n, x)))
    BY <2>1, <2>2, AdditiveInstruction
  <2> QED
    BY <1>2, <2>3, <2>4 DEF w
<1>3. CASE x # y /\ z # y
  <2> DEFINE a == mov_instruction(x, y)
             b == additive_instruction(z, y, op)
             o == Run(n, a)
             p == Run(o, b)
  <2>1. s = a \o b
    BY <1>3 DEF additive
  <2>2. IsText(a) /\ Computes(n, o, f, y, ValueOf(n, x))
    BY MovInstruction, MovesCompute
  <2> HIDE DEF o
  <2>3. Based(o, f) /\ Same(n, o, {"r11"} \union RegOf(y), CellOf(f, y)) /\ ValueOf(o, y) = ValueOf(n, x)
    BY <2>2 DEF Computes
  <2>4. ValueOf(o, z) = ValueOf(n, z)
    <3>1. CASE z = Imm(z[2])
      BY <3>1, ConstantValue
    <3>2. CASE z \in Places
      <4>1. RegOf(z) \intersect RegOf(y) = {} /\ CellOf(f, z) \intersect CellOf(f, y) = {}
        BY <1>3, <3>2, PlacesApart DEF Based
      <4>2. RegOf(z) \intersect ({"r11"} \union RegOf(y)) = {} /\ "rbp" \notin {"r11"} \union RegOf(y)
        BY <3>2, <4>1, PlaceKinds, Registers DEF RegOf
      <4> QED
        BY <2>3, <3>2, <4>1, <4>2, PlaceKept DEF Same
    <3> QED
      BY <3>1, <3>2 DEF Good
  <2>5. IsText(b) /\ Computes(o, p, f, y, Arithmetic(op, ValueOf(o, y), ValueOf(o, z)))
    BY <1>3, <2>3, AdditiveInstruction
  <2>6. Computes(o, p, f, y, w)
    BY <2>3, <2>4, <2>5
  <2>7. IsText(s) /\ Run(n, s) = p
    BY <2>1, <2>2, <2>5, RunConcat, TextConcat DEF o
  <2> HIDE DEF p, w
  <2>8. Same(n, p, {"r11"} \union RegOf(y), CellOf(f, y))
    <3>1. Same(n, p, ({"r11"} \union RegOf(y)) \union ({"r11"} \union RegOf(y)), CellOf(f, y) \union CellOf(f, y))
      BY <2>3, <2>6, SameThen DEF Computes
    <3> QED
      BY <3>1, SameMore
  <2>9. Computes(n, p, f, y, w)
    BY <2>6, <2>8 DEF Computes
  <2> QED
    BY <2>7, <2>9 DEF w
<1> QED
  BY <1>1, <1>2, <1>3

-----------------------------------------------------------------------------
(* Instructions between pushes and pops.                                   *)

\* An operand has the value it had where its place holds.
LEMMA GoodHolds ==
  ASSUME NEW n, NEW p, NEW f, NEW s, NEW L, Holds(n, p, f, s, L), NEW x, Good(x), x \notin L
  PROVE  ValueOf(p, x) = ValueOf(n, x)
<1>1. CASE x \in Places
  BY <1>1 DEF Holds
<1>2. CASE x = Imm(x[2])
  BY <1>2, ConstantValue
<1> QED
  BY <1>1, <1>2 DEF Good

\* One word more on the stack.
WordPushed(n, p, c, w) ==
  /\ Same(n, p, {"rsp"}, {c}) /\ p.reg["rsp"] = Address(c) /\ p.mem[c] = w /\ p.flags = n.flags
  /\ IsMachine(p)

\* A push, for a stack pointer one above the cell.
LEMMA PushedWord ==
  ASSUME NEW n, IsMachine(n), NEW c \in 1..StackSize, n.reg["rsp"] = Address(c + 1), NEW w, NEW p, p = push_word(n, w)
  PROVE  WordPushed(n, p, c, w)
<1> DEFINE b == c + 1
<1>1. b \in Int /\ b = c + 1 /\ n.reg["rsp"] = Address(b)
  BY StackAssumption
<1> HIDE DEF b
<1>2. Same(n, p, {"rsp"}, {c}) /\ p.reg["rsp"] = Address(c) /\ p.mem[c] = w /\ p.flags = n.flags
  BY <1>1, PushWord
<1> QED
  BY <1>2 DEF Same, Like, WordPushed

\* Pushing below the arguments keeps every place.
LEMMA PushOn ==
  ASSUME NEW n, NEW p, NEW f, NEW s, NEW L, Framed(n, f, s), Holds(n, p, f, s, L),
         NEW b \in Int, NEW c \in Int, p.reg["rsp"] = Address(b), b = c + 1, 1 <= c, c < s, NEW w
  PROVE  LET q == push_word(p, w)
         IN  /\ Holds(n, q, f, s, L) /\ q.reg["rsp"] = Address(c) /\ q.mem[c] = w
             /\ Same(p, q, {"rsp"}, {c}) /\ q.flags = p.flags
<1> DEFINE q == push_word(p, w)
<1>1. b - 1 = c /\ c \in 1..StackSize /\ s \in Int /\ 1 <= s /\ c \notin s..StackSize
  BY FrameAssumption, StackAssumption DEF Framed, Based
<1>2. IsMachine(p) /\ p.reg["rsp"] = Address(c + 1)
  BY DEF Holds, Based
<1>p. q = push_word(p, w)
  OBVIOUS
<1> HIDE DEF q
<1>3. Same(p, q, {"rsp"}, {c}) /\ q.reg["rsp"] = Address(c) /\ q.mem[c] = w /\ q.flags = p.flags
  BY <1>1, <1>2, <1>p, PushedWord DEF WordPushed
<1>4. \A y \in Places : RegOf(y) \intersect {"rsp"} = {} /\ CellOf(f, y) \intersect {c} = {}
  BY <1>1, BelowIsFree
<1>5. Holds(n, q, f, s, L)
  BY <1>1, <1>3, <1>4, HoldsThen DEF Same
<1> QED
  BY <1>3, <1>5 DEF q

\* A pop into a place.
LEMMA PopPlace ==
  ASSUME NEW p, NEW f, Based(p, f), NEW b \in 1..StackSize, p.reg["rsp"] = Address(b), NEW y \in Places
  PROVE  LET q == pop(p, y)
         IN  /\ Same(p, q, {"rsp"} \union RegOf(y), CellOf(f, y)) /\ q.reg["rsp"] = Address(b + 1)
             /\ ValueOf(q, y) = p.mem[b] /\ q.flags = p.flags /\ Based(q, f)
<1> DEFINE q == pop(p, y)
<1>1. b \in Int /\ IsMachine(p)
  BY DEF Based
<1>2. CASE ~is_virtual_reg(y)
  <2> DEFINE r == y[2]
  <2>1. y = Reg(r) /\ r \in MachineRegisters /\ RegOf(y) = {r} /\ CellOf(f, y) = {} /\ r # "rsp" /\ r # "rbp"
    BY <1>2, PlaceKinds, Registers DEF RegOf, CellOf
  <2> HIDE DEF r
  <2>2. Same(p, q, {"rsp", r}, {}) /\ q.reg["rsp"] = Address(b + 1) /\ q.reg[r] = p.mem[b] /\ q.flags = p.flags
    BY <1>1, <2>1, PopRegister
  <2> HIDE DEF q
  <2>3. Based(q, f)
    BY <2>1, <2>2, PlaceKept DEF Same
  <2>4. ValueOf(q, y) = q.reg[r]
    BY <1>2, <2>3, PlaceValue DEF r
  <2>5. {"rsp", r} = {"rsp"} \union RegOf(y)
    BY <2>1
  <2> QED
    BY <2>1, <2>2, <2>3, <2>4, <2>5 DEF q
<1>3. CASE is_virtual_reg(y)
  <2> DEFINE k == y[3]
             c == f + k
  <2>1. y = Mem("rbp", k) /\ k \in Int /\ RegOf(y) = {} /\ CellOf(f, y) = {c}
    BY <1>3, PlaceKinds DEF RegOf, CellOf
  <2>2. c \in 1..StackSize
    BY <1>3, PlaceValue
  <2>3. p.reg["rbp"] = Address(f) /\ f \in Int /\ c = f + k
    BY DEF Based
  <2> HIDE DEF k, c
  <2>4. Same(p, q, {"rsp"}, {c}) /\ q.reg["rsp"] = Address(b + 1) /\ q.mem[c] = p.mem[b] /\ q.flags = p.flags
    BY <1>1, <2>1, <2>2, <2>3, PopSlot
  <2> HIDE DEF q
  <2>5. Based(q, f)
    BY <2>4, PlaceKept DEF Same
  <2>6. ValueOf(q, y) = q.mem[c]
    BY <1>3, <2>5, PlaceValue DEF c, k
  <2>7. {"rsp"} = {"rsp"} \union RegOf(y)
    BY <2>1
  <2> QED
    BY <2>1, <2>4, <2>5, <2>6, <2>7 DEF q
<1> QED
  BY <1>2, <1>3

With(L, y) == L \union {y}

\* What a pop into a place does.
PoppedTo(p, q, f, y, b) ==
  /\ Same(p, q, {"rsp"} \union RegOf(y), CellOf(f, y)) /\ q.reg["rsp"] = Address(b)
  /\ q.flags = p.flags

\* The place gets back what it had.
LEMMA PopBack ==
  ASSUME NEW n, NEW p, NEW q, NEW f, NEW s, NEW K, Framed(n, f, s), NEW y \in Places,
         Holds(n, p, f, s, With(K, y)), q = pop(p, y),
         NEW b \in Int, NEW c \in Int, p.reg["rsp"] = Address(c), b = c + 1, 1 <= c, c < s,
         p.mem[c] = ValueOf(n, y)
  PROVE  Holds(n, q, f, s, K) /\ PoppedTo(p, q, f, y, b)
<1>1. c + 1 = b /\ c \in 1..StackSize /\ s \in Int /\ 1 <= s
  BY FrameAssumption, StackAssumption DEF Framed, Based
<1>2. Based(p, f) /\ f \in Int
  BY DEF Holds, Based
<1>3. /\ Same(p, q, {"rsp"} \union RegOf(y), CellOf(f, y)) /\ q.reg["rsp"] = Address(b)
      /\ ValueOf(q, y) = p.mem[c] /\ q.flags = p.flags
  BY <1>1, <1>2, PopPlace
<1>5. ASSUME NEW z \in Places, z \notin K \union {y}
      PROVE  RegOf(z) \intersect ({"rsp"} \union RegOf(y)) = {} /\ CellOf(f, z) \intersect CellOf(f, y) = {}
  <2>1. RegOf(z) \intersect RegOf(y) = {} /\ CellOf(f, z) \intersect CellOf(f, y) = {}
    BY <1>2, <1>5, PlacesApart
  <2> QED
    BY <2>1, BelowIsFree
<1>6. "rbp" \notin {"rsp"} \union RegOf(y) /\ \A a \in CellOf(f, y) : a \in s..StackSize => a \in SlotCells(f)
  BY BelowIsFree
<1>7. Holds(n, q, f, s, With(K, y))
  BY <1>1, <1>3, <1>5, <1>6, HoldsThen DEF Same, With
<1>8. Holds(n, q, f, s, K)
  BY <1>3, <1>7, HoldsMore DEF With
<1> QED
  BY <1>3, <1>8 DEF PoppedTo

\* A constant that was pushed is dropped, a place gets its own value back.
LEMMA PopArgumentBack ==
  ASSUME NEW n, NEW p, NEW f, NEW s, NEW L, Framed(n, f, s), Holds(n, p, f, s, L),
         NEW b \in Int, NEW c \in Int, p.reg["rsp"] = Address(c), b = c + 1, 1 <= c, c < s,
         NEW y, Good(y), p.mem[c] = ValueOf(n, y)
  PROVE  LET q == Execute(p, PopArgument(y))
         IN  /\ Holds(n, q, f, s, L) /\ q.reg["rsp"] = Address(b) /\ q.inputs = p.inputs /\ q.seen = p.seen
             /\ \A a \in 0..(s - 1) : q.mem[a] = p.mem[a]
<1> DEFINE q == Execute(p, PopArgument(y))
<1>0. s \in Int /\ 1 <= s /\ 0..(s - 1) \subseteq 0..StackSize
  BY FrameAssumption, StackAssumption DEF Framed, Based
<1>1. CASE is_const_instruction(y)
  <2>1. q = Execute(p, <<"add", Imm(1), Rsp>>)
    BY <1>1 DEF PopArgument
  <2>2. IsMachine(p)
    BY DEF Holds, Based
  <2>3. Same(p, q, {"rsp"}, {}) /\ q.reg["rsp"] = Address(c + 1)
    BY <2>1, <2>2, AddStackPointer
  <2> HIDE DEF q
  <2>4. \A z \in Places : RegOf(z) \intersect {"rsp"} = {}
    BY BelowIsFree
  <2>5. Holds(n, q, f, s, L)
    BY <1>0, <2>3, <2>4, HoldsThen DEF Same
  <2> QED
    BY <1>0, <2>3, <2>5 DEF Same, Like, q
<1>2. CASE ~is_const_instruction(y)
  <2>1. y \in Places /\ q = pop(p, y)
    BY <1>2, NotMemory, ExecutesOfOne DEF PopArgument
  <2>a. Holds(n, p, f, s, With(L, y))
    BY HoldsMore DEF With
  <2> HIDE DEF q
  <2>2. Holds(n, q, f, s, L) /\ q.reg["rsp"] = Address(b) /\ Same(p, q, {"rsp"} \union RegOf(y), CellOf(f, y))
    <3>1. Holds(n, q, f, s, L) /\ PoppedTo(p, q, f, y, b)
      BY <2>1, <2>a, PopBack
    <3> QED
      BY <3>1 DEF PoppedTo
  <2>3. \A a \in 0..(s - 1) : a \notin CellOf(f, y)
    BY <2>1, BelowIsFree
  <2> QED
    BY <1>0, <2>2, <2>3 DEF Same, Like, q
<1> QED
  BY <1>1, <1>2

\* A multiplication or division, whose dividend is in rax and rdx.
LEMMA ScaleStep ==
  ASSUME NEW n, IsMachine(n), NEW x, NEW op \in {"imulq", "idivq"},
         n.reg["rdx"] = <<"sign", n.reg["rax"]>>
  PROVE  LET q == Execute(n, <<op, x>>)
         IN  /\ Same(n, q, {"rax", "rdx"}, {})
             /\ q.reg["rax"] = Arithmetic(op, n.reg["rax"], ValueOf(n, x))
<1> DEFINE q == Execute(n, <<op, x>>)
           w == Arithmetic(op, n.reg["rax"], ValueOf(n, x))
<1>1. q = [n EXCEPT !.reg["rax"] = w, !.reg["rdx"] = Junk, !.flags = Junk]
  <2>1. CASE op = "imulq"
    <3>1. q = imulq(n, x)
      BY <2>1, ExecutesOfOne
    <3> QED
      BY <2>1, <3>1 DEF imulq
  <2>2. CASE op = "idivq"
    <3>1. q = idivq(n, x)
      BY <2>2, ExecutesOfOne
    <3> QED
      BY <2>2, <3>1 DEF idivq
  <2> QED
    BY <2>1, <2>2
<1> HIDE DEF q, w
<1>2. /\ IsMachine(q) /\ q.mem = n.mem /\ q.inputs = n.inputs /\ q.seen = n.seen
      /\ q.reg = [[n.reg EXCEPT !["rax"] = w] EXCEPT !["rdx"] = Junk]
  BY <1>1 DEF IsMachine
<1>3. \A r \in MachineRegisters : q.reg[r] = IF r = "rdx" THEN Junk ELSE IF r = "rax" THEN w ELSE n.reg[r]
  BY <1>2 DEF IsMachine
<1>4. "rax" \in MachineRegisters
  BY Registers
<1> QED
  BY <1>2, <1>3, <1>4 DEF Same, Like, q, w

\* rdx has the sign of rax.
LEMMA SignStep ==
  ASSUME NEW n, IsMachine(n)
  PROVE  LET q == Execute(n, <<"cqto">>)
         IN  Same(n, q, {"rdx"}, {}) /\ q.reg["rdx"] = <<"sign", q.reg["rax"]>> /\ q.reg["rax"] = n.reg["rax"]
<1> DEFINE q == Execute(n, <<"cqto">>)
           w == <<"sign", n.reg["rax"]>>
<1>1. q = Store(n, Reg("rdx"), w)
  BY ExecutesOfNone DEF cqto, Store, Reg
<1> HIDE DEF q, w
<1>2. "rdx" \in MachineRegisters /\ "rax" \in MachineRegisters
  BY Registers
<1>3. Same(n, q, {"rdx"}, {}) /\ q.reg["rdx"] = w
  BY <1>1, <1>2, SetRegister
<1>4. q.reg["rax"] = n.reg["rax"]
  BY <1>2, <1>3 DEF Same, Like
<1> QED
  BY <1>3, <1>4 DEF q, w

\* rax and rdx are changed and nothing else.
LEMMA HoldsScratch ==
  ASSUME NEW n, NEW p, NEW q, NEW f, NEW s, Framed(n, f, s), NEW L, Holds(n, p, f, s, L),
         NEW R, Like(p, q, R, {}), NEW K, L \subseteq K, "rbp" \notin R,
         \A r \in R : r \in Kept_Registers => Reg(r) \in K
  PROVE  Holds(n, q, f, s, K)
<1>1. Holds(n, p, f, s, K)
  BY HoldsMore
<1>2. ASSUME NEW y \in Places, y \notin K
      PROVE  RegOf(y) \intersect R = {}
  <2>1. CASE is_virtual_reg(y)
    BY <2>1 DEF RegOf
  <2>2. CASE ~is_virtual_reg(y)
    <3>1. y = Reg(y[2]) /\ RegOf(y) = {y[2]} /\ y[2] \in Kept_Registers
      BY <2>2, PlaceKinds DEF RegOf
    <3> QED
      BY <1>2, <3>1
  <2> QED
    BY <2>1, <2>2
<1>3. s \in Int /\ 1 <= s
  BY DEF Framed
<1> QED
  BY <1>1, <1>2, <1>3, HoldsThen

\* rax and rdx are places of their own.
LEMMA RaxRdx ==
  /\ Rax \in Places /\ Rdx \in Places /\ Rax # Rdx /\ Rax = Reg("rax") /\ Rdx = Reg("rdx")
  /\ \A n : ValueOf(n, Rax) = n.reg["rax"] /\ ValueOf(n, Rdx) = n.reg["rdx"]
<1>1. Rax = Reg("rax") /\ Rdx = Reg("rdx")
  BY DEF Rax, Rdx
<1>2. Rax \in Places /\ Rdx \in Places
  BY <1>1, Registers DEF Places
<1>3. Rax # Rdx
  BY DEF Rax, Rdx, Reg
<1>4. ASSUME NEW n
      PROVE  ValueOf(n, Rax) = n.reg["rax"] /\ ValueOf(n, Rdx) = n.reg["rdx"]
  <2>1. 0 \in Int
    OBVIOUS
  <2> QED
    BY <1>1, <2>1, Values
<1> QED
  BY <1>1, <1>2, <1>3, <1>4

\* Six cells below the stack pointer.
LEMMA CellsBelow ==
  ASSUME NEW n, NEW f, NEW s, Framed(n, f, s)
  PROVE  /\ s \in Int /\ f \in Int /\ s >= 7 /\ s <= StackSize /\ StackSize \in Int
         /\ \A k \in 1..6 : s - k \in 1..StackSize /\ s - k \in 0..(s - 1) /\ s - k \in 0..StackSize
         /\ n.reg["rsp"] = Address(s)
BY FrameAssumption, StackAssumption DEF Framed, Based

\* A text of sixteen instructions.
LEMMA TextOfSixteen ==
  ASSUME NEW a1, NEW a2, NEW a3, NEW a4, NEW a5, NEW a6, NEW a7, NEW a8, NEW a9, NEW a10,
         NEW a11, NEW a12, NEW a13, NEW a14, NEW a15, NEW a16,
         NEW t, t = <<a1, a2, a3, a4, a5, a6, a7, a8, a9, a10, a11, a12, a13, a14, a15, a16>>
  PROVE  IsText(t) /\ DOMAIN t = 1..16
<1> DEFINE E == {a1, a2, a3, a4, a5, a6, a7, a8, a9, a10, a11, a12, a13, a14, a15, a16}
<1>1. DOMAIN t = 1..16
  OBVIOUS
<1>2. t \in Seq(E)
  OBVIOUS
<1> QED
  BY <1>1, <1>2 DEF IsText

\* The text of a multiplication or division: rax, rdx and the operands are back when
\* the result, which waits below the stack pointer, is moved to its place.
LEMMA ScaleText ==
  ASSUME NEW n, NEW f, NEW s, Framed(n, f, s), NEW d \in Places, NEW x, Good(x), NEW y, Good(y),
         NEW op \in {"imulq", "idivq"}
  PROVE  LET t == scale(d, x, y, op)
             q == Run(n, t)
         IN  /\ IsText(t) /\ Keeps(n, q, f, s, {d})
             /\ ValueOf(q, d) = Arithmetic(op, ValueOf(n, x), ValueOf(n, y))
             /\ q.inputs = n.inputs /\ q.seen = n.seen
<1> DEFINE t == scale(d, x, y, op)
           w == Arithmetic(op, ValueOf(n, x), ValueOf(n, y))
           c1 == s - 1
           c2 == s - 2
           c3 == s - 3
           c4 == s - 4
           c5 == s - 5
<1>1. IsText(t) /\ DOMAIN t = 1..16
  BY TextOfSixteen, Zenon DEF scale
<1>2. /\ t[1] = <<"push", Rdx>> /\ t[2] = <<"push", Rax>> /\ t[3] = <<"push", x>>
      /\ t[4] = <<"push", y>> /\ t[5] = <<"mov", Imm(0), Rdx>>
      /\ t[6] = <<"mov", Mem("rsp", 1), Rax>> /\ t[7] = <<"cqto">> /\ t[8] = <<op, Mem("rsp", 0)>>
  BY DEF scale
<1>3. /\ t[9] = <<"push", Rax>> /\ t[10] = <<"add", Imm(1), Rsp>> /\ t[11] = PopArgument(y)
      /\ t[12] = PopArgument(x) /\ t[13] = <<"pop", Rax>> /\ t[14] = <<"pop", Rdx>>
      /\ t[15] = <<"mov", Mem("rsp", -5), R11>> /\ t[16] = <<"mov", R11, d>>
  BY DEF scale
<1>4. /\ s \in Int /\ c1 \in Int /\ c2 \in Int /\ c3 \in Int /\ c4 \in Int /\ c5 \in Int
      /\ s = c1 + 1 /\ c1 = c2 + 1 /\ c2 = c3 + 1 /\ c3 = c4 + 1 /\ c4 = c5 + 1
      /\ 1 <= c5 /\ 1 <= c4 /\ 1 <= c3 /\ 1 <= c2 /\ 1 <= c1
      /\ c5 < s /\ c4 < s /\ c3 < s /\ c2 < s /\ c1 < s
  BY CellsBelow
<1>5. /\ c1 \in 1..StackSize /\ c2 \in 1..StackSize /\ c3 \in 1..StackSize /\ c4 \in 1..StackSize
      /\ c5 \in 1..StackSize
      /\ c1 \in 0..(s - 1) /\ c2 \in 0..(s - 1) /\ c3 \in 0..(s - 1) /\ c4 \in 0..(s - 1)
      /\ c5 \in 0..(s - 1)
  BY CellsBelow
<1>6. /\ c1 # c2 /\ c1 # c3 /\ c1 # c4 /\ c1 # c5 /\ c2 # c3 /\ c2 # c4 /\ c2 # c5
      /\ c3 # c4 /\ c3 # c5 /\ c4 # c5
  BY <1>4
<1>7. /\ c4 + 1 = c3 /\ c4 + 0 = c4 /\ c5 + 1 = c4 /\ s + -5 = c5 /\ 1 \in Int /\ 0 \in Int /\ -5 \in Int
  BY <1>4
<1> HIDE DEF t, w, c1, c2, c3, c4, c5
<1>8. PICK h : Steps(h, n, t, 16) /\ Run(n, t) = h[16]
  <2> DEFINE k == 16
  <2>1. k \in Nat /\ DOMAIN t = 1..k
    BY <1>1
  <2> HIDE DEF k
  <2>2. \E h : Steps(h, n, t, k) /\ Run(n, t) = h[k]
    BY <2>1, RunSteps
  <2> QED
    BY <2>2 DEF k
<1> DEFINE n1 == h[1]
           n2 == h[2]
           n3 == h[3]
           n4 == h[4]
           n5 == h[5]
           n6 == h[6]
           n7 == h[7]
           n8 == h[8]
           n9 == h[9]
           n10 == h[10]
           n11 == h[11]
           n12 == h[12]
           n13 == h[13]
           n14 == h[14]
           n15 == h[15]
           n16 == h[16]
<1>9. \A i \in 1..16 : h[i] = Execute(h[i - 1], t[i])
  BY <1>8 DEF Steps
<1>10. /\ n1 = Execute(n, <<"push", Rdx>>) /\ n2 = Execute(n1, <<"push", Rax>>)
       /\ n3 = Execute(n2, <<"push", x>>) /\ n4 = Execute(n3, <<"push", y>>)
  <2>1. h[0] = n
    BY <1>8 DEF Steps
  <2> QED
    BY <1>2, <1>9, <2>1
<1>11. /\ n5 = Execute(n4, <<"mov", Imm(0), Rdx>>) /\ n6 = Execute(n5, <<"mov", Mem("rsp", 1), Rax>>)
       /\ n7 = Execute(n6, <<"cqto">>) /\ n8 = Execute(n7, <<op, Mem("rsp", 0)>>)
  BY <1>2, <1>9
<1>12. /\ n9 = Execute(n8, <<"push", Rax>>) /\ n10 = Execute(n9, <<"add", Imm(1), Rsp>>)
       /\ n11 = Execute(n10, PopArgument(y)) /\ n12 = Execute(n11, PopArgument(x))
  BY <1>3, <1>9
<1>13. /\ n13 = Execute(n12, <<"pop", Rax>>) /\ n14 = Execute(n13, <<"pop", Rdx>>)
       /\ n15 = Execute(n14, <<"mov", Mem("rsp", -5), R11>>) /\ n16 = Execute(n15, <<"mov", R11, d>>)
  BY <1>3, <1>9
<1> HIDE DEF n1, n2, n3, n4, n5, n6, n7, n8, n9, n10, n11, n12, n13, n14, n15, n16
<1>14. /\ n1 = push_word(n, ValueOf(n, Rdx)) /\ n2 = push_word(n1, ValueOf(n1, Rax))
       /\ n3 = push_word(n2, ValueOf(n2, x)) /\ n4 = push_word(n3, ValueOf(n3, y))
       /\ n9 = push_word(n8, ValueOf(n8, Rax))
  BY <1>10, <1>12, ExecutesOfOne DEF push
\* The pushes.
<1>15. /\ Holds(n, n1, f, s, {}) /\ n1.reg["rsp"] = Address(c1) /\ n1.mem[c1] = ValueOf(n, Rdx)
       /\ Same(n, n1, {"rsp"}, {c1})
  <2>1. Holds(n, n, f, s, {}) /\ n.reg["rsp"] = Address(s)
    BY HoldsSelf DEF Framed
  <2> QED
    BY <1>4, <1>14, <2>1, PushOn
<1>16. /\ Holds(n, n2, f, s, {}) /\ n2.reg["rsp"] = Address(c2) /\ n2.mem[c2] = ValueOf(n, Rax)
       /\ Same(n1, n2, {"rsp"}, {c2})
  <2>1. ValueOf(n1, Rax) = ValueOf(n, Rax)
    BY <1>15, RaxRdx DEF Holds
  <2> QED
    BY <1>4, <1>14, <1>15, <2>1, PushOn
<1>17. /\ Holds(n, n3, f, s, {}) /\ n3.reg["rsp"] = Address(c3) /\ n3.mem[c3] = ValueOf(n, x)
       /\ Same(n2, n3, {"rsp"}, {c3})
  <2>1. ValueOf(n2, x) = ValueOf(n, x)
    BY <1>16, GoodHolds
  <2>2. n3 = push_word(n2, ValueOf(n, x))
    BY <1>14, <2>1
  <2> QED
    BY <1>4, <1>16, <2>2, PushOn
<1>18. /\ Holds(n, n4, f, s, {}) /\ n4.reg["rsp"] = Address(c4) /\ n4.mem[c4] = ValueOf(n, y)
       /\ Same(n3, n4, {"rsp"}, {c4})
  <2>1. ValueOf(n3, y) = ValueOf(n, y)
    BY <1>17, GoodHolds
  <2>2. n4 = push_word(n3, ValueOf(n, y))
    BY <1>14, <2>1
  <2> QED
    BY <1>4, <1>17, <2>2, PushOn
<1> DEFINE Pushed4(q) == /\ q.mem[c1] = ValueOf(n, Rdx) /\ q.mem[c2] = ValueOf(n, Rax)
                         /\ q.mem[c3] = ValueOf(n, x) /\ q.mem[c4] = ValueOf(n, y)
                         /\ q.inputs = n.inputs /\ q.seen = n.seen
<1>a. /\ c1 \in 0..StackSize /\ c2 \in 0..StackSize /\ c3 \in 0..StackSize /\ c4 \in 0..StackSize
      /\ c5 \in 0..StackSize
  BY <1>5, StackAssumption
<1>19. Pushed4(n4)
  <2>1. n2.mem[c1] = ValueOf(n, Rdx)
    BY <1>a, <1>6, <1>15, <1>16 DEF Same, Like
  <2>2. n3.mem[c1] = ValueOf(n, Rdx) /\ n3.mem[c2] = ValueOf(n, Rax)
    BY <1>a, <1>6, <1>16, <1>17, <2>1 DEF Same, Like
  <2>3. n4.mem[c1] = ValueOf(n, Rdx) /\ n4.mem[c2] = ValueOf(n, Rax) /\ n4.mem[c3] = ValueOf(n, x)
    BY <1>a, <1>6, <1>17, <1>18, <2>2 DEF Same, Like
  <2>4. n4.inputs = n.inputs /\ n4.seen = n.seen
    BY <1>15, <1>16, <1>17, <1>18 DEF Same
  <2> QED
    BY <1>18, <2>3, <2>4
\* The operation.
<1>20. /\ Same(n4, n8, {"rax", "rdx"}, {}) /\ n8.reg["rax"] = w
  <2>1. IsMachine(n4) /\ n4.reg["rsp"] = Address(c4) /\ n4.mem[c3] = ValueOf(n, x) /\ n4.mem[c4] = ValueOf(n, y)
    BY <1>18, <1>19 DEF Holds, Based
  <2>2. "rax" \in MachineRegisters /\ "rdx" \in MachineRegisters /\ "rsp" \in MachineRegisters
    BY Registers
  <2>3. Same(n4, n5, {"rdx"}, {})
    BY <1>11, <2>1, <2>2, MovToRegister, RaxRdx
  <2>4. Same(n5, n6, {"rax"}, {}) /\ n6.reg["rax"] = ValueOf(n5, Mem("rsp", 1))
    <3>1. IsMachine(n5)
      BY <2>3 DEF Same, Like
    <3> QED
      BY <1>11, <2>2, <3>1, MovToRegister, RaxRdx
  <2>5. ValueOf(n5, Mem("rsp", 1)) = n5.mem[c3]
    <3>1. n5.reg["rsp"] = Address(c4)
      BY <2>1, <2>2, <2>3 DEF Same, Like
    <3>2. c4 + 1 \in 1..StackSize
      BY <1>5, <1>7
    <3> QED
      BY <1>4, <1>7, <3>1, <3>2, Values
  <2>6. n5.mem[c3] = ValueOf(n, x)
    BY <1>a, <2>1, <2>3 DEF Same, Like
  <2>7. Same(n6, n7, {"rdx"}, {}) /\ n7.reg["rdx"] = <<"sign", n7.reg["rax"]>> /\ n7.reg["rax"] = n6.reg["rax"]
    BY <1>11, <2>4, SignStep DEF Same, Like
  <2>8. Same(n4, n7, {"rax", "rdx"}, {})
    <3>1. Same(n4, n6, {"rdx"} \union {"rax"}, {} \union {})
      BY <2>3, <2>4, SameThen
    <3>2. Same(n4, n7, ({"rdx"} \union {"rax"}) \union {"rdx"}, ({} \union {}) \union {})
      BY <2>7, <3>1, SameThen
    <3> QED
      BY <3>2, SameMore
  <2>9. Same(n7, n8, {"rax", "rdx"}, {}) /\ n8.reg["rax"] = Arithmetic(op, n7.reg["rax"], ValueOf(n7, Mem("rsp", 0)))
    <3>1. IsMachine(n7)
      BY <2>7 DEF Same, Like
    <3> QED
      BY <1>11, <2>7, <3>1, ScaleStep
  <2>10. ValueOf(n7, Mem("rsp", 0)) = ValueOf(n, y)
    <3>1. n7.reg["rsp"] = Address(c4) /\ n7.mem[c4] = n4.mem[c4]
      BY <1>a, <2>1, <2>2, <2>8 DEF Same, Like
    <3>2. c4 + 0 \in 1..StackSize
      BY <1>5, <1>7
    <3>3. ValueOf(n7, Mem("rsp", 0)) = n7.mem[c4]
      BY <1>4, <1>7, <3>1, <3>2, Values
    <3> QED
      BY <2>1, <3>1, <3>3
  <2>11. Same(n4, n8, {"rax", "rdx"}, {})
    <3>1. Same(n4, n8, {"rax", "rdx"} \union {"rax", "rdx"}, {} \union {})
      BY <2>8, <2>9, SameThen
    <3> QED
      BY <3>1, SameMore
  <2> QED
    BY <2>4, <2>5, <2>6, <2>7, <2>9, <2>10, <2>11 DEF w
<1>21. Holds(n, n8, f, s, {Rax, Rdx}) /\ Pushed4(n8) /\ n8.reg["rsp"] = Address(c4)
  <2>1. Like(n4, n8, {"rax", "rdx"}, {}) /\ n8.inputs = n4.inputs /\ n8.seen = n4.seen
    BY <1>20 DEF Same
  <2>2. \A r \in {"rax", "rdx"} : r \in Kept_Registers => Reg(r) \in {Rax, Rdx}
    BY DEF Rax, Rdx
  <2>3. Holds(n, n8, f, s, {Rax, Rdx})
    BY <1>18, <2>1, <2>2, HoldsScratch
  <2>4. n8.reg["rsp"] = Address(c4)
    BY <1>18, <2>1, Registers DEF Like
  <2> QED
    BY <1>a, <1>19, <2>1, <2>3, <2>4 DEF Like
<1>22. /\ Holds(n, n9, f, s, {Rax, Rdx}) /\ Pushed4(n9) /\ n9.reg["rsp"] = Address(c5)
       /\ n9.mem[c5] = w
  <2>1. /\ Holds(n, n9, f, s, {Rax, Rdx}) /\ n9.reg["rsp"] = Address(c5)
        /\ n9.mem[c5] = ValueOf(n8, Rax) /\ Same(n8, n9, {"rsp"}, {c5})
    BY <1>4, <1>14, <1>21, PushOn
  <2>2. ValueOf(n8, Rax) = w
    BY <1>20, RaxRdx
  <2>3. Pushed4(n9)
    BY <1>a, <1>6, <1>21, <2>1 DEF Same, Like
  <2> QED
    BY <2>1, <2>2, <2>3
<1>23. /\ Holds(n, n10, f, s, {Rax, Rdx}) /\ Pushed4(n10) /\ n10.reg["rsp"] = Address(c4)
       /\ n10.mem[c5] = w
  <2>1. IsMachine(n9)
    BY <1>22 DEF Holds, Based
  <2>2. Same(n9, n10, {"rsp"}, {}) /\ n10.reg["rsp"] = Address(c5 + 1)
    BY <1>4, <1>7, <1>12, <1>22, <2>1, AddStackPointer
  <2>3. Like(n9, n10, {"rsp"}, {}) /\ n10.inputs = n9.inputs /\ n10.seen = n9.seen
    BY <2>2 DEF Same
  <2>4. Holds(n, n10, f, s, {Rax, Rdx})
    <3>1. \A r \in {"rsp"} : r \notin Kept_Registers
      BY Registers
    <3> QED
      BY <1>22, <2>3, <3>1, HoldsScratch
  <2>5. Pushed4(n10) /\ n10.mem[c5] = w
    BY <1>a, <1>22, <2>3 DEF Like
  <2> QED
    BY <1>7, <2>2, <2>4, <2>5
<1> HIDE DEF Pushed4
\* What was pushed is popped.
<1>24. /\ Holds(n, n11, f, s, {Rax, Rdx}) /\ Pushed4(n11) /\ n11.reg["rsp"] = Address(c3)
       /\ n11.mem[c5] = w
  <2>1. n10.mem[c4] = ValueOf(n, y)
    BY <1>23 DEF Pushed4
  <2>2. /\ Holds(n, n11, f, s, {Rax, Rdx}) /\ n11.reg["rsp"] = Address(c3)
        /\ n11.inputs = n10.inputs /\ n11.seen = n10.seen
        /\ \A a \in 0..(s - 1) : n11.mem[a] = n10.mem[a]
    BY <1>4, <1>12, <1>23, <2>1, PopArgumentBack
  <2>3. Pushed4(n11) /\ n11.mem[c5] = w
    BY <1>5, <1>23, <2>2 DEF Pushed4
  <2> QED
    BY <2>2, <2>3
<1>25. /\ Holds(n, n12, f, s, {Rax, Rdx}) /\ Pushed4(n12) /\ n12.reg["rsp"] = Address(c2)
       /\ n12.mem[c5] = w
  <2>1. n11.mem[c3] = ValueOf(n, x)
    BY <1>24 DEF Pushed4
  <2>2. /\ Holds(n, n12, f, s, {Rax, Rdx}) /\ n12.reg["rsp"] = Address(c2)
        /\ n12.inputs = n11.inputs /\ n12.seen = n11.seen
        /\ \A a \in 0..(s - 1) : n12.mem[a] = n11.mem[a]
    BY <1>4, <1>12, <1>24, <2>1, PopArgumentBack
  <2>3. Pushed4(n12) /\ n12.mem[c5] = w
    BY <1>5, <1>24, <2>2 DEF Pushed4
  <2> QED
    BY <2>2, <2>3
<1>26. PopArgument(Rax) = <<"pop", Rax>> /\ PopArgument(Rdx) = <<"pop", Rdx>> /\ Good(Rax) /\ Good(Rdx)
  BY RaxRdx, PlaceKinds DEF PopArgument, Good
<1>27. /\ Holds(n, n13, f, s, {Rdx}) /\ Pushed4(n13) /\ n13.reg["rsp"] = Address(c1)
       /\ n13.mem[c5] = w
  <2> DEFINE K == {Rdx}
  <2>0. {Rax, Rdx} = With(K, Rax)
    BY DEF With
  <2> HIDE DEF K
  <2>1. n12.mem[c2] = ValueOf(n, Rax) /\ Holds(n, n12, f, s, With(K, Rax))
    BY <1>25, <2>0 DEF Pushed4
  <2>r. Rax \in Places
    BY RaxRdx
  <2>2. n13 = pop(n12, Rax)
    BY <1>13, ExecutesOfOne
  <2>3. /\ Holds(n, n13, f, s, K) /\ n13.reg["rsp"] = Address(c1)
        /\ Same(n12, n13, {"rsp"} \union RegOf(Rax), CellOf(f, Rax))
    <3>1. Holds(n, n13, f, s, K) /\ PoppedTo(n12, n13, f, Rax, c1)
      <4>1. /\ c1 \in Int /\ c2 \in Int /\ n12.reg["rsp"] = Address(c2) /\ c1 = c2 + 1 /\ 1 <= c2
            /\ c2 < s
        BY <1>4, <1>25
      <4> QED
        BY <2>1, <2>2, <2>r, <4>1, PopBack
    <3>3. /\ n13.reg["rsp"] = Address(c1)
          /\ Same(n12, n13, {"rsp"} \union RegOf(Rax), CellOf(f, Rax))
      BY <3>1 DEF PoppedTo
    <3> QED
      BY <3>1, <3>3
  <2>4. \A a \in 0..(s - 1) : a \notin CellOf(f, Rax)
    BY BelowIsFree, RaxRdx
  <2>5. Pushed4(n13) /\ n13.mem[c5] = w
    BY <1>a, <1>5, <1>25, <2>3, <2>4 DEF Pushed4, Same, Like
  <2> QED
    BY <2>3, <2>5 DEF K
<1>28. /\ Holds(n, n14, f, s, {}) /\ Pushed4(n14) /\ n14.reg["rsp"] = Address(s)
       /\ n14.mem[c5] = w
  <2> DEFINE K == {}
  <2>0. {Rdx} = With(K, Rdx)
    BY DEF With
  <2> HIDE DEF K
  <2>1. n13.mem[c1] = ValueOf(n, Rdx) /\ Holds(n, n13, f, s, With(K, Rdx))
    BY <1>27, <2>0 DEF Pushed4
  <2>r. Rdx \in Places
    BY RaxRdx
  <2>2. n14 = pop(n13, Rdx)
    BY <1>13, ExecutesOfOne
  <2>3. /\ Holds(n, n14, f, s, K) /\ n14.reg["rsp"] = Address(s)
        /\ Same(n13, n14, {"rsp"} \union RegOf(Rdx), CellOf(f, Rdx))
    <3>1. Holds(n, n14, f, s, K) /\ PoppedTo(n13, n14, f, Rdx, s)
      <4>1. /\ s \in Int /\ c1 \in Int /\ n13.reg["rsp"] = Address(c1) /\ s = c1 + 1 /\ 1 <= c1
            /\ c1 < s
        BY <1>4, <1>27
      <4> QED
        BY <2>1, <2>2, <2>r, <4>1, PopBack
    <3>3. /\ n14.reg["rsp"] = Address(s)
          /\ Same(n13, n14, {"rsp"} \union RegOf(Rdx), CellOf(f, Rdx))
      BY <3>1 DEF PoppedTo
    <3> QED
      BY <3>1, <3>3
  <2>4. \A a \in 0..(s - 1) : a \notin CellOf(f, Rdx)
    BY BelowIsFree, RaxRdx
  <2>5. Pushed4(n14) /\ n14.mem[c5] = w
    BY <1>a, <1>5, <1>27, <2>3, <2>4 DEF Pushed4, Same, Like
  <2> QED
    BY <2>3, <2>5 DEF K
\* The result is still below the stack pointer.
<1>29. /\ Based(n15, f) /\ ValueOf(n15, R11) = w /\ Same(n14, n15, {"r11"}, {})
  <2>1. ValueOf(n14, Mem("rsp", -5)) = w
    <3>1. s + -5 \in 1..StackSize
      BY <1>5, <1>7
    <3> QED
      BY <1>4, <1>7, <1>28, <3>1, Values
  <2> QED
    <3>1. Based(n14, f)
      BY <1>28 DEF Holds
    <3> QED
      BY <1>13, <2>1, <3>1, ToR11
<1>30. Same(n15, n16, RegOf(d), CellOf(f, d)) /\ ValueOf(n16, d) = w
  BY <1>13, <1>29, MovToPlace, NotMemory
<1>31. Same(n14, n16, {"r11"} \union RegOf(d), CellOf(f, d))
  <2>1. Same(n14, n16, {"r11"} \union RegOf(d), {} \union CellOf(f, d))
    BY <1>29, <1>30, SameThen
  <2> QED
    BY <2>1, SameMore
<1>32. Holds(n, n16, f, s, {d}) /\ n16.reg["rsp"] = Address(s)
  <2>1. "rbp" \notin {"r11"} \union RegOf(d) /\ "rsp" \notin {"r11"} \union RegOf(d)
    BY BelowIsFree
  <2>2. ASSUME NEW z \in Places, z \notin {d}
        PROVE  RegOf(z) \intersect ({"r11"} \union RegOf(d)) = {} /\ CellOf(f, z) \intersect CellOf(f, d) = {}
    <3>1. RegOf(z) \intersect RegOf(d) = {} /\ CellOf(f, z) \intersect CellOf(f, d) = {}
      BY <2>2, PlacesApart DEF Framed, Based
    <3> QED
      BY <3>1, BelowIsFree
  <2>3. \A a \in CellOf(f, d) : a \in s..StackSize => a \in SlotCells(f)
    BY BelowIsFree
  <2>4. Holds(n, n14, f, s, {d}) /\ 1 <= s
    BY <1>4, <1>28, HoldsMore
  <2>5. Like(n14, n16, {"r11"} \union RegOf(d), CellOf(f, d))
    BY <1>31 DEF Same
  <2>6. Holds(n, n16, f, s, {d})
    BY <1>4, <2>1, <2>2, <2>3, <2>4, <2>5, HoldsThen
  <2> QED
    BY <1>28, <2>1, <2>5, <2>6, Registers DEF Like
<1>33. n16.inputs = n.inputs /\ n16.seen = n.seen
  BY <1>28, <1>31 DEF Pushed4, Same
<1> QED
  BY <1>1, <1>8, <1>30, <1>32, <1>33 DEF t, w, n16, Keeps

-----------------------------------------------------------------------------
(* cmp, and the branch behind it.                                          *)

\* A comparison changes the flags only, and a branch shows what was compared.
LEMMA CompareStep ==
  ASSUME NEW n, NEW f, Based(n, f), NEW q, NEW x, NEW y, q = Execute(n, <<"cmp", x, y>>)
  PROVE  Same(n, q, {}, {}) /\ q.flags = <<ValueOf(n, y), ValueOf(n, x)>> /\ Based(q, f)
<1> DEFINE w == <<ValueOf(n, y), ValueOf(n, x)>>
<1>1. q = [n EXCEPT !.flags = w]
  BY ExecutesCompare
<1> HIDE DEF w
<1>2. /\ IsMachine(q) /\ q.reg = n.reg /\ q.mem = n.mem /\ q.inputs = n.inputs /\ q.seen = n.seen
      /\ q.flags = w
  BY <1>1 DEF IsMachine, Based
<1> QED
  BY <1>2 DEF Same, Like, Based, w

LEMMA BranchStep ==
  ASSUME NEW n, NEW f, Based(n, f), NEW q, q = Execute(n, <<"jcc">>)
  PROVE  Like(n, q, {}, {}) /\ q.inputs = n.inputs /\ q.seen = <<"branch", n.flags>>
<1> DEFINE w == <<"branch", n.flags>>
<1>1. q = [n EXCEPT !.seen = w]
  BY ExecutesBranch
<1> HIDE DEF w
<1>2. IsMachine(q) /\ q.reg = n.reg /\ q.mem = n.mem /\ q.inputs = n.inputs /\ q.seen = w
  BY <1>1 DEF IsMachine, Based
<1> QED
  BY <1>2 DEF Like, Based, w

\* The comparison of what is in a place with any operand.
Moves(y) == is_const_instruction(y) \/ is_virtual_reg(y)
ToCompare(y) == IF Moves(y) THEN <<<<"mov", y, R11>>>> ELSE <<>>
Comparison(l, y) == <<<<"cmp", IF Moves(y) THEN R11 ELSE y, l>>>>

\* The comparison itself, with its right operand in r11 where needed.
LEMMA CompareMiddle ==
  ASSUME NEW n, NEW f, Based(n, f), NEW l \in Places, NEW y, Good(y),
         NEW q, q = Run(Run(n, ToCompare(y)), Comparison(l, y))
  PROVE  /\ IsText(ToCompare(y)) /\ IsText(Comparison(l, y))
         /\ Same(n, q, {"r11"}, {}) /\ q.flags = <<ValueOf(n, l), ValueOf(n, y)>> /\ Based(q, f)
<1>1. CASE Moves(y)
  <2> DEFINE o == Execute(n, <<"mov", y, R11>>)
  <2>1. ToCompare(y) = <<<<"mov", y, R11>>>> /\ Comparison(l, y) = <<<<"cmp", R11, l>>>>
    BY <1>1 DEF ToCompare, Comparison
  <2>2. Same(n, o, {"r11"}, {}) /\ Based(o, f) /\ ValueOf(o, R11) = ValueOf(n, y) /\ ValueOf(o, l) = ValueOf(n, l)
    BY ToR11
  <2>3. IsText(ToCompare(y)) /\ IsText(Comparison(l, y)) /\ q = Execute(o, <<"cmp", R11, l>>)
    BY <2>1, RunOne
  <2> HIDE DEF o
  <2>4. Same(o, q, {}, {}) /\ q.flags = <<ValueOf(o, l), ValueOf(o, R11)>> /\ Based(q, f)
    BY <2>2, <2>3, CompareStep
  <2>5. Same(n, q, {"r11"} \union {}, {} \union {})
    BY <2>2, <2>4, SameThen
  <2>6. Same(n, q, {"r11"}, {})
    BY <2>5, SameMore
  <2> QED
    BY <2>2, <2>3, <2>4, <2>6
<1>2. CASE ~Moves(y)
  <2>1. ToCompare(y) = <<>> /\ Comparison(l, y) = <<<<"cmp", y, l>>>>
    BY <1>2 DEF ToCompare, Comparison
  <2>3. IsText(ToCompare(y)) /\ IsText(Comparison(l, y)) /\ q = Execute(n, <<"cmp", y, l>>)
    BY <2>1, RunOne, RunNothing
  <2>4. Same(n, q, {}, {}) /\ q.flags = <<ValueOf(n, l), ValueOf(n, y)>> /\ Based(q, f)
    BY <2>3, CompareStep
  <2>5. Same(n, q, {"r11"}, {})
    BY <2>4, SameMore
  <2> QED
    BY <2>3, <2>4, <2>5
<1> QED
  BY <1>1, <1>2

\* A register of the machine that holds no place may change.
LEMMA HoldsR11 ==
  ASSUME NEW n, NEW p, NEW q, NEW f, NEW s, Framed(n, f, s), NEW L, Holds(n, p, f, s, L),
         Like(p, q, {"r11"}, {})
  PROVE  Holds(n, q, f, s, L)
<1>1. \A r \in {"r11"} : r \notin Kept_Registers /\ r # "rbp"
  BY Registers
<1> QED
  BY <1>1, HoldsScratch

\* The text of a comparison and a branch.
LEMMA CompareText ==
  ASSUME NEW n, NEW f, NEW s, Framed(n, f, s), NEW x, Good(x), NEW y, Good(y)
  PROVE  LET t == cmp(x, y) \o <<<<"jcc">>>>
             q == Run(n, t)
         IN  /\ IsText(t) /\ Keeps(n, q, f, s, {}) /\ q.inputs = n.inputs
             /\ q.seen = <<"branch", <<ValueOf(n, x), ValueOf(n, y)>>>>
<1> DEFINE M == ToCompare(y)
           E == <<<<"jcc">>>>
           w == <<ValueOf(n, x), ValueOf(n, y)>>
<1>0. Based(n, f)
  BY DEF Framed
<1>a. ASSUME NEW p, Holds(n, p, f, s, {}), p.reg["rsp"] = Address(s), p.inputs = n.inputs, p.flags = w
      PROVE  /\ IsText(E) /\ Keeps(n, Run(p, E), f, s, {}) /\ Run(p, E).inputs = n.inputs
             /\ Run(p, E).seen = <<"branch", w>>
  <2> DEFINE q == Execute(p, <<"jcc">>)
  <2> HIDE DEF w
  <2>1. Based(p, f)
    BY <1>a DEF Holds
  <2>2. Like(p, q, {}, {}) /\ q.inputs = p.inputs /\ q.seen = <<"branch", p.flags>>
    BY <2>1, BranchStep
  <2> HIDE DEF q
  <2>3. Like(p, q, {"r11"}, {})
    BY <2>2, LikeLess
  <2>4. Holds(n, q, f, s, {})
    BY <1>a, <2>3, HoldsR11
  <2>5. q.reg["rsp"] = Address(s)
    BY <1>a, <2>2, Registers DEF Like
  <2>6. IsText(E) /\ Run(p, E) = q
    BY RunOne DEF q
  <2> HIDE DEF E
  <2> QED
    BY <1>a, <2>2, <2>4, <2>5, <2>6 DEF Keeps
<1>1. CASE ~is_const_instruction(x)
  <2> DEFINE C == Comparison(x, y)
             p == Run(Run(n, M), C)
  <2>1. cmp(x, y) = <<>> \o M \o C \o <<>>
    BY <1>1 DEF cmp, ToCompare, Comparison, Moves
  <2>2. x \in Places
    BY <1>1, NotMemory
  <2>3. IsText(M) /\ IsText(C) /\ Same(n, p, {"r11"}, {}) /\ p.flags = w
    BY <1>0, <2>2, CompareMiddle
  <2> HIDE DEF M, C, E, w
  <2>4. IsText(cmp(x, y)) /\ Run(n, cmp(x, y)) = p
    <3>1. IsText(<<>> \o M) /\ Run(n, <<>> \o M) = Run(n, M)
      BY <2>3, RunNothing, RunConcat, TextConcat
    <3>2. IsText(<<>> \o M \o C) /\ Run(n, <<>> \o M \o C) = p
      BY <2>3, <3>1, RunConcat, TextConcat
    <3>3. IsText(<<>> \o M \o C \o <<>>) /\ Run(n, <<>> \o M \o C \o <<>>) = Run(p, <<>>)
      BY <3>2, RunNothing, RunConcat, TextConcat
    <3> QED
      BY <2>1, <3>3, RunNothing
  <2> HIDE DEF p
  <2>5. Holds(n, p, f, s, {}) /\ p.reg["rsp"] = Address(s) /\ p.inputs = n.inputs
    <3>1. Holds(n, n, f, s, {}) /\ Like(n, p, {"r11"}, {})
      BY <2>3, HoldsSelf DEF Same
    <3> QED
      BY <2>3, <3>1, HoldsR11, Registers DEF Same, Like, Framed
  <2>6. IsText(E) /\ Keeps(n, Run(p, E), f, s, {}) /\ Run(p, E).inputs = n.inputs /\ Run(p, E).seen = <<"branch", w>>
    BY <1>a, <2>3, <2>5
  <2>7. IsText(cmp(x, y) \o E) /\ Run(n, cmp(x, y) \o E) = Run(p, E)
    BY <2>4, <2>6, RunConcat, TextConcat
  <2> QED
    BY <2>6, <2>7 DEF E, w
<1>2. CASE is_const_instruction(x)
  <2> DEFINE c == s - 1
  <2>0. c \in Int /\ s \in Int /\ s = c + 1 /\ 1 <= c /\ c < s /\ n.reg["rsp"] = Address(s)
    BY CellsBelow
  <2> HIDE DEF c
  <2>1. PICK l \in {Rax, Rdx} : l = IF y = Rax THEN Rdx ELSE Rax
    OBVIOUS
  <2> DEFINE A == <<<<"push", l>>, <<"mov", x, l>>>>
             C == Comparison(l, y)
             D == <<<<"pop", l>>>>
             n1 == Execute(n, <<"push", l>>)
             n2 == Execute(n1, <<"mov", x, l>>)
             n3 == Run(Run(n2, M), C)
             n4 == Execute(n3, <<"pop", l>>)
  <2>2. l \in Places /\ l # y /\ l # x /\ ~is_virtual_reg(l) /\ x = Imm(x[2]) /\ y \notin {l}
    <3>1. ~is_virtual_reg(Rax) /\ ~is_virtual_reg(Rdx)
      BY DEF Rax, Rdx, Reg, is_virtual_reg
    <3>2. x = Imm(x[2]) /\ x \notin Places
      BY <1>2, NotMemory DEF is_const_instruction, is_virtual_reg
    <3>3. l \in Places
      BY <2>1, RaxRdx
    <3>4. l # y
      BY <2>1, RaxRdx
    <3> QED
      BY <2>1, <3>1, <3>2, <3>3, <3>4
  <2>3. cmp(x, y) = A \o M \o C \o D
    BY <1>2, <2>1, <2>2 DEF cmp, ToCompare, Comparison, Moves
  <2>4. /\ Holds(n, n1, f, s, {}) /\ n1.reg["rsp"] = Address(c) /\ n1.mem[c] = ValueOf(n, l)
        /\ Same(n, n1, {"rsp"}, {c})
    <3>1. n1 = push_word(n, ValueOf(n, l))
      BY ExecutesOfOne DEF push
    <3>2. Holds(n, n, f, s, {})
      BY HoldsSelf
    <3> QED
      BY <2>0, <3>1, <3>2, PushOn
  <2> HIDE DEF n1
  <2>5. /\ Same(n1, n2, RegOf(l), CellOf(f, l)) /\ ValueOf(n2, l) = ValueOf(n, x) /\ Based(n2, f)
    <3>1. ValueOf(n1, x) = ValueOf(n, x)
      BY <2>2, ConstantValue
    <3>2. Based(n1, f)
      BY <2>4 DEF Holds
    <3>3. Same(n1, n2, RegOf(l), CellOf(f, l)) /\ ValueOf(n2, l) = ValueOf(n1, x) /\ Based(n2, f)
      BY <2>2, <3>2, MovToPlace
    <3> QED
      BY <3>1, <3>3
  <2>6. CellOf(f, l) = {} /\ RegOf(l) = {l[2]} /\ Reg(l[2]) = l
    BY <2>2, PlaceKinds DEF CellOf, RegOf
  <2> HIDE DEF n2
  <2>7. Holds(n, n2, f, s, {l}) /\ n2.reg["rsp"] = Address(c) /\ n2.mem[c] = ValueOf(n, l)
        /\ n2.inputs = n.inputs
    <3>1. Like(n1, n2, RegOf(l), {})
      BY <2>5, <2>6 DEF Same
    <3>2. "rbp" \notin RegOf(l) /\ "rsp" \notin RegOf(l)
      BY <2>2, BelowIsFree
    <3>3. Holds(n, n2, f, s, {l})
      BY <2>4, <2>6, <3>1, <3>2, HoldsScratch
    <3>4. c \in 0..StackSize
      BY <2>0, CellsBelow
    <3> QED
      BY <2>4, <2>5, <3>1, <3>2, <3>3, <3>4, Registers DEF Like, Same
  <2>8. /\ IsText(M) /\ IsText(C) /\ Same(n2, n3, {"r11"}, {})
        /\ n3.flags = <<ValueOf(n2, l), ValueOf(n2, y)>>
    BY <2>2, <2>5, CompareMiddle
  <2>9. n3.flags = w
    <3>1. ValueOf(n2, y) = ValueOf(n, y)
      BY <2>2, <2>7, GoodHolds
    <3> QED
      BY <2>5, <2>8, <3>1
  <2>10. IsText(cmp(x, y)) /\ Run(n, cmp(x, y)) = n4
    <3>1. IsText(A) /\ Run(n, A) = n2
      BY RunTwo DEF n1, n2
    <3>2. IsText(D) /\ Run(n3, D) = n4
      BY RunOne
    <3> HIDE DEF A, C, D, M, n4
    <3>3. IsText(A \o M) /\ Run(n, A \o M) = Run(n2, M)
      BY <2>8, <3>1, RunConcat, TextConcat
    <3>4. IsText(A \o M \o C) /\ Run(n, A \o M \o C) = n3
      BY <2>8, <3>3, RunConcat, TextConcat
    <3> HIDE DEF n3
    <3>5. IsText(A \o M \o C \o D) /\ Run(n, A \o M \o C \o D) = n4
      BY <3>2, <3>4, RunConcat, TextConcat
    <3> QED
      BY <2>3, <3>5
  <2>11. n4 = pop(n3, l)
    BY ExecutesOfOne
  <2> HIDE DEF A, C, D, M, E, w, n3, n4
  <2>12. Holds(n, n3, f, s, {l}) /\ n3.reg["rsp"] = Address(c) /\ n3.mem[c] = ValueOf(n, l)
         /\ n3.inputs = n.inputs
    <3>1. Like(n2, n3, {"r11"}, {}) /\ n3.inputs = n2.inputs
      BY <2>8 DEF Same
    <3>2. Holds(n, n3, f, s, {l})
      BY <2>7, <3>1, HoldsR11
    <3>3. c \in 0..StackSize
      BY <2>0, CellsBelow
    <3> QED
      BY <2>7, <3>1, <3>2, <3>3, Registers DEF Like
  <2>13. Holds(n, n4, f, s, {}) /\ PoppedTo(n3, n4, f, l, s)
    <3> DEFINE K == {}
    <3>1. {l} = With(K, l)
      BY DEF With
    <3> HIDE DEF K
    <3>2. Holds(n, n3, f, s, With(K, l))
      BY <2>12, <3>1
    <3>3. Holds(n, n4, f, s, K) /\ PoppedTo(n3, n4, f, l, s)
      BY <2>0, <2>2, <2>11, <2>12, <3>2, PopBack
    <3> QED
      BY <3>3 DEF K
  <2>14. n4.reg["rsp"] = Address(s) /\ n4.inputs = n.inputs /\ n4.flags = w
    BY <2>9, <2>12, <2>13 DEF PoppedTo, Same
  <2>15. /\ IsText(E) /\ Keeps(n, Run(n4, E), f, s, {}) /\ Run(n4, E).inputs = n.inputs
         /\ Run(n4, E).seen = <<"branch", w>>
    BY <1>a, <2>13, <2>14
  <2>16. IsText(cmp(x, y) \o E) /\ Run(n, cmp(x, y) \o E) = Run(n4, E)
    BY <2>10, <2>15, RunConcat, TextConcat
  <2> QED
    BY <2>15, <2>16 DEF E, w
<1> QED
  BY <1>1, <1>2

-----------------------------------------------------------------------------
(* The exchange of two locations.                                          *)

\* A register operand is the register.
LEMMA RegisterValue ==
  ASSUME NEW n, NEW r
  PROVE  ValueOf(n, Reg(r)) = n.reg[r]
<1>1. 0 \in Int
  OBVIOUS
<1> QED
  BY <1>1, Values

\* A text of three instructions.
LEMMA RunThree ==
  ASSUME NEW mm, NEW i, NEW j, NEW k
  PROVE  Run(mm, <<i, j, k>>) = Execute(Execute(Execute(mm, i), j), k) /\ IsText(<<i, j, k>>)
<1> DEFINE a == <<i, j>>
           b == <<k>>
<1>1. <<i, j, k>> = a \o b
  OBVIOUS
<1>2. IsText(a) /\ IsText(b) /\ Run(mm, a) = Execute(Execute(mm, i), j)
  BY RunOne, RunTwo
<1>3. Run(Run(mm, a), b) = Execute(Run(mm, a), k)
  BY RunOne
<1> HIDE DEF a, b
<1>4. IsText(a \o b) /\ Run(mm, a \o b) = Run(Run(mm, a), b)
  BY <1>2, TextConcat, RunConcat
<1> QED
  BY <1>1, <1>2, <1>3, <1>4

\* The text of an exchange of two places that are not both slots.
LEMMA SwapText ==
  ASSUME NEW n, NEW f, NEW s, Framed(n, f, s), NEW x \in Places, NEW y \in Places,
         ~(is_virtual_reg(x) /\ is_virtual_reg(y))
  PROVE  LET t == swap(x, y)
             q == Run(n, t)
         IN  /\ IsText(t) /\ Keeps(n, q, f, s, {x, y}) /\ q.inputs = n.inputs /\ q.seen = n.seen
             /\ ValueOf(q, x) = ValueOf(n, y) /\ ValueOf(q, y) = ValueOf(n, x)
<1> DEFINE t == swap(x, y)
           n1 == Execute(n, <<"mov", x, R11>>)
           n2 == Execute(n1, <<"mov", y, x>>)
           n3 == Execute(n2, <<"mov", R11, y>>)
<1>1. IsText(t) /\ Run(n, t) = n3
  BY RunThree DEF swap
<1> HIDE DEF t
<1>2. Based(n, f)
  BY DEF Framed
<1>3. /\ Same(n, n1, {"r11"}, {}) /\ n1.reg["r11"] = ValueOf(n, x) /\ Based(n1, f)
      /\ \A z \in Places : ValueOf(n1, z) = ValueOf(n, z)
  BY <1>2, ToR11
<1> HIDE DEF n1
<1>4. /\ Same(n1, n2, RegOf(x), CellOf(f, x)) /\ ValueOf(n2, x) = ValueOf(n, y) /\ Based(n2, f)
  <2>1. ~is_virtual_reg(x) \/ \E r : y = Reg(r)
    BY PlaceKinds
  <2>2. /\ Same(n1, n2, RegOf(x), CellOf(f, x)) /\ ValueOf(n2, x) = ValueOf(n1, y) /\ Based(n2, f)
    BY <1>3, <2>1, MovToPlace
  <2> QED
    BY <1>3, <2>2
<1> HIDE DEF n2
<1>5. n2.reg["r11"] = ValueOf(n, x)
  <2>1. "r11" \notin RegOf(x) /\ "r11" \in MachineRegisters
    BY BelowIsFree, Registers
  <2> QED
    BY <1>3, <1>4, <2>1 DEF Same, Like
<1>6. /\ Same(n2, n3, RegOf(y), CellOf(f, y)) /\ ValueOf(n3, y) = ValueOf(n, x) /\ Based(n3, f)
  <2>1. ValueOf(n2, R11) = n2.reg["r11"]
    <3>1. 0 \in Int /\ R11 = Reg("r11")
      BY NotMemory
    <3> QED
      BY <3>1, Values
  <2>2. \E r : R11 = Reg(r)
    BY NotMemory
  <2>3. Same(n2, n3, RegOf(y), CellOf(f, y)) /\ ValueOf(n3, y) = ValueOf(n2, R11) /\ Based(n3, f)
    BY <1>4, <2>2, MovToPlace
  <2> QED
    BY <1>5, <2>1, <2>3
<1> HIDE DEF n3
<1>7. ValueOf(n3, x) = ValueOf(n, y)
  <2>1. CASE x = y
    BY <1>6, <2>1
  <2>2. CASE x # y
    <3>1. RegOf(x) \intersect RegOf(y) = {} /\ CellOf(f, x) \intersect CellOf(f, y) = {}
      BY <1>2, <2>2, PlacesApart DEF Based
    <3>2. "rbp" \notin RegOf(y)
      BY BelowIsFree
    <3>3. ValueOf(n3, x) = ValueOf(n2, x)
      BY <1>4, <1>6, <3>1, <3>2, PlaceKept DEF Same
    <3> QED
      BY <1>4, <3>3
  <2> QED
    BY <2>1, <2>2
<1> DEFINE R == {"r11"} \union RegOf(x) \union RegOf(y)
           C == {} \union CellOf(f, x) \union CellOf(f, y)
<1>8. Same(n, n3, R, C)
  <2>1. Same(n, n2, {"r11"} \union RegOf(x), {} \union CellOf(f, x))
    BY <1>3, <1>4, SameThen
  <2> QED
    BY <1>6, <2>1, SameThen
<1>9. Keeps(n, n3, f, s, {x, y})
  <2>1. "rbp" \notin R /\ "rsp" \notin R
    BY BelowIsFree
  <2>2. ASSUME NEW z \in Places, z \notin {x, y}
        PROVE  RegOf(z) \intersect R = {} /\ CellOf(f, z) \intersect C = {}
    <3>1. RegOf(z) \intersect RegOf(x) = {} /\ CellOf(f, z) \intersect CellOf(f, x) = {}
      BY <1>2, <2>2, PlacesApart DEF Based
    <3>2. RegOf(z) \intersect RegOf(y) = {} /\ CellOf(f, z) \intersect CellOf(f, y) = {}
      BY <1>2, <2>2, PlacesApart DEF Based
    <3>3. RegOf(z) \intersect {"r11"} = {}
      BY BelowIsFree
    <3> QED
      BY <3>1, <3>2, <3>3
  <2>3. \A a \in C : a \in s..StackSize => a \in SlotCells(f)
    BY BelowIsFree
  <2> HIDE DEF R, C
  <2>4. Holds(n, n, f, s, {x, y}) /\ s \in Int /\ 1 <= s
    BY HoldsSelf, HoldsMore DEF Framed
  <2>5. Like(n, n3, R, C)
    BY <1>8 DEF Same
  <2>6. Holds(n, n3, f, s, {x, y})
    BY <2>1, <2>2, <2>3, <2>4, <2>5, HoldsThen
  <2> QED
    BY <2>1, <2>5, <2>6, Registers DEF Like, Keeps, Framed
<1> QED
  BY <1>1, <1>6, <1>7, <1>8, <1>9 DEF Same, t

-----------------------------------------------------------------------------
(* The routines of the library, between pushes and pops.                   *)

\* The machine behind a routine that uses the registers R.
LEMMA ScratchStep ==
  ASSUME NEW n, NEW f, Based(n, f), NEW b \in 1..StackSize, n.reg["rsp"] = Address(b), NEW R,
         NEW q, q = Scratch(n, R)
  PROVE  Like(n, q, R, 0..(b - 1)) /\ q.inputs = n.inputs /\ q.seen = n.seen
<1>1. Cell(n.reg["rsp"], 0) = b
  <2>1. b \in Int /\ b + 0 = b /\ 0 \in Int
    OBVIOUS
  <2> QED
    BY <2>1 DEF Cell, Address
<1> DEFINE reg == [r \in DOMAIN n.reg |-> IF r \in R THEN Junk ELSE n.reg[r]]
           mem == [a \in DOMAIN n.mem |-> IF a # 0 /\ a < b THEN Junk ELSE n.mem[a]]
<1>2. q = [n EXCEPT !.reg = reg, !.mem = mem, !.flags = Junk]
  BY <1>1 DEF Scratch
<1>3. DOMAIN n.reg = MachineRegisters /\ DOMAIN n.mem = 0..StackSize
  BY DEF Based, IsMachine
<1>4. DOMAIN reg = MachineRegisters /\ \A r \in MachineRegisters : r \notin R => reg[r] = n.reg[r]
  BY <1>3
<1>5. DOMAIN mem = 0..StackSize /\ \A a \in 0..StackSize : a \notin 0..(b - 1) => mem[a] = n.mem[a]
  <2>1. ASSUME NEW a \in 0..StackSize, a \notin 0..(b - 1)
        PROVE  mem[a] = n.mem[a]
    <3>1. ~(a < b)
      BY <2>1, StackAssumption
    <3> QED
      BY <1>3, <3>1
  <2> QED
    BY <1>3, <2>1
<1> HIDE DEF reg, mem
<1>6. DOMAIN q = DOMAIN n /\ q.reg = reg /\ q.mem = mem /\ q.inputs = n.inputs /\ q.seen = n.seen
  BY <1>2 DEF Based, IsMachine
<1> QED
  BY <1>4, <1>5, <1>6 DEF Like, IsMachine, Based

\* A list of five registers values are kept in.
SaveList(rs, k) ==
  /\ IsRegisterList(rs, k) /\ \A i, j \in 1..k : rs[i] = rs[j] => i = j
  /\ \A i \in 1..k : rs[i] \in Kept_Registers

\* The registers R that hold a place are saved or hold one of L.
Covered(R, L, rs, k) ==
  /\ {"rbp", "rsp"} \intersect R = {}
  /\ \A r \in R \intersect Kept_Registers : Reg(r) \in L \/ \E i \in 1..k : r = rs[i]

\* q keeps what n has, and p has left its value in r11.
Restored(n, p, q, f, s, L) ==
  Keeps(n, q, f, s, L) /\ q.inputs = p.inputs /\ q.seen = p.seen /\ q.reg["r11"] = p.reg["r11"]

\* Registers are pushed, the text between changes R and the cells below, and they
\* are popped again.
LEMMA Around ==
  ASSUME NEW n, NEW f, NEW s, Framed(n, f, s), NEW rs, NEW k, k = 5, SaveList(rs, k),
         NEW b, b = s - k, NEW o, o = Run(n, Pushes(rs)),
         NEW p, NEW R, Like(o, p, R, 0..(b - 1)), NEW L, Covered(R, L, rs, k),
         NEW q, q = Run(p, Pops(Reverse(rs)))
  PROVE  Restored(n, p, q, f, s, L) /\ IsText(Pops(Reverse(rs)))
<1>0. /\ IsRegisterList(rs, k) /\ \A i, j \in 1..k : rs[i] = rs[j] => i = j
      /\ \A i \in 1..k : rs[i] \in Kept_Registers
      /\ {"rbp", "rsp"} \intersect R = {}
      /\ \A r \in R \intersect Kept_Registers : Reg(r) \in L \/ \E i \in 1..k : r = rs[i]
  BY DEF SaveList, Covered
<1> DEFINE S == {"rsp"} \union {rs[i] : i \in (0 + 1)..k}
<1>1. /\ s \in Int /\ b \in Int /\ b >= 1 /\ s <= StackSize /\ b + (k - 0) = s /\ b + k = s /\ s - k = b
      /\ StackSize \in Int /\ 1 <= s /\ b \in 0..StackSize /\ 0 + 1 = 1 /\ b < s
  <2>1. s \in Int /\ s >= 7 /\ s <= StackSize /\ StackSize \in Int
    BY CellsBelow
  <2>2. b = s - 5 /\ k = 5
    OBVIOUS
  <2> QED
    BY <2>1, <2>2
<1>2. IsMachine(n) /\ n.reg["rsp"] = Address(s) /\ Based(n, f)
  BY DEF Framed, Based
<1>3. Pushed(n, o, rs, s, k)
  <2>1. s - k >= 1 /\ s <= StackSize + 1
    BY <1>1
  <2> QED
    BY <1>0, <1>1, <1>2, <2>1, PushAll
<1>4. /\ Same(n, o, {"rsp"}, b..(s - 1)) /\ o.reg["rsp"] = Address(b)
      /\ \A i \in 1..k : o.mem[s - i] = n.reg[rs[i]]
  BY <1>1, <1>3 DEF Pushed
<1>5. Like(o, p, R, 0..(b - 1))
  OBVIOUS
<1>6. IsMachine(p) /\ p.reg["rsp"] = Address(b)
  BY <1>0, <1>4, <1>5, Registers DEF Like
<1>7. Popped(p, q, rs, b, k, 0) /\ IsText(Pops(Reverse(rs)))
  <2>1. b + k <= StackSize + 1
    BY <1>1
  <2> QED
    BY <1>0, <1>1, <1>6, <2>1, PopAll
<1>8. /\ Same(p, q, S, {}) /\ q.reg["rsp"] = Address(s)
      /\ \A i \in 1..k : q.reg[rs[i]] = p.mem[s - i]
  BY <1>1, <1>7 DEF Popped
<1>9. \A i \in 1..k : q.reg[rs[i]] = n.reg[rs[i]]
  <2>1. ASSUME NEW i \in 1..k
        PROVE  q.reg[rs[i]] = n.reg[rs[i]]
    <3>1. s - i \in 0..StackSize /\ s - i \notin 0..(b - 1)
      BY <1>1
    <3>2. p.mem[s - i] = o.mem[s - i]
      BY <1>5, <3>1 DEF Like
    <3> QED
      BY <1>4, <1>8, <3>2
  <2> QED
    BY <2>1
<1>10. /\ "rbp" \notin S /\ "rsp" \notin Kept_Registers /\ {"rbp", "rsp", "r11"} \subseteq MachineRegisters
       /\ "r11" \notin S /\ \A i \in 1..k : rs[i] \in S
  BY <1>0, <1>1, Registers
<1> HIDE DEF S
<1>11. Holds(n, o, f, s, {})
  <2>1. Holds(n, n, f, s, {}) /\ Like(n, o, {"rsp"}, b..(s - 1))
    BY <1>4, HoldsSelf DEF Same
  <2>2. ASSUME NEW y \in Places
        PROVE  RegOf(y) \intersect {"rsp"} = {} /\ CellOf(f, y) \intersect (b..(s - 1)) = {}
    <3>1. b..(s - 1) \subseteq 0..(s - 1)
      BY <1>1
    <3> QED
      BY <3>1, BelowIsFree
  <2>3. \A a \in b..(s - 1) : a \notin s..StackSize
    BY <1>1
  <2> QED
    BY <1>1, <2>1, <2>2, <2>3, HoldsThen
<1> DEFINE K == {Reg(r) : r \in (R \union S) \intersect Kept_Registers}
<1>12. Holds(n, p, f, s, K)
  <2>1. Holds(n, o, f, s, K)
    BY <1>11, HoldsMore
  <2>2. ASSUME NEW y \in Places, y \notin K
        PROVE  RegOf(y) \intersect R = {} /\ CellOf(f, y) \intersect (0..(b - 1)) = {}
    <3>1. 0..(b - 1) \subseteq 0..(s - 1)
      BY <1>1
    <3>2. CellOf(f, y) \intersect (0..(b - 1)) = {}
      BY <3>1, BelowIsFree
    <3>3. RegOf(y) \intersect R = {}
      BY <2>2, PlaceKinds DEF RegOf
    <3> QED
      BY <3>2, <3>3
  <2>3. \A a \in 0..(b - 1) : a \notin s..StackSize
    BY <1>1
  <2> HIDE DEF K
  <2> QED
    BY <1>0, <1>1, <1>5, <2>1, <2>2, <2>3, HoldsThen
<1>13. Holds(n, q, f, s, K)
  <2>1. Like(p, q, S, {})
    BY <1>8 DEF Same
  <2>2. \A r \in S : r \in Kept_Registers => Reg(r) \in K
    OBVIOUS
  <2> HIDE DEF K
  <2> QED
    BY <1>10, <1>12, <2>1, <2>2, HoldsScratch
<1>14. Holds(n, q, f, s, L)
  <2>1. ASSUME NEW y \in K
        PROVE  y \in L \/ ValueOf(q, y) = ValueOf(n, y)
    <3>1. PICK r \in (R \union S) \intersect Kept_Registers : y = Reg(r)
      OBVIOUS
    <3>2. CASE \E i \in 1..k : r = rs[i]
      <4>1. q.reg[r] = n.reg[r]
        BY <1>9, <3>2
      <4>2. ValueOf(q, y) = ValueOf(n, y)
        BY <3>1, <4>1, RegisterValue
      <4> QED
        BY <4>2
    <3>3. CASE ~\E i \in 1..k : r = rs[i]
      <4>1. r \in R
        BY <1>0, <1>1, <3>1, <3>3, Registers DEF S
      <4> QED
        BY <1>0, <3>1, <3>3, <4>1
    <3> QED
      BY <3>2, <3>3
  <2> HIDE DEF K
  <2> QED
    BY <1>13, <2>1, HoldsMore
<1> QED
  BY <1>7, <1>8, <1>10, <1>14 DEF Same, Like, Keeps, Restored

\* The registers saved around calls of the library are different ones.
LEMMA SavedLists ==
  ASSUME NEW k, k = 5, NEW rs \in {WriteSaves, ReadSaves}
  PROVE  SaveList(rs, k)
<1>1. DOMAIN rs = 1..k /\ Len(rs) = k
  BY DEF WriteSaves, ReadSaves
<1>2. \A i, j \in 1..k : rs[i] = rs[j] => i = j
  BY DEF WriteSaves, ReadSaves
<1>3. \A i \in 1..k : rs[i] \in {"rax", "rbx", "rcx", "rdx", "rsi", "rdi"}
  BY DEF WriteSaves, ReadSaves
<1>4. \A i \in 1..k : rs[i] \in MachineRegisters /\ rs[i] # "rsp" /\ rs[i] \in Kept_Registers
  BY <1>3, Registers
<1> QED
  BY <1>1, <1>2, <1>4 DEF IsRegisterList, SaveList

\* With rax and r11 they are all that the routines use.
LEMMA SavedRegisters ==
  ASSUME NEW k, k = 5
  PROVE  /\ \A r \in {"rbx", "rcx", "rdx", "rdi", "rsi"} : \E i \in 1..k : r = WriteSaves[i]
         /\ \A r \in {"rax", "rdi", "rsi", "rdx", "rcx"} : \E i \in 1..k : r = ReadSaves[i]
<1>1. 1 \in 1..k /\ 2 \in 1..k /\ 3 \in 1..k /\ 4 \in 1..k /\ 5 \in 1..k
  OBVIOUS
<1>2. /\ WriteSaves[1] = "rbx" /\ WriteSaves[2] = "rcx" /\ WriteSaves[3] = "rdx"
      /\ WriteSaves[4] = "rdi" /\ WriteSaves[5] = "rsi"
  BY DEF WriteSaves
<1>3. /\ ReadSaves[1] = "rax" /\ ReadSaves[2] = "rdi" /\ ReadSaves[3] = "rsi"
      /\ ReadSaves[4] = "rdx" /\ ReadSaves[5] = "rcx"
  BY DEF ReadSaves
<1>4. \A r \in {"rbx", "rcx", "rdx", "rdi", "rsi"} : \E i \in 1..k : r = WriteSaves[i]
  BY <1>1, <1>2
<1>5. \A r \in {"rax", "rdi", "rsi", "rdx", "rcx"} : \E i \in 1..k : r = ReadSaves[i]
  BY <1>1, <1>3
<1> QED
  BY <1>4, <1>5

\* Behind the pushes of such a list everything is where it was, and the stack
\* pointer is five words lower.
LEMMA AfterPushes ==
  ASSUME NEW n, NEW f, NEW s, Framed(n, f, s), NEW k, k = 5, NEW rs \in {WriteSaves, ReadSaves},
         NEW b, b = s - k, NEW o, o = Run(n, Pushes(rs))
  PROVE  /\ IsText(Pushes(rs)) /\ Holds(n, o, f, s, {}) /\ o.reg["rsp"] = Address(b)
         /\ o.inputs = n.inputs /\ o.seen = n.seen
         /\ b \in 1..StackSize /\ b \in Int /\ b \in 0..StackSize
<1>1. s \in Int /\ s >= 7 /\ s <= StackSize /\ StackSize \in Int /\ n.reg["rsp"] = Address(s)
  BY CellsBelow
<1>2. b \in Int /\ b \in 1..StackSize /\ s - k = b /\ s - k >= 1 /\ s <= StackSize + 1 /\ 1 <= s
      /\ b \in 0..StackSize
  BY <1>1
<1>3. IsMachine(n) /\ IsRegisterList(rs, k)
  BY SavedLists DEF Framed, Based, SaveList
<1>4. IsText(Pushes(rs)) /\ Pushed(n, o, rs, s, k)
  BY <1>1, <1>2, <1>3, PushAll
<1>5. Same(n, o, {"rsp"}, b..(s - 1)) /\ o.reg["rsp"] = Address(b)
  BY <1>2, <1>4 DEF Pushed
<1>6. Holds(n, o, f, s, {})
  <2>1. Holds(n, n, f, s, {}) /\ Like(n, o, {"rsp"}, b..(s - 1))
    BY <1>5, HoldsSelf DEF Same
  <2>2. ASSUME NEW y \in Places
        PROVE  RegOf(y) \intersect {"rsp"} = {} /\ CellOf(f, y) \intersect (b..(s - 1)) = {}
    <3>1. b..(s - 1) \subseteq 0..(s - 1)
      BY <1>2
    <3> QED
      BY <3>1, BelowIsFree
  <2>3. \A a \in b..(s - 1) : a \notin s..StackSize
    BY <1>1, <1>2
  <2> QED
    BY <1>1, <1>2, <2>1, <2>2, <2>3, HoldsThen
<1> QED
  BY <1>2, <1>4, <1>5, <1>6 DEF Same

\* What the routine read does: it uses some registers and the stack below.
LEMMA ReadRoutine ==
  ASSUME NEW n, NEW f, Based(n, f), NEW b \in 1..StackSize, n.reg["rsp"] = Address(b),
         NEW q, q = Execute(n, <<"read">>)
  PROVE  /\ Like(n, q, Overwritten.read, 0..(b - 1)) /\ q.reg["rax"] = Input(n.inputs)
         /\ q.inputs = n.inputs + 1 /\ q.seen = n.seen
<1> DEFINE o == Scratch(n, Overwritten.read)
           w == Input(n.inputs)
<1>1. q = [o EXCEPT !.reg = [o.reg EXCEPT !["rax"] = w], !.inputs = o.inputs + 1]
  BY ExecutesOfNone DEF call_read
<1>2. Like(n, o, Overwritten.read, 0..(b - 1)) /\ o.inputs = n.inputs /\ o.seen = n.seen
  BY ScratchStep
<1> HIDE DEF o, w
<1>3. IsMachine(o)
  BY <1>2 DEF Like
<1>4. /\ DOMAIN q = DOMAIN o /\ q.reg = [o.reg EXCEPT !["rax"] = w] /\ q.mem = o.mem
      /\ q.inputs = o.inputs + 1 /\ q.seen = o.seen
  BY <1>1, <1>3 DEF IsMachine
<1>5. "rax" \in MachineRegisters /\ "rax" \in Overwritten.read
  BY Registers DEF Overwritten
<1>6. q.reg["rax"] = w /\ IsMachine(q)
  BY <1>3, <1>4, <1>5 DEF IsMachine
<1>7. \A r \in MachineRegisters : r \notin Overwritten.read => q.reg[r] = o.reg[r]
  BY <1>3, <1>4, <1>5 DEF IsMachine
<1>8. Like(n, q, Overwritten.read, 0..(b - 1))
  BY <1>2, <1>4, <1>6, <1>7 DEF Like
<1> QED
  BY <1>2, <1>4, <1>6, <1>8 DEF w

\* What the routine write does.
LEMMA WriteRoutine ==
  ASSUME NEW n, NEW f, Based(n, f), NEW b \in 1..StackSize, n.reg["rsp"] = Address(b),
         NEW q, q = Execute(n, <<"write">>)
  PROVE  /\ Like(n, q, Overwritten.write, 0..(b - 1)) /\ q.inputs = n.inputs
         /\ q.seen = <<"write", n.reg["rax"]>>
<1> DEFINE o == Scratch(n, Overwritten.write)
           w == <<"write", n.reg["rax"]>>
<1>1. q = [o EXCEPT !.seen = w]
  BY ExecutesOfNone DEF call_write
<1>2. Like(n, o, Overwritten.write, 0..(b - 1)) /\ o.inputs = n.inputs
  BY ScratchStep
<1> HIDE DEF o, w
<1>3. IsMachine(o)
  BY <1>2 DEF Like
<1>4. IsMachine(q) /\ q.reg = o.reg /\ q.mem = o.mem /\ q.inputs = o.inputs /\ q.seen = w
  BY <1>1, <1>3 DEF IsMachine
<1>5. Like(n, q, Overwritten.write, 0..(b - 1))
  BY <1>2, <1>4 DEF Like
<1> QED
  BY <1>2, <1>4, <1>5 DEF w

\* The result that waits in r11 goes to its place.
LEMMA MovR11To ==
  ASSUME NEW n, NEW p, NEW f, NEW s, Framed(n, f, s), Keeps(n, p, f, s, {}), NEW y \in Places,
         NEW q, q = Execute(p, <<"mov", R11, y>>)
  PROVE  /\ Keeps(n, q, f, s, {y}) /\ ValueOf(q, y) = p.reg["r11"]
         /\ q.inputs = p.inputs /\ q.seen = p.seen
<1>1. Based(p, f) /\ Holds(n, p, f, s, {y}) /\ p.reg["rsp"] = Address(s)
  BY HoldsMore DEF Keeps, Holds
<1>2. Same(p, q, RegOf(y), CellOf(f, y)) /\ ValueOf(q, y) = ValueOf(p, R11)
  <2>1. \E r : R11 = Reg(r)
    BY NotMemory
  <2> QED
    BY <1>1, <2>1, MovToPlace
<1>3. ValueOf(p, R11) = p.reg["r11"]
  BY NotMemory, RegisterValue
<1>4. Holds(n, q, f, s, {y})
  <2>1. ASSUME NEW z \in Places, z \notin {y}
        PROVE  RegOf(z) \intersect RegOf(y) = {} /\ CellOf(f, z) \intersect CellOf(f, y) = {}
    BY <2>1, PlacesApart DEF Framed, Based
  <2>2. "rbp" \notin RegOf(y) /\ \A a \in CellOf(f, y) : a \in s..StackSize => a \in SlotCells(f)
    BY BelowIsFree
  <2>3. Like(p, q, RegOf(y), CellOf(f, y)) /\ s \in Int /\ 1 <= s
    BY <1>2 DEF Same, Framed
  <2> QED
    BY <1>1, <2>1, <2>2, <2>3, HoldsThen
<1>5. q.reg["rsp"] = Address(s)
  <2>1. "rsp" \notin RegOf(y) /\ "rsp" \in MachineRegisters
    BY BelowIsFree, Registers
  <2> QED
    BY <1>1, <1>2, <2>1 DEF Same, Like
<1> QED
  BY <1>2, <1>3, <1>4, <1>5 DEF Keeps, Same

\* The text of a read: every place but the result is back behind it.
LEMMA ReadText ==
  ASSUME NEW n, NEW f, NEW s, Framed(n, f, s), NEW y \in Places
  PROVE  LET t == read(y)
             q == Run(n, t)
         IN  /\ IsText(t) /\ Keeps(n, q, f, s, {y}) /\ ValueOf(q, y) = Input(n.inputs)
             /\ q.inputs = n.inputs + 1 /\ q.seen = n.seen
<1> DEFINE k == 5
           b == s - k
           rs == ReadSaves
           A == Pushes(rs)
           B == <<<<"read">>, <<"mov", Rax, R11>>>>
           C == Pops(Reverse(rs))
           D == <<<<"mov", R11, y>>>>
           n1 == Run(n, A)
           n2 == Execute(n1, <<"read">>)
           n3 == Execute(n2, <<"mov", Rax, R11>>)
           n4 == Run(n3, C)
           n5 == Execute(n4, <<"mov", R11, y>>)
<1>0. read(y) = A \o B \o C \o D
  BY DEF read
<1>1. k = 5 /\ rs \in {WriteSaves, ReadSaves} /\ b = s - k
  OBVIOUS
<1>2. Covered(Overwritten.read, {}, rs, k)
  <2>1. Overwritten.read \intersect Kept_Registers \subseteq {"rax", "rdi", "rsi", "rdx", "rcx"}
    BY Registers DEF Overwritten
  <2>2. {"rbp", "rsp"} \intersect Overwritten.read = {}
    BY DEF Overwritten
  <2> QED
    BY <2>1, <2>2, SavedRegisters DEF Covered
<1>3. "r11" \in Overwritten.read
  BY DEF Overwritten
<1>b. IsText(B) /\ Run(n1, B) = n3 /\ IsText(D) /\ Run(n4, D) = n5
  BY RunOne, RunTwo
<1> HIDE DEF k, b, rs, A, B, C, D
<1>4. /\ IsText(A) /\ Holds(n, n1, f, s, {}) /\ n1.reg["rsp"] = Address(b)
      /\ n1.inputs = n.inputs /\ n1.seen = n.seen /\ b \in 1..StackSize
  BY <1>1, AfterPushes DEF A
<1>5. /\ Like(n1, n2, Overwritten.read, 0..(b - 1)) /\ n2.reg["rax"] = Input(n.inputs)
      /\ n2.inputs = n.inputs + 1 /\ n2.seen = n.seen
  <2>1. Based(n1, f)
    BY <1>4 DEF Holds
  <2> QED
    BY <1>4, <2>1, ReadRoutine
<1> HIDE DEF n2
<1>6. Same(n2, n3, {"r11"}, {}) /\ n3.reg["r11"] = Input(n.inputs)
  <2>1. IsMachine(n2) /\ R11 = Reg("r11") /\ "r11" \in MachineRegisters /\ ValueOf(n2, Rax) = n2.reg["rax"]
    BY <1>5, NotMemory, Registers, RaxRdx DEF Like
  <2> QED
    BY <1>5, <2>1, MovToRegister
<1> HIDE DEF n3
<1>7. Like(n1, n3, Overwritten.read, 0..(b - 1)) /\ n3.inputs = n.inputs + 1 /\ n3.seen = n.seen
  <2>1. Like(n1, n3, Overwritten.read \union {"r11"}, (0..(b - 1)) \union {})
    BY <1>5, <1>6, LikeThen DEF Same
  <2>2. Overwritten.read \union {"r11"} = Overwritten.read /\ (0..(b - 1)) \union {} = 0..(b - 1)
    BY <1>3
  <2> QED
    BY <1>5, <1>6, <2>1, <2>2 DEF Same
<1>8. Restored(n, n3, n4, f, s, {}) /\ IsText(C)
  <2>1. SaveList(rs, k)
    BY <1>1, SavedLists
  <2>2. n1 = Run(n, Pushes(rs))
    BY DEF A
  <2>3. n4 = Run(n3, Pops(Reverse(rs))) /\ C = Pops(Reverse(rs))
    BY DEF C
  <2> HIDE DEF n1, n4
  <2> QED
    BY <1>1, <1>2, <1>7, <2>1, <2>2, <2>3, Around
<1>9. IsText(read(y)) /\ Run(n, read(y)) = n5
  <2> HIDE DEF n5
  <2>1. IsText(A \o B) /\ Run(n, A \o B) = n3
    BY <1>b, <1>4, RunConcat, TextConcat
  <2>2. IsText(A \o B \o C) /\ Run(n, A \o B \o C) = n4
    BY <1>8, <2>1, RunConcat, TextConcat
  <2> HIDE DEF n1, n4
  <2>3. IsText(A \o B \o C \o D) /\ Run(n, A \o B \o C \o D) = n5
    BY <1>b, <2>2, RunConcat, TextConcat
  <2> QED
    BY <1>0, <2>3
<1> HIDE DEF n4
<1>10. /\ Keeps(n, n5, f, s, {y}) /\ ValueOf(n5, y) = n4.reg["r11"]
       /\ n5.inputs = n4.inputs /\ n5.seen = n4.seen
  BY <1>8, MovR11To DEF Restored
<1> QED
  BY <1>6, <1>7, <1>8, <1>9, <1>10 DEF Restored

\* The text of a new line.
LEMMA NewLineText ==
  ASSUME NEW n, NEW f, NEW s, Framed(n, f, s)
  PROVE  LET q == Run(n, NewLine)
         IN  IsText(NewLine) /\ Keeps(n, q, f, s, {}) /\ q.inputs = n.inputs /\ q.seen = n.seen
<1> DEFINE k == 5
           b == s - k
           rs == ReadSaves
           R == {"rax", "rcx", "rdx", "rsi", "rdi", "r11"}
           A == Pushes(rs)
           B == <<<<"newline">>>>
           C == Pops(Reverse(rs))
           n1 == Run(n, A)
           n2 == Execute(n1, <<"newline">>)
           n3 == Run(n2, C)
<1>0. NewLine = A \o B \o C
  BY DEF NewLine
<1>1. k = 5 /\ rs \in {WriteSaves, ReadSaves} /\ b = s - k
  OBVIOUS
<1>2. Covered(R, {}, rs, k)
  <2>1. R \intersect Kept_Registers \subseteq {"rax", "rdi", "rsi", "rdx", "rcx"}
    BY Registers
  <2>2. {"rbp", "rsp"} \intersect R = {}
    OBVIOUS
  <2> HIDE DEF R
  <2> QED
    BY <2>1, <2>2, SavedRegisters DEF Covered
<1>3. IsText(B) /\ Run(n1, B) = n2
  BY RunOne
<1> HIDE DEF k, b, rs, A, B, C
<1>4. /\ IsText(A) /\ Holds(n, n1, f, s, {}) /\ n1.reg["rsp"] = Address(b)
      /\ n1.inputs = n.inputs /\ n1.seen = n.seen /\ b \in 1..StackSize
  BY <1>1, AfterPushes DEF A
<1>5. Like(n1, n2, R, 0..(b - 1)) /\ n2.inputs = n.inputs /\ n2.seen = n.seen
  <2>1. Based(n1, f)
    BY <1>4 DEF Holds
  <2>2. n2 = Scratch(n1, R)
    BY ExecutesOfNone DEF call_newline
  <2> HIDE DEF R
  <2> QED
    BY <1>4, <2>1, <2>2, ScratchStep
<1> HIDE DEF R, n2
<1>6. Restored(n, n2, n3, f, s, {}) /\ IsText(C)
  <2>1. SaveList(rs, k)
    BY <1>1, SavedLists
  <2>2. n1 = Run(n, Pushes(rs))
    BY DEF A
  <2>3. n3 = Run(n2, Pops(Reverse(rs))) /\ C = Pops(Reverse(rs))
    BY DEF C
  <2> HIDE DEF n1, n3
  <2> QED
    BY <1>1, <1>2, <1>5, <2>1, <2>2, <2>3, Around
<1>7. IsText(NewLine) /\ Run(n, NewLine) = n3
  <2>1. IsText(A \o B) /\ Run(n, A \o B) = n2
    BY <1>3, <1>4, RunConcat, TextConcat
  <2>2. IsText(A \o B \o C) /\ Run(n, A \o B \o C) = n3
    BY <1>6, <2>1, RunConcat, TextConcat
  <2> QED
    BY <1>0, <2>2
<1> QED
  BY <1>5, <1>6, <1>7 DEF Restored

\* q has written w and used the registers R and the cells below b.
Wrote(p, q, R, b, w) ==
  Like(p, q, R, 0..(b - 1)) /\ q.inputs = p.inputs /\ q.seen = <<"write", w>>

AllButRax == Overwritten.write \ {"rax"}

\* write between a push and a pop of rax.
LEMMA WriteSaved ==
  ASSUME NEW n, NEW f, NEW s, Framed(n, f, s), NEW n1, Holds(n, n1, f, s, {}),
         NEW b \in 1..StackSize, n1.reg["rsp"] = Address(b), NEW c \in 1..StackSize, b = c + 1,
         NEW n2, n2 = push_word(n1, ValueOf(n1, Rax)), NEW n3, Same(n2, n3, {"rax"}, {}),
         NEW n4, n4 = Execute(n3, <<"write">>), NEW n5, n5 = pop(n4, Rax)
  PROVE  Wrote(n1, n5, AllButRax, b, n3.reg["rax"])
<1> DEFINE W == Overwritten.write
<1>0. /\ b \in Int /\ c \in Int /\ c \in 0..StackSize /\ b \in 0..StackSize /\ c \notin 0..(c - 1)
      /\ {c} \subseteq 0..(b - 1) /\ 0..(c - 1) \subseteq 0..(b - 1)
  BY StackAssumption
<1>1. "rax" \in MachineRegisters /\ "rsp" \in MachineRegisters /\ Rax = Reg("rax")
  BY Registers, RaxRdx
<1>2. "rsp" \notin W /\ "rbp" \notin W
  BY DEF Overwritten
<1> HIDE DEF W
<1>3. Based(n1, f) /\ IsMachine(n1)
  BY DEF Holds, Based
<1>4. /\ Same(n1, n2, {"rsp"}, {c}) /\ n2.reg["rsp"] = Address(c) /\ n2.mem[c] = n1.reg["rax"]
  <2> DEFINE w == n1.reg["rax"]
  <2>1. n2 = push_word(n1, w)
    BY RaxRdx
  <2>2. b \in Int
    BY <1>0
  <2> HIDE DEF w
  <2>3. Same(n1, push_word(n1, w), {"rsp"}, {c}) /\ push_word(n1, w).reg["rsp"] = Address(c)
        /\ push_word(n1, w).mem[c] = w
    BY <1>3, <2>2, PushWord
  <2> QED
    BY <2>1, <2>3 DEF w
<1>5. n3.reg["rsp"] = Address(c) /\ n3.mem[c] = n1.reg["rax"] /\ Based(n3, f)
  <2>1. Based(n2, f)
    BY <1>3, <1>4, PlaceKept DEF Same
  <2>2. Based(n3, f)
    BY <2>1, PlaceKept DEF Same
  <2> QED
    BY <1>0, <1>1, <1>4, <2>2 DEF Same, Like
<1>6. Like(n3, n4, W, 0..(c - 1)) /\ n4.inputs = n3.inputs /\ n4.seen = <<"write", n3.reg["rax"]>>
  BY <1>5, WriteRoutine DEF W
<1>7. n4.reg["rsp"] = Address(c) /\ n4.mem[c] = n1.reg["rax"] /\ IsMachine(n4)
  BY <1>0, <1>1, <1>2, <1>5, <1>6 DEF Like
<1>8. Same(n4, n5, {"rsp", "rax"}, {}) /\ n5.reg["rsp"] = Address(c + 1) /\ n5.reg["rax"] = n1.reg["rax"]
  BY <1>0, <1>1, <1>7, PopRegister
<1> DEFINE R == (({"rsp"} \union {"rax"}) \union W) \union {"rsp", "rax"}
           C == (({c} \union {}) \union (0..(c - 1))) \union {}
<1>9. Like(n1, n5, R, C)
  <2>1. Like(n1, n3, {"rsp"} \union {"rax"}, {c} \union {})
    BY <1>4, LikeThen DEF Same
  <2>2. Like(n1, n4, ({"rsp"} \union {"rax"}) \union W, ({c} \union {}) \union (0..(c - 1)))
    BY <1>6, <2>1, LikeThen
  <2> QED
    BY <1>8, <2>2, LikeThen DEF Same
<1>10. Like(n1, n5, W \ {"rax"}, 0..(b - 1))
  <2>1. n5.reg["rsp"] = n1.reg["rsp"] /\ n5.reg["rax"] = n1.reg["rax"]
    BY <1>8
  <2>2. \A r \in R : r \in MachineRegisters => r \in W \ {"rax"} \/ n5.reg[r] = n1.reg[r]
    BY <2>1
  <2>3. \A a \in C : a \in 0..StackSize => a \in 0..(b - 1) \/ n5.mem[a] = n1.mem[a]
    BY <1>0
  <2> HIDE DEF R, C
  <2> QED
    BY <1>9, <2>2, <2>3, LikeLess
<1> QED
  BY <1>4, <1>6, <1>8, <1>10 DEF Same, W, Wrote, AllButRax

\* What write's text loses.
WriteLoses(x, dies) == IF x = Rax /\ dies THEN {Rax} ELSE {}

Calling(x, dies) ==
  CASE x = Rax /\ dies -> <<<<"write">>>>
    [] x = Rax /\ ~dies -> <<<<"push", Rax>>, <<"write">>, <<"pop", Rax>>>>
    [] OTHER -> <<<<"push", Rax>>, <<"mov", x, Rax>>, <<"write">>, <<"pop", Rax>>>>

\* A text of four instructions.
LEMMA RunFour ==
  ASSUME NEW mm, NEW i, NEW j, NEW k, NEW l
  PROVE  /\ Run(mm, <<i, j, k, l>>) = Execute(Execute(Execute(Execute(mm, i), j), k), l)
         /\ IsText(<<i, j, k, l>>)
<1> DEFINE a == <<i, j>>
           b == <<k, l>>
<1>1. <<i, j, k, l>> = a \o b
  OBVIOUS
<1>2. IsText(a) /\ IsText(b) /\ Run(mm, a) = Execute(Execute(mm, i), j)
  BY RunTwo
<1>3. Run(Run(mm, a), b) = Execute(Execute(Run(mm, a), k), l)
  BY RunTwo
<1> HIDE DEF a, b
<1>4. IsText(a \o b) /\ Run(mm, a \o b) = Run(Run(mm, a), b)
  BY <1>2, TextConcat, RunConcat
<1> QED
  BY <1>1, <1>2, <1>3, <1>4

WriteUses(x, dies) == IF x = Rax /\ dies THEN Overwritten.write ELSE AllButRax

\* The call of write, with its operand in rax.
LEMMA CallingText ==
  ASSUME NEW n, NEW f, NEW s, Framed(n, f, s), NEW n1, Holds(n, n1, f, s, {}),
         NEW b \in 1..StackSize, n1.reg["rsp"] = Address(b), NEW c \in 1..StackSize, b = c + 1, c < s,
         NEW x, Good(x), NEW dies \in BOOLEAN, NEW p, p = Run(n1, Calling(x, dies))
  PROVE  IsText(Calling(x, dies)) /\ Wrote(n1, p, WriteUses(x, dies), b, ValueOf(n, x))
<1>0. Based(n1, f) /\ b \in Int /\ c \in Int /\ 1 <= c
  BY StackAssumption DEF Holds
<1>1. ValueOf(n1, x) = ValueOf(n, x)
  BY GoodHolds
<1>2. CASE x = Rax /\ dies
  <2>1. Calling(x, dies) = <<<<"write">>>> /\ WriteUses(x, dies) = Overwritten.write
    BY <1>2 DEF Calling, WriteUses
  <2>2. IsText(Calling(x, dies)) /\ p = Execute(n1, <<"write">>)
    BY <2>1, RunOne
  <2>3. /\ Like(n1, p, Overwritten.write, 0..(b - 1)) /\ p.inputs = n1.inputs
        /\ p.seen = <<"write", n1.reg["rax"]>>
    BY <1>0, <2>2, WriteRoutine
  <2>4. n1.reg["rax"] = ValueOf(n, x)
    BY <1>1, <1>2, RaxRdx
  <2> QED
    BY <2>1, <2>2, <2>3, <2>4 DEF Wrote
<1> DEFINE n2 == Execute(n1, <<"push", Rax>>)
<1>a. n2 = push_word(n1, ValueOf(n1, Rax))
  BY ExecutesOfOne DEF push
<1>b. IsMachine(n2) /\ Holds(n, n2, f, s, {})
  <2> DEFINE w == ValueOf(n1, Rax)
             q == push_word(n1, w)
             K == {}
  <2>0. Holds(n, n1, f, s, K)
    OBVIOUS
  <2> HIDE DEF w, K
  <2>1. /\ Holds(n, q, f, s, K) /\ q.reg["rsp"] = Address(c) /\ q.mem[c] = w
        /\ Same(n1, q, {"rsp"}, {c})
    BY <1>0, <2>0, PushOn
  <2> QED
    BY <1>a, <2>1 DEF Holds, Based, w, K
<1> HIDE DEF n2
<1>3. CASE x = Rax /\ ~dies
  <2> DEFINE n4 == Execute(n2, <<"write">>)
             n5 == Execute(n4, <<"pop", Rax>>)
  <2>1. /\ Calling(x, dies) = <<<<"push", Rax>>, <<"write">>, <<"pop", Rax>>>>
        /\ WriteUses(x, dies) = AllButRax
    BY <1>3 DEF Calling, WriteUses
  <2>2. IsText(Calling(x, dies)) /\ p = n5
    BY <2>1, RunThree DEF n2
  <2>3. n5 = pop(n4, Rax)
    BY ExecutesOfOne
  <2>4. Same(n2, n2, {"rax"}, {})
    BY <1>b, SameSelf, SameMore
  <2> HIDE DEF n4, n5
  <2>n. n4 = Execute(n2, <<"write">>)
    BY DEF n4
  <2>5. Wrote(n1, n5, AllButRax, b, n2.reg["rax"])
    BY <1>a, <2>3, <2>4, <2>n, WriteSaved
  <2>6. n2.reg["rax"] = ValueOf(n, x)
    BY <1>3, <1>b, RaxRdx DEF Holds
  <2> QED
    BY <2>1, <2>2, <2>5, <2>6
<1>4. CASE x # Rax
  <2> DEFINE n3 == Execute(n2, <<"mov", x, Rax>>)
             n4 == Execute(n3, <<"write">>)
             n5 == Execute(n4, <<"pop", Rax>>)
  <2>1. /\ Calling(x, dies) = <<<<"push", Rax>>, <<"mov", x, Rax>>, <<"write">>, <<"pop", Rax>>>>
        /\ WriteUses(x, dies) = AllButRax
    BY <1>4 DEF Calling, WriteUses
  <2>2. IsText(Calling(x, dies)) /\ p = n5
    BY <2>1, RunFour DEF n2
  <2>3. n5 = pop(n4, Rax)
    BY ExecutesOfOne
  <2>4. Same(n2, n3, {"rax"}, {}) /\ n3.reg["rax"] = ValueOf(n2, x)
    BY <1>b, RaxRdx, Registers, MovToRegister
  <2> HIDE DEF n3, n4, n5
  <2>n. n4 = Execute(n3, <<"write">>)
    BY DEF n4
  <2>5. Wrote(n1, n5, AllButRax, b, n3.reg["rax"])
    BY <1>a, <2>3, <2>4, <2>n, WriteSaved
  <2>6. ValueOf(n2, x) = ValueOf(n, x)
    BY <1>b, GoodHolds
  <2> QED
    BY <2>1, <2>2, <2>4, <2>5, <2>6
<1> QED
  BY <1>2, <1>3, <1>4

\* The text of a write: only rax is lost, and only when its value dies.
LEMMA WriteText ==
  ASSUME NEW n, NEW f, NEW s, Framed(n, f, s), NEW x, Good(x), NEW dies \in BOOLEAN
  PROVE  LET t == write(x, dies)
             q == Run(n, t)
         IN  /\ IsText(t) /\ Keeps(n, q, f, s, WriteLoses(x, dies)) /\ q.inputs = n.inputs
             /\ q.seen = <<"write", ValueOf(n, x)>>
<1> DEFINE k == 5
           b == s - k
           c == b - 1
           rs == WriteSaves
           R == WriteUses(x, dies)
           L == WriteLoses(x, dies)
           A == Pushes(rs)
           B == Calling(x, dies)
           C == Pops(Reverse(rs))
           n1 == Run(n, A)
           n2 == Run(n1, B)
           n3 == Run(n2, C)
<1>0. write(x, dies) = A \o B \o C
  BY DEF write, Calling
<1>1. k = 5 /\ rs \in {WriteSaves, ReadSaves} /\ b = s - k
  OBVIOUS
<1>2. Covered(R, L, rs, k)
  <2>1. /\ {"rbp", "rsp"} \intersect R = {}
        /\ R \subseteq {"rax", "rbx", "rcx", "rdx", "rsi", "rdi", "r11"}
    BY DEF WriteUses, Overwritten, AllButRax
  <2>2. ASSUME NEW r \in R, r \in Kept_Registers, r \notin {"rbx", "rcx", "rdx", "rdi", "rsi"}
        PROVE  Reg(r) \in L
    <3>1. r = "rax"
      BY <2>1, <2>2, Registers
    <3>2. x = Rax /\ dies
      BY <3>1 DEF WriteUses, AllButRax
    <3> QED
      BY <3>1, <3>2 DEF WriteLoses, Rax
  <2> HIDE DEF R, L, k, rs
  <2>3. \A r \in {"rbx", "rcx", "rdx", "rdi", "rsi"} : \E i \in 1..k : r = rs[i]
    BY <1>1, SavedRegisters DEF rs
  <2> QED
    BY <2>1, <2>2, <2>3 DEF Covered
<1>c. c \in 1..StackSize /\ b = c + 1 /\ c < s
  BY CellsBelow
<1> HIDE DEF k, b, c, rs, R, L, A, B, C
<1>4. /\ IsText(A) /\ Holds(n, n1, f, s, {}) /\ n1.reg["rsp"] = Address(b)
      /\ n1.inputs = n.inputs /\ b \in 1..StackSize
  BY <1>1, AfterPushes DEF A
<1> HIDE DEF n1, n2
<1>5. /\ IsText(B) /\ Like(n1, n2, R, 0..(b - 1)) /\ n2.inputs = n.inputs
      /\ n2.seen = <<"write", ValueOf(n, x)>>
  <2>1. n2 = Run(n1, Calling(x, dies))
    BY DEF n2, B
  <2>2. IsText(Calling(x, dies)) /\ Wrote(n1, n2, WriteUses(x, dies), b, ValueOf(n, x))
    BY <1>4, <1>c, <2>1, CallingText
  <2> QED
    BY <1>4, <2>2 DEF B, R, Wrote
<1>6. Restored(n, n2, n3, f, s, L) /\ IsText(C)
  <2>1. SaveList(rs, k)
    BY <1>1, SavedLists
  <2>2. n1 = Run(n, Pushes(rs))
    BY DEF A, n1
  <2>3. n3 = Run(n2, Pops(Reverse(rs))) /\ C = Pops(Reverse(rs))
    BY DEF C
  <2> HIDE DEF n3
  <2> QED
    BY <1>1, <1>2, <1>5, <2>1, <2>2, <2>3, Around
<1>7. IsText(write(x, dies)) /\ Run(n, write(x, dies)) = n3
  <2>1. IsText(A \o B) /\ Run(n, A \o B) = n2
    BY <1>4, <1>5, RunConcat, TextConcat DEF n1, n2
  <2>2. IsText(A \o B \o C) /\ Run(n, A \o B \o C) = n3
    BY <1>6, <2>1, RunConcat, TextConcat
  <2> QED
    BY <1>0, <2>2
<1> QED
  BY <1>5, <1>6, <1>7 DEF Restored, L

-----------------------------------------------------------------------------
(* Where the stack keeps the activations: the one number j has its frame   *)
(* at F[j].                                                                *)

\* The cell of the last argument that waits.
Bottom(a, f) == f - SpillCount - Len(a.args)

SlotsAt(mem, a, f) ==
  \A l \in DOMAIN a.locals : is_virtual_reg(l) => mem[f + l[3]] = a.locals[l]

ArgsAt(mem, a, f) == \A i \in 1..Len(a.args) : mem[f - SpillCount - i] = a.args[i]

\* The call and the beginning of the function at f have saved what a keeps in registers.
SavedFor(mem, f, a) ==
  /\ mem[f + 13] = <<"after", a.dest>>
  /\ \A l \in DOMAIN a.locals :
       ~is_virtual_reg(l) => mem[f + (12 - Position(l[2]))] = a.locals[l]

\* The prologue has saved the frame pointer and the stack pointer of a, whose frame is
\* at e.
Linked(mem, f, a, e) == mem[f] = Address(e) /\ mem[f + 12] = Address(Bottom(a, e))

\* What the functions that may still be called need, and the pushes of an instruction.
Room(c) == (MaxInstructions - c) * (SpillCount + MaxArgs + 14) + 7

Apart(as, F, d, c) ==
  /\ \A j \in 1..d : F[j] \in Int /\ F[j] <= StackSize /\ F[j] - SpillCount - MaxArgs >= Room(c)
  /\ \A i, j \in 1..d : i < j => F[j] + 13 < Bottom(as[i], F[i])

\* What the activations below the one number d keep.
Below(mem, as, F, d) ==
  \A j \in 1..(d - 1) : /\ SlotsAt(mem, as[j], F[j]) /\ ArgsAt(mem, as[j], F[j])
                        /\ SavedFor(mem, F[j + 1], as[j])

Links(mem, as, F, d) == \A j \in 1..(d - 1) : Linked(mem, F[j + 1], as[j], F[j])

InPlace(n, a) == \A l \in DOMAIN a.locals : ValueOf(n, l) = a.locals[l]

\* The activation number d runs its body.
Body(n, as, F, d, c) ==
  /\ Apart(as, F, d, c) /\ Below(n.mem, as, F, d) /\ Links(n.mem, as, F, d)
  /\ IsMachine(n) /\ n.reg["rbp"] = Address(F[d]) /\ n.reg["rsp"] = Address(Bottom(as[d], F[d]))
  /\ InPlace(n, as[d]) /\ ArgsAt(n.mem, as[d], F[d])

\* No value of a program is an address.
ActOK(a) ==
  /\ DOMAIN a = {"locals", "args", "pars", "dest"}
  /\ DOMAIN a.locals \subseteq Locations /\ \A l \in DOMAIN a.locals : a.locals[l][1] # "address"
  /\ IsText(a.args) /\ Len(a.args) <= MaxArgs
  /\ \A i \in 1..Len(a.args) : a.args[i][1] # "address"
  /\ a.pars \in Nat

ActsOK(as, d) ==
  /\ IsText(as) /\ d = Len(as) /\ d >= 1
  /\ \A j \in 1..d : ActOK(as[j])
  /\ \A j \in 1..(d - 1) : as[j].pars = 0 /\ as[j].dest \in Locations

\* The locations are places, the constants immediates.
LEMMA LocationsPlaces ==
  /\ \A l \in Locations : l \in Places
  /\ \A x \in Constants : x = Imm(x[2]) /\ x[1] = "imm"
<1>1. ASSUME NEW l \in Locations
      PROVE  l \in Places
  <2>1. CASE \E i \in 1..REGISTER_COUNT : l = Reg(RegisterList[i])
    BY <2>1, Registers DEF Places
  <2>2. CASE \E k \in 1..SpillCount : l = Mem("rbp", -k)
    BY <2>2 DEF Places
  <2> QED
    BY <2>1, <2>2, PlaceAssumption
<1>2. ASSUME NEW x \in Constants
      PROVE  x = Imm(x[2]) /\ x[1] = "imm"
  <2>1. x = Imm(x[2])
    BY PlaceAssumption
  <2>2. Imm(x[2])[1] = "imm"
    BY DEF Imm
  <2> QED
    BY <2>1, <2>2
<1> QED
  BY <1>1, <1>2

\* The value of an operand in the activation a.
Meaning(a, x) == IF x[1] = "imm" THEN Const(x[2]) ELSE a.locals[x]

\* An operand has in the machine the value it means for the activation.
LEMMA OperandValue ==
  ASSUME NEW n, NEW a, ActOK(a), InPlace(n, a), NEW x \in DOMAIN a.locals \union Constants
  PROVE  /\ Good(x) /\ ValueOf(n, x) = Meaning(a, x) /\ Meaning(a, x)[1] # "address"
         /\ x \notin Constants => x \in Places /\ x \in DOMAIN a.locals
<1>1. CASE x \in Constants
  <2>1. x = Imm(x[2]) /\ x[1] = "imm"
    BY <1>1, LocationsPlaces
  <2>2. ValueOf(n, x) = Const(x[2])
    BY <2>1, ConstantValue
  <2>3. Const(x[2])[1] # "address"
    BY DEF Const
  <2> QED
    BY <1>1, <2>1, <2>2, <2>3 DEF Good, Meaning
<1>2. CASE x \notin Constants
  <2>1. x \in DOMAIN a.locals /\ x \in Places
    BY <1>2, LocationsPlaces DEF ActOK
  <2>2. x[1] # "imm"
    BY <2>1, PlaceKinds DEF is_const_instruction
  <2> QED
    BY <2>1, <2>2 DEF Good, Meaning, InPlace, ActOK
<1> QED
  BY <1>1, <1>2

\* Room for one call more.
LEMMA Products ==
  ASSUME NEW a \in Nat, NEW k \in Nat
  PROVE  a * k \in Nat /\ (a + 1) * k = a * k + k
OBVIOUS

\* There is always room for the pushes of an instruction, and for a frame while
\* there may be a call.
LEMMA RoomEnough ==
  ASSUME NEW c \in 0..MaxInstructions
  PROVE  /\ Room(c) \in Int /\ Room(c) >= 7
         /\ c < MaxInstructions => Room(c) = Room(c + 1) + SpillCount + MaxArgs + 14
<1> DEFINE k == SpillCount + MaxArgs + 14
           a == MaxInstructions - c
<1>1. k \in Nat /\ a \in Nat /\ SpillCount \in Nat /\ MaxArgs \in Nat /\ MaxInstructions \in Nat /\ c \in Int
  BY FrameAssumption
<1>2. Room(c) = a * k + 7
  BY DEF Room
<1>3. a * k \in Nat
  <2> HIDE DEF a, k
  <2> QED
    BY <1>1, Products
<1>4. ASSUME c < MaxInstructions
      PROVE  Room(c) = Room(c + 1) + SpillCount + MaxArgs + 14
  <2> DEFINE b == MaxInstructions - (c + 1)
  <2>1. b \in Nat /\ a = b + 1
    BY <1>1, <1>4
  <2>2. Room(c + 1) = b * k + 7
    BY DEF Room
  <2> HIDE DEF a, b
  <2>3. a * k = b * k + k /\ b * k \in Nat
    <3> HIDE DEF k
    <3> QED
      BY <1>1, <2>1, Products
  <2> DEFINE u == b * k
             v == a * k
  <2>4. u \in Nat /\ v = u + k /\ Room(c) = v + 7 /\ Room(c + 1) = u + 7
    BY <1>2, <2>2, <2>3
  <2> HIDE DEF u, v
  <2> QED
    BY <1>1, <2>4
<1> DEFINE v == a * k
<1>5. v \in Nat /\ Room(c) = v + 7
  BY <1>2, <1>3
<1> HIDE DEF v, a, k
<1> QED
  BY <1>4, <1>5

\* A text is numbered from 1.
LEMMA TextLength ==
  ASSUME NEW s, IsText(s)
  PROVE  Len(s) \in Nat /\ DOMAIN s = 1..Len(s)
<1>1. PICK E : s \in Seq(E)
  BY DEF IsText
<1> QED
  BY <1>1

\* The stack pointer of a running function is below its frame, with room.
LEMMA BodyFramed ==
  ASSUME NEW n, NEW as, NEW F, NEW d, NEW c \in 0..MaxInstructions, ActsOK(as, d), Body(n, as, F, d, c)
  PROVE  /\ Framed(n, F[d], Bottom(as[d], F[d])) /\ d \in Nat /\ d \in 1..d
         /\ Bottom(as[d], F[d]) \in Int /\ F[d] \in Int /\ Len(as[d].args) \in Nat
<1>1. d \in Nat /\ d \in 1..d
  <2>1. d \in Nat /\ d >= 1
    BY TextLength DEF ActsOK
  <2> QED
    BY <2>1
<1>2. ActOK(as[d])
  BY <1>1 DEF ActsOK
<1>3. Len(as[d].args) \in Nat /\ Len(as[d].args) <= MaxArgs
  BY <1>2, TextLength DEF ActOK
<1>4. F[d] \in Int /\ F[d] <= StackSize /\ F[d] - SpillCount - MaxArgs >= 7
  <2>1. F[d] \in Int /\ F[d] <= StackSize /\ F[d] - SpillCount - MaxArgs >= Room(c)
    BY <1>1 DEF Body, Apart
  <2>2. SpillCount \in Nat /\ MaxArgs \in Nat
    BY FrameAssumption
  <2> QED
    BY <2>1, <2>2, RoomEnough
<1>5. /\ Bottom(as[d], F[d]) \in Int /\ 7 <= Bottom(as[d], F[d])
      /\ Bottom(as[d], F[d]) <= F[d] - SpillCount /\ F[d] - SpillCount >= 1
  <2>1. SpillCount \in Nat /\ MaxArgs \in Nat
    BY FrameAssumption
  <2> DEFINE f == F[d]
             k == Len(as[d].args)
  <2>2. Bottom(as[d], F[d]) = f - SpillCount - k
    BY DEF Bottom
  <2>3. f \in Int /\ f - SpillCount - MaxArgs >= 7 /\ k \in Nat /\ k <= MaxArgs
    BY <1>3, <1>4
  <2> HIDE DEF f, k
  <2>4. /\ f - SpillCount - k \in Int /\ 7 <= f - SpillCount - k
        /\ f - SpillCount - k <= f - SpillCount /\ f - SpillCount >= 1
    BY <2>1, <2>3
  <2> QED
    BY <2>2, <2>4 DEF f
<1>6. IsMachine(n) /\ n.reg["rbp"] = Address(F[d]) /\ n.reg["rsp"] = Address(Bottom(as[d], F[d]))
  BY DEF Body
<1> QED
  BY <1>1, <1>3, <1>4, <1>5, <1>6 DEF Framed, Based

\* Where the cells of the activations below the one number d are.
LEMMA CellsAbove ==
  ASSUME NEW as, NEW F, NEW d \in Nat, NEW c \in 0..MaxInstructions, Apart(as, F, d, c),
         NEW j \in 1..(d - 1), \A i \in 1..(d - 1) : ActOK(as[i])
  PROVE  /\ F[d] \in Int /\ F[j] \in Int /\ F[j + 1] \in Int /\ F[j] <= StackSize
         /\ j + 1 = d \/ F[d] + 13 < F[j + 1]
         /\ F[d] <= F[j + 1] /\ F[j + 1] + 13 <= StackSize
         /\ F[d] + 13 < F[j] - SpillCount - Len(as[j].args) /\ Len(as[j].args) \in Nat
         /\ SpillCount \in Nat /\ StackSize \in Nat
<1>1. Len(as[j].args) \in Nat /\ SpillCount \in Nat /\ StackSize \in Nat
  BY TextLength, FrameAssumption, StackAssumption DEF ActOK
<1>2. j \in 1..d /\ j + 1 \in 1..d /\ d \in 1..d /\ j < d /\ j < j + 1
  OBVIOUS
<1>3. \A i \in 1..d : F[i] \in Int /\ F[i] <= StackSize
  BY DEF Apart
<1>4. \A i, k \in 1..d : i < k => F[k] + 13 < Bottom(as[i], F[i])
  BY DEF Apart
<1>5. F[d] + 13 < F[j] - SpillCount - Len(as[j].args)
      /\ F[j + 1] + 13 < F[j] - SpillCount - Len(as[j].args)
  BY <1>2, <1>4 DEF Bottom
<1>6. F[j + 1] + 13 <= StackSize
  <2> DEFINE g == F[j + 1]
             f == F[j]
             k == Len(as[j].args)
  <2>1. g \in Int /\ f \in Int /\ f <= StackSize /\ g + 13 < f - SpillCount - k
    BY <1>2, <1>3, <1>5
  <2>2. k \in Nat
    BY <1>1
  <2> HIDE DEF g, f, k
  <2>3. g + 13 <= StackSize
    BY <1>1, <2>1, <2>2
  <2> QED
    BY <2>3 DEF g
<1>7. F[d] <= F[j + 1] /\ (j + 1 = d \/ F[d] + 13 < F[j + 1])
  <2>1. CASE j + 1 = d
    BY <1>2, <1>3, <2>1
  <2>2. CASE j + 1 # d
    <3>1. j + 1 < d /\ j + 1 \in 1..(d - 1)
      BY <2>2
    <3>2. F[d] + 13 < Bottom(as[j + 1], F[j + 1])
      BY <1>2, <1>4, <3>1
    <3> QED
      <4>1. Len(as[j + 1].args) \in Nat
        BY <3>1, TextLength DEF ActOK
      <4> DEFINE g == F[j + 1]
                 f == F[d]
                 k == Len(as[j + 1].args)
      <4>2. f \in Int /\ g \in Int /\ f + 13 < g - SpillCount - k /\ k \in Nat
        BY <1>2, <1>3, <3>2, <4>1 DEF Bottom
      <4> HIDE DEF f, g, k
      <4>3. f <= g /\ f + 13 < g
        BY <1>1, <4>2
      <4> QED
        BY <4>3 DEF f, g
  <2> QED
    BY <2>1, <2>2
<1> QED
  BY <1>1, <1>2, <1>3, <1>5, <1>6, <1>7

\* The activations below are kept where only their links may change.
LEMMA MemoryKept ==
  ASSUME NEW as, NEW bs, NEW F, NEW d \in Nat, NEW c \in 0..MaxInstructions, Apart(as, F, d, c),
         \A i \in 1..(d - 1) : ActOK(as[i]) /\ bs[i] = as[i],
         NEW mem, NEW mem2,
         \A a \in F[d]..StackSize : a # F[d] /\ a # F[d] + 12 => mem2[a] = mem[a]
  PROVE  /\ Apart(bs, F, d, c)
         /\ Below(mem, as, F, d) => Below(mem2, bs, F, d)
         /\ Links(mem, as, F, d - 1) => Links(mem2, bs, F, d - 1)
<1>1. Apart(bs, F, d, c)
  <2>1. \A i, j \in 1..d : i < j => i \in 1..(d - 1)
    OBVIOUS
  <2> QED
    BY <2>1 DEF Apart
<1>2. ASSUME Below(mem, as, F, d), NEW j \in 1..(d - 1)
      PROVE  SlotsAt(mem2, bs[j], F[j]) /\ ArgsAt(mem2, bs[j], F[j]) /\ SavedFor(mem2, F[j + 1], bs[j])
  <2> DEFINE f == F[j]
             g == F[j + 1]
             e == F[d]
             a == as[j]
             k == Len(a.args)
  <2>0. bs[j] = a /\ ActOK(a)
    OBVIOUS
  <2>1. /\ e \in Int /\ f \in Int /\ g \in Int /\ f <= StackSize /\ e <= g /\ g + 13 <= StackSize
        /\ g = e \/ e + 13 < g
        /\ e + 13 < f - SpillCount - k /\ k \in Nat /\ SpillCount \in Nat /\ StackSize \in Nat
    BY CellsAbove
  <2>2. SlotsAt(mem, a, f) /\ ArgsAt(mem, a, f) /\ SavedFor(mem, g, a)
    BY <1>2 DEF Below
  <2>3. \A x \in e..StackSize : x # e /\ x # e + 12 => mem2[x] = mem[x]
    OBVIOUS
  <2> HIDE DEF e, f, g, a, k
  <2>4. ASSUME NEW l \in DOMAIN a.locals, is_virtual_reg(l)
        PROVE  mem2[f + l[3]] = mem[f + l[3]]
    <3>1. l[3] \in Int /\ -l[3] \in 1..SpillCount
      BY <2>0, <2>4, LocationsPlaces, PlaceKinds DEF ActOK
    <3> DEFINE z == l[3]
    <3> HIDE DEF z
    <3>2. z \in Int /\ -z \in 1..SpillCount
      BY <3>1 DEF z
    <3>3. f + z \in e..StackSize /\ f + z # e /\ f + z # e + 12
      BY <2>1, <3>2
    <3> QED
      BY <2>3, <3>3 DEF z
  <2>5. ASSUME NEW i \in 1..k
        PROVE  mem2[f - SpillCount - i] = mem[f - SpillCount - i]
    <3>1. f - SpillCount - i \in e..StackSize /\ f - SpillCount - i # e /\ f - SpillCount - i # e + 12
      BY <2>1
    <3> QED
      BY <2>3, <3>1
  <2>6. ASSUME NEW i \in 1..13, i # 12
        PROVE  mem2[g + i] = mem[g + i]
    <3>1. g + i \in e..StackSize /\ g + i # e /\ g + i # e + 12
      BY <2>1, <2>6
    <3> QED
      BY <2>3, <3>1
  <2>7. SlotsAt(mem2, a, f) /\ ArgsAt(mem2, a, f)
    BY <2>2, <2>4, <2>5 DEF SlotsAt, ArgsAt, k
  <2>8. SavedFor(mem2, g, a)
    <3>1. mem2[g + 13] = mem[g + 13]
      BY <2>6
    <3>2. ASSUME NEW l \in DOMAIN a.locals, ~is_virtual_reg(l)
          PROVE  mem2[g + (12 - Position(l[2]))] = mem[g + (12 - Position(l[2]))]
      <4>1. l[2] \in Kept_Registers
        BY <2>0, <3>2, LocationsPlaces, PlaceKinds DEF ActOK
      <4>2. Position(l[2]) \in 1..11
        BY <4>1, Positions
      <4>3. 12 - Position(l[2]) \in 1..13 /\ 12 - Position(l[2]) # 12
        BY <4>2
      <4> QED
        BY <2>6, <4>3
    <3> QED
      BY <2>2, <3>1, <3>2 DEF SavedFor
  <2> QED
    BY <2>0, <2>7, <2>8 DEF f, g
<1>3. ASSUME Links(mem, as, F, d - 1), NEW j \in 1..((d - 1) - 1)
      PROVE  Linked(mem2, F[j + 1], bs[j], F[j])
  <2> DEFINE g == F[j + 1]
             e == F[d]
  <2>1. j \in 1..(d - 1) /\ j + 1 # d
    OBVIOUS
  <2>2. e \in Int /\ g \in Int /\ e + 13 < g /\ g + 13 <= StackSize /\ StackSize \in Nat
    BY <2>1, CellsAbove
  <2>3. Linked(mem, g, as[j], F[j]) /\ bs[j] = as[j]
    BY <1>3, <2>1 DEF Links
  <2>4. \A x \in e..StackSize : x # e /\ x # e + 12 => mem2[x] = mem[x]
    OBVIOUS
  <2> HIDE DEF g, e
  <2>5. /\ g \in e..StackSize /\ g # e /\ g # e + 12
        /\ g + 12 \in e..StackSize /\ g + 12 # e /\ g + 12 # e + 12
    BY <2>2
  <2>6. mem2[g] = mem[g] /\ mem2[g + 12] = mem[g + 12]
    BY <2>4, <2>5
  <2> QED
    BY <2>3, <2>6 DEF Linked, g
<1>4. Below(mem, as, F, d) => Below(mem2, bs, F, d)
  BY <1>2 DEF Below
<1>5. Links(mem, as, F, d - 1) => Links(mem2, bs, F, d - 1)
  BY <1>3 DEF Links
<1> QED
  BY <1>1, <1>4, <1>5

\* And their links where those are kept, too.
LEMMA LinksKept ==
  ASSUME NEW as, NEW bs, NEW F, NEW d \in Nat, NEW c \in 0..MaxInstructions, Apart(as, F, d, c),
         \A i \in 1..(d - 1) : ActOK(as[i]) /\ bs[i] = as[i],
         NEW mem, NEW mem2, \A a \in F[d]..StackSize : mem2[a] = mem[a], Links(mem, as, F, d)
  PROVE  Links(mem2, bs, F, d)
<1> SUFFICES ASSUME NEW j \in 1..(d - 1)
             PROVE  Linked(mem2, F[j + 1], bs[j], F[j])
  BY DEF Links
<1> DEFINE g == F[j + 1]
           e == F[d]
<1>1. e \in Int /\ g \in Int /\ e <= g /\ g + 13 <= StackSize /\ StackSize \in Nat
  BY CellsAbove
<1>2. Linked(mem, g, as[j], F[j]) /\ bs[j] = as[j]
  BY DEF Links
<1>3. \A x \in e..StackSize : mem2[x] = mem[x]
  OBVIOUS
<1> HIDE DEF g, e
<1>4. g \in e..StackSize /\ g + 12 \in e..StackSize
  BY <1>1
<1>5. mem2[g] = mem[g] /\ mem2[g + 12] = mem[g + 12]
  BY <1>3, <1>4
<1> QED
  BY <1>2, <1>5 DEF Linked, g

\* An instruction that keeps what it does not compute.
LEMMA BodyKept ==
  ASSUME NEW n, NEW as, NEW F, NEW d, NEW c \in 0..MaxInstructions, ActsOK(as, d), Body(n, as, F, d, c),
         NEW p, NEW L, Keeps(n, p, F[d], Bottom(as[d], F[d]), L),
         NEW b, b.args = as[d].args, InPlace(p, b),
         NEW bs, \A i \in 1..(d - 1) : bs[i] = as[i], bs[d] = b
  PROVE  Body(p, bs, F, d, c)
<1> DEFINE f == F[d]
           s == Bottom(as[d], F[d])
           k == Len(as[d].args)
<1>1. Framed(n, f, s) /\ d \in Nat /\ d \in 1..d /\ s \in Int /\ f \in Int /\ k \in Nat
  BY BodyFramed
<1>2. Holds(n, p, f, s, L) /\ p.reg["rsp"] = Address(s)
  BY DEF Keeps
<1>3. s = f - SpillCount - k /\ SpillCount \in Nat /\ StackSize \in Nat /\ 7 <= s /\ f <= StackSize
  BY <1>1, FrameAssumption, StackAssumption DEF Bottom, Framed, Based
<1>h. Bottom(bs[d], F[d]) = s /\ Bottom(as[d], F[d]) = s
  BY DEF Bottom
<1> HIDE DEF f, s, k
<1>4. \A a \in f..StackSize : p.mem[a] = n.mem[a]
  <2>1. ASSUME NEW a \in f..StackSize
        PROVE  a \in s..StackSize /\ a \notin SlotCells(f)
    BY <1>1, <1>3 DEF SlotCells
  <2> QED
    BY <1>2, <2>1 DEF Holds
<1>5. Apart(bs, F, d, c) /\ Below(p.mem, bs, F, d) /\ Links(p.mem, bs, F, d)
  <2>1. \A i \in 1..(d - 1) : ActOK(as[i]) /\ bs[i] = as[i]
    <3>1. \A i \in 1..(d - 1) : i \in 1..d
      BY <1>1
    <3>2. \A i \in 1..d : ActOK(as[i])
      BY DEF ActsOK
    <3> QED
      BY <3>1, <3>2
  <2>2. Apart(as, F, d, c) /\ Below(n.mem, as, F, d) /\ Links(n.mem, as, F, d)
    BY DEF Body
  <2>3. \A a \in F[d]..StackSize : p.mem[a] = n.mem[a]
    BY <1>4 DEF f
  <2>4. Links(p.mem, bs, F, d)
    BY <1>1, <2>1, <2>2, <2>3, LinksKept
  <2>5. Apart(bs, F, d, c) /\ Below(p.mem, bs, F, d)
    BY <1>1, <2>1, <2>2, <2>3, MemoryKept
  <2> QED
    BY <2>4, <2>5
<1>6. IsMachine(p) /\ p.reg["rbp"] = Address(F[d])
  BY <1>2 DEF Holds, Based, f
<1>7. ArgsAt(p.mem, bs[d], F[d])
  <2>1. ASSUME NEW i \in 1..k
        PROVE  p.mem[f - SpillCount - i] = n.mem[f - SpillCount - i]
    <3>1. f - SpillCount - i \in s..StackSize /\ f - SpillCount - i \notin SlotCells(f)
      BY <1>1, <1>3 DEF SlotCells
    <3> QED
      BY <1>2, <3>1 DEF Holds
  <2>2. ArgsAt(n.mem, as[d], f)
    BY DEF Body, f
  <2> QED
    BY <2>1, <2>2 DEF ArgsAt, k, f
<1> QED
  BY <1>2, <1>5, <1>6, <1>7, <1>h DEF Body

-----------------------------------------------------------------------------
(* The prologue.                                                           *)

\* What a mov into a register and one into the stack do.
Loaded(n, p, r, w) == Same(n, p, {r}, {}) /\ p.reg[r] = w /\ IsMachine(p)
Stored(n, p, c, w) == Same(n, p, {}, {c}) /\ p.mem[c] = w /\ IsMachine(p)

\* A mov between registers, from the stack and to the stack.
LEMMA MoveRegister ==
  ASSUME NEW n, IsMachine(n), NEW q, NEW r \in MachineRegisters, NEW p, p = Execute(n, <<"mov", Reg(q), Reg(r)>>)
  PROVE  Loaded(n, p, r, n.reg[q])
<1>1. ValueOf(n, Reg(q)) = n.reg[q]
  BY RegisterValue
<1>2. Same(n, p, {r}, {}) /\ p.reg[r] = ValueOf(n, Reg(q))
  BY MovToRegister
<1> QED
  BY <1>1, <1>2 DEF Same, Like, Loaded

LEMMA MoveFromStack ==
  ASSUME NEW n, IsMachine(n), NEW b \in Int, n.reg["rsp"] = Address(b), NEW k \in Int,
         NEW c \in 1..StackSize, c = b + k,
         NEW r \in MachineRegisters, NEW p, p = Execute(n, <<"mov", Mem("rsp", k), Reg(r)>>)
  PROVE  Loaded(n, p, r, n.mem[c])
<1>1. ValueOf(n, Mem("rsp", k)) = n.mem[c]
  BY Values
<1>2. Same(n, p, {r}, {}) /\ p.reg[r] = ValueOf(n, Mem("rsp", k))
  BY MovToRegister
<1> QED
  BY <1>1, <1>2 DEF Same, Like, Loaded

LEMMA MoveToStack ==
  ASSUME NEW n, IsMachine(n), NEW b \in Int, n.reg["rsp"] = Address(b), NEW k \in Int,
         NEW c \in 1..StackSize, c = b + k,
         NEW q, NEW p, p = Execute(n, <<"mov", Reg(q), Mem("rsp", k)>>)
  PROVE  Stored(n, p, c, n.reg[q])
<1> DEFINE x == Reg(q)
           y == Mem("rsp", k)
           w == ValueOf(n, x)
<1>1. w = n.reg[q]
  BY RegisterValue
<1>2. ~IsMemory(x) /\ x[1] # "imm" /\ y[1] # "upper"
  BY DEF Reg, Mem, IsMemory
<1>3. mov(n, x, y) = Store(n, y, w)
  <2> HIDE DEF x, y
  <2> QED
    BY <1>2, Zenon DEF mov
<1>4. p = Store(n, y, w)
  BY <1>3, ExecutesOfTwo
<1> HIDE DEF w
<1>5. Same(n, p, {}, {c}) /\ p.mem[c] = w
  BY <1>4, SetCell
<1> QED
  BY <1>1, <1>5 DEF Same, Like, Stored

\* What the prologue leaves of the frame at f in place of the entry.
FrameBuilt(n, p, f, e, s, b) ==
  /\ Same(n, p, {"rbp", "rsp", "r11"}, {f, f + 12})
  /\ p.reg["rbp"] = Address(f) /\ p.reg["rsp"] = Address(b)
  /\ p.mem[f] = Address(e) /\ p.mem[f + 12] = Address(s)

\* The prologue: the frame at f is linked to the one at e and its stack pointer s.
LEMMA PrologueText ==
  ASSUME NEW n, IsMachine(n), NEW f \in Int, NEW e, NEW s, NEW g, g = f + 12,
         f \in 1..StackSize, g \in 1..StackSize, NEW b, b = f - SpillCount,
         n.reg["rbp"] = Address(e), n.reg["rsp"] = Address(s), n.reg["r11"] = Address(f + 1),
         n.mem[g] = Address(e)
  PROVE  IsText(prologue) /\ FrameBuilt(n, Run(n, prologue), f, e, s, b)
<1> DEFINE a1 == <<"mov", Reg("rsp"), Reg("rbp")>>
           a2 == <<"mov", Reg("r11"), Reg("rsp")>>
           a3 == <<"mov", Reg("rbp"), Reg("r11")>>
           a4 == <<"mov", Mem("rsp", 11), Reg("rbp")>>
           a5 == <<"mov", Reg("r11"), Mem("rsp", 11)>>
           a6 == <<"push", Reg("rbp")>>
           a7 == <<"mov", Reg("rsp"), Reg("rbp")>>
           a8 == <<"add", Imm(-SpillCount), Rsp>>
           n1 == Execute(n, a1)
           n2 == Execute(n1, a2)
           n3 == Execute(n2, a3)
           n4 == Execute(n3, a4)
           n5 == Execute(n4, a5)
           n6 == Execute(n5, a6)
           n7 == Execute(n6, a7)
           n8 == Execute(n7, a8)
<1>1. prologue = <<a1, a2, a3, a4, a5, a6, a7, a8>>
  BY Registers DEF prologue, Rsp, Rbp, R11
<1>2. IsText(prologue) /\ Run(n, prologue) = n8
  <2> DEFINE u == <<a1, a2, a3, a4>>
             v == <<a5, a6, a7, a8>>
  <2> HIDE DEF a1, a2, a3, a4, a5, a6, a7, a8
  <2>1. prologue = u \o v
    BY <1>1
  <2>2. IsText(u) /\ IsText(v) /\ Run(n, u) = n4 /\ Run(n4, v) = n8
    BY RunFour
  <2> HIDE DEF u, v, n4, n8
  <2> QED
    BY <2>1, <2>2, TextConcat, RunConcat
<1>3. /\ "rsp" \in MachineRegisters /\ "rbp" \in MachineRegisters /\ "r11" \in MachineRegisters
  BY Registers
<1>4. 11 \in Int /\ g = (f + 1) + 11 /\ f + 1 \in Int /\ f \in 0..StackSize /\ g \in 0..StackSize /\ g # f
  BY StackAssumption
<1>d1. n1 = Execute(n, <<"mov", Reg("rsp"), Reg("rbp")>>)
  OBVIOUS
<1>d2. n2 = Execute(n1, <<"mov", Reg("r11"), Reg("rsp")>>)
  OBVIOUS
<1>d3. n3 = Execute(n2, <<"mov", Reg("rbp"), Reg("r11")>>)
  OBVIOUS
<1>d4. n4 = Execute(n3, <<"mov", Mem("rsp", 11), Reg("rbp")>>)
  OBVIOUS
<1>d5. n5 = Execute(n4, <<"mov", Reg("r11"), Mem("rsp", 11)>>)
  OBVIOUS
<1>d6. n6 = Execute(n5, <<"push", Reg("rbp")>>)
  OBVIOUS
<1>d7. n7 = Execute(n6, <<"mov", Reg("rsp"), Reg("rbp")>>)
  OBVIOUS
<1>d8. n8 = Execute(n7, <<"add", Imm(-SpillCount), Rsp>>)
  OBVIOUS
<1> HIDE DEF n1, n2, n3, n4, n5, n6, n7, n8
<1>5. Same(n, n1, {"rbp"}, {}) /\ n1.reg["rbp"] = Address(s) /\ IsMachine(n1)
  <2>1. Loaded(n, n1, "rbp", n.reg["rsp"])
    BY <1>3, <1>d1, MoveRegister
  <2> QED
    BY <2>1 DEF Loaded
<1>6. Same(n1, n2, {"rsp"}, {}) /\ n2.reg["rsp"] = n1.reg["r11"] /\ IsMachine(n2)
  <2>1. Loaded(n1, n2, "rsp", n1.reg["r11"])
    BY <1>3, <1>5, <1>d2, MoveRegister
  <2> QED
    BY <2>1 DEF Loaded
<1>7. Same(n2, n3, {"r11"}, {}) /\ n3.reg["r11"] = n2.reg["rbp"] /\ IsMachine(n3)
  <2>1. Loaded(n2, n3, "r11", n2.reg["rbp"])
    BY <1>3, <1>6, <1>d3, MoveRegister
  <2> QED
    BY <2>1 DEF Loaded
<1>8. n3.reg["rsp"] = Address(f + 1) /\ n3.reg["r11"] = Address(s) /\ n3.mem[g] = Address(e)
  <2>1. n1.reg["r11"] = Address(f + 1) /\ n1.mem[g] = Address(e)
    BY <1>3, <1>4, <1>5 DEF Same, Like
  <2>2. n2.reg["rsp"] = Address(f + 1) /\ n2.reg["rbp"] = Address(s) /\ n2.mem[g] = Address(e)
    BY <1>3, <1>4, <1>5, <1>6, <2>1 DEF Same, Like
  <2> QED
    BY <1>3, <1>4, <1>7, <2>2 DEF Same, Like
<1>9. Same(n3, n4, {"rbp"}, {}) /\ n4.reg["rbp"] = Address(e) /\ IsMachine(n4)
  <2> DEFINE h == f + 1
             k == 11
  <2>1. h \in Int /\ k \in Int /\ g = h + k /\ n3.reg["rsp"] = Address(h) /\ n4 = Execute(n3, <<"mov", Mem("rsp", k), Reg("rbp")>>)
    BY <1>4, <1>8, <1>d4
  <2> HIDE DEF h, k
  <2>2. Loaded(n3, n4, "rbp", n3.mem[g])
    BY <1>3, <1>7, <2>1, MoveFromStack
  <2> QED
    BY <1>8, <2>2 DEF Loaded
<1>10. n4.reg["rsp"] = Address(f + 1) /\ n4.reg["r11"] = Address(s)
  BY <1>3, <1>8, <1>9 DEF Same, Like
<1>11. Same(n4, n5, {}, {g}) /\ n5.mem[g] = Address(s) /\ IsMachine(n5)
  <2> DEFINE h == f + 1
             k == 11
  <2>1. h \in Int /\ k \in Int /\ g = h + k /\ n4.reg["rsp"] = Address(h) /\ n5 = Execute(n4, <<"mov", Reg("r11"), Mem("rsp", k)>>)
    BY <1>4, <1>10, <1>d5
  <2> HIDE DEF h, k
  <2>2. Stored(n4, n5, g, n4.reg["r11"])
    BY <1>9, <2>1, MoveToStack
  <2> QED
    BY <1>10, <2>2 DEF Stored
<1>12. n5.reg["rsp"] = Address(f + 1) /\ n5.reg["rbp"] = Address(e)
  BY <1>3, <1>9, <1>10, <1>11 DEF Same, Like
<1>13. Same(n5, n6, {"rsp"}, {f}) /\ n6.reg["rsp"] = Address(f) /\ n6.mem[f] = Address(e) /\ IsMachine(n6)
  <2>1. n6 = push(n5, Reg("rbp")) /\ ValueOf(n5, Reg("rbp")) = n5.reg["rbp"]
    BY <1>d6, ExecutesOfOne, RegisterValue
  <2>2. n6 = push_word(n5, n5.reg["rbp"])
    BY <2>1 DEF push
  <2>3. Same(n5, n6, {"rsp"}, {f}) /\ n6.reg["rsp"] = Address(f) /\ n6.mem[f] = n5.reg["rbp"]
    <3> DEFINE h == f + 1
    <3>1. h \in Int /\ h = f + 1 /\ n5.reg["rsp"] = Address(h)
      BY <1>4, <1>12
    <3> HIDE DEF h
    <3> QED
      BY <1>11, <2>2, <3>1, PushWord
  <2> QED
    BY <1>12, <2>3 DEF Same, Like
<1>14. Same(n6, n7, {"rbp"}, {}) /\ n7.reg["rbp"] = Address(f) /\ IsMachine(n7)
  <2>1. Loaded(n6, n7, "rbp", n6.reg["rsp"])
    BY <1>3, <1>13, <1>d7, MoveRegister
  <2> QED
    BY <1>13, <2>1 DEF Loaded
<1>15. n7.reg["rsp"] = Address(f)
  BY <1>3, <1>13, <1>14 DEF Same, Like
<1>16. Same(n7, n8, {"rsp"}, {}) /\ n8.reg["rsp"] = Address(b)
  <2>1. -SpillCount \in Int /\ f + -SpillCount = b
    BY FrameAssumption
  <2> QED
    BY <1>14, <1>15, <2>1, <1>d8, AddStackPointer
<1>17. FrameBuilt(n, n8, f, e, s, b)
  <2>1. n8.reg["rbp"] = Address(f)
    BY <1>3, <1>14, <1>16 DEF Same, Like
  <2>2. n8.mem[f] = Address(e)
    <3>1. n7.mem[f] = Address(e)
      BY <1>4, <1>13, <1>14 DEF Same, Like
    <3> QED
      BY <1>4, <1>16, <3>1 DEF Same, Like
  <2>3. n8.mem[g] = Address(s)
    <3>1. n6.mem[g] = Address(s)
      BY <1>4, <1>11, <1>13 DEF Same, Like
    <3>2. n7.mem[g] = Address(s)
      BY <1>4, <1>14, <3>1 DEF Same, Like
    <3> QED
      BY <1>4, <1>16, <3>2 DEF Same, Like
  <2> DEFINE R == {"rbp", "rsp", "r11"}
             C == {f, g}
  <2>4. Same(n, n3, R, C)
    <3>1. Same(n, n1, R, C) /\ Same(n1, n2, R, C) /\ Same(n2, n3, R, C)
      BY <1>5, <1>6, <1>7, SameMore
    <3> HIDE DEF R, C
    <3>2. Same(n, n2, R \union R, C \union C)
      BY <3>1, SameThen
    <3>3. Same(n, n2, R, C)
      BY <3>2, SameMore
    <3>4. Same(n, n3, R \union R, C \union C)
      BY <3>1, <3>3, SameThen
    <3> QED
      BY <3>4, SameMore
  <2>5. Same(n3, n6, R, C)
    <3>1. Same(n3, n4, R, C) /\ Same(n4, n5, R, C) /\ Same(n5, n6, R, C)
      BY <1>9, <1>11, <1>13, SameMore
    <3> HIDE DEF R, C
    <3>2. Same(n3, n5, R \union R, C \union C)
      BY <3>1, SameThen
    <3>3. Same(n3, n5, R, C)
      BY <3>2, SameMore
    <3>4. Same(n3, n6, R \union R, C \union C)
      BY <3>1, <3>3, SameThen
    <3> QED
      BY <3>4, SameMore
  <2>6. Same(n6, n8, R, C)
    <3>1. Same(n6, n7, R, C) /\ Same(n7, n8, R, C)
      BY <1>14, <1>16, SameMore
    <3> HIDE DEF R, C
    <3>2. Same(n6, n8, R \union R, C \union C)
      BY <3>1, SameThen
    <3> QED
      BY <3>2, SameMore
  <2>7. Same(n, n8, R, C)
    <3> HIDE DEF R, C
    <3>1. Same(n, n6, R \union R, C \union C)
      BY <2>4, <2>5, SameThen
    <3>2. Same(n, n6, R, C)
      BY <3>1, SameMore
    <3>3. Same(n, n8, R \union R, C \union C)
      BY <2>6, <3>2, SameThen
    <3> QED
      BY <3>3, SameMore
  <2> QED
    BY <1>16, <2>1, <2>2, <2>3, <2>7 DEF FrameBuilt
<1> QED
  BY <1>2, <1>17

\* The activation number d has been called and takes its parameters.
Entry(n, as, F, d, c) ==
  /\ d >= 2 /\ Apart(as, F, d, c) /\ Below(n.mem, as, F, d) /\ Links(n.mem, as, F, d - 1)
  /\ IsMachine(n) /\ n.mem[F[d] + 12] = Address(F[d - 1])
  /\ n.reg["rbp"] = Address(F[d - 1]) /\ n.reg["rsp"] = Address(Bottom(as[d - 1], F[d - 1]))
  /\ n.reg["r11"] = Address(F[d] + 1)
  /\ as[d].args = <<>> /\ \A l \in DOMAIN as[d].locals : ~is_virtual_reg(l)
  /\ InPlace(n, as[d]) /\ as[d].pars <= Len(as[d - 1].args)

\* What is known of all activations.
LEMMA ActsParts ==
  ASSUME NEW as, NEW d, ActsOK(as, d)
  PROVE  /\ d \in Nat /\ d \in 1..d /\ ActOK(as[d]) /\ \A i \in 1..(d - 1) : i \in 1..d /\ ActOK(as[i])
         /\ \A i \in 1..d : \A l \in DOMAIN as[i].locals : l \in Places
<1>1. d \in Nat /\ d \in 1..d
  <2>1. d \in Nat /\ d >= 1
    BY TextLength DEF ActsOK
  <2> QED
    BY <2>1
<1>2. \A i \in 1..(d - 1) : i \in 1..d
  BY <1>1
<1>3. \A i \in 1..d : ActOK(as[i])
  BY DEF ActsOK
<1>4. ASSUME NEW i \in 1..d, NEW l \in DOMAIN as[i].locals
      PROVE  l \in Places
  <2>1. l \in Locations
    BY <1>3 DEF ActOK
  <2> QED
    BY <2>1, LocationsPlaces
<1> QED
  BY <1>1, <1>2, <1>3, <1>4

\* The frame of the function that is entered is above the room for further calls.
LEMMA EntryCells ==
  ASSUME NEW n, NEW as, NEW F, NEW d, NEW c \in 0..MaxInstructions, ActsOK(as, d), Entry(n, as, F, d, c)
  PROVE  /\ d \in Nat /\ d >= 2 /\ F[d] \in Int /\ F[d] \in 1..StackSize /\ F[d] + 13 <= StackSize
         /\ F[d] - SpillCount - MaxArgs >= 7 /\ F[d - 1] \in Int
         /\ F[d] + 13 < Bottom(as[d - 1], F[d - 1]) /\ F[d - 1] <= StackSize
         /\ Len(as[d - 1].args) \in Nat
<1>1. d \in Nat /\ d >= 2
  BY TextLength DEF ActsOK, Entry
<1>2. \A i \in 1..(d - 1) : ActOK(as[i])
  BY ActsParts
<1>3. Apart(as, F, d, c) /\ d - 1 \in 1..(d - 1) /\ d \in 1..d /\ (d - 1) + 1 = d
  BY <1>1 DEF Entry
<1> DEFINE j == d - 1
           f == F[d]
           e == F[j]
           k == Len(as[j].args)
<1>4. j \in 1..j
  BY <1>3
<1>5. /\ f \in Int /\ e \in Int /\ e <= StackSize /\ f + 13 <= StackSize
      /\ f + 13 < e - SpillCount - k /\ k \in Nat /\ SpillCount \in Nat /\ StackSize \in Nat
  BY <1>1, <1>2, <1>3, CellsAbove
<1>6. f - SpillCount - MaxArgs >= Room(c)
  BY <1>3 DEF Apart
<1>7. Room(c) \in Int /\ Room(c) >= 7 /\ MaxArgs \in Nat
  BY RoomEnough, FrameAssumption
<1>8. Bottom(as[j], e) = e - SpillCount - k
  BY DEF Bottom
<1> HIDE DEF f, e, k
<1>9. f - SpillCount - MaxArgs >= 7 /\ f \in 1..StackSize
  BY <1>5, <1>6, <1>7
<1> QED
  BY <1>1, <1>5, <1>8, <1>9 DEF f, e, k

\* The prologue makes the frame of the function that was called.
LEMMA EntryBody ==
  ASSUME NEW n, NEW as, NEW F, NEW d, NEW c \in 0..MaxInstructions, ActsOK(as, d), Entry(n, as, F, d, c),
         NEW p, p = Run(n, prologue)
  PROVE  /\ IsText(prologue) /\ Body(p, as, F, d, c) /\ p.inputs = n.inputs /\ p.seen = n.seen
<1> DEFINE f == F[d]
           e == F[d - 1]
           s == Bottom(as[d - 1], e)
           g == f + 12
           b == f - SpillCount
<1>1. /\ d \in Nat /\ d >= 2 /\ f \in Int /\ f \in 1..StackSize /\ f + 13 <= StackSize
      /\ f - SpillCount - MaxArgs >= 7 /\ e \in Int
  BY EntryCells
<1>2. /\ IsMachine(n) /\ n.mem[g] = Address(e) /\ n.reg["rbp"] = Address(e) /\ n.reg["rsp"] = Address(s)
      /\ n.reg["r11"] = Address(f + 1)
  BY DEF Entry
<1>3. IsText(prologue) /\ FrameBuilt(n, p, f, e, s, b)
  <2>1. g = f + 12 /\ g \in 1..StackSize /\ b = f - SpillCount
    BY <1>1, StackAssumption
  <2> HIDE DEF f, e, s, g, b
  <2> QED
    BY <1>1, <1>2, <2>1, PrologueText
<1>4. \A a \in F[d]..StackSize : a # F[d] /\ a # F[d] + 12 => p.mem[a] = n.mem[a]
  <2>1. \A a \in f..StackSize : a \in 0..StackSize
    BY <1>1
  <2>2. Like(n, p, {"rbp", "rsp", "r11"}, {f, f + 12})
    BY <1>3 DEF FrameBuilt, Same
  <2> HIDE DEF f
  <2>3. \A a \in f..StackSize : a # f /\ a # f + 12 => p.mem[a] = n.mem[a]
    BY <2>1, <2>2 DEF Like
  <2> QED
    BY <2>3 DEF f
<1>5. Apart(as, F, d, c) /\ Below(n.mem, as, F, d) /\ Links(n.mem, as, F, d - 1)
  BY DEF Entry
<1>6. Below(p.mem, as, F, d) /\ Links(p.mem, as, F, d - 1)
  <2>1. \A i \in 1..(d - 1) : ActOK(as[i]) /\ as[i] = as[i]
    BY ActsParts
  <2> QED
    BY <1>1, <1>4, <1>5, <2>1, MemoryKept
<1>7. Links(p.mem, as, F, d)
  <2> SUFFICES ASSUME NEW j \in 1..(d - 1)
               PROVE  Linked(p.mem, F[j + 1], as[j], F[j])
    BY DEF Links
  <2>1. CASE j = d - 1
    <3>1. p.mem[f] = Address(e) /\ p.mem[f + 12] = Address(s)
      BY <1>3 DEF FrameBuilt
    <3>2. j + 1 = d
      BY <1>1, <2>1
    <3> QED
      BY <2>1, <3>1, <3>2 DEF Linked
  <2>2. CASE j # d - 1
    <3>1. j \in 1..((d - 1) - 1)
      BY <1>1, <2>2
    <3> QED
      BY <1>6, <3>1 DEF Links
  <2> QED
    BY <2>1, <2>2
<1>8. InPlace(p, as[d])
  <2>1. InPlace(n, as[d]) /\ \A l \in DOMAIN as[d].locals : ~is_virtual_reg(l)
    BY DEF Entry
  <2>2. \A l \in DOMAIN as[d].locals : l \in Places
    BY ActsParts
  <2>3. ASSUME NEW l \in DOMAIN as[d].locals
        PROVE  ValueOf(p, l) = ValueOf(n, l)
    <3>1. l = Reg(l[2]) /\ l[2] \in Kept_Registers
      BY <2>1, <2>2, PlaceKinds
    <3>2. l[2] \in MachineRegisters /\ l[2] \notin {"rbp", "rsp", "r11"}
      BY <3>1, Registers
    <3>3. p.reg[l[2]] = n.reg[l[2]]
      BY <1>3, <3>2 DEF FrameBuilt, Same, Like
    <3>4. ValueOf(p, Reg(l[2])) = p.reg[l[2]] /\ ValueOf(n, Reg(l[2])) = n.reg[l[2]]
      BY RegisterValue
    <3> QED
      BY <3>1, <3>3, <3>4
  <2> QED
    BY <2>1, <2>3 DEF InPlace
<1>9. Len(as[d].args) = 0
  BY DEF Entry
<1>10. Bottom(as[d], F[d]) = b
  <2>1. SpillCount \in Nat
    BY FrameAssumption
  <2> HIDE DEF f
  <2>2. f - SpillCount - 0 = b
    BY <1>1, <2>1
  <2> QED
    BY <1>9, <2>2 DEF Bottom, f
<1>11. ArgsAt(p.mem, as[d], F[d])
  <2>1. 1..0 = {}
    OBVIOUS
  <2> QED
    BY <1>9, <2>1 DEF ArgsAt
<1>12. /\ IsMachine(p) /\ p.reg["rbp"] = Address(F[d]) /\ p.reg["rsp"] = Address(Bottom(as[d], F[d]))
       /\ p.inputs = n.inputs /\ p.seen = n.seen
  BY <1>3, <1>10 DEF FrameBuilt, Same, Like
<1> QED
  BY <1>3, <1>5, <1>6, <1>7, <1>8, <1>11, <1>12 DEF Body

-----------------------------------------------------------------------------
(* The instructions that are no calls.                                     *)

BodyAt(n, as, d, c) == ActsOK(as, d) /\ as[d].pars = 0 /\ \E F : Body(n, as, F, d, c)

\* b is a with v in l; bs is as with b for the activation that runs.
Assigned(a, b, l, v) ==
  /\ DOMAIN b = DOMAIN a /\ b.args = a.args /\ b.pars = a.pars /\ b.dest = a.dest
  /\ DOMAIN b.locals = DOMAIN a.locals \union {l} /\ b.locals[l] = v
  /\ \A k \in DOMAIN a.locals : k # l => b.locals[k] = a.locals[k]

WithTop(as, d, b) == [as EXCEPT ![d] = b]
TopIs(as, bs, d, b) == ActsOK(bs, d) /\ bs[d] = b /\ \A i \in 1..(d - 1) : bs[i] = as[i]

\* An assignment to a location changes only that.
LEMMA AssignParts ==
  ASSUME NEW a, ActOK(a), NEW l, NEW v, NEW b, b = Assign(a, l, v)
  PROVE  Assigned(a, b, l, v)
<1> DEFINE g == [k \in DOMAIN a.locals \union {l} |-> IF k = l THEN v ELSE a.locals[k]]
<1>1. b = [a EXCEPT !.locals = g]
  BY DEF Assign
<1>2. DOMAIN g = DOMAIN a.locals \union {l} /\ g[l] = v /\ \A k \in DOMAIN a.locals : k # l => g[k] = a.locals[k]
  OBVIOUS
<1>3. DOMAIN a = {"locals", "args", "pars", "dest"}
  BY DEF ActOK
<1> HIDE DEF g
<1>4. b.locals = g /\ b.args = a.args /\ b.pars = a.pars /\ b.dest = a.dest /\ DOMAIN b = DOMAIN a
  BY <1>1, <1>3
<1> QED
  BY <1>2, <1>4 DEF Assigned

\* The activation stays one.
LEMMA AssignOK ==
  ASSUME NEW a, ActOK(a), NEW l \in Locations, NEW v, v[1] # "address", NEW b, b = Assign(a, l, v)
  PROVE  ActOK(b)
<1>1. /\ DOMAIN b = DOMAIN a /\ b.args = a.args /\ b.pars = a.pars
      /\ DOMAIN b.locals = DOMAIN a.locals \union {l} /\ b.locals[l] = v
      /\ \A k \in DOMAIN a.locals : k # l => b.locals[k] = a.locals[k]
  <2>1. Assigned(a, b, l, v)
    BY AssignParts
  <2> QED
    BY <2>1 DEF Assigned
<1>2. \A k \in DOMAIN b.locals : b.locals[k][1] # "address"
  BY <1>1 DEF ActOK
<1> QED
  BY <1>1, <1>2 DEF ActOK

Replaced(s, t, i, e) ==
  IsText(t) /\ Len(t) = Len(s) /\ t[i] = e /\ \A j \in 1..Len(s) : j # i => t[j] = s[j]

\* A list with one element replaced.
LEMMA TextExcept ==
  ASSUME NEW s, IsText(s), NEW i, i \in 1..Len(s), NEW e, NEW t, t = WithTop(s, i, e)
  PROVE  Replaced(s, t, i, e)
<1>1. PICK E : s \in Seq(E)
  BY DEF IsText
<1> DEFINE G == E \union {e}
<1>2. s \in Seq(G) /\ e \in G
  BY <1>1
<1> HIDE DEF G
<1>3. t \in Seq(G) /\ Len(t) = Len(s)
  BY <1>2 DEF WithTop
<1>4. t[i] = e /\ \A j \in 1..Len(s) : j # i => t[j] = s[j]
  BY <1>2 DEF WithTop
<1> QED
  BY <1>3, <1>4 DEF IsText, Replaced

\* The activations with another one on top.
LEMMA ActsSet ==
  ASSUME NEW as, NEW d, ActsOK(as, d), NEW b, ActOK(b), NEW bs, bs = WithTop(as, d, b)
  PROVE  TopIs(as, bs, d, b)
<1>1. IsText(as) /\ d \in 1..Len(as) /\ Len(as) = d
  BY ActsParts DEF ActsOK
<1>2. d \in Nat /\ d >= 1
  <2>1. d \in Nat
    BY ActsParts
  <2>2. d >= 1
    BY DEF ActsOK
  <2> QED
    BY <2>1, <2>2
<1>3. IsText(bs) /\ Len(bs) = Len(as) /\ bs[d] = b /\ \A i \in 1..Len(as) : i # d => bs[i] = as[i]
  <2>1. Replaced(as, bs, d, b)
    BY <1>1, TextExcept
  <2> QED
    BY <2>1 DEF Replaced
<1>4. bs[d] = b /\ \A i \in 1..(d - 1) : bs[i] = as[i]
  <2>1. \A i \in 1..(d - 1) : i \in 1..d /\ i # d
    BY <1>2
  <2> QED
    BY <1>1, <1>3, <2>1
<1>5. \A j \in 1..d : ActOK(bs[j])
  <2> SUFFICES ASSUME NEW j \in 1..d
               PROVE  ActOK(bs[j])
    OBVIOUS
  <2>1. CASE j = d
    BY <1>4, <2>1
  <2>2. CASE j # d
    <3>1. d \in Nat
      BY <1>2
    <3>2. j \in 1..(d - 1)
      BY <2>2, <3>1
    <3> QED
      BY <1>4, <3>2, ActsParts
  <2> QED
    BY <2>1, <2>2
<1>6. \A j \in 1..(d - 1) : bs[j].pars = 0 /\ bs[j].dest \in Locations
  BY <1>4 DEF ActsOK
<1> QED
  BY <1>1, <1>2, <1>3, <1>4, <1>5, <1>6 DEF ActsOK, TopIs

\* The machine may hold another activation on top as long as its values and
\* arguments are in place.
LEMMA BodyTop ==
  ASSUME NEW n, NEW as, NEW F, NEW d, NEW c \in 0..MaxInstructions, ActsOK(as, d), Body(n, as, F, d, c),
         NEW p, NEW L, Keeps(n, p, F[d], Bottom(as[d], F[d]), L),
         NEW b, b.args = as[d].args, InPlace(p, b), NEW bs, TopIs(as, bs, d, b)
  PROVE  Body(p, bs, F, d, c)
<1>1. \A i \in 1..(d - 1) : bs[i] = as[i]
  BY DEF TopIs
<1>2. bs[d] = b
  BY DEF TopIs
<1> QED
  BY <1>1, <1>2, BodyKept

Only(l) == {l}

\* The instruction assigns v to l.
LEMMA BodyAssigned ==
  ASSUME NEW n, NEW as, NEW F, NEW d, NEW c \in 0..MaxInstructions, ActsOK(as, d), Body(n, as, F, d, c),
         as[d].pars = 0, NEW l \in Locations, NEW v, v[1] # "address",
         NEW q, Keeps(n, q, F[d], Bottom(as[d], F[d]), Only(l)), ValueOf(q, l) = v,
         NEW bs, bs = WithTop(as, d, Assign(as[d], l, v))
  PROVE  BodyAt(q, bs, d, c)
<1> DEFINE a == as[d]
           b == Assign(a, l, v)
<1>1. ActOK(a) /\ \A k \in DOMAIN a.locals : k \in Places
  BY ActsParts
<1>d. b = Assign(a, l, v)
  OBVIOUS
<1> HIDE DEF b
<1>2. ActOK(b)
  BY <1>1, <1>d, AssignOK
<1>3. /\ b.args = a.args /\ b.pars = a.pars
      /\ DOMAIN b.locals = DOMAIN a.locals \union {l} /\ b.locals[l] = v
      /\ \A k \in DOMAIN a.locals : k # l => b.locals[k] = a.locals[k]
  <2>1. Assigned(a, b, l, v)
    BY <1>1, <1>d, AssignParts
  <2> QED
    BY <2>1 DEF Assigned
<1>4. bs = WithTop(as, d, b)
  BY DEF b
<1>5. TopIs(as, bs, d, b)
  BY <1>2, <1>4, ActsSet
<1>6. InPlace(q, b)
  <2>1. ASSUME NEW k \in DOMAIN b.locals
        PROVE  ValueOf(q, k) = b.locals[k]
    <3>1. CASE k = l
      BY <1>3, <3>1
    <3>2. CASE k # l
      <4>1. k \in DOMAIN a.locals /\ b.locals[k] = a.locals[k] /\ k \in Places
        BY <1>1, <1>3, <3>2
      <4>2. ValueOf(n, k) = a.locals[k]
        BY <4>1 DEF Body, InPlace
      <4>3. ValueOf(q, k) = ValueOf(n, k)
        BY <3>2, <4>1 DEF Keeps, Holds, Only
      <4> QED
        BY <4>1, <4>2, <4>3
    <3> QED
      BY <3>1, <3>2
  <2> QED
    BY <2>1 DEF InPlace
<1>7. Body(q, bs, F, d, c)
  <2>1. b.args = as[d].args
    BY <1>3
  <2> QED
    BY <1>5, <1>6, <2>1, BodyTop
<1> QED
  BY <1>3, <1>5, <1>7 DEF BodyAt, TopIs

\* The instruction assigns nothing.
LEMMA BodyUnchanged ==
  ASSUME NEW n, NEW as, NEW F, NEW d, NEW c \in 0..MaxInstructions, ActsOK(as, d), Body(n, as, F, d, c),
         as[d].pars = 0, NEW L, \A l \in DOMAIN as[d].locals : l \notin L,
         NEW q, Keeps(n, q, F[d], Bottom(as[d], F[d]), L)
  PROVE  BodyAt(q, as, d, c)
<1> DEFINE a == as[d]
<1>1. \A k \in DOMAIN a.locals : k \in Places
  BY ActsParts
<1>2. InPlace(q, a)
  <2>1. ASSUME NEW k \in DOMAIN a.locals
        PROVE  ValueOf(q, k) = a.locals[k]
    BY <1>1 DEF Body, InPlace, Keeps, Holds
  <2> QED
    BY <2>1 DEF InPlace
<1>3. Body(q, as, F, d, c)
  BY <1>2, BodyKept
<1> QED
  BY <1>3 DEF BodyAt

Forgotten(as, d, x) == [as EXCEPT ![d].locals = [l \in DOMAIN @ \ {x} |-> @[l]]]

Forgot(as, bs, d, x) ==
  /\ ActsOK(bs, d) /\ bs[d].args = as[d].args /\ bs[d].pars = 0
  /\ DOMAIN bs[d].locals = DOMAIN as[d].locals \ {x}
  /\ \A l \in DOMAIN bs[d].locals : bs[d].locals[l] = as[d].locals[l]
  /\ \A i \in 1..(d - 1) : bs[i] = as[i]

\* The activation without the location of a value that died.
LEMMA Forget ==
  ASSUME NEW as, NEW d, ActsOK(as, d), as[d].pars = 0, NEW x,
         NEW bs, bs = Forgotten(as, d, x)
  PROVE  Forgot(as, bs, d, x)
<1> DEFINE a == as[d]
           g == [l \in DOMAIN a.locals \ {x} |-> a.locals[l]]
           b == [a EXCEPT !.locals = g]
<1>1. bs = WithTop(as, d, b)
  BY DEF Forgotten, WithTop
<1>2. DOMAIN g = DOMAIN a.locals \ {x} /\ \A l \in DOMAIN g : g[l] = a.locals[l]
  OBVIOUS
<1>3. ActOK(a)
  BY ActsParts
<1> HIDE DEF g
<1>4. b.locals = g /\ b.args = a.args /\ b.pars = a.pars /\ DOMAIN b = DOMAIN a
  BY <1>3 DEF ActOK
<1>5. ActOK(b)
  <2> HIDE DEF b, a
  <2> QED
    BY <1>2, <1>3, <1>4 DEF ActOK
<1> HIDE DEF b
<1>6. TopIs(as, bs, d, b)
  BY <1>1, <1>5, ActsSet
<1> QED
  BY <1>2, <1>4, <1>6 DEF TopIs, Forgot

\* The last use of x leaves its location free.
LEMMA BodyForgot ==
  ASSUME NEW n, NEW as, NEW F, NEW d, NEW c \in 0..MaxInstructions, ActsOK(as, d), Body(n, as, F, d, c),
         as[d].pars = 0, NEW L, NEW x, \A l \in DOMAIN as[d].locals : l \in L => l = x,
         NEW q, Keeps(n, q, F[d], Bottom(as[d], F[d]), L),
         NEW bs, Forgot(as, bs, d, x)
  PROVE  BodyAt(q, bs, d, c)
<1> DEFINE a == as[d]
           b == bs[d]
<1>1. \A k \in DOMAIN a.locals : k \in Places
  BY ActsParts
<1>2. /\ ActsOK(bs, d) /\ b.args = a.args /\ b.pars = 0 /\ DOMAIN b.locals = DOMAIN a.locals \ {x}
      /\ \A l \in DOMAIN b.locals : b.locals[l] = a.locals[l]
  BY DEF Forgot
<1>3. InPlace(q, b)
  <2>1. ASSUME NEW k \in DOMAIN b.locals
        PROVE  ValueOf(q, k) = b.locals[k]
    <3>1. k \in DOMAIN a.locals /\ k # x /\ b.locals[k] = a.locals[k] /\ k \in Places /\ k \notin L
      BY <1>1, <1>2
    <3>2. ValueOf(n, k) = a.locals[k]
      BY <3>1 DEF Body, InPlace
    <3>3. ValueOf(q, k) = ValueOf(n, k)
      BY <3>1 DEF Keeps, Holds
    <3> QED
      BY <3>1, <3>2, <3>3
  <2> QED
    BY <2>1 DEF InPlace
<1>4. \A i \in 1..(d - 1) : bs[i] = as[i]
  BY DEF Forgot
<1>b. bs[d] = b /\ b.args = as[d].args
  BY <1>2
<1> HIDE DEF b
<1>5. Body(q, bs, F, d, c)
  BY <1>3, <1>4, <1>b, BodyKept
<1> QED
  BY <1>2, <1>5 DEF BodyAt, b

\* The same for the activations WriteLast makes.
LEMMA BodyForgets ==
  ASSUME NEW n, NEW as, NEW F, NEW d, NEW c \in 0..MaxInstructions, ActsOK(as, d), Body(n, as, F, d, c),
         as[d].pars = 0, NEW L, NEW x, \A l \in DOMAIN as[d].locals : l \in L => l = x,
         NEW q, Keeps(n, q, F[d], Bottom(as[d], F[d]), L),
         NEW bs, bs = Forgotten(as, d, x)
  PROVE  BodyAt(q, bs, d, c)
<1>1. Forgot(as, bs, d, x)
  BY Forget
<1> QED
  BY <1>1, BodyForgot

\* The result of an operation on values is no address.
LEMMA SumsNoAddresses ==
  ASSUME NEW op \in {"add", "sub", "imulq", "idivq"}, NEW v, v[1] # "address", NEW w
  PROVE  Arithmetic(op, v, w)[1] # "address"
<1>1. CASE op = "add"
  <2>1. Arithmetic(op, v, w) = <<"add", {v, w}>>
    BY <1>1, Zenon DEF Arithmetic
  <2> DEFINE s == {v, w}
  <2> HIDE DEF s
  <2>2. <<"add", s>>[1] = "add"
    OBVIOUS
  <2>3. Arithmetic(op, v, w)[1] = "add"
    BY <2>1, <2>2 DEF s
  <2> QED
    BY <2>3
<1>2. CASE op # "add"
  <2>1. Arithmetic(op, v, w) = <<op, v, w>>
    BY <1>2, Zenon DEF Arithmetic
  <2> QED
    BY <1>2, <2>1
<1> QED
  BY <1>1, <1>2

Means(n, a, x) == Good(x) /\ ValueOf(n, x) = Meaning(a, x) /\ Meaning(a, x)[1] # "address"

\* The machine at the body, as the texts of the instructions want it.
LEMMA BodyReady ==
  ASSUME NEW n, NEW as, NEW F, NEW d, NEW c \in 0..MaxInstructions, ActsOK(as, d), Body(n, as, F, d, c)
  PROVE  Framed(n, F[d], Bottom(as[d], F[d])) /\ Based(n, F[d])
<1>1. Framed(n, F[d], Bottom(as[d], F[d]))
  BY BodyFramed
<1>2. Based(n, F[d])
  BY <1>1 DEF Framed
<1> QED
  BY <1>1, <1>2

\* The operands of an instruction in the body.
LEMMA BodyOperand ==
  ASSUME NEW n, NEW as, NEW F, NEW d, NEW c \in 0..MaxInstructions, ActsOK(as, d), Body(n, as, F, d, c),
         NEW x, x \in DOMAIN as[d].locals \union Constants
  PROVE  Means(n, as[d], x)
<1> DEFINE a == as[d]
<1>1. ActOK(a) /\ InPlace(n, a) /\ x \in DOMAIN a.locals \union Constants
  BY ActsParts DEF Body
<1> HIDE DEF a
<1>2. Means(n, a, x)
  BY <1>1, OperandValue DEF Means
<1> QED
  BY <1>2 DEF a

Done(n, q, t, bs, d, c) ==
  IsText(t) /\ BodyAt(q, bs, d, c) /\ q.inputs = n.inputs /\ q.seen = n.seen

\* What leaves v in l, and all else where it is, is the assignment.
LEMMA ComputesBody ==
  ASSUME NEW n, NEW as, NEW F, NEW d, NEW c \in 0..MaxInstructions, ActsOK(as, d), Body(n, as, F, d, c),
         as[d].pars = 0, NEW l \in Locations, NEW v, v[1] # "address", NEW t, IsText(t),
         NEW q, Computes(n, q, F[d], l, v), NEW bs, bs = WithTop(as, d, Assign(as[d], l, v))
  PROVE  Done(n, q, t, bs, d, c)
<1> DEFINE s == Bottom(as[d], F[d])
<1>1. Framed(n, F[d], s) /\ l \in Places
  BY BodyReady, LocationsPlaces
<1>2. Keeps(n, q, F[d], s, {l}) /\ ValueOf(q, l) = v /\ q.inputs = n.inputs /\ q.seen = n.seen
  BY <1>1, ComputesKeeps
<1>3. Keeps(n, q, F[d], s, Only(l))
  BY <1>2 DEF Only
<1>4. BodyAt(q, bs, d, c)
  BY <1>2, <1>3, BodyAssigned
<1> QED
  BY <1>2, <1>4 DEF Done

\* An addition or subtraction keeps the frames and does what it means.
LEMMA AdditiveBody ==
  ASSUME NEW n, NEW as, NEW F, NEW d, NEW c \in 0..MaxInstructions, ActsOK(as, d), Body(n, as, F, d, c),
         as[d].pars = 0, NEW l \in Locations, NEW op \in {"add", "sub"},
         NEW x \in DOMAIN as[d].locals \union Constants, NEW y \in DOMAIN as[d].locals \union Constants,
         op = "sub" /\ y = l => x = l,
         ~(is_virtual_reg(l) /\ is_const_instruction(IF y = l THEN x ELSE y)),
         NEW v, v = Arithmetic(op, Meaning(as[d], x), Meaning(as[d], y)),
         NEW bs, bs = WithTop(as, d, Assign(as[d], l, v))
  PROVE  Done(n, Run(n, additive(l, x, y, op)), additive(l, x, y, op), bs, d, c)
<1> DEFINE t == additive(l, x, y, op)
<1>m. Means(n, as[d], x) /\ Means(n, as[d], y)
  BY BodyOperand
<1>1. /\ Good(x) /\ ValueOf(n, x) = Meaning(as[d], x) /\ Meaning(as[d], x)[1] # "address"
      /\ Good(y) /\ ValueOf(n, y) = Meaning(as[d], y) /\ Meaning(as[d], y)[1] # "address"
      /\ Based(n, F[d]) /\ l \in Places
  BY <1>m, BodyReady, LocationsPlaces DEF Means
<1>2. IsText(t) /\ Computes(n, Run(n, t), F[d], l, Arithmetic(op, ValueOf(n, x), ValueOf(n, y)))
  BY <1>1, AdditiveText
<1>3. v[1] # "address"
  <2>1. op \in {"add", "sub", "imulq", "idivq"}
    OBVIOUS
  <2> QED
    BY <1>1, <2>1, SumsNoAddresses
<1>4. Computes(n, Run(n, t), F[d], l, v)
  BY <1>1, <1>2
<1> HIDE DEF t
<1>5. Done(n, Run(n, t), t, bs, d, c)
  BY <1>2, <1>3, <1>4, ComputesBody
<1> QED
  BY <1>5 DEF t

Scaled(n, q, t, f, s, l, w) ==
  /\ IsText(t) /\ Keeps(n, q, f, s, {l}) /\ q.inputs = n.inputs /\ q.seen = n.seen /\ ValueOf(q, l) = w

\* A multiplication or division does so, too.
LEMMA ScaleDone ==
  ASSUME NEW n, NEW f, NEW s, Framed(n, f, s), NEW d \in Places, NEW x, Good(x), NEW y, Good(y),
         NEW op \in {"imulq", "idivq"}
  PROVE  Scaled(n, Run(n, scale(d, x, y, op)), scale(d, x, y, op), f, s, d,
                Arithmetic(op, ValueOf(n, x), ValueOf(n, y)))
BY ScaleText DEF Scaled

LEMMA ScaleBody ==
  ASSUME NEW n, NEW as, NEW F, NEW d, NEW c \in 0..MaxInstructions, ActsOK(as, d), Body(n, as, F, d, c),
         as[d].pars = 0, NEW l \in Locations, NEW op \in {"imulq", "idivq"},
         NEW x \in DOMAIN as[d].locals \union Constants, NEW y \in DOMAIN as[d].locals \union Constants,
         NEW v, v = Arithmetic(op, Meaning(as[d], x), Meaning(as[d], y)),
         NEW bs, bs = WithTop(as, d, Assign(as[d], l, v))
  PROVE  Done(n, Run(n, scale(l, x, y, op)), scale(l, x, y, op), bs, d, c)
<1> DEFINE t == scale(l, x, y, op)
           s == Bottom(as[d], F[d])
           q == Run(n, t)
<1>m. Means(n, as[d], x) /\ Means(n, as[d], y)
  BY BodyOperand
<1>1. /\ Good(x) /\ ValueOf(n, x) = Meaning(as[d], x) /\ Meaning(as[d], x)[1] # "address"
      /\ Good(y) /\ ValueOf(n, y) = Meaning(as[d], y)
      /\ Framed(n, F[d], s) /\ l \in Places
  BY <1>m, BodyReady, LocationsPlaces DEF Means
<1>2. /\ IsText(t) /\ Keeps(n, q, F[d], s, {l}) /\ q.inputs = n.inputs /\ q.seen = n.seen
      /\ ValueOf(q, l) = Arithmetic(op, ValueOf(n, x), ValueOf(n, y))
  <2>1. Scaled(n, q, t, F[d], s, l, Arithmetic(op, ValueOf(n, x), ValueOf(n, y)))
    <3>1. Good(x) /\ Good(y) /\ Framed(n, F[d], s) /\ l \in Places
      BY <1>1
    <3> QED
      BY <3>1, ScaleDone
  <2> HIDE DEF q, t, s
  <2> QED
    BY <2>1 DEF Scaled
<1>3. v[1] # "address"
  <2>1. op \in {"add", "sub", "imulq", "idivq"}
    OBVIOUS
  <2> QED
    BY <1>1, <2>1, SumsNoAddresses
<1>4. ValueOf(q, l) = v
  BY <1>1, <1>2
<1>5. Keeps(n, q, F[d], s, Only(l))
  BY <1>2 DEF Only
<1> HIDE DEF q, t
<1>6. BodyAt(q, bs, d, c)
  BY <1>3, <1>4, <1>5, BodyAssigned
<1>7. Done(n, q, t, bs, d, c)
  BY <1>2, <1>6 DEF Done
<1> QED
  BY <1>7 DEF q, t

\* A mov does so, too.
LEMMA MovBody ==
  ASSUME NEW n, NEW as, NEW F, NEW d, NEW c \in 0..MaxInstructions, ActsOK(as, d), Body(n, as, F, d, c),
         as[d].pars = 0, NEW l \in Locations, NEW x \in DOMAIN as[d].locals \union Constants,
         NEW bs, bs = WithTop(as, d, Assign(as[d], l, Meaning(as[d], x)))
  PROVE  Done(n, Run(n, mov_instruction(x, l)), mov_instruction(x, l), bs, d, c)
<1> DEFINE t == mov_instruction(x, l)
           v == Meaning(as[d], x)
<1>m. Means(n, as[d], x)
  BY BodyOperand
<1>1. Good(x) /\ ValueOf(n, x) = v /\ v[1] # "address" /\ Based(n, F[d]) /\ l \in Places
  BY <1>m, BodyReady, LocationsPlaces DEF Means
<1> HIDE DEF t
<1>2. IsText(t) /\ Computes(n, Run(n, t), F[d], l, ValueOf(n, x))
  BY <1>1, MovInstruction, MovesCompute DEF t
<1>3. Computes(n, Run(n, t), F[d], l, v) /\ bs = WithTop(as, d, Assign(as[d], l, v))
  BY <1>1, <1>2
<1> HIDE DEF v
<1>4. Done(n, Run(n, t), t, bs, d, c)
  BY <1>1, <1>2, <1>3, ComputesBody
<1> QED
  BY <1>4 DEF t

\* A read does so, too.
LEMMA ReadBody ==
  ASSUME NEW n, NEW as, NEW F, NEW d, NEW c \in 0..MaxInstructions, ActsOK(as, d), Body(n, as, F, d, c),
         as[d].pars = 0, NEW l \in Locations,
         NEW bs, bs = WithTop(as, d, Assign(as[d], l, Input(n.inputs))), NEW q, q = Run(n, read(l))
  PROVE  IsText(read(l)) /\ BodyAt(q, bs, d, c) /\ q.inputs = n.inputs + 1 /\ q.seen = n.seen
<1> DEFINE s == Bottom(as[d], F[d])
           v == Input(n.inputs)
<1>1. Framed(n, F[d], s) /\ l \in Places
  BY BodyReady, LocationsPlaces
<1>2. /\ IsText(read(l)) /\ Keeps(n, q, F[d], s, {l}) /\ ValueOf(q, l) = v
      /\ q.inputs = n.inputs + 1 /\ q.seen = n.seen
  BY <1>1, ReadText
<1>3. v[1] # "address"
  BY DEF Input
<1>4. Keeps(n, q, F[d], s, Only(l))
  BY <1>2 DEF Only
<1>5. bs = WithTop(as, d, Assign(as[d], l, v))
  OBVIOUS
<1> HIDE DEF v
<1>6. BodyAt(q, bs, d, c)
  BY <1>2, <1>3, <1>4, <1>5, BodyAssigned
<1> QED
  BY <1>2, <1>6

\* A write does so, too.
LEMMA WriteBody ==
  ASSUME NEW n, NEW as, NEW F, NEW d, NEW c \in 0..MaxInstructions, ActsOK(as, d), Body(n, as, F, d, c),
         as[d].pars = 0, NEW x \in DOMAIN as[d].locals \union Constants, NEW dies \in BOOLEAN,
         NEW bs, bs = IF dies THEN Forgotten(as, d, x) ELSE as, NEW q, q = Run(n, write(x, dies))
  PROVE  /\ IsText(write(x, dies)) /\ BodyAt(q, bs, d, c) /\ q.inputs = n.inputs
         /\ q.seen = <<"write", Meaning(as[d], x)>>
<1> DEFINE s == Bottom(as[d], F[d])
           L == WriteLoses(x, dies)
<1>m. Means(n, as[d], x)
  BY BodyOperand
<1>1. Framed(n, F[d], s) /\ Good(x) /\ ValueOf(n, x) = Meaning(as[d], x)
  BY <1>m, BodyReady DEF Means
<1>2. /\ IsText(write(x, dies)) /\ Keeps(n, q, F[d], s, L) /\ q.inputs = n.inputs
      /\ q.seen = <<"write", ValueOf(n, x)>>
  BY <1>1, WriteText
<1>3. CASE dies
  <2>1. \A l \in DOMAIN as[d].locals : l \in L => l = x
    BY DEF WriteLoses
  <2>2. bs = Forgotten(as, d, x)
    BY <1>3
  <2> HIDE DEF L
  <2>3. BodyAt(q, bs, d, c)
    BY <1>2, <2>1, <2>2, BodyForgets
  <2> QED
    BY <1>1, <1>2, <2>3
<1>4. CASE ~dies
  <2>1. \A l \in DOMAIN as[d].locals : l \notin L
    BY <1>4 DEF WriteLoses
  <2>2. bs = as
    BY <1>4
  <2> HIDE DEF L
  <2>3. BodyAt(q, as, d, c)
    BY <1>2, <2>1, BodyUnchanged
  <2> QED
    BY <1>1, <1>2, <2>2, <2>3
<1> QED
  BY <1>3, <1>4

Compared(n, q, t, f, s, v, w) ==
  /\ IsText(t) /\ Keeps(n, q, f, s, {}) /\ q.inputs = n.inputs /\ q.seen = <<"branch", <<v, w>>>>

\* A comparison does so, too.
LEMMA CompareDone ==
  ASSUME NEW n, NEW f, NEW s, Framed(n, f, s), NEW x, Good(x), NEW y, Good(y),
         NEW t, t = cmp(x, y) \o <<<<"jcc">>>>
  PROVE  Compared(n, Run(n, t), t, f, s, ValueOf(n, x), ValueOf(n, y))
BY CompareText DEF Compared

CompareCode(x, y) == cmp(x, y) \o <<<<"jcc">>>>
Branched(n, q, t, as, d, c, v, w) ==
  IsText(t) /\ BodyAt(q, as, d, c) /\ q.inputs = n.inputs /\ q.seen = <<"branch", <<v, w>>>>

LEMMA CompareBody ==
  ASSUME NEW n, NEW as, NEW F, NEW d, NEW c \in 0..MaxInstructions, ActsOK(as, d), Body(n, as, F, d, c),
         as[d].pars = 0, NEW x \in DOMAIN as[d].locals \union Constants,
         NEW y \in DOMAIN as[d].locals \union Constants, NEW t, t = CompareCode(x, y),
         NEW q, q = Run(n, t)
  PROVE  Branched(n, q, t, as, d, c, Meaning(as[d], x), Meaning(as[d], y))
<1> DEFINE s == Bottom(as[d], F[d])
           L == {}
<1>m. Means(n, as[d], x) /\ Means(n, as[d], y)
  BY BodyOperand
<1>1. /\ Framed(n, F[d], s) /\ Good(x) /\ ValueOf(n, x) = Meaning(as[d], x)
      /\ Good(y) /\ ValueOf(n, y) = Meaning(as[d], y)
  BY <1>m, BodyReady DEF Means
<1>2. /\ IsText(t) /\ Keeps(n, q, F[d], s, L) /\ q.inputs = n.inputs
      /\ q.seen = <<"branch", <<ValueOf(n, x), ValueOf(n, y)>>>>
  <2>1. Compared(n, Run(n, t), t, F[d], s, ValueOf(n, x), ValueOf(n, y))
    <3>1. Good(x) /\ Good(y) /\ Framed(n, F[d], s)
      BY <1>1
    <3>2. t = cmp(x, y) \o <<<<"jcc">>>>
      BY DEF CompareCode
    <3> QED
      BY <3>1, <3>2, CompareDone
  <2> HIDE DEF s
  <2> QED
    BY <2>1 DEF Compared
<1>3. \A l \in DOMAIN as[d].locals : l \notin L
  OBVIOUS
<1> HIDE DEF L
<1>4. BodyAt(q, as, d, c)
  BY <1>2, <1>3, BodyUnchanged
<1> QED
  BY <1>1, <1>2, <1>4 DEF Branched

\* A new line does so, too.
LEMMA NewLineBody ==
  ASSUME NEW n, NEW as, NEW F, NEW d, NEW c \in 0..MaxInstructions, ActsOK(as, d), Body(n, as, F, d, c),
         as[d].pars = 0, NEW q, q = Run(n, NewLine)
  PROVE  Done(n, q, NewLine, as, d, c)
<1> DEFINE s == Bottom(as[d], F[d])
           L == {}
<1>1. Framed(n, F[d], s)
  BY BodyReady
<1>2. IsText(NewLine) /\ Keeps(n, q, F[d], s, L) /\ q.inputs = n.inputs /\ q.seen = n.seen
  BY <1>1, NewLineText
<1>3. \A l \in DOMAIN as[d].locals : l \notin L
  OBVIOUS
<1> HIDE DEF L
<1>4. BodyAt(q, as, d, c)
  BY <1>2, <1>3, BodyUnchanged
<1> QED
  BY <1>2, <1>4 DEF Done

-----------------------------------------------------------------------------
(* The invariant.                                                          *)

EntryAt(n, as, d, c) == ActsOK(as, d) /\ \E F : Entry(n, as, F, d, c)

FrameInv ==
  /\ m.inputs = inputs /\ m.seen = seen
  /\ steps \in Nat /\ calls \in 0..MaxInstructions
  /\ text \in {"pars", "body", "exited"}
  /\ text = "exited" => acts = <<>>
  /\ text = "body" => BodyAt(m, acts, Depth, calls)
  /\ text = "pars" => EntryAt(m, acts, Depth, calls)

Before == IF text = "pars" THEN prologue ELSE <<>>

\* n is the machine behind the prologue, when that is still to be run.
Starting(n, F) ==
  /\ ActsOK(acts, Depth) /\ Body(n, acts, F, Depth, calls) /\ n.inputs = inputs /\ n.seen = seen
  /\ IsText(Before) /\ n = Run(m, Before)

\* Every instruction finds the frame built, by the prologue if it is the first.
LEMMA Starts ==
  ASSUME FrameInv, InBody
  PROVE  \E n, F : Starting(n, F)
<1>1. calls \in 0..MaxInstructions /\ m.inputs = inputs /\ m.seen = seen
  BY DEF FrameInv
<1>2. CASE text = "body"
  <2>1. BodyAt(m, acts, Depth, calls)
    BY <1>2 DEF FrameInv
  <2>2. PICK F : Body(m, acts, F, Depth, calls)
    BY <2>1 DEF BodyAt
  <2>3. ActsOK(acts, Depth)
    BY <2>1 DEF BodyAt
  <2>4. Before = <<>>
    BY <1>2 DEF Before
  <2>5. IsText(Before) /\ m = Run(m, Before)
    BY <2>4, RunNothing
  <2>6. Starting(m, F)
    BY <1>1, <2>2, <2>3, <2>5 DEF Starting
  <2> QED
    BY <2>6
<1>3. CASE text = "pars"
  <2>1. EntryAt(m, acts, Depth, calls)
    BY <1>3 DEF FrameInv
  <2>2. PICK F : Entry(m, acts, F, Depth, calls)
    BY <2>1 DEF EntryAt
  <2>3. ActsOK(acts, Depth)
    BY <2>1 DEF EntryAt
  <2> DEFINE p == Run(m, prologue)
  <2>4. p = Run(m, prologue)
    OBVIOUS
  <2>5. Before = prologue
    BY <1>3 DEF Before
  <2> HIDE DEF p
  <2>6. IsText(prologue) /\ Body(p, acts, F, Depth, calls) /\ p.inputs = m.inputs /\ p.seen = m.seen
    BY <1>1, <2>2, <2>3, <2>4, EntryBody
  <2>7. Starting(p, F)
    BY <1>1, <2>3, <2>4, <2>5, <2>6 DEF Starting
  <2> QED
    BY <2>7
<1>4. text # "exited"
  BY DEF FrameInv, InBody
<1> QED
  BY <1>2, <1>3, <1>4 DEF FrameInv

\* An instruction whose text does what it means keeps the invariant.
LEMMA Ends ==
  ASSUME FrameInv, NEW n, NEW F, Starting(n, F), NEW t, IsText(t), Emitted(t),
         BodyAt(Run(n, t), acts', Depth, calls), Run(n, t).inputs = inputs', Run(n, t).seen = seen',
         steps' \in Nat, calls' = calls
  PROVE  FrameInv'
<1>1. m' = Run(m, Before \o t) /\ text' = "body"
  BY DEF Emitted, Before
<1>2. m' = Run(n, t)
  BY <1>1, RunConcat DEF Starting
<1>3. Depth' = Depth
  BY DEF BodyAt, ActsOK, Depth
<1>4. BodyAt(m', acts', Depth', calls')
  BY <1>2, <1>3
<1> QED
  BY <1>1, <1>2, <1>4 DEF FrameInv

\* The counters.
LEMMA StepsCounted ==
  ASSUME FrameInv, Counted
  PROVE  steps' \in Nat /\ calls' = calls
BY DEF FrameInv, Counted

\* The operands of the instruction are those of the top activation.
LEMMA OperandsOf ==
  ASSUME InBody
  PROVE  /\ acts[Depth].pars = 0 /\ Operands = DOMAIN acts[Depth].locals \union Constants
         /\ \A x : Is(x) = Meaning(acts[Depth], x)
BY DEF InBody, Top, Operands, Is, Meaning

\* Its result goes to the top activation.
LEMMA SetIs ==
  ASSUME NEW l, NEW v, Set(l, v)
  PROVE  acts' = WithTop(acts, Depth, Assign(acts[Depth], l, v))
BY DEF Set, WithTop

\* ADD and SUB keep the invariant.
LEMMA AdditiveKeeps ==
  ASSUME Admit = {}, FrameInv, NEW l \in Locations, NEW x \in Operands, NEW y \in Operands,
         NEW op \in {"add", "sub"}, Additive(op, l, x, y)
  PROVE  FrameInv'
<1> DEFINE a == acts[Depth]
           v == Arithmetic(op, Meaning(a, x), Meaning(a, y))
           t == additive(l, x, y, op)
<1>1. InBody /\ Emitted(t) /\ Counted /\ Set(l, Arithmetic(op, Is(x), Is(y))) /\ inputs' = inputs /\ seen' = seen
  BY DEF Additive, Compute
<1>2. /\ op = "sub" /\ y = l => x = l
      /\ ~(is_virtual_reg(l) /\ is_const_instruction(IF y = l THEN x ELSE y))
  BY DEF Additive, AdditiveAllowed
<1>3. PICK n, F : Starting(n, F)
  BY <1>1, Starts
<1>4. calls \in 0..MaxInstructions /\ steps' \in Nat /\ calls' = calls
  BY <1>1, StepsCounted DEF FrameInv
<1>5. /\ ActsOK(acts, Depth) /\ Body(n, acts, F, Depth, calls) /\ n.inputs = inputs /\ n.seen = seen
  BY <1>3 DEF Starting
<1>6. a.pars = 0 /\ x \in DOMAIN a.locals \union Constants /\ y \in DOMAIN a.locals \union Constants
      /\ Is(x) = Meaning(a, x) /\ Is(y) = Meaning(a, y)
  BY <1>1, OperandsOf
<1>7. acts' = WithTop(acts, Depth, Assign(a, l, v))
  BY <1>1, <1>6, SetIs
<1>8. Done(n, Run(n, t), t, acts', Depth, calls)
  BY <1>2, <1>4, <1>5, <1>6, <1>7, AdditiveBody
<1> HIDE DEF t
<1>9. IsText(t) /\ BodyAt(Run(n, t), acts', Depth, calls) /\ Run(n, t).inputs = inputs' /\ Run(n, t).seen = seen'
  BY <1>1, <1>5, <1>8 DEF Done
<1> QED
  BY <1>1, <1>3, <1>4, <1>9, Ends

\* MUL and DIV keep it.
LEMMA ScaleKeeps ==
  ASSUME FrameInv, NEW l \in Locations, NEW x \in Operands, NEW y \in Operands,
         NEW op \in {"imulq", "idivq"}, Scale(op, l, x, y)
  PROVE  FrameInv'
<1> DEFINE a == acts[Depth]
           v == Arithmetic(op, Meaning(a, x), Meaning(a, y))
           t == scale(l, x, y, op)
<1>1. InBody /\ Emitted(t) /\ Counted /\ Set(l, Arithmetic(op, Is(x), Is(y))) /\ inputs' = inputs /\ seen' = seen
  BY DEF Scale, Compute
<1>3. PICK n, F : Starting(n, F)
  BY <1>1, Starts
<1>4. calls \in 0..MaxInstructions /\ steps' \in Nat /\ calls' = calls
  BY <1>1, StepsCounted DEF FrameInv
<1>5. /\ ActsOK(acts, Depth) /\ Body(n, acts, F, Depth, calls) /\ n.inputs = inputs /\ n.seen = seen
  BY <1>3 DEF Starting
<1>6. a.pars = 0 /\ x \in DOMAIN a.locals \union Constants /\ y \in DOMAIN a.locals \union Constants
      /\ Is(x) = Meaning(a, x) /\ Is(y) = Meaning(a, y)
  BY <1>1, OperandsOf
<1>7. acts' = WithTop(acts, Depth, Assign(acts[Depth], l, v))
  BY <1>1, <1>6, SetIs
<1>8. Done(n, Run(n, t), t, acts', Depth, calls)
  BY <1>4, <1>5, <1>6, <1>7, ScaleBody
<1> HIDE DEF t
<1>9. IsText(t) /\ BodyAt(Run(n, t), acts', Depth, calls) /\ Run(n, t).inputs = inputs' /\ Run(n, t).seen = seen'
  BY <1>1, <1>5, <1>8 DEF Done
<1> QED
  BY <1>1, <1>3, <1>4, <1>9, Ends

\* MOV keeps it.
LEMMA MovKeeps ==
  ASSUME FrameInv, NEW l \in Locations, NEW x \in Operands, FMov(l, x)
  PROVE  FrameInv'
<1> DEFINE a == acts[Depth]
           v == Meaning(a, x)
           t == mov_instruction(x, l)
<1>1. InBody /\ Emitted(t) /\ Counted /\ Set(l, Is(x)) /\ inputs' = inputs /\ seen' = seen
  BY DEF FMov, Copy
<1>3. PICK n, F : Starting(n, F)
  BY <1>1, Starts
<1>4. calls \in 0..MaxInstructions /\ steps' \in Nat /\ calls' = calls
  BY <1>1, StepsCounted DEF FrameInv
<1>5. /\ ActsOK(acts, Depth) /\ Body(n, acts, F, Depth, calls) /\ n.inputs = inputs /\ n.seen = seen
  BY <1>3 DEF Starting
<1>6. a.pars = 0 /\ x \in DOMAIN a.locals \union Constants /\ Is(x) = Meaning(a, x)
  BY <1>1, OperandsOf
<1>7. acts' = WithTop(acts, Depth, Assign(acts[Depth], l, v))
  BY <1>1, <1>6, SetIs
<1>8. Done(n, Run(n, t), t, acts', Depth, calls)
  BY <1>4, <1>5, <1>6, <1>7, MovBody
<1> HIDE DEF t
<1>9. IsText(t) /\ BodyAt(Run(n, t), acts', Depth, calls) /\ Run(n, t).inputs = inputs' /\ Run(n, t).seen = seen'
  BY <1>1, <1>5, <1>8 DEF Done
<1> QED
  BY <1>1, <1>3, <1>4, <1>9, Ends

\* READ keeps it.
LEMMA ReadKeeps ==
  ASSUME FrameInv, NEW l \in Locations, FRead(l)
  PROVE  FrameInv'
<1> DEFINE a == acts[Depth]
           t == read(l)
<1>1. InBody /\ Emitted(t) /\ Counted /\ Set(l, Input(inputs)) /\ inputs' = inputs + 1 /\ seen' = seen
  BY DEF FRead, Read
<1>3. PICK n, F : Starting(n, F)
  BY <1>1, Starts
<1>4. calls \in 0..MaxInstructions /\ steps' \in Nat /\ calls' = calls
  BY <1>1, StepsCounted DEF FrameInv
<1>5. /\ ActsOK(acts, Depth) /\ Body(n, acts, F, Depth, calls) /\ n.inputs = inputs /\ n.seen = seen
  BY <1>3 DEF Starting
<1>6. a.pars = 0
  BY <1>1, OperandsOf
<1>7. acts' = WithTop(acts, Depth, Assign(acts[Depth], l, Input(n.inputs)))
  BY <1>1, <1>5, SetIs
<1> DEFINE q == Run(n, t)
<1>q. q = Run(n, read(l))
  OBVIOUS
<1> HIDE DEF q
<1>8. IsText(read(l)) /\ BodyAt(q, acts', Depth, calls) /\ q.inputs = n.inputs + 1 /\ q.seen = n.seen
  BY <1>4, <1>5, <1>6, <1>7, <1>q, ReadBody
<1>9. IsText(t) /\ BodyAt(Run(n, t), acts', Depth, calls) /\ Run(n, t).inputs = inputs' /\ Run(n, t).seen = seen'
  BY <1>1, <1>5, <1>8 DEF q
<1> HIDE DEF t
<1> QED
  BY <1>1, <1>3, <1>4, <1>9, Ends

\* WRITE keeps it, the last use of its value and any other.
LEMMA WriteKeeps ==
  ASSUME FrameInv, NEW x \in Operands, FWrite(x) \/ FWriteLast(x)
  PROVE  FrameInv'
<1>a. PICK dies \in BOOLEAN :
        /\ InBody /\ Emitted(write(x, dies)) /\ Counted /\ seen' = <<"write", Is(x)>> /\ inputs' = inputs
        /\ acts' = IF dies THEN Forgotten(acts, Depth, x) ELSE acts
  <2>1. CASE FWrite(x)
    BY <2>1 DEF FWrite, Write
  <2>2. CASE FWriteLast(x)
    BY <2>2 DEF FWriteLast, WriteLast, Forgotten
  <2> QED
    BY <2>1, <2>2
<1> DEFINE a == acts[Depth]
           t == write(x, dies)
<1>1. InBody /\ Emitted(t) /\ Counted /\ seen' = <<"write", Is(x)>> /\ inputs' = inputs
  BY <1>a
<1>3. PICK n, F : Starting(n, F)
  BY <1>1, Starts
<1>4. calls \in 0..MaxInstructions /\ steps' \in Nat /\ calls' = calls
  BY <1>1, StepsCounted DEF FrameInv
<1>5. /\ ActsOK(acts, Depth) /\ Body(n, acts, F, Depth, calls) /\ n.inputs = inputs /\ n.seen = seen
  BY <1>3 DEF Starting
<1>6. a.pars = 0 /\ x \in DOMAIN a.locals \union Constants /\ Is(x) = Meaning(a, x)
  BY <1>1, OperandsOf
<1>7. acts' = IF dies THEN Forgotten(acts, Depth, x) ELSE acts
  BY <1>a
<1> DEFINE q == Run(n, t)
<1>q. q = Run(n, write(x, dies))
  OBVIOUS
<1> HIDE DEF q
<1>8. IsText(write(x, dies)) /\ BodyAt(q, acts', Depth, calls) /\ q.inputs = n.inputs
      /\ q.seen = <<"write", Meaning(acts[Depth], x)>>
  BY <1>4, <1>5, <1>6, <1>7, <1>q, WriteBody
<1>9. IsText(t) /\ BodyAt(Run(n, t), acts', Depth, calls) /\ Run(n, t).inputs = inputs' /\ Run(n, t).seen = seen'
  BY <1>1, <1>5, <1>6, <1>8 DEF q
<1> HIDE DEF t
<1> QED
  BY <1>1, <1>3, <1>4, <1>9, Ends

\* WRITENL keeps it.
LEMMA NewLineKeeps ==
  ASSUME FrameInv, FNewLine
  PROVE  FrameInv'
<1>1. InBody /\ Emitted(NewLine) /\ Counted /\ inputs' = inputs /\ seen' = seen /\ acts' = acts
  BY DEF FNewLine, abstract_vars
<1>3. PICK n, F : Starting(n, F)
  BY <1>1, Starts
<1>4. calls \in 0..MaxInstructions /\ steps' \in Nat /\ calls' = calls
  BY <1>1, StepsCounted DEF FrameInv
<1>5. /\ ActsOK(acts, Depth) /\ Body(n, acts, F, Depth, calls) /\ n.inputs = inputs /\ n.seen = seen
  BY <1>3 DEF Starting
<1>6. acts[Depth].pars = 0
  BY <1>1, OperandsOf
<1> DEFINE q == Run(n, NewLine)
<1>q. q = Run(n, NewLine)
  OBVIOUS
<1> HIDE DEF q
<1>8. Done(n, q, NewLine, acts, Depth, calls)
  BY <1>4, <1>5, <1>6, <1>q, NewLineBody
<1>9. /\ IsText(NewLine) /\ BodyAt(Run(n, NewLine), acts', Depth, calls) /\ Run(n, NewLine).inputs = inputs'
      /\ Run(n, NewLine).seen = seen'
  BY <1>1, <1>5, <1>8, <1>q DEF Done
<1> QED
  BY <1>1, <1>3, <1>4, <1>9, Ends

\* CMP and its branch keep it.
LEMMA CompareKeeps ==
  ASSUME FrameInv, NEW x \in Operands, NEW y \in Operands, FCompare(x, y)
  PROVE  FrameInv'
<1> DEFINE a == acts[Depth]
           t == CompareCode(x, y)
<1>1. /\ InBody /\ Emitted(t) /\ Counted /\ seen' = <<"branch", <<Is(x), Is(y)>>>> /\ inputs' = inputs
      /\ acts' = acts
  BY DEF FCompare, Compare, CompareCode
<1>3. PICK n, F : Starting(n, F)
  BY <1>1, Starts
<1>4. calls \in 0..MaxInstructions /\ steps' \in Nat /\ calls' = calls
  BY <1>1, StepsCounted DEF FrameInv
<1>5. /\ ActsOK(acts, Depth) /\ Body(n, acts, F, Depth, calls) /\ n.inputs = inputs /\ n.seen = seen
  BY <1>3 DEF Starting
<1>6. a.pars = 0 /\ x \in DOMAIN a.locals \union Constants /\ y \in DOMAIN a.locals \union Constants
      /\ Is(x) = Meaning(a, x) /\ Is(y) = Meaning(a, y)
  BY <1>1, OperandsOf
<1> DEFINE q == Run(n, t)
<1>t. t = CompareCode(x, y) /\ q = Run(n, t)
  OBVIOUS
<1> HIDE DEF q, t
<1>8. Branched(n, q, t, acts, Depth, calls, Meaning(acts[Depth], x), Meaning(acts[Depth], y))
  BY <1>4, <1>5, <1>6, <1>t, CompareBody
<1>9. IsText(t) /\ BodyAt(Run(n, t), acts', Depth, calls) /\ Run(n, t).inputs = inputs' /\ Run(n, t).seen = seen'
  BY <1>1, <1>5, <1>6, <1>8, <1>t DEF Branched
<1> QED
  BY <1>1, <1>3, <1>4, <1>9, Ends

Both(k, l) == {k, l}
Exchanged(n, q, t, f, s, k, l) ==
  /\ IsText(t) /\ Keeps(n, q, f, s, Both(k, l)) /\ q.inputs = n.inputs /\ q.seen = n.seen
  /\ ValueOf(q, k) = ValueOf(n, l) /\ ValueOf(q, l) = ValueOf(n, k)

\* An exchange does what it means.
LEMMA SwapDone ==
  ASSUME NEW n, NEW f, NEW s, Framed(n, f, s), NEW x \in Places, NEW y \in Places,
         ~(is_virtual_reg(x) /\ is_virtual_reg(y))
  PROVE  Exchanged(n, Run(n, swap(x, y)), swap(x, y), f, s, x, y)
BY SwapText DEF Exchanged, Both

LEMMA SwapBody ==
  ASSUME NEW n, NEW as, NEW F, NEW d, NEW c \in 0..MaxInstructions, ActsOK(as, d), Body(n, as, F, d, c),
         as[d].pars = 0, NEW k \in DOMAIN as[d].locals, NEW l \in DOMAIN as[d].locals,
         ~(is_virtual_reg(k) /\ is_virtual_reg(l)),
         NEW bs, bs = WithTop(as, d, Assign(Assign(as[d], k, as[d].locals[l]), l, as[d].locals[k]))
  PROVE  Done(n, Run(n, swap(k, l)), swap(k, l), bs, d, c)
<1> DEFINE a == as[d]
           v == a.locals[k]
           w == a.locals[l]
           a1 == Assign(a, k, w)
           b == Assign(a1, l, v)
           t == swap(k, l)
           s == Bottom(as[d], F[d])
           q == Run(n, t)
<1>1. ActOK(a) /\ k \in Places /\ l \in Places /\ \A z \in DOMAIN a.locals : z \in Places
  BY ActsParts
<1>2. k \in Locations /\ l \in Locations /\ v[1] # "address" /\ w[1] # "address"
  BY <1>1 DEF ActOK
<1>3. Framed(n, F[d], s) /\ ValueOf(n, k) = v /\ ValueOf(n, l) = w
  BY BodyReady DEF Body, InPlace
<1>4. Exchanged(n, q, t, F[d], s, k, l)
  BY <1>1, <1>3, SwapDone
<1>d. a1 = Assign(a, k, w) /\ b = Assign(a1, l, v) /\ bs = WithTop(as, d, b)
  OBVIOUS
<1> HIDE DEF a1, b, q, t, v, w, a
<1>5. ActOK(a1) /\ ActOK(b)
  <2>1. ActOK(a1)
    BY <1>1, <1>2, <1>d, AssignOK
  <2> QED
    BY <1>2, <1>d, <2>1, AssignOK
<1>6. Assigned(a, a1, k, w) /\ Assigned(a1, b, l, v)
  BY <1>1, <1>5, <1>d, AssignParts
<1>7. TopIs(as, bs, d, b)
  BY <1>5, <1>d, ActsSet
<1>8. b.args = a.args /\ b.pars = a.pars
  BY <1>6 DEF Assigned
<1>9. InPlace(q, b)
  <2> SUFFICES ASSUME NEW z \in DOMAIN b.locals
               PROVE  ValueOf(q, z) = b.locals[z]
    BY DEF InPlace
  <2>1. CASE z = l
    BY <1>3, <1>4, <1>6, <2>1 DEF Assigned, Exchanged
  <2>2. CASE z # l /\ z = k
    BY <1>3, <1>4, <1>6, <2>2 DEF Assigned, Exchanged
  <2>3. CASE z # l /\ z # k
    <3>1. z \in DOMAIN a.locals /\ b.locals[z] = a.locals[z]
      BY <1>6, <2>3 DEF Assigned
    <3>2. z \in Places /\ z \notin Both(k, l)
      BY <1>1, <2>3, <3>1 DEF Both
    <3>3. ValueOf(n, z) = a.locals[z]
      BY <3>1 DEF Body, InPlace, a
    <3>4. ValueOf(q, z) = ValueOf(n, z)
      BY <1>4, <3>2 DEF Exchanged, Keeps, Holds
    <3> QED
      BY <3>1, <3>3, <3>4
  <2> QED
    BY <2>1, <2>2, <2>3
<1>10. Body(q, bs, F, d, c)
  <2>1. b.args = as[d].args /\ Keeps(n, q, F[d], Bottom(as[d], F[d]), Both(k, l))
    BY <1>4, <1>8 DEF Exchanged, a
  <2> QED
    BY <1>7, <1>9, <2>1, BodyTop
<1>11. Done(n, q, t, bs, d, c)
  <2>1. ActsOK(bs, d) /\ bs[d].pars = 0
    BY <1>7, <1>8 DEF TopIs, a
  <2> QED
    BY <1>4, <1>10, <2>1 DEF Done, BodyAt, Exchanged
<1> QED
  BY <1>11 DEF q, t

\* SWAP keeps the invariant.
LEMMA SwapKeeps ==
  ASSUME Admit = {}, FrameInv, NEW k \in Operands \ Constants, NEW l \in Operands \ Constants, FSwap(k, l)
  PROVE  FrameInv'
<1> DEFINE a == acts[Depth]
           t == swap(k, l)
<1>1. /\ InBody /\ Emitted(t) /\ Counted /\ inputs' = inputs /\ seen' = seen
      /\ acts' = [acts EXCEPT ![Depth] = Assign(Assign(@, k, Is(l)), l, Is(k))]
      /\ ~(is_virtual_reg(k) /\ is_virtual_reg(l))
  BY DEF FSwap, Exchange
<1>3. PICK n, F : Starting(n, F)
  BY <1>1, Starts
<1>4. calls \in 0..MaxInstructions /\ steps' \in Nat /\ calls' = calls
  BY <1>1, StepsCounted DEF FrameInv
<1>5. /\ ActsOK(acts, Depth) /\ Body(n, acts, F, Depth, calls) /\ n.inputs = inputs /\ n.seen = seen
  BY <1>3 DEF Starting
<1>6. a.pars = 0 /\ k \in DOMAIN a.locals /\ l \in DOMAIN a.locals
      /\ Is(k) = Meaning(a, k) /\ Is(l) = Meaning(a, l)
  BY <1>1, OperandsOf
<1>7. Is(k) = a.locals[k] /\ Is(l) = a.locals[l]
  <2>1. k \in Places /\ l \in Places
    BY <1>5, <1>6, ActsParts
  <2>2. k[1] # "imm" /\ l[1] # "imm"
    BY <2>1, PlaceKinds DEF is_const_instruction
  <2> QED
    BY <2>2, <1>6 DEF Meaning
<1>8. acts' = WithTop(acts, Depth, Assign(Assign(acts[Depth], k, acts[Depth].locals[l]), l, acts[Depth].locals[k]))
  BY <1>1, <1>7 DEF WithTop
<1>9. Done(n, Run(n, t), t, acts', Depth, calls)
  BY <1>1, <1>4, <1>5, <1>6, <1>8, SwapBody
<1> HIDE DEF t
<1>10. IsText(t) /\ BodyAt(Run(n, t), acts', Depth, calls) /\ Run(n, t).inputs = inputs' /\ Run(n, t).seen = seen'
  BY <1>1, <1>5, <1>9 DEF Done
<1> QED
  BY <1>1, <1>3, <1>4, <1>10, Ends

-----------------------------------------------------------------------------
(* Arguments.                                                              *)

Laid(p, as, bs, F, d, c) ==
  /\ Apart(bs, F, d, c) /\ Below(p.mem, bs, F, d) /\ Links(p.mem, bs, F, d)
  /\ IsMachine(p) /\ p.reg["rbp"] = Address(F[d])
  /\ \A i \in 1..Len(as[d].args) : p.mem[F[d] - SpillCount - i] = as[d].args[i]

\* What holds in the cells above a frame keeps the activations below.
LEMMA LayoutKept ==
  ASSUME NEW n, NEW as, NEW F, NEW d, NEW c \in 0..MaxInstructions, ActsOK(as, d), Body(n, as, F, d, c),
         NEW p, NEW L, Holds(n, p, F[d], Bottom(as[d], F[d]), L),
         NEW bs, \A i \in 1..(d - 1) : bs[i] = as[i]
  PROVE  Laid(p, as, bs, F, d, c)
<1> DEFINE f == F[d]
           s == Bottom(as[d], F[d])
           k == Len(as[d].args)
<1>1. Framed(n, f, s) /\ d \in Nat /\ d \in 1..d /\ s \in Int /\ f \in Int /\ k \in Nat
  BY BodyFramed
<1>2. Holds(n, p, f, s, L)
  OBVIOUS
<1>3. s = f - SpillCount - k /\ SpillCount \in Nat /\ StackSize \in Nat /\ 7 <= s /\ f <= StackSize
  BY <1>1, FrameAssumption, StackAssumption DEF Bottom, Framed, Based
<1> HIDE DEF f, s, k
<1>4. \A a \in f..StackSize : p.mem[a] = n.mem[a]
  <2>1. ASSUME NEW a \in f..StackSize
        PROVE  a \in s..StackSize /\ a \notin SlotCells(f)
    BY <1>1, <1>3 DEF SlotCells
  <2> QED
    BY <1>2, <2>1 DEF Holds
<1>5. Apart(bs, F, d, c) /\ Below(p.mem, bs, F, d) /\ Links(p.mem, bs, F, d)
  <2>1. \A i \in 1..(d - 1) : ActOK(as[i]) /\ bs[i] = as[i]
    BY ActsParts
  <2>2. Apart(as, F, d, c) /\ Below(n.mem, as, F, d) /\ Links(n.mem, as, F, d)
    BY DEF Body
  <2>3. \A a \in F[d]..StackSize : p.mem[a] = n.mem[a]
    BY <1>4 DEF f
  <2>4. Links(p.mem, bs, F, d)
    BY <1>1, <2>1, <2>2, <2>3, LinksKept
  <2>5. Apart(bs, F, d, c) /\ Below(p.mem, bs, F, d)
    BY <1>1, <2>1, <2>2, <2>3, MemoryKept
  <2> QED
    BY <2>4, <2>5
<1>6. IsMachine(p) /\ p.reg["rbp"] = Address(F[d])
  BY <1>2 DEF Holds, Based, f
<1>7. \A i \in 1..k : p.mem[f - SpillCount - i] = as[d].args[i]
  <2>1. ASSUME NEW i \in 1..k
        PROVE  p.mem[f - SpillCount - i] = n.mem[f - SpillCount - i]
    <3>1. f - SpillCount - i \in s..StackSize /\ f - SpillCount - i \notin SlotCells(f)
      BY <1>1, <1>3 DEF SlotCells
    <3> QED
      BY <1>2, <3>1 DEF Holds
  <2>2. ArgsAt(n.mem, as[d], f)
    BY DEF Body, f
  <2> QED
    BY <2>1, <2>2 DEF ArgsAt, k
<1> QED
  BY <1>5, <1>6, <1>7 DEF Laid, f, k

Appended(s, t, v) ==
  /\ IsText(t) /\ Len(t) = Len(s) + 1 /\ t[Len(s) + 1] = v
  /\ \A i \in 1..Len(s) : t[i] = s[i]

\* A list with one element more.
LEMMA TextAppend ==
  ASSUME NEW s, IsText(s), NEW v, NEW t, t = Append(s, v)
  PROVE  Appended(s, t, v)
<1>1. PICK E : s \in Seq(E)
  BY DEF IsText
<1> DEFINE G == E \union {v}
<1>2. s \in Seq(G) /\ v \in G
  BY <1>1
<1> HIDE DEF G
<1>3. t \in Seq(G) /\ Len(t) = Len(s) + 1 /\ t[Len(s) + 1] = v /\ \A i \in 1..Len(s) : t[i] = s[i]
  BY <1>2
<1> QED
  BY <1>3 DEF IsText, Appended

OnePushed(n, p, q, f, s, L, c, w) ==
  /\ Holds(n, q, f, s, L) /\ q.reg["rsp"] = Address(c) /\ q.mem[c] = w
  /\ Same(p, q, {"rsp"}, {c}) /\ q.flags = p.flags

\* A push below what the stack holds.
LEMMA PushOne ==
  ASSUME NEW n, NEW p, NEW f, NEW s, NEW L, Framed(n, f, s), Holds(n, p, f, s, L),
         NEW b \in Int, NEW c \in Int, p.reg["rsp"] = Address(b), b = c + 1, 1 <= c, c < s, NEW w,
         NEW q, q = push_word(p, w)
  PROVE  OnePushed(n, p, q, f, s, L, c, w)
<1>1. b - 1 = c /\ c \in 1..StackSize /\ s \in Int /\ 1 <= s /\ c \notin s..StackSize
  BY FrameAssumption, StackAssumption DEF Framed, Based
<1>2. IsMachine(p)
  BY DEF Holds, Based
<1>3. Same(p, q, {"rsp"}, {c}) /\ q.reg["rsp"] = Address(c) /\ q.mem[c] = w /\ q.flags = p.flags
  BY <1>1, <1>2, PushWord
<1>4. \A y \in Places : RegOf(y) \intersect {"rsp"} = {} /\ CellOf(f, y) \intersect {c} = {}
  BY <1>1, BelowIsFree
<1>5. Holds(n, q, f, s, L)
  BY <1>1, <1>3, <1>4, HoldsThen DEF Same
<1> QED
  BY <1>3, <1>5 DEF OnePushed

PushCode(x) == <<<<"push", x>>>>
WithArgument(as, d, v) == [as EXCEPT ![d].args = Append(@, v)]

\* SETPAR pushes the argument below the others.
LEMMA PushBody ==
  ASSUME NEW n, NEW as, NEW F, NEW d, NEW c \in 0..MaxInstructions, ActsOK(as, d), Body(n, as, F, d, c),
         as[d].pars = 0, NEW x, x \in DOMAIN as[d].locals \union Constants, Len(as[d].args) < MaxArgs,
         NEW bs, bs = WithArgument(as, d, Meaning(as[d], x))
  PROVE  Done(n, Run(n, PushCode(x)), PushCode(x), bs, d, c)
<1> DEFINE a == as[d]
           v == Meaning(a, x)
           g == Append(a.args, v)
           b == [a EXCEPT !.args = g]
           f == F[d]
           s == Bottom(as[d], F[d])
           z == s - 1
           k == Len(a.args)
           q == push_word(n, v)
<1>1. Means(n, as[d], x) /\ Framed(n, f, s) /\ ActOK(a)
  BY BodyOperand, BodyReady, ActsParts
<1>2. ValueOf(n, x) = v /\ v[1] # "address"
  BY <1>1 DEF Means
<1>3. IsText(PushCode(x)) /\ Run(n, PushCode(x)) = q
  <2>1. Run(n, PushCode(x)) = Execute(n, <<"push", x>>) /\ IsText(PushCode(x))
    BY RunOne DEF PushCode
  <2>2. Execute(n, <<"push", x>>) = push(n, x)
    BY ExecutesOfOne
  <2> QED
    BY <1>2, <2>1, <2>2 DEF push
<1>4. s = f - SpillCount - k /\ k \in Nat /\ f \in Int /\ s \in Int /\ k < MaxArgs
  BY BodyFramed DEF Bottom
<1>5. SpillCount \in Nat /\ MaxArgs \in Nat /\ StackSize \in Nat /\ 7 <= s /\ f <= StackSize
  BY <1>1, FrameAssumption, StackAssumption DEF Framed, Based
<1>bs. bs = WithTop(as, d, b)
  BY DEF WithArgument, WithTop
<1>g. Appended(a.args, g, v)
  BY <1>1, TextAppend DEF ActOK
<1>6. b.locals = a.locals /\ b.args = g /\ b.pars = a.pars /\ DOMAIN b = DOMAIN a
  <2> HIDE DEF g, a
  <2> QED
    BY <1>1 DEF ActOK
<1>q. q = push_word(n, v)
  OBVIOUS
<1> HIDE DEF g, b, q, v
<1>7. Holds(n, q, f, s, {}) /\ q.reg["rsp"] = Address(z) /\ q.mem[z] = v /\ Same(n, q, {"rsp"}, {z})
  <2>1. n.reg["rsp"] = Address(s) /\ Holds(n, n, f, s, {})
    BY <1>1, HoldsSelf DEF Framed
  <2> DEFINE K == {}
             C == {z}
  <2> HIDE DEF f, k
  <2>2. s \in Int /\ 7 <= s
    BY <1>4, <1>5
  <2> HIDE DEF s
  <2>3. z \in Int /\ s = z + 1 /\ 1 <= z /\ z < s
    BY <2>2
  <2> HIDE DEF z
  <2>4. Holds(n, n, f, s, K)
    BY <2>1
  <2> HIDE DEF K
  <2>0. Framed(n, f, s) /\ n.reg["rsp"] = Address(s)
    BY <1>1, <2>1
  <2>5. OnePushed(n, n, q, f, s, K, z, v)
    BY <1>q, <2>0, <2>2, <2>3, <2>4, PushOne
  <2> QED
    BY <2>5 DEF K, OnePushed
<1>8. ActOK(b)
  <2>1. Len(g) = k + 1 /\ IsText(g) /\ g[k + 1] = v /\ \A i \in 1..k : g[i] = a.args[i]
    BY <1>g DEF Appended
  <2>2. \A i \in 1..k : a.args[i][1] # "address"
    BY <1>1 DEF ActOK
  <2> HIDE DEF k
  <2>3. k + 1 <= MaxArgs /\ \A i \in 1..(k + 1) : i = k + 1 \/ i \in 1..k
    BY <1>4, <1>5
  <2>4. \A i \in 1..Len(g) : g[i][1] # "address"
    BY <1>2, <2>1, <2>2, <2>3
  <2> HIDE DEF a
  <2> QED
    BY <1>1, <1>6, <2>1, <2>3, <2>4 DEF ActOK
<1>9. TopIs(as, bs, d, b)
  BY <1>8, <1>bs, ActsSet
<1>10. bs[d] = b /\ ActsOK(bs, d) /\ \A i \in 1..(d - 1) : bs[i] = as[i]
  BY <1>9 DEF TopIs
<1>11. /\ Apart(bs, F, d, c) /\ Below(q.mem, bs, F, d) /\ Links(q.mem, bs, F, d)
       /\ IsMachine(q) /\ q.reg["rbp"] = Address(F[d])
       /\ \A i \in 1..Len(as[d].args) : q.mem[F[d] - SpillCount - i] = as[d].args[i]
  <2>1. Laid(q, as, bs, F, d, c)
    BY <1>7, <1>10, LayoutKept
  <2> QED
    BY <2>1 DEF Laid
<1>12. Bottom(b, F[d]) = z
  <2>1. Len(g) = k + 1
    BY <1>g DEF Appended
  <2> HIDE DEF k, f
  <2>2. f - SpillCount - (k + 1) = z
    BY <1>4, <1>5
  <2> QED
    BY <1>6, <2>1, <2>2 DEF Bottom, f
<1>13. ArgsAt(q.mem, b, F[d])
  <2>1. Len(g) = k + 1 /\ g[k + 1] = v /\ \A i \in 1..k : g[i] = a.args[i]
    BY <1>g DEF Appended
  <2>2. \A i \in 1..k : q.mem[f - SpillCount - i] = a.args[i]
    BY <1>11
  <2> HIDE DEF k, f, a
  <2>3. f - SpillCount - (k + 1) = z /\ \A i \in 1..(k + 1) : i = k + 1 \/ i \in 1..k
    BY <1>4, <1>5
  <2>4. \A i \in 1..(k + 1) : q.mem[f - SpillCount - i] = g[i]
    BY <1>7, <2>1, <2>2, <2>3
  <2> QED
    BY <1>6, <2>1, <2>4 DEF ArgsAt, f
<1>14. InPlace(q, b)
  <2>1. ASSUME NEW l \in DOMAIN b.locals
        PROVE  ValueOf(q, l) = b.locals[l]
    <3>1. l \in DOMAIN a.locals /\ l \in Places
      BY <1>6, ActsParts
    <3>2. ValueOf(n, l) = a.locals[l]
      BY <3>1 DEF Body, InPlace
    <3>3. ValueOf(q, l) = ValueOf(n, l)
      BY <1>7, <3>1 DEF Holds
    <3> QED
      BY <1>6, <3>2, <3>3
  <2> QED
    BY <2>1 DEF InPlace
<1>15. Body(q, bs, F, d, c)
  BY <1>7, <1>10, <1>11, <1>12, <1>13, <1>14 DEF Body
<1> QED
  BY <1>3, <1>6, <1>7, <1>10, <1>15 DEF Done, BodyAt, Same

\* SETPAR keeps the invariant.
LEMMA SetParKeeps ==
  ASSUME FrameInv, NEW x \in Operands, FSetPar(x)
  PROVE  FrameInv'
<1> DEFINE a == acts[Depth]
           t == PushCode(x)
<1>1. /\ InBody /\ Emitted(t) /\ inputs' = inputs /\ seen' = seen /\ steps' = steps /\ calls' = calls
      /\ acts' = WithArgument(acts, Depth, Is(x)) /\ Len(a.args) < MaxArgs
  BY DEF FSetPar, SetPar, PushCode, WithArgument, Top
<1>3. PICK n, F : Starting(n, F)
  BY <1>1, Starts
<1>4. calls \in 0..MaxInstructions /\ steps' \in Nat
  BY <1>1 DEF FrameInv
<1>5. /\ ActsOK(acts, Depth) /\ Body(n, acts, F, Depth, calls) /\ n.inputs = inputs /\ n.seen = seen
  BY <1>3 DEF Starting
<1>6. a.pars = 0 /\ x \in DOMAIN a.locals \union Constants /\ Is(x) = Meaning(a, x)
  BY <1>1, OperandsOf
<1>7. acts' = WithArgument(acts, Depth, Meaning(acts[Depth], x))
  BY <1>1, <1>6
<1>9. Done(n, Run(n, t), t, acts', Depth, calls)
  BY <1>1, <1>4, <1>5, <1>6, <1>7, PushBody
<1> HIDE DEF t
<1>10. IsText(t) /\ BodyAt(Run(n, t), acts', Depth, calls) /\ Run(n, t).inputs = inputs' /\ Run(n, t).seen = seen'
  BY <1>1, <1>5, <1>9 DEF Done
<1> QED
  BY <1>1, <1>3, <1>4, <1>10, Ends

-----------------------------------------------------------------------------
(* Parameters.                                                             *)

Fronted(s, t) ==
  IsText(t) /\ Len(t) = Len(s) - 1 /\ \A i \in 1..(Len(s) - 1) : t[i] = s[i]

\* A list without its last element.
LEMMA TextFront ==
  ASSUME NEW s, IsText(s), Len(s) > 0
  PROVE  Fronted(s, Front(s)) /\ Last(s) = s[Len(s)]
<1>1. PICK E : s \in Seq(E)
  BY DEF IsText
<1>2. Front(s) \in Seq(E) /\ Len(Front(s)) = Len(s) - 1 /\ \A i \in 1..(Len(s) - 1) : Front(s)[i] = s[i]
  <2> DEFINE k == Len(s)
  <2>1. s \in Seq(E) /\ k \in Nat /\ k > 0 /\ Front(s) = SubSeq(s, 1, k - 1)
    BY <1>1 DEF Front
  <2>2. \A i \in 1..(k - 1) : s[i] \in E
    BY <1>1
  <2> HIDE DEF k
  <2>3. k - 1 \in Nat /\ 1 + 0 = 1
    BY <2>1
  <2>4. Front(s) \in Seq(E) /\ Len(Front(s)) = k - 1 /\ \A i \in 1..(k - 1) : Front(s)[i] = s[1 + i - 1]
    BY <2>1, <2>2, <2>3, SubSeqProperties
  <2> QED
    BY <2>4 DEF k
<1> QED
  BY <1>2 DEF IsText, Fronted, Last

\* bs is as behind a GETPAR of the activation number d; e is the number of its caller.
Taken(as, bs, d, e, l) ==
  /\ ActsOK(bs, d) /\ \A i \in 1..d : i # d /\ i # e => bs[i] = as[i]
  /\ bs[e].locals = as[e].locals /\ bs[e].dest = as[e].dest /\ Fronted(as[e].args, bs[e].args)
  /\ bs[d].args = as[d].args /\ bs[d].pars = as[d].pars - 1
  /\ DOMAIN bs[d].locals = DOMAIN as[d].locals \union {l}
  /\ bs[d].locals[l] = as[e].args[Len(as[e].args)]
  /\ \A k \in DOMAIN as[d].locals : k # l => bs[d].locals[k] = as[d].locals[k]

AfterGetPar(as, d, e, l) ==
  [as EXCEPT ![d] = TakePar(@, l, Last(as[e].args)), ![e].args = Front(@)]

\* GETPAR takes the last argument of the caller.
LEMMA Takes ==
  ASSUME NEW as, NEW d, ActsOK(as, d), NEW e, e = d - 1, d >= 2, as[d].pars > 0,
         Len(as[e].args) > 0, NEW l \in Locations, NEW bs, bs = AfterGetPar(as, d, e, l)
  PROVE  Taken(as, bs, d, e, l)
<1> DEFINE a == as[d]
           u == as[e]
           g == Front(u.args)
           v == Last(u.args)
           a1 == [a EXCEPT !.pars = @ - 1]
           a2 == TakePar(a, l, v)
           u1 == [u EXCEPT !.args = g]
           cs == WithTop(as, d, a2)
<1>1. d \in Nat /\ e \in 1..d /\ e # d /\ d \in 1..d /\ e \in 1..(d - 1)
  <2>1. d \in Nat
    BY ActsParts
  <2> QED
    BY <2>1
<1>2. ActOK(a) /\ ActOK(u)
  BY <1>1, ActsParts
<1>3. Fronted(u.args, g) /\ v = u.args[Len(u.args)]
  BY <1>2, TextFront DEF ActOK
<1>4. Len(u.args) \in Nat
  BY <1>2, TextLength DEF ActOK
<1>5. Len(g) \in Nat /\ Len(g) <= MaxArgs /\ IsText(g) /\ (\A i \in 1..Len(g) : g[i][1] # "address") /\ v[1] # "address"
  <2> DEFINE k == Len(u.args)
  <2>1. k \in Nat /\ k > 0 /\ k <= MaxArgs /\ MaxArgs \in Nat
    BY <1>2, <1>4, FrameAssumption DEF ActOK
  <2>2. Len(g) = k - 1 /\ IsText(g) /\ \A i \in 1..(k - 1) : g[i] = u.args[i]
    BY <1>3 DEF Fronted
  <2>3. \A i \in 1..k : u.args[i][1] # "address"
    BY <1>2 DEF ActOK
  <2>k. v = u.args[k]
    BY <1>3
  <2> HIDE DEF k, g, u, v
  <2>4. k \in 1..k /\ \A i \in 1..(k - 1) : i \in 1..k
    BY <2>1
  <2> QED
    BY <2>1, <2>2, <2>3, <2>4, <2>k
<1>6. a1.locals = a.locals /\ a1.args = a.args /\ a1.dest = a.dest /\ a1.pars = a.pars - 1 /\ DOMAIN a1 = DOMAIN a
  <2> HIDE DEF a
  <2> QED
    BY <1>2 DEF ActOK
<1>7. u1.locals = u.locals /\ u1.args = g /\ u1.dest = u.dest /\ u1.pars = u.pars /\ DOMAIN u1 = DOMAIN u
  <2> HIDE DEF u, g
  <2> QED
    BY <1>2 DEF ActOK
<1>d. a2 = Assign(a1, l, v) /\ cs = WithTop(as, d, a2)
  BY DEF TakePar
<1>8. bs = WithTop(cs, e, u1)
  <2>1. cs = [as EXCEPT ![d] = a2]
    BY DEF WithTop
  <2>2. cs[e] = u
    <3>1. e # d
      BY <1>1
    <3> QED
      BY <3>1 DEF WithTop
  <2>3. bs = [cs EXCEPT ![e] = [cs[e] EXCEPT !.args = g]]
    BY DEF AfterGetPar, WithTop
  <2> HIDE DEF cs
  <2> QED
    BY <2>2, <2>3 DEF WithTop
<1>9. ActOK(a1)
  <2>1. a.pars - 1 \in Nat
    <3>1. a.pars \in Nat /\ a.pars > 0
      BY <1>2 DEF ActOK
    <3> HIDE DEF a
    <3> QED
      BY <3>1
  <2> HIDE DEF a1, a
  <2> QED
    BY <1>2, <1>6, <2>1 DEF ActOK
<1> HIDE DEF a1, a2, u1, cs, g, v, a, u
<1>10. ActOK(a2) /\ Assigned(a1, a2, l, v)
  <2>1. ActOK(a2)
    BY <1>5, <1>9, <1>d, AssignOK
  <2> QED
    BY <1>9, <1>d, <2>1, AssignParts
<1>11. ActOK(u1)
  BY <1>2, <1>5, <1>7 DEF ActOK
<1>12. TopIs(as, cs, d, a2)
  BY <1>10, <1>d, ActsSet
<1>13. Replaced(cs, bs, e, u1)
  <2>1. IsText(cs) /\ Len(cs) = d
    BY <1>12 DEF TopIs, ActsOK
  <2>2. e \in 1..Len(cs)
    BY <1>1, <2>1
  <2> QED
    BY <1>8, <2>1, <2>2, TextExcept
<1>14. /\ IsText(bs) /\ Len(bs) = d /\ bs[e] = u1 /\ bs[d] = a2 /\ \A i \in 1..d : i # d /\ i # e => bs[i] = as[i]
  <2>1. Len(cs) = d /\ cs[d] = a2 /\ \A i \in 1..(d - 1) : cs[i] = as[i]
    BY <1>12 DEF TopIs, ActsOK
  <2>2. IsText(bs) /\ Len(bs) = Len(cs) /\ bs[e] = u1 /\ \A j \in 1..Len(cs) : j # e => bs[j] = cs[j]
    BY <1>13 DEF Replaced
  <2>3. \A i \in 1..d : i # d => i \in 1..(d - 1)
    BY <1>1
  <2> QED
    BY <1>1, <2>1, <2>2, <2>3
<1>15. ActsOK(bs, d)
  <2>1. \A i \in 1..d : ActOK(bs[i])
    <3>1. \A i \in 1..d : ActOK(as[i])
      BY DEF ActsOK
    <3> QED
      BY <1>10, <1>11, <1>14, <3>1
  <2>2. ASSUME NEW i \in 1..(d - 1)
        PROVE  bs[i].pars = 0 /\ bs[i].dest \in Locations
    <3>1. as[i].pars = 0 /\ as[i].dest \in Locations
      BY DEF ActsOK
    <3>2. i \in 1..d /\ i # d
      BY <1>1
    <3>3. CASE i = e
      BY <1>7, <1>14, <3>1, <3>3 DEF u
    <3>4. CASE i # e
      BY <1>14, <3>1, <3>2, <3>4
    <3> QED
      BY <3>3, <3>4
  <2>3. d >= 1
    BY <1>1
  <2> QED
    BY <1>14, <2>1, <2>2, <2>3 DEF ActsOK
<1>16. /\ bs[e].locals = as[e].locals /\ bs[e].dest = as[e].dest /\ Fronted(as[e].args, bs[e].args)
  BY <1>3, <1>7, <1>14 DEF u
<1>17. /\ bs[d].args = as[d].args /\ bs[d].pars = as[d].pars - 1
       /\ DOMAIN bs[d].locals = DOMAIN as[d].locals \union {l}
       /\ bs[d].locals[l] = as[e].args[Len(as[e].args)]
       /\ \A k \in DOMAIN as[d].locals : k # l => bs[d].locals[k] = as[d].locals[k]
  <2>1. /\ a2.args = a1.args /\ a2.pars = a1.pars
        /\ DOMAIN a2.locals = DOMAIN a1.locals \union {l} /\ a2.locals[l] = v
        /\ \A k \in DOMAIN a1.locals : k # l => a2.locals[k] = a1.locals[k]
    BY <1>10 DEF Assigned
  <2> QED
    BY <1>3, <1>6, <1>14, <2>1 DEF a, u
<1> QED
  BY <1>14, <1>15, <1>16, <1>17 DEF Taken

PoppedInto(n, q, r, s, w) ==
  Same(n, q, {"rsp", r}, {}) /\ q.reg["rsp"] = Address(s) /\ q.reg[r] = w

\* The text of a GETPAR takes the last argument that waits from the stack.
LEMMA PopParameter ==
  ASSUME NEW n, NEW as, NEW F, NEW d, NEW c \in 0..MaxInstructions, ActsOK(as, d), Entry(n, as, F, d, c),
         as[d].pars > 0, NEW e, e = d - 1, NEW r, r \in Kept_Registers, NEW q, q = pop(n, Reg(r))
  PROVE  /\ PoppedInto(n, q, r, Bottom(as[e], F[e]) + 1, as[e].args[Len(as[e].args)])
         /\ Len(as[e].args) > 0
<1> DEFINE f == F[e]
           s == Bottom(as[e], f)
           k == Len(as[e].args)
<1>1. /\ d \in Nat /\ d >= 2 /\ f \in Int /\ f <= StackSize /\ F[d] \in 1..StackSize
      /\ F[d] + 13 < s /\ k \in Nat
  BY EntryCells
<1>2. e \in 1..e /\ e \in 1..(d - 1)
  BY <1>1
<1>3. k > 0
  <2>1. as[d].pars <= k
    BY DEF Entry
  <2>2. as[d].pars \in Nat
    BY ActsParts DEF ActOK
  <2> DEFINE p == as[d].pars
  <2> HIDE DEF k, p
  <2>3. p \in Nat /\ p > 0 /\ p <= k
    BY <2>1, <2>2 DEF p
  <2> QED
    BY <1>1, <2>3
<1>4. s = f - SpillCount - k /\ SpillCount \in Nat /\ StackSize \in Nat
  BY FrameAssumption, StackAssumption DEF Bottom
<1>5. n.mem[f - SpillCount - k] = as[e].args[k]
  <2>1. ArgsAt(n.mem, as[e], f)
    BY <1>2 DEF Entry, Below
  <2>2. k \in 1..k
    <3> HIDE DEF k
    <3> QED
      BY <1>1, <1>3
  <2> QED
    BY <2>1, <2>2 DEF ArgsAt
<1>6. IsMachine(n) /\ n.reg["rsp"] = Address(s)
  BY DEF Entry
<1>7. s \in Int /\ s \in 1..StackSize
  <2> DEFINE g == F[d]
  <2>1. g \in 1..StackSize /\ g + 13 < s
    BY <1>1
  <2> HIDE DEF f, k, g, s
  <2> QED
    BY <1>1, <1>3, <1>4, <2>1
<1>8. r \in MachineRegisters /\ r # "rsp"
  BY Registers
<1> DEFINE w == as[e].args[k]
<1>9. n.mem[s] = w
  BY <1>4, <1>5
<1> HIDE DEF s
<1>10. Same(n, q, {"rsp", r}, {}) /\ q.reg["rsp"] = Address(s + 1) /\ q.reg[r] = n.mem[s]
  BY <1>6, <1>7, <1>8, PopRegister
<1> QED
  BY <1>3, <1>9, <1>10 DEF PoppedInto, s

\* It pops the argument into a register before the prologue is run.
LEMMA EntryTakes ==
  ASSUME NEW n, NEW as, NEW F, NEW d, NEW c \in 0..MaxInstructions, ActsOK(as, d), Entry(n, as, F, d, c),
         as[d].pars > 0, NEW l \in Locations, ~is_virtual_reg(l), NEW q, q = pop(n, l),
         NEW e, e = d - 1, NEW bs, bs = AfterGetPar(as, d, e, l)
  PROVE  ActsOK(bs, d) /\ Entry(q, bs, F, d, c) /\ q.inputs = n.inputs /\ q.seen = n.seen
<1> DEFINE r == l[2]
           w == as[e].args[Len(as[e].args)]
           s == Bottom(as[e], F[e])
<1>1. l = Reg(r) /\ r \in Kept_Registers /\ r \in MachineRegisters /\ r \notin {"rsp", "rbp", "r11"}
  BY LocationsPlaces, PlaceKinds, Registers
<1> HIDE DEF r
<1>2. PoppedInto(n, q, r, s + 1, w) /\ Len(as[e].args) > 0
  BY <1>1, PopParameter
<1>3. Same(n, q, {"rsp", r}, {}) /\ q.reg["rsp"] = Address(s + 1) /\ q.reg[r] = w
  BY <1>2 DEF PoppedInto
<1>4. d \in Nat /\ d >= 2 /\ e \in Int
  <2>1. d \in Nat /\ d >= 2
    BY EntryCells
  <2> QED
    BY <2>1
<1>5. Taken(as, bs, d, e, l)
  BY <1>2, <1>4, Takes
<1>6. ActsOK(bs, d)
  BY <1>5 DEF Taken
<1>7. e \in 1..d /\ e # d /\ \A i \in 1..(d - 1) : i \in 1..d /\ i # d
  BY <1>4
<1>8. \A i \in 1..(d - 1) : bs[i].locals = as[i].locals /\ bs[i].dest = as[i].dest
  BY <1>5, <1>7 DEF Taken
<1> DEFINE k == Len(as[e].args)
<1>9. k \in Nat /\ k > 0 /\ Len(bs[e].args) = k - 1 /\ \A i \in 1..(k - 1) : bs[e].args[i] = as[e].args[i]
  <2>1. k \in Nat
    BY EntryCells
  <2>2. Fronted(as[e].args, bs[e].args)
    BY <1>5 DEF Taken
  <2> QED
    BY <1>2, <2>1, <2>2 DEF Fronted
<1>b. Bottom(bs[e], F[e]) = s + 1 /\ s \in Int /\ F[e] \in Int
  <2> DEFINE f == F[e]
  <2>1. f \in Int /\ SpillCount \in Nat
    BY EntryCells, FrameAssumption
  <2>2. s = f - SpillCount - k
    BY DEF Bottom
  <2> HIDE DEF k, s
  <2>3. Bottom(bs[e], f) = f - SpillCount - (k - 1)
    BY <1>9 DEF Bottom
  <2> HIDE DEF f
  <2>4. f - SpillCount - (k - 1) = s + 1 /\ s \in Int
    BY <1>9, <2>1, <2>2
  <2> QED
    BY <2>1, <2>3, <2>4 DEF f
<1> HIDE DEF k
<1>10. Apart(bs, F, d, c)
  <2>1. Apart(as, F, d, c)
    BY DEF Entry
  <2>2. ASSUME NEW i \in 1..d, NEW j \in 1..d, i < j
        PROVE  F[j] + 13 < Bottom(bs[i], F[i])
    <3>0. i # d
      BY <2>2, <1>4
    <3>1. F[j] + 13 < Bottom(as[i], F[i]) /\ F[j] \in Int
      BY <2>1, <2>2 DEF Apart
    <3>2. CASE i = e
      <4> DEFINE g == F[j]
      <4>1. g \in Int /\ g + 13 < s
        BY <3>1, <3>2
      <4> HIDE DEF g, s
      <4>2. g + 13 < s + 1
        BY <1>b, <4>1
      <4> QED
        BY <1>b, <3>2, <4>2 DEF g
    <3>3. CASE i # e
      <4>1. bs[i] = as[i]
        BY <1>5, <3>0, <3>3 DEF Taken
      <4> QED
        BY <3>1, <4>1
    <3> QED
      BY <3>2, <3>3
  <2> QED
    BY <2>1, <2>2 DEF Apart
<1>m. \A a \in 0..StackSize : q.mem[a] = n.mem[a]
  BY <1>3 DEF Same, Like
<1>11. Below(n.mem, as, F, d) /\ Links(n.mem, as, F, d - 1)
  BY DEF Entry
<1>k. \A i \in 1..(d - 1) : ActOK(as[i]) /\ as[i] = as[i]
  BY ActsParts
<1>12. Below(q.mem, as, F, d) /\ Links(q.mem, as, F, d - 1)
  <2>1. Apart(as, F, d, c)
    BY DEF Entry
  <2>2. \A a \in F[d]..StackSize : a # F[d] /\ a # F[d] + 12 => q.mem[a] = n.mem[a]
    <3> DEFINE f == F[d]
    <3>1. f \in 1..StackSize /\ StackSize \in Nat
      BY EntryCells, StackAssumption
    <3> HIDE DEF f
    <3>2. \A a \in f..StackSize : a \in 0..StackSize
      BY <3>1
    <3>3. \A a \in f..StackSize : q.mem[a] = n.mem[a]
      BY <1>m, <3>2
    <3> QED
      BY <3>3 DEF f
  <2> QED
    BY <1>4, <1>11, <1>k, <2>1, <2>2, MemoryKept
<1>13. Below(q.mem, bs, F, d)
  <2> SUFFICES ASSUME NEW j \in 1..(d - 1)
               PROVE  /\ SlotsAt(q.mem, bs[j], F[j]) /\ ArgsAt(q.mem, bs[j], F[j])
                      /\ SavedFor(q.mem, F[j + 1], bs[j])
    BY DEF Below
  <2>1. SlotsAt(q.mem, as[j], F[j]) /\ ArgsAt(q.mem, as[j], F[j]) /\ SavedFor(q.mem, F[j + 1], as[j])
    BY <1>12 DEF Below
  <2>2. SlotsAt(q.mem, bs[j], F[j]) /\ SavedFor(q.mem, F[j + 1], bs[j])
    BY <1>8, <2>1 DEF SlotsAt, SavedFor
  <2>3. CASE j = e
    <3>1. \A i \in 1..(k - 1) : i \in 1..k
      BY <1>9
    <3>2. \A i \in 1..k : q.mem[F[e] - SpillCount - i] = as[e].args[i]
      BY <2>1, <2>3 DEF ArgsAt, k
    <3>3. \A i \in 1..(k - 1) : q.mem[F[e] - SpillCount - i] = bs[e].args[i]
      BY <1>9, <3>1, <3>2
    <3>4. ArgsAt(q.mem, bs[j], F[j])
      BY <1>9, <2>3, <3>3 DEF ArgsAt
    <3> QED
      BY <2>2, <3>4
  <2>4. CASE j # e
    <3>1. bs[j] = as[j]
      BY <1>5, <1>7, <2>4 DEF Taken
    <3> QED
      BY <2>1, <3>1
  <2> QED
    BY <2>3, <2>4
<1>14. Links(q.mem, bs, F, d - 1)
  <2> SUFFICES ASSUME NEW j \in 1..((d - 1) - 1)
               PROVE  Linked(q.mem, F[j + 1], bs[j], F[j])
    BY DEF Links
  <2>1. j \in 1..d /\ j # d /\ j # e
    BY <1>4
  <2>2. bs[j] = as[j]
    BY <1>5, <2>1 DEF Taken
  <2> QED
    BY <1>12, <2>2 DEF Links
<1>15. /\ IsMachine(q) /\ q.reg["rbp"] = Address(F[e]) /\ q.reg["r11"] = Address(F[d] + 1)
       /\ q.mem[F[d] + 12] = Address(F[e])
  <2>1. n.reg["rbp"] = Address(F[e]) /\ n.reg["r11"] = Address(F[d] + 1) /\ n.mem[F[d] + 12] = Address(F[e])
    BY DEF Entry
  <2>2. F[d] + 12 \in 0..StackSize
    <3> DEFINE f == F[d]
    <3>1. f \in 1..StackSize /\ f + 13 <= StackSize /\ StackSize \in Nat
      BY EntryCells, StackAssumption
    <3> HIDE DEF f
    <3>2. f + 12 \in 0..StackSize
      BY <3>1
    <3> QED
      BY <3>2 DEF f
  <2>3. "rbp" \in MachineRegisters /\ "r11" \in MachineRegisters
    BY Registers
  <2>4. "rbp" \notin {"rsp", r} /\ "r11" \notin {"rsp", r}
    BY <1>1
  <2>5. q.reg["rbp"] = n.reg["rbp"] /\ q.reg["r11"] = n.reg["r11"] /\ IsMachine(q)
    BY <1>3, <2>3, <2>4 DEF Same, Like
  <2> QED
    BY <1>m, <2>1, <2>2, <2>5
<1>16. bs[d].args = <<>> /\ \A x \in DOMAIN bs[d].locals : ~is_virtual_reg(x)
  BY <1>5 DEF Taken, Entry
<1>17. InPlace(q, bs[d])
  <2> SUFFICES ASSUME NEW x \in DOMAIN bs[d].locals
               PROVE  ValueOf(q, x) = bs[d].locals[x]
    BY DEF InPlace
  <2>1. CASE x = l
    <3>1. bs[d].locals[l] = w
      BY <1>5 DEF Taken
    <3>2. ValueOf(q, l) = q.reg[r]
      BY <1>1, RegisterValue
    <3> QED
      BY <1>3, <2>1, <3>1, <3>2
  <2>2. CASE x # l
    <3>1. x \in DOMAIN as[d].locals /\ bs[d].locals[x] = as[d].locals[x]
      BY <1>5, <2>2 DEF Taken
    <3>2. ValueOf(n, x) = as[d].locals[x] /\ ~is_virtual_reg(x)
      BY <3>1 DEF Entry, InPlace
    <3>3. x \in Places
      BY <1>4, <3>1, ActsParts
    <3>4. x = Reg(x[2]) /\ x[2] \in Kept_Registers
      BY <3>2, <3>3, PlaceKinds
    <3>5. x[2] \in MachineRegisters /\ x[2] # "rsp" /\ x[2] # r
      BY <1>1, <2>2, <3>4, Registers
    <3>6. q.reg[x[2]] = n.reg[x[2]]
      BY <1>3, <3>5 DEF Same, Like
    <3>7. ValueOf(q, x) = ValueOf(n, x)
      <4> DEFINE z == x[2]
      <4> HIDE DEF z
      <4>1. ValueOf(q, Reg(z)) = q.reg[z] /\ ValueOf(n, Reg(z)) = n.reg[z]
        BY RegisterValue
      <4> QED
        BY <3>4, <3>6, <4>1 DEF z
    <3> QED
      BY <3>1, <3>2, <3>7
  <2> QED
    BY <2>1, <2>2
<1>18. bs[d].pars <= Len(bs[e].args)
  <2> DEFINE p == as[d].pars
  <2>1. p <= k
    BY DEF Entry, k
  <2>2. p \in Nat
    BY ActsParts DEF ActOK
  <2>3. bs[d].pars = p - 1
    BY <1>5 DEF Taken
  <2> HIDE DEF p
  <2>4. p - 1 <= k - 1
    BY <1>9, <2>1, <2>2
  <2> QED
    BY <1>9, <2>3, <2>4
<1>19. q.reg["rsp"] = Address(Bottom(bs[e], F[e]))
  BY <1>3, <1>b
<1>20. Entry(q, bs, F, d, c)
  BY <1>4, <1>10, <1>13, <1>14, <1>15, <1>16, <1>17, <1>18, <1>19 DEF Entry
<1> QED
  BY <1>3, <1>6, <1>20 DEF Same

\* GETPAR keeps the invariant.
LEMMA GetParKeeps ==
  ASSUME Admit = {}, FrameInv, NEW l \in Placed, FGetPar(l)
  PROVE  FrameInv'
<1> DEFINE d == Depth
           e == d - 1
<1>1. /\ ~is_virtual_reg(l) /\ acts # <<>> /\ acts[d].pars > 0 /\ m' = pop(m, l)
      /\ acts' = AfterGetPar(acts, d, e, l)
      /\ UNCHANGED <<inputs, seen, text, steps, calls>>
  BY DEF FGetPar, GetPar, Top, AfterGetPar
<1>2. text = "pars"
  <2>1. text # "exited"
    BY <1>1 DEF FrameInv
  <2>2. ASSUME text = "body"
        PROVE  FALSE
    <3>1. acts[d].pars = 0
      BY <2>2 DEF FrameInv, BodyAt
    <3> QED
      BY <1>1, <3>1
  <2> QED
    BY <2>1, <2>2 DEF FrameInv
<1>3. PICK F : Entry(m, acts, F, d, calls)
  BY <1>2 DEF FrameInv, EntryAt
<1>4. ActsOK(acts, d) /\ l \in Locations /\ calls \in 0..MaxInstructions /\ m.inputs = inputs /\ m.seen = seen
  BY <1>2, PlaceAssumption DEF FrameInv, EntryAt
<1>d. e = d - 1
  OBVIOUS
<1>p. PICK q : q = pop(m, l)
  OBVIOUS
<1>b. PICK bs : bs = AfterGetPar(acts, d, e, l)
  OBVIOUS
<1>f. PICK a, g : a = acts /\ g = d
  OBVIOUS
<1> HIDE DEF d, e
<1>5. ActsOK(bs, d) /\ Entry(q, bs, F, d, calls) /\ q.inputs = m.inputs /\ q.seen = m.seen
  BY <1>1, <1>3, <1>4, <1>d, <1>p, <1>b, EntryTakes
<1>6. EntryAt(q, bs, d, calls)
  BY <1>5 DEF EntryAt
<1>7. m' = q /\ acts' = bs
  BY <1>1, <1>p, <1>b
<1>8. Depth' = g
  <2>1. ActsOK(bs, g)
    BY <1>5, <1>f
  <2>2. Len(bs) = g
    BY <2>1 DEF ActsOK
  <2> QED
    BY <1>7, <2>2 DEF Depth
<1>9. EntryAt(m', acts', Depth', calls')
  BY <1>1, <1>6, <1>7, <1>8, <1>f
<1> QED
  BY <1>1, <1>2, <1>4, <1>5, <1>7, <1>9 DEF FrameInv

-----------------------------------------------------------------------------
(* Calls.                                                                  *)

CallCode(l) == <<<<"call", l>>>> \o FunctionEntry

\* What a call and the beginning of the function leave in the 13 cells below b.
EntryMade(n, p, f, b, l) ==
  /\ Same(n, p, {"rsp", "r11"}, (f + 1)..(f + 13)) /\ p.reg["rsp"] = Address(b)
  /\ p.reg["r11"] = Address(f + 1)
  /\ p.mem[f + 13] = <<"after", l>> /\ p.mem[f + 12] = n.reg["rbp"]
  /\ \A i \in 1..11 : p.mem[f + (12 - i)] = n.reg[RegisterList[i]]

\* A push, for a stack pointer b above the cell c.
LEMMA PushAWord ==
  ASSUME NEW n, IsMachine(n), NEW b \in Int, n.reg["rsp"] = Address(b),
         NEW c \in 1..StackSize, b = c + 1, NEW w, NEW p, p = push_word(n, w)
  PROVE  WordPushed(n, p, c, w)
<1>1. n.reg["rsp"] = Address(c + 1)
  OBVIOUS
<1> QED
  BY <1>1, PushedWord

\* More words on the stack, whose pointer stays.
LEMMA PushAllRegisters ==
  ASSUME NEW n, IsMachine(n), NEW k, k = 11, NEW b \in Int, n.reg["rsp"] = Address(b), b - k >= 1,
         b <= StackSize + 1
  PROVE  IsText(Pushes(RegisterList)) /\ Pushed(n, Run(n, Pushes(RegisterList)), RegisterList, b, k)
<1>1. IsRegisterList(RegisterList, k)
  <2>1. REGISTER_COUNT = 11 /\ DOMAIN RegisterList = 1..11 /\ \A i \in 1..11 : RegisterList[i] \in Kept_Registers
    BY Registers
  <2>2. Kept_Registers \subseteq MachineRegisters /\ "rsp" \notin Kept_Registers
    BY Registers
  <2> QED
    BY <2>1, <2>2 DEF IsRegisterList, REGISTER_COUNT
<1> QED
  BY <1>1, PushAll

\* The call and the beginning of the function save the return address, the frame
\* pointer and the registers, and the stack pointer is back at the arguments.
LEMMA CallText ==
  ASSUME NEW n, IsMachine(n), NEW b \in Int, n.reg["rsp"] = Address(b), b <= StackSize,
         NEW f \in Int, f = b - 14, 1 <= f, NEW l
  PROVE  IsText(CallCode(l)) /\ EntryMade(n, Run(n, CallCode(l)), f, b, l)
<1> DEFINE k == 11
           k2 == 13
           c1 == f + 13
           c2 == f + 12
           c3 == f + 1
           A == <<<<"call", l>>>>
           B == <<<<"push", Rbp>>>>
           C == Pushes(RegisterList)
           D == <<<<"mov", Reg("rsp"), Reg("r11")>>, <<"add", Imm(k2), Rsp>>>>
           n1 == Run(n, A)
           n2 == Run(n1, B)
           n3 == Run(n2, C)
           n4 == Execute(n3, <<"mov", Reg("rsp"), Reg("r11")>>)
           n5 == Execute(n4, <<"add", Imm(k2), Rsp>>)
<1>1. CallCode(l) = A \o (B \o C \o D)
  <2>1. REGISTER_COUNT + 2 = k2
    BY Registers
  <2>2. FunctionEntry = B \o C \o D
    BY <2>1 DEF FunctionEntry, Rsp, R11
  <2> QED
    BY <2>2 DEF CallCode
<1>2. Run(n3, D) = n5 /\ IsText(D)
  BY RunTwo
<1>3. n1 = push_word(n, <<"after", l>>) /\ IsText(A)
  <2>1. n1 = Execute(n, <<"call", l>>) /\ IsText(A)
    BY RunOne
  <2>2. Execute(n, <<"call", l>>) = call(n, l)
    BY ExecutesOfOne
  <2> QED
    BY <2>1, <2>2 DEF call
<1>4. n2 = push_word(n1, n1.reg["rbp"]) /\ IsText(B)
  <2>1. n2 = Execute(n1, <<"push", Rbp>>) /\ IsText(B)
    BY RunOne
  <2>2. Execute(n1, <<"push", Rbp>>) = push(n1, Rbp)
    BY ExecutesOfOne
  <2>3. ValueOf(n1, Rbp) = n1.reg["rbp"]
    BY RegisterValue DEF Rbp
  <2> HIDE DEF n1, n2
  <2> QED
    BY <2>1, <2>2, <2>3 DEF push
<1>d3. n3 = Run(n2, Pushes(RegisterList))
  OBVIOUS
<1>d4. n4 = Execute(n3, <<"mov", Reg("rsp"), Reg("r11")>>)
  OBVIOUS
<1>d5. n5 = Execute(n4, <<"add", Imm(k2), Rsp>>)
  OBVIOUS
<1>t. Run(n, A) = n1 /\ Run(n1, B) = n2 /\ Run(n2, C) = n3
  OBVIOUS
<1> HIDE DEF n1, n2, n3, n4, n5
<1>5. /\ c1 \in 1..StackSize /\ b = c1 + 1 /\ c2 \in 1..StackSize /\ c1 = c2 + 1 /\ c1 \in Int /\ c2 \in Int
      /\ c2 - k >= 1 /\ c2 <= StackSize + 1 /\ c2 - k = c3 /\ c3 + k2 = b /\ c3 \in Int /\ k2 \in Int /\ c1 # c2
      /\ c1 \in 0..StackSize /\ c2 \in 0..StackSize
  BY StackAssumption
<1>r. "rsp" \in MachineRegisters /\ "r11" \in MachineRegisters /\ "rbp" \in MachineRegisters
  BY Registers
<1>6. WordPushed(n, n1, c1, <<"after", l>>)
  <2> DEFINE w == <<"after", l>>
  <2>1. n1 = push_word(n, w)
    BY <1>3
  <2> HIDE DEF w, c1
  <2>2. WordPushed(n, n1, c1, w)
    BY <1>5, <2>1, PushAWord
  <2> QED
    BY <2>2 DEF w
<1>7. Same(n, n1, {"rsp"}, {c1}) /\ n1.reg["rsp"] = Address(c1) /\ n1.mem[c1] = <<"after", l>> /\ IsMachine(n1)
  BY <1>6 DEF WordPushed
<1>8. n1.reg["rbp"] = n.reg["rbp"]
  BY <1>r, <1>7 DEF Same, Like
<1>9. Same(n1, n2, {"rsp"}, {c2}) /\ n2.reg["rsp"] = Address(c2) /\ n2.mem[c2] = n.reg["rbp"] /\ IsMachine(n2)
  <2>1. n2 = push_word(n1, n.reg["rbp"])
    BY <1>4, <1>8
  <2> HIDE DEF c1, c2
  <2>2. WordPushed(n1, n2, c2, n.reg["rbp"])
    BY <1>5, <1>7, <2>1, PushAWord
  <2> QED
    BY <2>2 DEF WordPushed
<1>10. IsText(C) /\ Pushed(n2, n3, RegisterList, c2, k)
  <2>k. k = 11
    OBVIOUS
  <2> HIDE DEF c2, k
  <2> QED
    BY <1>5, <1>9, <1>d3, <2>k, PushAllRegisters
<1>11. Same(n2, n3, {"rsp"}, c3..c2) /\ n3.reg["rsp"] = Address(c3) /\ IsMachine(n3)
  <2>1. Same(n2, n3, {"rsp"}, (c2 - k)..(c2 - 1)) /\ n3.reg["rsp"] = Address(c2 - k)
    BY <1>10 DEF Pushed
  <2>2. (c2 - k)..(c2 - 1) \subseteq c3..c2 /\ {"rsp"} \subseteq {"rsp"}
    OBVIOUS
  <2> DEFINE X == (c2 - k)..(c2 - 1)
             Y == c3..c2
             R == {"rsp"}
  <2> HIDE DEF X, Y, R
  <2>3. Same(n2, n3, R, Y)
    <3>1. Same(n2, n3, R, X)
      BY <2>1 DEF X, R
    <3>2. X \subseteq Y /\ R \subseteq R
      BY <2>2 DEF X, Y
    <3> QED
      BY <3>1, <3>2, SameMore
  <2> QED
    BY <1>5, <2>1, <2>3 DEF R, Y, Same, Like
<1>12. \A i \in 1..11 : n3.mem[f + (12 - i)] = n.reg[RegisterList[i]]
  <2> SUFFICES ASSUME NEW i \in 1..11
               PROVE  n3.mem[f + (12 - i)] = n.reg[RegisterList[i]]
    OBVIOUS
  <2>1. c2 - i = f + (12 - i)
    OBVIOUS
  <2>2. n3.mem[c2 - i] = n2.reg[RegisterList[i]]
    BY <1>10 DEF Pushed
  <2>3. RegisterList[i] \in MachineRegisters /\ RegisterList[i] \notin {"rsp"}
    BY Registers
  <2>4. n2.reg[RegisterList[i]] = n1.reg[RegisterList[i]]
    BY <1>9, <2>3 DEF Same, Like
  <2>5. n1.reg[RegisterList[i]] = n.reg[RegisterList[i]]
    BY <1>7, <2>3 DEF Same, Like
  <2> QED
    BY <2>1, <2>2, <2>4, <2>5
<1>13. Same(n3, n4, {"r11"}, {}) /\ n4.reg["r11"] = Address(c3) /\ IsMachine(n4)
  <2>1. Loaded(n3, n4, "r11", n3.reg["rsp"])
    BY <1>r, <1>11, <1>d4, MoveRegister
  <2> QED
    BY <1>11, <2>1 DEF Loaded
<1>14. n4.reg["rsp"] = Address(c3)
  BY <1>r, <1>11, <1>13 DEF Same, Like
<1>15. Same(n4, n5, {"rsp"}, {}) /\ n5.reg["rsp"] = Address(b)
  <2> HIDE DEF c3, k2
  <2>1. Same(n4, n5, {"rsp"}, {}) /\ n5.reg["rsp"] = Address(c3 + k2)
    BY <1>5, <1>13, <1>14, <1>d5, AddStackPointer
  <2> QED
    BY <1>5, <2>1
<1>16. n5.reg["r11"] = Address(c3)
  BY <1>r, <1>13, <1>15 DEF Same, Like
<1>17. \A a \in 0..StackSize : n5.mem[a] = n3.mem[a]
  <2>1. \A a \in 0..StackSize : n4.mem[a] = n3.mem[a]
    BY <1>13 DEF Same, Like
  <2>2. \A a \in 0..StackSize : n5.mem[a] = n4.mem[a]
    BY <1>15 DEF Same, Like
  <2> QED
    BY <2>1, <2>2
<1>18. n5.mem[c1] = <<"after", l>> /\ n5.mem[c2] = n.reg["rbp"]
  <2>1. n2.mem[c1] = <<"after", l>>
    BY <1>5, <1>7, <1>9 DEF Same, Like
  <2>2. Same(n2, n3, {"rsp"}, (c2 - k)..(c2 - 1))
    BY <1>10 DEF Pushed
  <2>3. c1 \notin (c2 - k)..(c2 - 1) /\ c2 \notin (c2 - k)..(c2 - 1)
    OBVIOUS
  <2>4. n3.mem[c1] = n2.mem[c1] /\ n3.mem[c2] = n2.mem[c2]
    BY <1>5, <2>2, <2>3 DEF Same, Like
  <2> QED
    BY <1>5, <1>9, <1>17, <2>1, <2>4
<1>19. \A i \in 1..11 : n5.mem[f + (12 - i)] = n.reg[RegisterList[i]]
  <2>1. \A i \in 1..11 : f + (12 - i) \in 0..StackSize
    BY StackAssumption
  <2> QED
    BY <1>12, <1>17, <2>1
<1>20. Same(n, n5, {"rsp", "r11"}, c3..c1)
  <2> DEFINE R == {"rsp", "r11"}
             X == c3..c1
  <2>1. Same(n, n1, R, X) /\ Same(n1, n2, R, X)
    <3>1. {"rsp"} \subseteq R /\ {c1} \subseteq X /\ {c2} \subseteq X
      BY <1>5
    <3> QED
      BY <1>7, <1>9, <3>1, SameMore
  <2>2. Same(n2, n3, R, X)
    <3>1. {"rsp"} \subseteq R /\ c3..c2 \subseteq X
      BY <1>5
    <3> QED
      BY <1>11, <3>1, SameMore
  <2>3. Same(n3, n4, R, X) /\ Same(n4, n5, R, X)
    <3>1. {"rsp"} \subseteq R /\ {"r11"} \subseteq R /\ {} \subseteq X
      OBVIOUS
    <3> QED
      BY <1>13, <1>15, <3>1, SameMore
  <2> HIDE DEF R, X
  <2>4. R \union R = R /\ X \union X = X
    OBVIOUS
  <2>5. Same(n, n2, R, X)
    <3>1. Same(n, n2, R \union R, X \union X)
      BY <2>1, SameThen
    <3> QED
      BY <2>4, <3>1
  <2>6. Same(n, n3, R, X)
    <3>1. Same(n, n3, R \union R, X \union X)
      BY <2>2, <2>5, SameThen
    <3> QED
      BY <2>4, <3>1
  <2>7. Same(n, n4, R, X)
    <3>1. Same(n, n4, R \union R, X \union X)
      BY <2>3, <2>6, SameThen
    <3> QED
      BY <2>4, <3>1
  <2>8. Same(n, n5, R, X)
    <3>1. Same(n, n5, R \union R, X \union X)
      BY <2>3, <2>7, SameThen
    <3> QED
      BY <2>4, <3>1
  <2> QED
    BY <2>8 DEF R, X
<1>21. EntryMade(n, n5, f, b, l)
  BY <1>15, <1>16, <1>18, <1>19, <1>20 DEF EntryMade
<1>22. IsText(CallCode(l)) /\ Run(n, CallCode(l)) = n5
  <2> HIDE DEF A, B, C, D
  <2>1. IsText(B \o C) /\ Run(n1, B \o C) = n3
    BY <1>4, <1>10, <1>t, TextConcat, RunConcat
  <2>2. IsText(B \o C \o D) /\ Run(n1, B \o C \o D) = n5
    BY <1>2, <2>1, TextConcat, RunConcat
  <2>3. IsText(A \o (B \o C \o D)) /\ Run(n, A \o (B \o C \o D)) = n5
    BY <1>3, <1>t, <2>2, TextConcat, RunConcat
  <2> QED
    BY <1>1, <2>3
<1> QED
  BY <1>21, <1>22

AfterCallOf(as, d, l, k) == Append([as EXCEPT ![d].dest = l], Activation(k))

\* bs is as behind the call of a function with k parameters.
Called(as, bs, d, e, l, k) ==
  /\ ActsOK(bs, e) /\ \A i \in 1..(d - 1) : bs[i] = as[i]
  /\ bs[d].locals = as[d].locals /\ bs[d].args = as[d].args /\ bs[d].dest = l
  /\ bs[e].args = <<>> /\ DOMAIN bs[e].locals = {} /\ bs[e].pars = k

\* The activations behind a call.
LEMMA Calls ==
  ASSUME NEW as, NEW d, ActsOK(as, d), as[d].pars = 0, NEW e, e = d + 1, NEW l \in Locations, NEW k \in Nat,
         NEW bs, bs = AfterCallOf(as, d, l, k)
  PROVE  Called(as, bs, d, e, l, k)
<1> DEFINE a == as[d]
           b == [a EXCEPT !.dest = l]
           z == Activation(k)
           cs == WithTop(as, d, b)
<1>1. d \in Nat /\ d \in 1..d /\ ActOK(a)
  BY ActsParts
<1>2. bs = Append(cs, z)
  BY DEF AfterCallOf, WithTop
<1>3. b.locals = a.locals /\ b.args = a.args /\ b.pars = a.pars /\ b.dest = l /\ DOMAIN b = DOMAIN a
  <2> HIDE DEF a
  <2> QED
    BY <1>1 DEF ActOK
<1>4. ActOK(b)
  <2> HIDE DEF a, b
  <2> QED
    BY <1>1, <1>3 DEF ActOK
<1>c. cs = WithTop(as, d, b)
  OBVIOUS
<1>5. /\ DOMAIN z = {"locals", "args", "pars", "dest"} /\ z.locals = <<>> /\ z.args = <<>> /\ z.pars = k
      /\ DOMAIN z.locals = {}
  BY DEF Activation
<1> HIDE DEF b, cs, z
<1>6. ActOK(z)
  <2>1. IsText(<<>>) /\ Len(<<>>) = 0 /\ 1..0 = {} /\ 0 <= MaxArgs
    BY RunNothing, FrameAssumption
  <2> QED
    BY <1>5, <2>1 DEF ActOK
<1>7. TopIs(as, cs, d, b)
  BY <1>4, <1>c, ActsSet
<1>8. /\ ActsOK(cs, d) /\ cs[d] = b /\ \A i \in 1..(d - 1) : cs[i] = as[i]
  BY <1>7 DEF TopIs
<1>9. IsText(cs) /\ Len(cs) = d
  BY <1>8 DEF ActsOK
<1>10. IsText(bs) /\ Len(bs) = e /\ bs[e] = z /\ \A i \in 1..d : bs[i] = cs[i]
  <2>1. Appended(cs, bs, z)
    BY <1>2, <1>9, TextAppend
  <2> QED
    BY <1>9, <2>1 DEF Appended
<1>11. ActsOK(bs, e)
  <2>1. ASSUME NEW i \in 1..e
        PROVE  ActOK(bs[i])
    <3>1. CASE i = e
      BY <1>6, <1>10, <3>1
    <3>2. CASE i # e
      <4>1. i \in 1..d
        BY <1>1, <3>2
      <4> QED
        BY <1>8, <1>10, <4>1 DEF ActsOK
    <3> QED
      BY <3>1, <3>2
  <2>2. ASSUME NEW i \in 1..(e - 1)
        PROVE  bs[i].pars = 0 /\ bs[i].dest \in Locations
    <3>1. i \in 1..d
      BY <1>1
    <3>2. CASE i = d
      BY <1>3, <1>8, <1>10, <3>1, <3>2 DEF a
    <3>3. CASE i # d
      <4>1. i \in 1..(d - 1)
        BY <1>1, <3>1, <3>3
      <4> QED
        BY <1>10, <1>8, <3>1, <4>1 DEF ActsOK
    <3> QED
      BY <3>2, <3>3
  <2>3. e >= 1
    BY <1>1
  <2> QED
    BY <1>10, <2>1, <2>2, <2>3 DEF ActsOK
<1>12. \A i \in 1..(d - 1) : bs[i] = as[i]
  <2>1. \A i \in 1..(d - 1) : i \in 1..d
    BY <1>1
  <2> QED
    BY <1>8, <1>10, <2>1
<1>13. bs[d].locals = as[d].locals /\ bs[d].args = as[d].args /\ bs[d].dest = l
  BY <1>1, <1>3, <1>8, <1>10 DEF a
<1> QED
  BY <1>5, <1>10, <1>11, <1>12, <1>13 DEF Called

FrameAdded(F, d, f) == [j \in 1..(d + 1) |-> IF j = d + 1 THEN f ELSE F[j]]

\* The cells of the body of the number d.
LEMMA BodyCells ==
  ASSUME NEW n, NEW as, NEW F, NEW d, NEW c \in 0..MaxInstructions, ActsOK(as, d), Body(n, as, F, d, c),
         NEW b, b = Bottom(as[d], F[d])
  PROVE  /\ b \in Int /\ b <= F[d] - SpillCount /\ b <= F[d] /\ F[d] <= StackSize /\ F[d] \in Int
         /\ b - 14 - SpillCount - MaxArgs >= Room(c) - SpillCount - MaxArgs - 14
         /\ b = F[d] - SpillCount - Len(as[d].args) /\ Len(as[d].args) \in Nat
         /\ SpillCount \in Nat /\ MaxArgs \in Nat /\ StackSize \in Nat /\ Room(c) \in Int
<1> DEFINE f == F[d]
           k == Len(as[d].args)
           r == Room(c)
<1>1. d \in Nat /\ d \in 1..d /\ ActOK(as[d])
  BY ActsParts
<1>2. f \in Int /\ f <= StackSize /\ f - SpillCount - MaxArgs >= r
  BY <1>1 DEF Body, Apart
<1>3. k \in Nat /\ k <= MaxArgs
  BY <1>1, TextLength DEF ActOK
<1>4. SpillCount \in Nat /\ MaxArgs \in Nat /\ StackSize \in Nat /\ r \in Int
  BY FrameAssumption, StackAssumption, RoomEnough
<1>5. b = f - SpillCount - k
  BY DEF Bottom
<1> HIDE DEF f, k, r
<1>6. /\ b \in Int /\ b <= f - SpillCount /\ b <= f
      /\ b - 14 - SpillCount - MaxArgs >= r - SpillCount - MaxArgs - 14
  BY <1>2, <1>3, <1>4, <1>5
<1> QED
  BY <1>2, <1>3, <1>4, <1>5, <1>6 DEF f, k, r

\* The frame of the new activation fits between the arguments and the room for
\* further calls.
LEMMA RoomForFrame ==
  ASSUME NEW b \in Int, NEW h \in Int, b <= h, h <= StackSize, StackSize \in Nat, NEW f, f = b - 14,
         NEW r \in Int, NEW r1 \in Int, r1 >= 7, SpillCount \in Nat, MaxArgs \in Nat,
         r = r1 + SpillCount + MaxArgs + 14,
         b - 14 - SpillCount - MaxArgs >= r - SpillCount - MaxArgs - 14
  PROVE  f \in Int /\ f <= StackSize /\ f - SpillCount - MaxArgs >= r1 /\ 1 <= f /\ f + 13 < b
<1>1. f \in Int /\ f <= StackSize /\ f + 13 < b
  OBVIOUS
<1>2. f - SpillCount - MaxArgs >= r1
  OBVIOUS
<1>3. 1 <= f
  BY <1>1, <1>2
<1> QED
  BY <1>1, <1>2, <1>3

\* It is below the frames of all others.
LEMMA FurtherBelow ==
  ASSUME NEW f \in Int, NEW b \in Int, NEW h \in Int, NEW x \in Int, f + 13 < b, b <= h, h + 13 < x
  PROVE  f + 13 < x
OBVIOUS

\* All frames are apart, also with the new one.
LEMMA CallApart ==
  ASSUME NEW n, NEW as, NEW F, NEW d, NEW c \in 0..MaxInstructions, ActsOK(as, d), Body(n, as, F, d, c),
         c < MaxInstructions, NEW b, b = Bottom(as[d], F[d]), NEW f, f = b - 14,
         NEW e, e = d + 1, NEW bs, NEW l, NEW k, Called(as, bs, d, e, l, k),
         NEW G, G = FrameAdded(F, d, f)
  PROVE  /\ Apart(bs, G, e, c + 1) /\ f \in Int /\ 1 <= f
<1>1. d \in Nat /\ d \in 1..d
  BY ActsParts
<1> DEFINE r == Room(c)
           r1 == Room(c + 1)
           h == F[d]
<1>2. /\ b \in Int /\ b <= h /\ h <= StackSize /\ h \in Int
      /\ b - 14 - SpillCount - MaxArgs >= r - SpillCount - MaxArgs - 14
      /\ SpillCount \in Nat /\ MaxArgs \in Nat /\ StackSize \in Nat /\ r \in Int
  BY BodyCells
<1>3. r = r1 + SpillCount + MaxArgs + 14 /\ r1 \in Int /\ r1 >= 7
  <2>1. c + 1 \in 0..MaxInstructions
    BY FrameAssumption
  <2> QED
    BY <2>1, RoomEnough
<1>4. Apart(as, F, d, c)
  BY DEF Body
<1>5. G[e] = f /\ (\A j \in 1..d : G[j] = F[j]) /\ e # d /\ e \in 1..e
  <2>1. e \in 1..(d + 1) /\ \A j \in 1..d : j \in 1..(d + 1) /\ j # d + 1
    BY <1>1
  <2> QED
    BY <2>1 DEF FrameAdded
<1>6. f \in Int /\ f <= StackSize /\ f - SpillCount - MaxArgs >= r1 /\ 1 <= f /\ f + 13 < b
  <2> HIDE DEF r, r1, h
  <2> QED
    BY <1>2, <1>3, RoomForFrame
<1>7. ASSUME NEW j \in 1..e
      PROVE  G[j] \in Int /\ G[j] <= StackSize /\ G[j] - SpillCount - MaxArgs >= r1
  <2>1. CASE j = e
    BY <1>5, <1>6, <2>1
  <2>2. CASE j # e
    <3>1. j \in 1..d
      BY <1>1, <2>2
    <3> DEFINE g == F[j]
    <3>2. g \in Int /\ g <= StackSize /\ g - SpillCount - MaxArgs >= r
      BY <1>4, <3>1 DEF Apart
    <3>3. G[j] = g
      BY <1>5, <3>1
    <3> HIDE DEF g, r, r1
    <3>4. g - SpillCount - MaxArgs >= r1
      BY <1>2, <1>3, <3>2
    <3> QED
      BY <3>2, <3>3, <3>4
  <2> QED
    BY <2>1, <2>2
<1>b. \A i \in 1..d : Bottom(bs[i], F[i]) = Bottom(as[i], F[i])
  <2> SUFFICES ASSUME NEW i \in 1..d
               PROVE  Bottom(bs[i], F[i]) = Bottom(as[i], F[i])
    OBVIOUS
  <2>1. bs[i].args = as[i].args
    <3>1. CASE i = d
      BY <3>1 DEF Called
    <3>2. CASE i # d
      <4>1. i \in 1..(d - 1)
        BY <1>1, <3>2
      <4> QED
        BY <4>1 DEF Called
    <3> QED
      BY <3>1, <3>2
  <2> QED
    BY <2>1 DEF Bottom
<1>8. ASSUME NEW i \in 1..e, NEW j \in 1..e, i < j
      PROVE  G[j] + 13 < Bottom(bs[i], G[i])
  <2>1. i \in 1..d
    BY <1>1, <1>8
  <2>2. Bottom(bs[i], G[i]) = Bottom(as[i], F[i])
    BY <1>5, <1>b, <2>1
  <2>3. CASE j # e
    <3>1. j \in 1..d
      BY <1>1, <2>3
    <3>2. F[j] + 13 < Bottom(as[i], F[i])
      BY <1>4, <1>8, <2>1, <3>1 DEF Apart
    <3> QED
      BY <1>5, <2>2, <3>1, <3>2
  <2>4. CASE j = e
    <3>1. CASE i = d
      BY <1>5, <1>6, <2>2, <2>4, <3>1
    <3>2. CASE i # d
      <4>1. i < d
        BY <1>1, <2>1, <3>2
      <4> DEFINE x == Bottom(as[i], F[i])
      <4>2. h + 13 < x
        BY <1>1, <1>4, <2>1, <4>1 DEF Apart
      <4>3. x \in Int
        <5>1. F[i] \in Int /\ Len(as[i].args) \in Nat
          <6>1. ActOK(as[i]) /\ F[i] \in Int
            BY <1>4, <2>1 DEF ActsOK, Apart
          <6> QED
            BY <6>1, TextLength DEF ActOK
        <5> DEFINE u == F[i]
                   v == Len(as[i].args)
        <5>2. u \in Int /\ v \in Nat
          BY <5>1
        <5> HIDE DEF u, v
        <5>3. u - SpillCount - v \in Int
          BY <1>2, <5>2
        <5> QED
          BY <5>3 DEF Bottom, u, v
      <4>5. b \in Int /\ b <= h /\ h \in Int /\ f \in Int /\ f + 13 < b
        BY <1>2, <1>6
      <4> HIDE DEF x, h
      <4>4. f + 13 < x
        BY <4>2, <4>3, <4>5, FurtherBelow
      <4> QED
        BY <1>5, <2>2, <2>4, <4>4 DEF x
    <3> QED
      BY <3>1, <3>2
  <2> QED
    BY <2>3, <2>4
<1> QED
  BY <1>6, <1>7, <1>8 DEF Apart

\* Where the frame goes of a function that is called when the stack ends at b.
NewFrame(as, F, d, e, b, f, G) ==
  b = Bottom(as[d], F[d]) /\ f = b - 14 /\ e = d + 1 /\ G = FrameAdded(F, d, f)

FramesOf(G, F, d, e, f) == G[e] = f /\ (\A j \in 1..d : G[j] = F[j]) /\ e # d /\ e - 1 = d

\* The frames of the others stay where they are.
LEMMA AddedFrames ==
  ASSUME NEW F, NEW d \in Nat, d \in 1..d, NEW f, NEW e, NEW as, NEW b, NEW G, NewFrame(as, F, d, e, b, f, G)
  PROVE  FramesOf(G, F, d, e, f)
<1>1. e = d + 1 /\ G = FrameAdded(F, d, f)
  BY DEF NewFrame
<1>2. e \in 1..(d + 1) /\ \A j \in 1..d : j \in 1..(d + 1) /\ j # d + 1
  BY <1>1
<1> QED
  BY <1>1, <1>2 DEF FrameAdded, FramesOf

\* Numbers of activations.
LEMMA NumbersBefore ==
  ASSUME NEW d \in Nat
  PROVE  \A j \in 1..(d - 1) : j \in 1..d /\ j + 1 \in 1..d
OBVIOUS

\* A frame at f below the one at h with g arguments.
Cleared(b, h, f, g) ==
  b \in Int /\ h \in Int /\ h <= StackSize /\ g \in Nat /\ b = h - SpillCount - g /\ f = b - 14

\* The new frame is below the arguments of the caller.
LEMMA FrameCleared ==
  ASSUME NEW n, NEW as, NEW F, NEW d, NEW c \in 0..MaxInstructions, ActsOK(as, d), Body(n, as, F, d, c),
         NEW b, NEW f, NEW e, NEW G, NewFrame(as, F, d, e, b, f, G)
  PROVE  Cleared(b, F[d], f, Len(as[d].args))
<1>1. b = Bottom(as[d], F[d]) /\ f = b - 14
  BY DEF NewFrame
<1> DEFINE h == F[d]
           g == Len(as[d].args)
<1>2. b \in Int /\ h <= StackSize /\ h \in Int /\ b = h - SpillCount - g /\ g \in Nat
  <2>1. Framed(n, h, Bottom(as[d], h)) /\ Bottom(as[d], h) \in Int /\ h \in Int /\ g \in Nat
    BY BodyFramed
  <2>2. h <= StackSize
    BY <2>1 DEF Framed, Based
  <2> QED
    BY <1>1, <2>1, <2>2 DEF Bottom
<1> HIDE DEF h, g
<1>3. Cleared(b, h, f, g)
  BY <1>1, <1>2 DEF Cleared
<1> QED
  BY <1>3 DEF h, g

\* What the call saves is below everything the caller keeps,
LEMMA CellsOver ==
  ASSUME NEW b, NEW h, NEW f, NEW g, Cleared(b, h, f, g), 1 <= f
  PROVE  /\ \A a \in b..StackSize : a \in 0..StackSize /\ a \notin (f + 1)..(f + 13)
         /\ \A a \in h..StackSize : a \in b..StackSize
<1>1. /\ b \in Int /\ h \in Int /\ h <= StackSize /\ g \in Nat /\ b = h - SpillCount - g /\ f = b - 14
      /\ SpillCount \in Nat /\ StackSize \in Nat
  BY FrameAssumption, StackAssumption DEF Cleared
<1>2. b <= h
  BY <1>1
<1>3. \A a \in h..StackSize : a \in b..StackSize
  BY <1>1, <1>2
<1>4. \A a \in b..StackSize : a \in 0..StackSize /\ a \notin (f + 1)..(f + 13)
  BY <1>1
<1> QED
  BY <1>3, <1>4

\* its slots
LEMMA SlotOver ==
  ASSUME NEW b, NEW h, NEW f, NEW g, Cleared(b, h, f, g), NEW z, z \in (h - SpillCount)..(h - 1)
  PROVE  z \in b..StackSize
<1>1. /\ b \in Int /\ h \in Int /\ h <= StackSize /\ g \in Nat /\ b = h - SpillCount - g
      /\ SpillCount \in Nat /\ StackSize \in Nat
  BY FrameAssumption, StackAssumption DEF Cleared
<1> QED
  BY <1>1

\* and its arguments.
LEMMA ArgumentOver ==
  ASSUME NEW b, NEW h, NEW f, NEW g, Cleared(b, h, f, g), NEW i \in 1..g
  PROVE  h - SpillCount - i \in b..StackSize
<1>1. /\ b \in Int /\ h \in Int /\ h <= StackSize /\ g \in Nat /\ b = h - SpillCount - g
      /\ SpillCount \in Nat /\ StackSize \in Nat
  BY FrameAssumption, StackAssumption DEF Cleared
<1> QED
  BY <1>1

\* The frames of the activations below the one that calls are kept, and its own
\* values have been saved.
LEMMA CallBelow ==
  ASSUME NEW n, NEW as, NEW F, NEW d, NEW c \in 0..MaxInstructions, ActsOK(as, d), Body(n, as, F, d, c),
         NEW b, NEW f, NEW e, NEW G, NewFrame(as, F, d, e, b, f, G), 1 <= f,
         NEW bs, NEW l, NEW k, Called(as, bs, d, e, l, k), NEW p, EntryMade(n, p, f, b, l)
  PROVE  Below(p.mem, bs, G, e) /\ Links(p.mem, bs, G, d)
<1>1. d \in Nat /\ d \in 1..d /\ ActOK(as[d]) /\ \A i \in 1..(d - 1) : ActOK(as[i])
  BY ActsParts
<1> DEFINE h == F[d]
<1>2. Cleared(b, h, f, Len(as[d].args))
  BY FrameCleared
<1>3. G[e] = f /\ (\A j \in 1..d : G[j] = F[j]) /\ e # d /\ e - 1 = d
  <2>1. FramesOf(G, F, d, e, f)
    BY <1>1, AddedFrames
  <2> QED
    BY <2>1 DEF FramesOf
<1>4. \A a \in b..StackSize : p.mem[a] = n.mem[a]
  <2>1. \A a \in b..StackSize : a \in 0..StackSize /\ a \notin (f + 1)..(f + 13)
    BY <1>2, CellsOver
  <2>2. Same(n, p, {"rsp", "r11"}, (f + 1)..(f + 13))
    BY DEF EntryMade
  <2> QED
    BY <2>1, <2>2 DEF Same, Like
<1>5. Apart(as, F, d, c) /\ Below(n.mem, as, F, d) /\ Links(n.mem, as, F, d) /\ InPlace(n, as[d]) /\ ArgsAt(n.mem, as[d], h)
  BY DEF Body
<1>6. Below(p.mem, as, F, d) /\ Links(p.mem, as, F, d)
  <2>1. \A a \in h..StackSize : a \in b..StackSize
    BY <1>2, CellsOver
  <2>2. \A a \in F[d]..StackSize : p.mem[a] = n.mem[a]
    BY <1>4, <2>1
  <2>3. \A i \in 1..(d - 1) : ActOK(as[i]) /\ as[i] = as[i]
    BY <1>1
  <2>4. Links(p.mem, as, F, d)
    BY <1>1, <1>5, <2>2, <2>3, LinksKept
  <2>5. Below(p.mem, as, F, d)
    BY <1>1, <1>5, <2>2, <2>3, MemoryKept
  <2> QED
    BY <2>4, <2>5
<1>7. \A j \in 1..(d - 1) : bs[j] = as[j] /\ j \in 1..d /\ j + 1 \in 1..d
  <2>1. \A j \in 1..(d - 1) : j \in 1..d /\ j + 1 \in 1..d
    BY <1>1, NumbersBefore
  <2>2. \A j \in 1..(d - 1) : bs[j] = as[j]
    BY DEF Called
  <2> QED
    BY <2>1, <2>2
<1>8. ASSUME NEW j \in 1..(e - 1)
      PROVE  SlotsAt(p.mem, bs[j], G[j]) /\ ArgsAt(p.mem, bs[j], G[j]) /\ SavedFor(p.mem, G[j + 1], bs[j])
  <2>1. CASE j # d
    <3>1. j \in 1..(d - 1)
      BY <1>1, <1>3, <2>1
    <3>2. SlotsAt(p.mem, as[j], F[j]) /\ ArgsAt(p.mem, as[j], F[j]) /\ SavedFor(p.mem, F[j + 1], as[j])
      BY <1>6, <3>1 DEF Below
    <3> QED
      BY <1>3, <1>7, <3>1, <3>2
  <2>2. CASE j = d
    <3> DEFINE a == as[d]
               g == Len(a.args)
    <3>1. G[j] = h /\ G[j + 1] = f /\ bs[j].locals = a.locals /\ bs[j].args = a.args /\ bs[j].dest = l
      <4>1. G[d] = h /\ e = d + 1 /\ G[e] = f
        BY <1>1, <1>3 DEF NewFrame
      <4>2. G[d] = h /\ G[d + 1] = f
        BY <4>1
      <4>3. bs[d].locals = a.locals /\ bs[d].args = a.args /\ bs[d].dest = l
        BY DEF Called
      <4> QED
        BY <2>2, <4>2, <4>3
    <3>2. SlotsAt(p.mem, bs[j], h)
      <4> SUFFICES ASSUME NEW x \in DOMAIN a.locals, is_virtual_reg(x)
                   PROVE  p.mem[h + x[3]] = a.locals[x]
        BY <3>1 DEF SlotsAt
      <4>1. x \in Places /\ Based(n, h)
        BY <1>1, ActsParts, BodyReady
      <4>2. ValueOf(n, x) = n.mem[h + x[3]] /\ h + x[3] \in (h - SpillCount)..(h - 1)
        BY <4>1, PlaceValue
      <4>3. h + x[3] \in b..StackSize
        <5> DEFINE z == h + x[3]
        <5>1. z \in (h - SpillCount)..(h - 1)
          BY <4>2
        <5> HIDE DEF z
        <5>2. z \in b..StackSize
          BY <1>2, <5>1, SlotOver
        <5> QED
          BY <5>2 DEF z
      <4>4. ValueOf(n, x) = a.locals[x]
        BY <1>5 DEF InPlace
      <4> QED
        BY <1>4, <4>2, <4>3, <4>4
    <3>3. ArgsAt(p.mem, bs[j], h)
      <4> SUFFICES ASSUME NEW i \in 1..g
                   PROVE  p.mem[h - SpillCount - i] = a.args[i]
        BY <3>1 DEF ArgsAt
      <4>1. n.mem[h - SpillCount - i] = a.args[i]
        BY <1>5 DEF ArgsAt
      <4>2. h - SpillCount - i \in b..StackSize
        BY <1>2, ArgumentOver
      <4> QED
        BY <1>4, <4>1, <4>2
    <3>4. SavedFor(p.mem, f, bs[j])
      <4>1. p.mem[f + 13] = <<"after", l>> /\ \A i \in 1..11 : p.mem[f + (12 - i)] = n.reg[RegisterList[i]]
        BY DEF EntryMade
      <4>2. ASSUME NEW x \in DOMAIN a.locals, ~is_virtual_reg(x)
            PROVE  p.mem[f + (12 - Position(x[2]))] = a.locals[x]
        <5>1. x \in Places
          BY <1>1, ActsParts
        <5> DEFINE r == x[2]
        <5>2. r \in Kept_Registers /\ x = Reg(r)
          BY <4>2, <5>1, PlaceKinds
        <5> HIDE DEF r
        <5>3. Position(r) \in 1..11 /\ RegisterList[Position(r)] = r
          BY <5>2, Positions
        <5>4. p.mem[f + (12 - Position(r))] = n.reg[r]
          BY <4>1, <5>3
        <5>5. ValueOf(n, x) = n.reg[r]
          BY <5>2, RegisterValue
        <5>6. ValueOf(n, x) = a.locals[x]
          BY <1>5 DEF InPlace
        <5> QED
          BY <5>4, <5>5, <5>6 DEF r
      <4> QED
        BY <3>1, <4>1, <4>2 DEF SavedFor
    <3> QED
      BY <3>1, <3>2, <3>3, <3>4
  <2> QED
    BY <2>1, <2>2
<1>9. Links(p.mem, bs, G, d)
  <2> SUFFICES ASSUME NEW j \in 1..(d - 1)
               PROVE  Linked(p.mem, G[j + 1], bs[j], G[j])
    BY DEF Links
  <2>1. Linked(p.mem, F[j + 1], as[j], F[j])
    BY <1>6 DEF Links
  <2> QED
    BY <1>3, <1>7, <2>1
<1> QED
  BY <1>8, <1>9 DEF Below

CallDone(n, p, bs, d, c, l) ==
  IsText(CallCode(l)) /\ EntryAt(p, bs, d + 1, c + 1) /\ p.inputs = n.inputs /\ p.seen = n.seen

\* A call keeps all frames and enters a new one.
LEMMA CallBody ==
  ASSUME NEW n, NEW as, NEW F, NEW d, NEW c \in 0..MaxInstructions, ActsOK(as, d), Body(n, as, F, d, c),
         as[d].pars = 0, c < MaxInstructions, NEW l \in Locations, NEW k \in Nat, k <= Len(as[d].args),
         NEW bs, bs = AfterCallOf(as, d, l, k), NEW p, p = Run(n, CallCode(l))
  PROVE  CallDone(n, p, bs, d, c, l)
<1>f. PICK b, f, e, G : NewFrame(as, F, d, e, b, f, G)
  BY DEF NewFrame
<1>1. d \in Nat /\ d \in 1..d
  BY ActsParts
<1>e. e = d + 1
  BY <1>f DEF NewFrame
<1>2. Called(as, bs, d, e, l, k)
  BY <1>e, Calls
<1>3. Apart(bs, G, e, c + 1) /\ f \in Int /\ 1 <= f
  BY <1>2, <1>f, CallApart DEF NewFrame
<1>4. b \in Int /\ b <= StackSize
  <2> DEFINE h == F[d]
  <2>1. b \in Int /\ b <= h /\ h <= StackSize /\ h \in Int /\ StackSize \in Nat
    BY <1>f, BodyCells DEF NewFrame
  <2> HIDE DEF h
  <2> QED
    BY <2>1
<1>5. IsMachine(n) /\ n.reg["rsp"] = Address(b) /\ n.reg["rbp"] = Address(F[d])
  BY <1>f DEF Body, NewFrame
<1>6. IsText(CallCode(l)) /\ EntryMade(n, p, f, b, l)
  BY <1>3, <1>4, <1>5, <1>f, CallText DEF NewFrame
<1>7. Below(p.mem, bs, G, e) /\ Links(p.mem, bs, G, d)
  BY <1>2, <1>3, <1>6, <1>f, CallBelow
<1>8. G[e] = f /\ G[d] = F[d] /\ e - 1 = d /\ e >= 2
  <2>1. d >= 1
    BY DEF ActsOK
  <2>2. FramesOf(G, F, d, e, f)
    BY <1>1, <1>f, AddedFrames
  <2>3. e >= 2
    BY <1>1, <1>e, <2>1
  <2> QED
    BY <1>1, <2>2, <2>3 DEF FramesOf
<1>9. /\ p.reg["rsp"] = Address(b) /\ p.reg["r11"] = Address(f + 1) /\ p.mem[f + 12] = n.reg["rbp"]
      /\ Same(n, p, {"rsp", "r11"}, (f + 1)..(f + 13))
  BY <1>6 DEF EntryMade
<1>10. p.reg["rbp"] = n.reg["rbp"] /\ IsMachine(p) /\ p.inputs = n.inputs /\ p.seen = n.seen
  <2>1. "rbp" \in MachineRegisters /\ "rbp" \notin {"rsp", "r11"}
    BY Registers
  <2> QED
    BY <1>9, <2>1 DEF Same, Like
<1>11. Bottom(bs[d], G[d]) = b
  BY <1>2, <1>8, <1>f DEF Bottom, Called, NewFrame
<1>12. /\ ActsOK(bs, e) /\ bs[e].args = <<>> /\ DOMAIN bs[e].locals = {} /\ bs[e].pars <= Len(bs[d].args)
  BY <1>2 DEF Called
<1>13. InPlace(p, bs[e]) /\ \A x \in DOMAIN bs[e].locals : ~is_virtual_reg(x)
  BY <1>12 DEF InPlace
<1>14. Entry(p, bs, G, e, c + 1)
  BY <1>3, <1>5, <1>7, <1>8, <1>9, <1>10, <1>11, <1>12, <1>13 DEF Entry
<1>15. EntryAt(p, bs, e, c + 1)
  BY <1>12, <1>14 DEF EntryAt
<1> QED
  BY <1>6, <1>10, <1>15, <1>e DEF CallDone

\* CALL keeps the invariant.
LEMMA CallKeeps ==
  ASSUME FrameInv, NEW l \in Placed, NEW k \in 0..MaxArgs, FCall(l, k)
  PROVE  FrameInv'
<1>f. PICK as, d, c : as = acts /\ d = Depth /\ c = calls
  OBVIOUS
<1>t. PICK t, e : t = CallCode(l) /\ e = d + 1
  OBVIOUS
<1>1. /\ InBody /\ steps + c < MaxInstructions /\ calls' = c + 1 /\ steps' = steps
      /\ inputs' = inputs /\ seen' = seen /\ text' = "pars" /\ m' = Run(m, Before \o t)
      /\ acts' = AfterCallOf(as, d, l, k) /\ k <= Len(as[d].args)
  <2>1. /\ InBody /\ steps + calls < MaxInstructions /\ calls' = calls + 1 /\ steps' = steps
        /\ inputs' = inputs /\ seen' = seen /\ text' = "pars"
    BY DEF FCall, Call
  <2>2. m' = Run(m, Before \o t)
    BY <1>t DEF FCall, CallCode, Before
  <2>3. acts' = AfterCallOf(acts, Depth, l, k) /\ k <= Len(acts[Depth].args)
    BY DEF FCall, Call, AfterCallOf, Top
  <2> QED
    BY <1>f, <2>1, <2>2, <2>3
<1>2. l \in Locations /\ k \in Nat /\ MaxArgs \in Nat
  BY PlaceAssumption, FrameAssumption
<1>3. PICK n, F : Starting(n, F)
  BY <1>1, Starts
<1>4. c \in 0..MaxInstructions /\ steps \in Nat
  BY <1>f DEF FrameInv
<1>5. c < MaxInstructions /\ c + 1 \in 0..MaxInstructions
  BY <1>1, <1>4, FrameAssumption
<1>6. /\ ActsOK(as, d) /\ Body(n, as, F, d, c) /\ n.inputs = inputs /\ n.seen = seen
      /\ IsText(Before) /\ n = Run(m, Before)
  BY <1>3, <1>f DEF Starting
<1>7. as[d].pars = 0
  BY <1>1, <1>f, OperandsOf
<1>8. PICK bs, p : bs = AfterCallOf(as, d, l, k) /\ p = Run(n, CallCode(l))
  OBVIOUS
<1>9. IsText(CallCode(l)) /\ EntryAt(p, bs, e, c + 1) /\ p.inputs = n.inputs /\ p.seen = n.seen
  <2>1. k <= Len(as[d].args)
    BY <1>1
  <2>2. ActsOK(as, d) /\ Body(n, as, F, d, c)
    BY <1>6
  <2>3. CallDone(n, p, bs, d, c, l)
    BY <1>2, <1>4, <1>5, <1>7, <1>8, <2>1, <2>2, CallBody
  <2> QED
    BY <1>t, <2>3 DEF CallDone
<1>10. m' = p
  <2>1. IsText(t)
    BY <1>9, <1>t
  <2>2. Run(m, Before \o t) = Run(Run(m, Before), t)
    BY <1>6, <2>1, RunConcat
  <2> QED
    BY <1>1, <1>6, <1>8, <1>t, <2>2
<1>11. acts' = bs /\ Depth' = e
  <2>1. Len(bs) = e
    BY <1>9 DEF EntryAt, ActsOK
  <2> QED
    BY <1>1, <1>8, <2>1 DEF Depth
<1>12. EntryAt(m', acts', Depth', calls')
  BY <1>1, <1>9, <1>10, <1>11
<1> QED
  BY <1>1, <1>4, <1>5, <1>6, <1>9, <1>10, <1>12 DEF FrameInv

-----------------------------------------------------------------------------
(* Returns.                                                                *)

\* Same, for a smaller set.
LEMMA SameOn ==
  ASSUME NEW n, NEW p, NEW q, NEW R, NEW C, Same(n, p, R, C), Same(p, q, R, C)
  PROVE  Same(n, q, R, C)
<1>1. Same(n, q, R \union R, C \union C)
  BY SameThen
<1>2. R \union R = R /\ C \union C = C
  OBVIOUS
<1> QED
  BY <1>1, <1>2

Leave ==
  <<<<"add", Imm(SpillCount), Rsp>>, <<"pop", Rbp>>, <<"add", Imm(REGISTER_COUNT + 1), Rsp>>>>

\* The frame at f is given up; the return address, in the cell g, is next on the stack.
Left(n, p, f, g) ==
  Same(n, p, {"rsp", "rbp"}, {}) /\ p.reg["rsp"] = Address(g) /\ p.reg["rbp"] = n.mem[f] /\ IsMachine(p)

WordPopped(n, p, r, b, c) ==
  Same(n, p, {"rsp", r}, {}) /\ p.reg["rsp"] = Address(c) /\ p.reg[r] = n.mem[b] /\ IsMachine(p)

\* A pop of the cell b, with the stack pointer at c behind it.
LEMMA PopInto ==
  ASSUME NEW n, IsMachine(n), NEW b \in Int, n.reg["rsp"] = Address(b), b \in 1..StackSize,
         NEW r \in MachineRegisters, r # "rsp", NEW c, c = b + 1, NEW p, p = Execute(n, <<"pop", Reg(r)>>)
  PROVE  WordPopped(n, p, r, b, c)
<1>1. p = pop(n, Reg(r))
  BY ExecutesOfOne
<1>2. Same(n, p, {"rsp", r}, {}) /\ p.reg["rsp"] = Address(b + 1) /\ p.reg[r] = n.mem[b]
  BY <1>1, PopRegister
<1> QED
  BY <1>2 DEF Same, Like, WordPopped

\* The stack pointer moved to the cell c.
LEMMA AddTo ==
  ASSUME NEW n, IsMachine(n), NEW b \in Int, n.reg["rsp"] = Address(b), NEW k \in Int, NEW c, c = b + k,
         NEW p, p = Execute(n, <<"add", Imm(k), Rsp>>)
  PROVE  Same(n, p, {"rsp"}, {}) /\ p.reg["rsp"] = Address(c) /\ IsMachine(p)
<1>1. Same(n, p, {"rsp"}, {}) /\ p.reg["rsp"] = Address(b + k)
  BY AddStackPointer
<1> QED
  BY <1>1 DEF Same, Like

\* A return takes the slots off the stack, restores the frame pointer of the caller
\* and finds the return address.
LEMMA LeaveText ==
  ASSUME NEW n, IsMachine(n), NEW f \in 1..StackSize, NEW b \in Int, f = b + SpillCount,
         n.reg["rsp"] = Address(b), NEW g \in Int, g = f + 13
  PROVE  IsText(Leave) /\ Left(n, Run(n, Leave), f, g)
<1> DEFINE k == 12
           f1 == f + 1
           n1 == Execute(n, <<"add", Imm(SpillCount), Rsp>>)
           n2 == Execute(n1, <<"pop", Rbp>>)
           n3 == Execute(n2, <<"add", Imm(k), Rsp>>)
<1>1. IsText(Leave) /\ Run(n, Leave) = n3
  <2>1. REGISTER_COUNT + 1 = k
    BY Registers
  <2>2. Leave = <<<<"add", Imm(SpillCount), Rsp>>, <<"pop", Rbp>>, <<"add", Imm(k), Rsp>>>>
    BY <2>1 DEF Leave
  <2> QED
    BY <2>2, RunThree
<1>2. f \in Int /\ f1 \in Int /\ g = f1 + k /\ k \in Int /\ SpillCount \in Int /\ f1 = f + 1
  BY FrameAssumption
<1>r. "rsp" \in MachineRegisters /\ "rbp" \in MachineRegisters /\ "rbp" # "rsp"
  BY Registers
<1>d1. n1 = Execute(n, <<"add", Imm(SpillCount), Rsp>>)
  OBVIOUS
<1>d2. n2 = Execute(n1, <<"pop", Reg("rbp")>>)
  BY DEF Rbp
<1>d3. n3 = Execute(n2, <<"add", Imm(k), Rsp>>)
  OBVIOUS
<1> HIDE DEF n1, n2, n3, k, f1
<1>3. Same(n, n1, {"rsp"}, {}) /\ n1.reg["rsp"] = Address(f) /\ IsMachine(n1)
  BY <1>2, <1>d1, AddTo
<1>4. Same(n1, n2, {"rsp", "rbp"}, {}) /\ n2.reg["rsp"] = Address(f1) /\ n2.reg["rbp"] = n1.mem[f] /\ IsMachine(n2)
  BY <1>2, <1>3, <1>d2, <1>r, PopInto DEF WordPopped
<1>5. Same(n2, n3, {"rsp"}, {}) /\ n3.reg["rsp"] = Address(g) /\ IsMachine(n3)
  BY <1>2, <1>4, <1>d3, AddTo
<1>6. n1.mem[f] = n.mem[f]
  <2>1. f \in 0..StackSize
    BY StackAssumption
  <2> QED
    BY <1>3, <2>1 DEF Same, Like
<1>7. n3.reg["rbp"] = n.mem[f]
  BY <1>4, <1>5, <1>6, <1>r DEF Same, Like
<1>8. Same(n, n3, {"rsp", "rbp"}, {})
  <2> DEFINE R == {"rsp", "rbp"}
             K == {}
  <2>1. Same(n, n1, R, K) /\ Same(n1, n2, R, K) /\ Same(n2, n3, R, K)
    BY <1>3, <1>4, <1>5, SameMore
  <2> HIDE DEF R, K
  <2>2. Same(n, n2, R, K)
    BY <2>1, SameOn
  <2>3. Same(n, n3, R, K)
    BY <2>1, <2>2, SameOn
  <2> QED
    BY <2>3 DEF R, K
<1>9. Left(n, n3, f, g)
  BY <1>5, <1>7, <1>8 DEF Left
<1> QED
  BY <1>1, <1>9

\* The result, which is in no slot, is in rax when the return address is next.
RetMade(n, p, f, g, x) ==
  /\ Same(n, p, {"rsp", "rbp", "rax"}, {}) /\ p.reg["rsp"] = Address(g) /\ p.reg["rbp"] = n.mem[f]
  /\ IsMachine(p)
  /\ x # NoValue => p.reg["rax"] = ValueOf(n, x)

RetCode(x) == IF x = NoValue THEN <<>> ELSE <<<<"mov", x, Rax>>>>

\* It then moves its value to rax.
LEMMA RetIs ==
  ASSUME NEW x
  PROVE  ret(x) = Leave \o RetCode(x)
BY DEF ret, Leave, RetCode

\* The text of RET before the ret.
LEMMA RetText ==
  ASSUME NEW n, IsMachine(n), NEW f \in 1..StackSize, NEW b \in Int, f = b + SpillCount,
         n.reg["rsp"] = Address(b), NEW g \in Int, g = f + 13,
         NEW x, x # NoValue => Good(x) /\ ~is_virtual_reg(x)
  PROVE  IsText(ret(x)) /\ RetMade(n, Run(n, ret(x)), f, g, x)
<1> DEFINE p == Run(n, Leave)
           t == RetCode(x)
           q == Run(p, t)
<1>1. IsText(Leave) /\ Left(n, p, f, g)
  BY LeaveText
<1>2. IsText(t)
  BY RunOne, RunNothing DEF RetCode
<1>3. IsText(ret(x)) /\ Run(n, ret(x)) = q
  <2> HIDE DEF t
  <2>1. IsText(Leave \o t) /\ Run(n, Leave \o t) = q
    BY <1>1, <1>2, TextConcat, RunConcat
  <2> QED
    BY <2>1, RetIs DEF t
<1>q. q = Run(p, t)
  OBVIOUS
<1> HIDE DEF p, q
<1>4. Same(n, p, {"rsp", "rbp"}, {}) /\ p.reg["rsp"] = Address(g) /\ p.reg["rbp"] = n.mem[f] /\ IsMachine(p)
  BY <1>1 DEF Left
<1>5. CASE x = NoValue
  <2>1. q = p
    BY <1>5, <1>q, RunNothing DEF RetCode
  <2>2. Same(n, p, {"rsp", "rbp", "rax"}, {})
    BY <1>4, SameMore
  <2>3. RetMade(n, q, f, g, x)
    BY <1>4, <1>5, <2>1, <2>2 DEF RetMade
  <2> QED
    BY <1>3, <2>3
<1>6. CASE x # NoValue
  <2>1. q = Execute(p, <<"mov", x, Reg("rax")>>)
    BY <1>6, <1>q, RunOne DEF RetCode, Rax
  <2>r. "rsp" \in MachineRegisters /\ "rbp" \in MachineRegisters /\ "rax" \in MachineRegisters
    BY Registers
  <2>2. Same(p, q, {"rax"}, {}) /\ q.reg["rax"] = ValueOf(p, x)
    BY <1>4, <2>1, <2>r, MovToRegister
  <2>3. ValueOf(p, x) = ValueOf(n, x)
    <3>1. CASE x \in Places
      <4>1. x = Reg(x[2]) /\ x[2] \in Kept_Registers
        BY <1>6, <3>1, PlaceKinds
      <4>2. x[2] \in MachineRegisters /\ x[2] \notin {"rsp", "rbp"}
        BY <4>1, Registers
      <4>3. p.reg[x[2]] = n.reg[x[2]]
        BY <1>4, <4>2 DEF Same, Like
      <4>4. ValueOf(p, Reg(x[2])) = p.reg[x[2]] /\ ValueOf(n, Reg(x[2])) = n.reg[x[2]]
        BY RegisterValue
      <4> QED
        BY <4>1, <4>3, <4>4
    <3>2. CASE x \notin Places
      <4>1. x = Imm(x[2])
        BY <1>6, <3>2 DEF Good
      <4>2. ValueOf(p, Imm(x[2])) = Const(x[2]) /\ ValueOf(n, Imm(x[2])) = Const(x[2])
        BY ConstantValue
      <4> QED
        BY <4>1, <4>2
    <3> QED
      BY <3>1, <3>2
  <2>4. q.reg["rsp"] = Address(g) /\ q.reg["rbp"] = n.mem[f] /\ IsMachine(q)
    BY <1>4, <2>2, <2>r DEF Same, Like
  <2>5. Same(n, q, {"rsp", "rbp", "rax"}, {})
    <3> DEFINE R == {"rsp", "rbp", "rax"}
               K == {}
    <3>1. Same(n, p, R, K) /\ Same(p, q, R, K)
      BY <1>4, <2>2, SameMore
    <3> HIDE DEF R, K
    <3>2. Same(n, q, R, K)
      BY <3>1, SameOn
    <3> QED
      BY <3>2 DEF R, K
  <2>6. RetMade(n, q, f, g, x)
    BY <2>2, <2>3, <2>4, <2>5 DEF RetMade
  <2> QED
    BY <1>3, <2>6
<1> QED
  BY <1>5, <1>6

\* The registers behind rax.
LEMMA TailList ==
  /\ IsRegisterList(Tail(RegisterList), 10)
  /\ \A i, j \in 1..10 : Tail(RegisterList)[i] = Tail(RegisterList)[j] => i = j
  /\ \A i \in 1..10 : Tail(RegisterList)[i] = RegisterList[i + 1] /\ Tail(RegisterList)[i] # "rax"
<1>1. RegisterList = <<"rax", "rbx", "rcx", "rdx", "rsi", "rdi", "r8", "r9", "r10", "r14", "r15">>
  BY DEF RegisterList
<1> DEFINE T == Tail(RegisterList)
<1>2. T = <<"rbx", "rcx", "rdx", "rsi", "rdi", "r8", "r9", "r10", "r14", "r15">>
  BY <1>1
<1>3. Len(RegisterList) = 11 /\ Len(T) = 10 /\ DOMAIN T = 1..10
  BY <1>1, <1>2
<1>4. \A i \in 1..10 : T[i] = RegisterList[i + 1]
  BY <1>1, <1>2
<1>5. \A i \in 1..10 : i + 1 \in 1..11 /\ i + 1 # 1 /\ 1 \in 1..11
  OBVIOUS
<1>r. RegisterList[1] = "rax"
  BY <1>1
<1> HIDE DEF T
<1>6. \A i, j \in 1..10 : T[i] = T[j] => i = j
  <2> SUFFICES ASSUME NEW i \in 1..10, NEW j \in 1..10, T[i] = T[j]
               PROVE  i = j
    OBVIOUS
  <2>1. i + 1 = j + 1
    BY <1>4, <1>5, Positions
  <2> QED
    BY <2>1
<1>7. \A i \in 1..10 : T[i] # "rax"
  BY <1>4, <1>5, <1>r, Positions
<1>8. \A i \in 1..10 : T[i] \in MachineRegisters /\ T[i] # "rsp"
  <2>1. \A i \in 1..10 : T[i] \in Kept_Registers
    BY <1>4, <1>5, Registers
  <2>2. Kept_Registers \subseteq MachineRegisters /\ "rsp" \notin Kept_Registers
    BY Registers
  <2> QED
    BY <2>1, <2>2
<1>9. IsRegisterList(T, 10)
  BY <1>3, <1>8 DEF IsRegisterList
<1> QED
  BY <1>4, <1>6, <1>7, <1>9 DEF T

Others == Kept_Registers \ {"rax"}

Restoring == <<<<"add", Imm(-(REGISTER_COUNT + 2)), Rsp>>>> \o Pops(Reverse(Tail(RegisterList)))

\* The registers but rax have the values back that were saved below the cell c = f + 11.
RegistersBack(n, p, f, c) ==
  /\ Same(n, p, {"rsp"} \union Others, {}) /\ p.reg["rsp"] = Address(c) /\ IsMachine(p)
  /\ \A i \in 2..11 : p.reg[RegisterList[i]] = n.mem[f + (12 - i)]

\* The code behind a call pops them from below the return address.
LEMMA RestoringText ==
  ASSUME NEW n, IsMachine(n), NEW f \in Int, 1 <= f, f + 13 <= StackSize, NEW u \in Int, u = f + 14,
         n.reg["rsp"] = Address(u), NEW c \in Int, c = f + 11
  PROVE  IsText(Restoring) /\ RegistersBack(n, Run(n, Restoring), f, c)
<1> DEFINE k == -13
           t == 10
           b == f + 1
           T == Tail(RegisterList)
           A == <<<<"add", Imm(k), Rsp>>>>
           B == Pops(Reverse(T))
           p == Run(n, A)
           q == Run(p, B)
<1>1. Restoring = A \o B
  <2>1. -(REGISTER_COUNT + 2) = k
    BY Registers
  <2> QED
    BY <2>1 DEF Restoring
<1>2. IsText(A) /\ p = Execute(n, <<"add", Imm(k), Rsp>>)
  BY RunOne
<1>3. k \in Int /\ b \in Int /\ b = u + k /\ b >= 1 /\ b + t <= StackSize + 1 /\ t \in Nat /\ b + (t - 0) = c
  BY StackAssumption
<1>4. IsRegisterList(T, t) /\ (\A i, j \in 1..t : T[i] = T[j] => i = j)
  BY TailList
<1>q. q = Run(p, B)
  OBVIOUS
<1>t. t = 10
  OBVIOUS
<1> HIDE DEF p, q, A, k, t, b
<1>5. Same(n, p, {"rsp"}, {}) /\ p.reg["rsp"] = Address(b) /\ IsMachine(p)
  BY <1>2, <1>3, AddTo
<1>6. IsText(B) /\ Popped(p, q, T, b, t, 0)
  <2> HIDE DEF T
  <2> QED
    BY <1>3, <1>4, <1>5, <1>q, PopAll
<1>7. IsText(Restoring) /\ Run(n, Restoring) = q
  <2> HIDE DEF B
  <2> QED
    BY <1>1, <1>2, <1>6, <1>q, TextConcat, RunConcat DEF p
<1>8. /\ Same(p, q, {"rsp"} \union {T[i] : i \in (0 + 1)..t}, {}) /\ q.reg["rsp"] = Address(c)
      /\ \A i \in (0 + 1)..t : q.reg[T[i]] = p.mem[b + t - i]
  BY <1>3, <1>6 DEF Popped
<1>9. {T[i] : i \in (0 + 1)..t} \subseteq Others
  <2>1. \A i \in 1..10 : T[i] = RegisterList[i + 1] /\ T[i] # "rax"
    BY TailList
  <2>2. \A i \in 1..10 : i + 1 \in 1..11
    OBVIOUS
  <2>3. \A i \in 1..10 : T[i] \in Others
    BY <2>1, <2>2, Registers DEF Others
  <2>4. (0 + 1)..t = 1..10
    BY <1>t
  <2> QED
    BY <2>3, <2>4
<1>10. Same(n, q, {"rsp"} \union Others, {})
  <2> DEFINE R == {"rsp"} \union Others
             K == {}
             S == {"rsp"} \union {T[i] : i \in (0 + 1)..t}
  <2>1. S \subseteq R /\ {"rsp"} \subseteq R
    BY <1>9
  <2>2. Same(p, q, S, K) /\ Same(n, p, {"rsp"}, K)
    BY <1>5, <1>8
  <2> HIDE DEF R, K, S
  <2>3. Same(n, p, R, K) /\ Same(p, q, R, K)
    BY <2>1, <2>2, SameMore
  <2>4. Same(n, q, R, K)
    BY <2>3, SameOn
  <2> QED
    BY <2>4 DEF R, K
<1>11. ASSUME NEW i \in 2..11
       PROVE  q.reg[RegisterList[i]] = n.mem[f + (12 - i)]
  <2> DEFINE j == i - 1
             a == f + (12 - i)
  <2>1. j \in (0 + 1)..t /\ j \in 1..10 /\ j + 1 = i /\ b + t - j = a /\ a \in 0..StackSize
    BY <1>t, StackAssumption DEF b
  <2> HIDE DEF j, a
  <2>2. T[j] = RegisterList[i]
    BY <2>1, TailList
  <2>3. q.reg[T[j]] = p.mem[a]
    BY <1>8, <2>1
  <2>4. p.mem[a] = n.mem[a]
    BY <1>5, <2>1 DEF Same, Like
  <2> QED
    BY <2>2, <2>3, <2>4 DEF a
<1>12. IsMachine(q)
  BY <1>10 DEF Same, Like
<1>13. RegistersBack(n, q, f, c)
  BY <1>8, <1>10, <1>11, <1>12 DEF RegistersBack
<1> QED
  BY <1>7, <1>13

ResultCode(dest) ==
  <<<<"mov", Rax, dest>>, IF dest = Rax THEN <<"add", Imm(1), Rsp>> ELSE <<"pop", Rax>>,
    <<"pop", R11>>, <<"mov", R11, Rsp>>>>

\* Then the result goes to its place, rax is popped unless it is that, and the stack
\* pointer is the one that was saved.
LEMMA AfterIs ==
  ASSUME NEW dest
  PROVE  AfterCall(dest) = Restoring \o ResultCode(dest)
BY DEF AfterCall, Restoring, ResultCode

\* The machine p is behind the call, when n was at the address behind it and the function
\* had its frame at f, the caller at h.
Back(n, p, f, h, dest) ==
  /\ IsMachine(p) /\ p.inputs = n.inputs /\ p.seen = n.seen
  /\ p.reg["rbp"] = Address(h) /\ p.reg["rsp"] = n.mem[f + 12] /\ ValueOf(p, dest) = n.reg["rax"]
  /\ \A i \in 1..11 : Reg(RegisterList[i]) # dest => p.reg[RegisterList[i]] = n.mem[f + (12 - i)]
  /\ \A a \in 0..StackSize : a \notin CellOf(h, dest) => p.mem[a] = n.mem[a]

\* rax gets its value back, unless the result is wanted there.
LEMMA RaxBack ==
  ASSUME NEW n, NEW h, Based(n, h), NEW c \in 1..StackSize, n.reg["rsp"] = Address(c), NEW c2, c2 = c + 1,
         NEW dest \in Places, NEW p,
         p = Execute(n, IF dest = Rax THEN <<"add", Imm(1), Rsp>> ELSE <<"pop", Rax>>)
  PROVE  /\ Same(n, p, {"rsp", "rax"}, {}) /\ p.reg["rsp"] = Address(c2) /\ IsMachine(p)
         /\ dest # Rax => p.reg["rax"] = n.mem[c]
         /\ ValueOf(p, dest) = ValueOf(n, dest)
<1>1. IsMachine(n) /\ h \in Int
  BY DEF Based
<1>r. "rsp" \in MachineRegisters /\ "rbp" \in MachineRegisters /\ "rax" \in MachineRegisters /\ "rax" # "rsp"
  BY Registers
<1>2. CASE dest = Rax
  <2> DEFINE k == 1
  <2>1. p = Execute(n, <<"add", Imm(k), Rsp>>) /\ k \in Int /\ c2 = c + k /\ c \in Int
    BY <1>2
  <2> HIDE DEF k
  <2>2. Same(n, p, {"rsp"}, {}) /\ p.reg["rsp"] = Address(c2) /\ IsMachine(p)
    BY <1>1, <2>1, AddTo
  <2>3. Same(n, p, {"rsp", "rax"}, {})
    BY <2>2, SameMore
  <2>4. p.reg["rax"] = n.reg["rax"]
    BY <1>r, <2>2 DEF Same, Like
  <2>5. ValueOf(p, dest) = ValueOf(n, dest)
    BY <1>2, <2>4, RegisterValue DEF Rax
  <2> QED
    BY <1>2, <2>2, <2>3, <2>5
<1>3. CASE dest # Rax
  <2>1. p = Execute(n, <<"pop", Reg("rax")>>) /\ c \in Int
    BY <1>3 DEF Rax
  <2>2. Same(n, p, {"rsp", "rax"}, {}) /\ p.reg["rsp"] = Address(c2) /\ p.reg["rax"] = n.mem[c] /\ IsMachine(p)
    BY <1>1, <1>r, <2>1, PopInto DEF WordPopped
  <2>3. ValueOf(p, dest) = ValueOf(n, dest)
    <3>1. Like(n, p, {"rsp", "rax"}, {}) /\ "rbp" \notin {"rsp", "rax"}
      BY <2>2 DEF Same
    <3>2. RegOf(dest) \intersect {"rsp", "rax"} = {}
      <4>1. dest[2] \notin {"rsp", "rax"} \/ is_virtual_reg(dest)
        <5>1. CASE is_virtual_reg(dest)
          BY <5>1
        <5>2. CASE ~is_virtual_reg(dest)
          <6>1. dest = Reg(dest[2]) /\ dest[2] \in Kept_Registers
            BY <5>2, PlaceKinds
          <6>2. dest[2] # "rax"
            BY <1>3, <6>1 DEF Rax
          <6>3. dest[2] # "rsp"
            BY <6>1, Registers
          <6> QED
            BY <6>2, <6>3
        <5> QED
          BY <5>1, <5>2
      <4> QED
        BY <4>1 DEF RegOf
    <3>3. CellOf(h, dest) \intersect {} = {}
      OBVIOUS
    <3> DEFINE R == {"rsp", "rax"}
               K == {}
    <3> HIDE DEF R, K
    <3>4. Like(n, p, R, K) /\ "rbp" \notin R /\ RegOf(dest) \intersect R = {} /\ CellOf(h, dest) \intersect K = {}
      BY <3>1, <3>2, <3>3 DEF R, K
    <3> QED
      BY <3>4, PlaceKept
  <2> QED
    BY <2>2, <2>3
<1> QED
  BY <1>2, <1>3

\* The cells f + 1 .. f + 12, named.
LEMMA AfterText ==
  ASSUME NEW n, NEW h, Based(n, h), NEW f \in Int, 1 <= f, f + 13 < h - SpillCount,
         NEW u \in Int, u = f + 14, n.reg["rsp"] = Address(u), NEW dest \in Places
  PROVE  IsText(AfterCall(dest)) /\ Back(n, Run(n, AfterCall(dest)), f, h, dest)
<1> DEFINE c == f + 11
           c2 == f + 12
           c3 == f + 13
           n2 == Run(n, Restoring)
           i4 == IF dest = Rax THEN <<"add", Imm(1), Rsp>> ELSE <<"pop", Rax>>
           n3 == Execute(n2, <<"mov", Reg("rax"), dest>>)
           n4 == Execute(n3, i4)
           n5 == Execute(n4, <<"pop", Reg("r11")>>)
           n6 == Execute(n5, <<"mov", Reg("r11"), Reg("rsp")>>)
<1>1. /\ h \in Int /\ h <= StackSize /\ f + 13 <= StackSize /\ c \in 1..StackSize /\ c2 \in 1..StackSize
      /\ c \in Int /\ c2 \in Int /\ c2 = c + 1 /\ c3 = c2 + 1
      /\ c \in 0..StackSize /\ c2 \in 0..StackSize
  BY FrameAssumption, StackAssumption DEF Based
<1>m. IsMachine(n) /\ n.reg["rbp"] = Address(h)
  BY DEF Based
<1>r. /\ "rsp" \in MachineRegisters /\ "rbp" \in MachineRegisters /\ "rax" \in MachineRegisters
      /\ "r11" \in MachineRegisters /\ "rbp" \notin {"rsp"} \union Others /\ "rax" \notin {"rsp"} \union Others
  BY Registers DEF Others
<1>2. IsText(Restoring) /\ RegistersBack(n, n2, f, c)
  BY <1>1, <1>m, RestoringText
<1>d3. n3 = Execute(n2, <<"mov", Reg("rax"), dest>>)
  OBVIOUS
<1>d4. n4 = Execute(n3, IF dest = Rax THEN <<"add", Imm(1), Rsp>> ELSE <<"pop", Rax>>)
  OBVIOUS
<1>d5. n5 = Execute(n4, <<"pop", Reg("r11")>>)
  OBVIOUS
<1>d6. n6 = Execute(n5, <<"mov", Reg("r11"), Reg("rsp")>>)
  OBVIOUS
<1>3. IsText(AfterCall(dest)) /\ Run(n, AfterCall(dest)) = n6
  <2>1. ResultCode(dest) = <<<<"mov", Reg("rax"), dest>>, i4, <<"pop", Reg("r11")>>, <<"mov", Reg("r11"), Reg("rsp")>>>>
    BY DEF ResultCode, Rax, R11, Rsp
  <2> HIDE DEF i4
  <2>2. IsText(ResultCode(dest)) /\ Run(n2, ResultCode(dest)) = n6
    BY <2>1, RunFour
  <2> HIDE DEF n6
  <2>3. IsText(Restoring \o ResultCode(dest)) /\ Run(n, Restoring \o ResultCode(dest)) = n6
    BY <1>2, <2>2, TextConcat, RunConcat
  <2> QED
    BY <2>3, AfterIs
<1> HIDE DEF n2, n3, n4, n5, n6, c, c2, c3
<1>4. /\ Same(n, n2, {"rsp"} \union Others, {}) /\ n2.reg["rsp"] = Address(c) /\ IsMachine(n2)
      /\ \A i \in 2..11 : n2.reg[RegisterList[i]] = n.mem[f + (12 - i)]
  BY <1>2 DEF RegistersBack
<1>5. n2.reg["rbp"] = Address(h) /\ n2.reg["rax"] = n.reg["rax"] /\ \A a \in 0..StackSize : n2.mem[a] = n.mem[a]
  BY <1>4, <1>m, <1>r DEF Same, Like
<1>6. Based(n2, h)
  BY <1>4, <1>5 DEF Based
<1>7. Same(n2, n3, RegOf(dest), CellOf(h, dest)) /\ ValueOf(n3, dest) = n.reg["rax"] /\ Based(n3, h)
  <2>1. ValueOf(n2, Reg("rax")) = n2.reg["rax"]
    BY RegisterValue
  <2>2. \/ ~is_virtual_reg(dest)
        \/ \E r : Reg("rax") = Reg(r)
    OBVIOUS
  <2> DEFINE x == Reg("rax")
  <2>3. n3 = Execute(n2, <<"mov", x, dest>>)
    BY <1>d3
  <2>4. \E r : x = Reg(r)
    OBVIOUS
  <2> HIDE DEF x
  <2>5. Same(n2, n3, RegOf(dest), CellOf(h, dest)) /\ ValueOf(n3, dest) = ValueOf(n2, x) /\ Based(n3, h)
    BY <1>6, <2>3, <2>4, MovToPlace
  <2> QED
    BY <1>5, <2>1, <2>5 DEF x
<1>8. "rsp" \notin RegOf(dest) /\ "rbp" \notin RegOf(dest) /\ "r11" \notin RegOf(dest)
  <2>1. is_virtual_reg(dest) \/ dest[2] \in Kept_Registers
    BY PlaceKinds
  <2>2. "rsp" \notin Kept_Registers /\ "rbp" \notin Kept_Registers /\ "r11" \notin Kept_Registers
    BY Registers
  <2> QED
    BY <2>1, <2>2 DEF RegOf
<1>9. n3.reg["rsp"] = Address(c) /\ IsMachine(n3)
  BY <1>4, <1>7, <1>8, <1>r DEF Same, Like
<1>10. /\ Same(n3, n4, {"rsp", "rax"}, {}) /\ n4.reg["rsp"] = Address(c2) /\ IsMachine(n4)
       /\ dest # Rax => n4.reg["rax"] = n3.mem[c]
       /\ ValueOf(n4, dest) = ValueOf(n3, dest)
  BY <1>1, <1>7, <1>9, <1>d4, RaxBack
<1>11. /\ Same(n4, n5, {"rsp", "r11"}, {}) /\ n5.reg["rsp"] = Address(c3) /\ n5.reg["r11"] = n4.mem[c2]
       /\ IsMachine(n5)
  <2>1. "r11" # "rsp" /\ "r11" \in MachineRegisters
    BY <1>r
  <2>2. IsMachine(n4) /\ n4.reg["rsp"] = Address(c2)
    BY <1>10
  <2>3. c2 \in Int /\ c2 \in 1..StackSize /\ c3 = c2 + 1
    BY <1>1
  <2>4. WordPopped(n4, n5, "r11", c2, c3)
    BY <2>1, <2>2, <2>3, <1>d5, PopInto
  <2> QED
    BY <2>4 DEF WordPopped
<1>12. Same(n5, n6, {"rsp"}, {}) /\ n6.reg["rsp"] = n5.reg["r11"] /\ IsMachine(n6)
  <2>1. Loaded(n5, n6, "rsp", n5.reg["r11"])
    BY <1>11, <1>d6, <1>r, MoveRegister
  <2> QED
    BY <2>1 DEF Loaded
<1>13. \A a \in 0..StackSize : n6.mem[a] = n3.mem[a]
  BY <1>10, <1>11, <1>12 DEF Same, Like
<1>14. c \notin CellOf(h, dest) /\ c2 \notin CellOf(h, dest)
  <2>1. is_virtual_reg(dest) => h + dest[3] \in (h - SpillCount)..(h - 1)
    BY PlaceValue
  <2>2. \A z \in (h - SpillCount)..(h - 1) : z # c /\ z # c2
    BY <1>1, FrameAssumption DEF c, c2
  <2> QED
    BY <2>1, <2>2 DEF CellOf
<1>15. n3.mem[c] = n.mem[c] /\ n3.mem[c2] = n.mem[c2]
  <2>1. n3.mem[c] = n2.mem[c] /\ n3.mem[c2] = n2.mem[c2]
    BY <1>1, <1>7, <1>14 DEF Same, Like
  <2> QED
    BY <1>1, <1>5, <2>1
<1>16. n6.reg["rsp"] = n.mem[c2]
  <2>1. n4.mem[c2] = n3.mem[c2]
    BY <1>1, <1>10 DEF Same, Like
  <2> QED
    BY <1>11, <1>12, <1>15, <2>1
<1>17. n6.reg["rbp"] = Address(h)
  <2>1. n3.reg["rbp"] = Address(h)
    BY <1>7 DEF Based
  <2>2. n4.reg["rbp"] = n3.reg["rbp"]
    BY <1>10, <1>r DEF Same, Like
  <2>3. n5.reg["rbp"] = n4.reg["rbp"]
    BY <1>11, <1>r DEF Same, Like
  <2>4. n6.reg["rbp"] = n5.reg["rbp"]
    BY <1>12, <1>r DEF Same, Like
  <2> QED
    BY <2>1, <2>2, <2>3, <2>4
<1>18. ASSUME NEW r \in Kept_Registers
       PROVE  n6.reg[r] = n4.reg[r] /\ (r # "rax" => n6.reg[r] = n3.reg[r])
  <2>1. r \in MachineRegisters /\ r # "rsp" /\ r # "r11"
    BY Registers
  <2>2. n5.reg[r] = n4.reg[r]
    BY <1>11, <2>1 DEF Same, Like
  <2>3. n6.reg[r] = n5.reg[r]
    BY <1>12, <2>1 DEF Same, Like
  <2>4. r # "rax" => n4.reg[r] = n3.reg[r]
    BY <1>10, <2>1 DEF Same, Like
  <2> QED
    BY <2>2, <2>3, <2>4
<1>19. ASSUME NEW i \in 1..11, Reg(RegisterList[i]) # dest
       PROVE  n6.reg[RegisterList[i]] = n.mem[f + (12 - i)]
  <2> DEFINE r == RegisterList[i]
  <2>0. r \in Kept_Registers /\ r \in MachineRegisters
    BY Registers
  <2>p. Position(r) = i /\ Position("rax") = 1
    <3>1. Position(RegisterList[1]) = 1 /\ Position(RegisterList[i]) = i
      BY Positions
    <3>2. RegisterList[1] = "rax"
      BY DEF RegisterList
    <3> QED
      BY <3>1, <3>2
  <2>1. CASE i = 1
    <3>1. r = "rax"
      BY <2>1 DEF RegisterList
    <3>2. dest # Rax
      BY <1>19, <3>1 DEF Rax
    <3>3. n6.reg[r] = n.mem[c]
      BY <1>10, <1>15, <1>18, <2>0, <3>1, <3>2
    <3>4. c = f + (12 - i)
      BY <2>1 DEF c
    <3> QED
      BY <3>3, <3>4
  <2>2. CASE i # 1
    <3>1. r # "rax"
      BY <2>p, <2>2
    <3>2. r \notin RegOf(dest)
      <4>1. CASE is_virtual_reg(dest)
        BY <4>1 DEF RegOf
      <4>2. CASE ~is_virtual_reg(dest)
        <5>1. dest = Reg(dest[2])
          BY <4>2, PlaceKinds
        <5>2. r # dest[2]
          BY <1>19, <5>1
        <5> QED
          BY <4>2, <5>2 DEF RegOf
      <4> QED
        BY <4>1, <4>2
    <3> HIDE DEF r
    <3>3. n6.reg[r] = n3.reg[r]
      BY <1>18, <2>0, <3>1
    <3>4. n3.reg[r] = n2.reg[r]
      BY <1>7, <2>0, <3>2 DEF Same, Like
    <3>5. i \in 2..11
      BY <2>2
    <3>6. n2.reg[r] = n.mem[f + (12 - i)]
      BY <1>4, <3>5 DEF r
    <3> QED
      BY <3>3, <3>4, <3>6 DEF r
  <2> QED
    BY <2>1, <2>2
<1>20. \A a \in 0..StackSize : a \notin CellOf(h, dest) => n6.mem[a] = n.mem[a]
  <2>1. \A a \in 0..StackSize : a \notin CellOf(h, dest) => n3.mem[a] = n2.mem[a]
    BY <1>7 DEF Same, Like
  <2> QED
    BY <1>5, <1>13, <2>1
<1>21. ValueOf(n6, dest) = n.reg["rax"]
  <2>1. Based(n4, h)
    <3>1. n4.reg["rbp"] = n3.reg["rbp"]
      BY <1>10, <1>r DEF Same, Like
    <3> QED
      BY <1>7, <1>10, <3>1 DEF Based
  <2> DEFINE R == {"rsp", "r11"}
             K == {}
  <2>2. Like(n4, n5, R, K) /\ Like(n5, n6, R, K) /\ "rbp" \notin R
    <3>1. Same(n5, n6, R, K)
      BY <1>12, SameMore
    <3> QED
      BY <1>11, <3>1 DEF Same
  <2>3. RegOf(dest) \intersect R = {} /\ CellOf(h, dest) \intersect K = {}
    BY <1>8
  <2> HIDE DEF R, K
  <2>4. Based(n5, h) /\ ValueOf(n5, dest) = ValueOf(n4, dest)
    BY <2>1, <2>2, <2>3, PlaceKept
  <2>5. ValueOf(n6, dest) = ValueOf(n5, dest)
    BY <2>2, <2>3, <2>4, PlaceKept
  <2> QED
    BY <1>7, <1>10, <2>4, <2>5
<1>22. n6.inputs = n.inputs /\ n6.seen = n.seen
  BY <1>4, <1>7, <1>10, <1>11, <1>12 DEF Same
<1>23. Back(n, n6, f, h, dest)
  <2>1. n6.reg["rsp"] = n.mem[f + 12] /\ IsMachine(n6)
    BY <1>12, <1>16 DEF c2
  <2> QED
    BY <1>17, <1>19, <1>20, <1>21, <1>22, <2>1 DEF Back
<1> QED
  BY <1>3, <1>23

\* b is the activation a when its call has given it v back.
GivenBack(a, b, v) ==
  /\ ActOK(b) /\ b.args = a.args /\ b.pars = a.pars
  /\ \A l \in DOMAIN b.locals : l # a.dest => l \in DOMAIN a.locals /\ b.locals[l] = a.locals[l]
  /\ a.dest \in DOMAIN b.locals => v # NoValue /\ b.locals[a.dest] = v

\* The caller behind a return has its result and all its other values.
LEMMA GivesBack ==
  ASSUME NEW a, ActOK(a), a.dest \in Locations, NEW v, v[1] # "address", NEW b, b = Returned(a, v)
  PROVE  GivenBack(a, b, v)
<1>1. CASE v = NoValue
  <2> DEFINE g == [l \in DOMAIN a.locals \ {a.dest} |-> a.locals[l]]
             a1 == [a EXCEPT !.locals = g]
  <2>1. b = [a EXCEPT !.locals = g, !.dest = NoValue]
    BY <1>1 DEF Returned
  <2>2. DOMAIN a = {"locals", "args", "pars", "dest"}
    BY DEF ActOK
  <2>3. DOMAIN g = DOMAIN a.locals \ {a.dest} /\ \A l \in DOMAIN g : g[l] = a.locals[l]
    OBVIOUS
  <2> HIDE DEF g
  <2>4. b.locals = g /\ b.args = a.args /\ b.pars = a.pars /\ DOMAIN b = DOMAIN a
    BY <2>1, <2>2
  <2>5. ActOK(b)
    <3>1. DOMAIN b.locals \subseteq Locations /\ \A l \in DOMAIN b.locals : b.locals[l][1] # "address"
      BY <2>3, <2>4 DEF ActOK
    <3> QED
      BY <2>4, <3>1 DEF ActOK
  <2>6. a.dest \notin DOMAIN b.locals
    BY <2>3, <2>4
  <2>7. \A l \in DOMAIN b.locals : l \in DOMAIN a.locals /\ b.locals[l] = a.locals[l]
    BY <2>3, <2>4
  <2> QED
    BY <2>4, <2>5, <2>6, <2>7 DEF GivenBack
<1>2. CASE v # NoValue
  <2> DEFINE u == Assign(a, a.dest, v)
  <2>1. b = [u EXCEPT !.dest = NoValue]
    BY <1>2 DEF Returned
  <2>2. ActOK(u) /\ Assigned(a, u, a.dest, v)
    BY AssignOK, AssignParts
  <2> HIDE DEF u
  <2>3. DOMAIN u = {"locals", "args", "pars", "dest"}
    BY <2>2 DEF ActOK
  <2>4. b.locals = u.locals /\ b.args = u.args /\ b.pars = u.pars /\ DOMAIN b = DOMAIN u
    BY <2>1, <2>3
  <2>5. ActOK(b)
    BY <2>2, <2>4 DEF ActOK
  <2>6. b.args = a.args /\ b.pars = a.pars /\ b.locals[a.dest] = v
    BY <2>2, <2>4 DEF Assigned
  <2>7. \A l \in DOMAIN b.locals : l # a.dest => l \in DOMAIN a.locals /\ b.locals[l] = a.locals[l]
    BY <2>2, <2>4 DEF Assigned
  <2> QED
    BY <1>2, <2>5, <2>6, <2>7 DEF GivenBack
<1> QED
  BY <1>1, <1>2

ReturnedOf(as, e, v) == [Front(as) EXCEPT ![e] = Returned(@, v)]

\* bs is as behind the return of the function the activation number e has called.
ReturnsTo(as, bs, e, v) ==
  ActsOK(bs, e) /\ bs[e].pars = 0 /\ GivenBack(as[e], bs[e], v) /\ \A i \in 1..(e - 1) : bs[i] = as[i]

\* The activations behind a return.
LEMMA Returns ==
  ASSUME NEW as, NEW d, ActsOK(as, d), NEW e \in Nat, e >= 1, d = e + 1, NEW v, v[1] # "address",
         NEW bs, bs = ReturnedOf(as, e, v)
  PROVE  ReturnsTo(as, bs, e, v)
<1> DEFINE cs == Front(as)
           b == Returned(as[e], v)
<1>1. IsText(as) /\ Len(as) = d /\ Len(as) > 0
  BY DEF ActsOK
<1>2. Fronted(as, cs)
  BY <1>1, TextFront
<1>3. e \in 1..e /\ e \in 1..(d - 1) /\ e \in 1..d /\ d - 1 = e /\ \A i \in 1..(e - 1) : i \in 1..e /\ i \in 1..(d - 1)
  OBVIOUS
<1>4. IsText(cs) /\ Len(cs) = e /\ \A i \in 1..e : cs[i] = as[i]
  BY <1>1, <1>2, <1>3 DEF Fronted
<1>5. cs[e] = as[e]
  BY <1>3, <1>4
<1>6. bs = [cs EXCEPT ![e] = Returned(cs[e], v)]
  BY DEF ReturnedOf
<1>7. bs = WithTop(cs, e, b)
  BY <1>5, <1>6 DEF WithTop
<1> HIDE DEF cs
<1>8. ActsOK(cs, e)
  <2>1. \A i \in 1..e : ActOK(cs[i])
    <3>1. \A i \in 1..e : i \in 1..d
      OBVIOUS
    <3> QED
      BY <1>4, <3>1 DEF ActsOK
  <2>2. \A i \in 1..(e - 1) : cs[i].pars = 0 /\ cs[i].dest \in Locations
    BY <1>3, <1>4 DEF ActsOK
  <2> QED
    BY <1>4, <2>1, <2>2 DEF ActsOK
<1>9. ActOK(as[e]) /\ as[e].pars = 0 /\ as[e].dest \in Locations
  BY <1>3 DEF ActsOK
<1>b. b = Returned(as[e], v)
  OBVIOUS
<1> HIDE DEF b
<1>10. GivenBack(as[e], b, v)
  BY <1>9, <1>b, GivesBack
<1>11. ActOK(b) /\ b.pars = 0
  BY <1>9, <1>10 DEF GivenBack
<1>12. TopIs(cs, bs, e, b)
  BY <1>7, <1>8, <1>11, ActsSet
<1>13. ActsOK(bs, e) /\ bs[e] = b /\ \A i \in 1..(e - 1) : bs[i] = cs[i]
  BY <1>12 DEF TopIs
<1>14. \A i \in 1..(e - 1) : bs[i] = as[i]
  BY <1>3, <1>4, <1>13
<1> QED
  BY <1>10, <1>11, <1>13, <1>14 DEF ReturnsTo

\* The function with its frame at f may return to a, whose frame is at h.
ReturnAt(n, a, f, h, b) ==
  /\ f \in 1..StackSize /\ b \in Int /\ f = b + SpillCount /\ n.reg["rsp"] = Address(b) /\ IsMachine(n)
  /\ h \in Int /\ h <= StackSize /\ Len(a.args) \in Nat /\ f + 13 < h - SpillCount - Len(a.args)
  /\ n.mem[f] = Address(h) /\ n.mem[f + 12] = Address(Bottom(a, h)) /\ n.mem[f + 13] = <<"after", a.dest>>
  /\ a.dest \in Places

\* A function that is about to return finds what its prologue and its call have
\* saved.
LEMMA ReturnCells ==
  ASSUME NEW n, NEW as, NEW F, NEW d, NEW c \in 0..MaxInstructions, ActsOK(as, d), Body(n, as, F, d, c),
         as[d].args = <<>>, NEW e \in Nat, e >= 1, d = e + 1
  PROVE  \E b : ReturnAt(n, as[e], F[d], F[e], b)
<1> DEFINE f == F[d]
           h == F[e]
           b == Bottom(as[d], F[d])
           k == Len(as[e].args)
<1>1. Framed(n, f, b) /\ f \in Int /\ b \in Int /\ d \in Nat
  BY BodyFramed
<1>2. Based(n, f) /\ n.reg["rsp"] = Address(b) /\ IsMachine(n) /\ SpillCount \in Nat /\ StackSize \in Nat
  BY <1>1, FrameAssumption, StackAssumption DEF Framed, Based
<1>3. b = f - SpillCount - 0
  <2>1. Len(as[d].args) = 0
    OBVIOUS
  <2> QED
    BY <2>1 DEF Bottom
<1>4. f <= StackSize /\ f - SpillCount >= 1
  BY <1>2 DEF Based
<1>5. e \in 1..(d - 1) /\ e + 1 = d
  OBVIOUS
<1>6. Apart(as, F, d, c) /\ Below(n.mem, as, F, d) /\ Links(n.mem, as, F, d)
  BY DEF Body
<1>7. h \in Int /\ h <= StackSize /\ f + 13 < h - SpillCount - k /\ k \in Nat
  <2>1. \A i \in 1..(d - 1) : ActOK(as[i])
    BY ActsParts
  <2>2. F[e] \in Int /\ F[e] <= StackSize /\ F[d] + 13 < F[e] - SpillCount - Len(as[e].args) /\ Len(as[e].args) \in Nat
    BY <1>1, <1>5, <1>6, <2>1, CellsAbove
  <2> QED
    BY <2>2
<1>8. n.mem[f] = Address(h) /\ n.mem[f + 12] = Address(Bottom(as[e], h)) /\ n.mem[f + 13] = <<"after", as[e].dest>>
  <2>1. Linked(n.mem, F[e + 1], as[e], F[e]) /\ SavedFor(n.mem, F[e + 1], as[e])
    BY <1>5, <1>6 DEF Below, Links
  <2>2. Linked(n.mem, f, as[e], h) /\ SavedFor(n.mem, f, as[e])
    BY <2>1
  <2> QED
    BY <2>2 DEF Linked, SavedFor
<1>9. as[e].dest \in Places
  BY <1>5, LocationsPlaces DEF ActsOK
<1> HIDE DEF f, h, b, k
<1>10. f \in 1..StackSize /\ f = b + SpillCount
  BY <1>1, <1>2, <1>3, <1>4
<1>11. ReturnAt(n, as[e], f, h, b)
  BY <1>1, <1>2, <1>7, <1>8, <1>9, <1>10 DEF ReturnAt, k
<1> QED
  BY <1>11 DEF f, h

\* What ret and the code behind the call do.
ReturnRun(n, x) ==
  LET done == Run(n, ret(x))
      back == ValueOf(done, Mem("rsp", 0))
  IN IF back[1] = "after" THEN Run(Moved(done, 1), AfterCall(back[2])) ELSE done

\* The machine q is back at a.
AtCaller(n, q, a, f, h, x) ==
  /\ IsMachine(q) /\ q.inputs = n.inputs /\ q.seen = n.seen
  /\ q.reg["rbp"] = Address(h) /\ q.reg["rsp"] = Address(Bottom(a, h))
  /\ x # NoValue => ValueOf(q, a.dest) = ValueOf(n, x)
  /\ \A i \in 1..11 : Reg(RegisterList[i]) # a.dest => q.reg[RegisterList[i]] = n.mem[f + (12 - i)]
  /\ \A z \in 0..StackSize : z \notin CellOf(h, a.dest) => q.mem[z] = n.mem[z]

\* RET and the code behind the call restore the registers and the stack pointer of
\* the caller.
LEMMA ReturnText ==
  ASSUME NEW n, NEW a, NEW f, NEW h, NEW b, ReturnAt(n, a, f, h, b),
         NEW x, x # NoValue => Good(x) /\ ~is_virtual_reg(x), NEW q, q = ReturnRun(n, x)
  PROVE  IsText(ret(x)) /\ AtCaller(n, q, a, f, h, x)
<1> DEFINE g == f + 13
           u == f + 14
           dest == a.dest
           p == Run(n, ret(x))
           p2 == Moved(p, 1)
           p3 == Run(p2, AfterCall(dest))
<1>1. /\ f \in 1..StackSize /\ b \in Int /\ f = b + SpillCount /\ n.reg["rsp"] = Address(b) /\ IsMachine(n)
      /\ h \in Int /\ h <= StackSize /\ Len(a.args) \in Nat /\ f + 13 < h - SpillCount - Len(a.args)
      /\ n.mem[f] = Address(h) /\ n.mem[f + 12] = Address(Bottom(a, h)) /\ n.mem[g] = <<"after", dest>>
      /\ dest \in Places
  BY DEF ReturnAt
<1>2. /\ g \in Int /\ g = f + 13 /\ u \in Int /\ u = f + 14 /\ u = g + 1 /\ f \in Int /\ 1 <= f
      /\ f + 13 < h - SpillCount /\ g \in 1..StackSize /\ g \in 0..StackSize /\ f \in 0..StackSize
      /\ h - SpillCount >= 1
  <2> DEFINE k == Len(a.args)
  <2>1. /\ f \in 1..StackSize /\ h \in Int /\ h <= StackSize /\ k \in Nat /\ f + 13 < h - SpillCount - k
        /\ SpillCount \in Nat /\ StackSize \in Nat
    BY <1>1, FrameAssumption, StackAssumption
  <2> HIDE DEF k
  <2>2. f \in Int /\ 1 <= f /\ f + 13 < h - SpillCount
    BY <2>1
  <2> QED
    BY <2>1, <2>2
<1>r. "rsp" \in MachineRegisters /\ "rbp" \in MachineRegisters /\ "rax" \in MachineRegisters
  BY Registers
<1>p. p = Run(n, ret(x)) /\ p2 = Moved(p, 1) /\ p3 = Run(p2, AfterCall(dest))
  OBVIOUS
<1> HIDE DEF p, p2, p3, g, u, dest
<1>3. IsText(ret(x)) /\ RetMade(n, p, f, g, x)
  BY <1>1, <1>2, <1>p, RetText
<1>4. /\ Same(n, p, {"rsp", "rbp", "rax"}, {}) /\ p.reg["rsp"] = Address(g) /\ p.reg["rbp"] = Address(h)
      /\ IsMachine(p)
      /\ x # NoValue => p.reg["rax"] = ValueOf(n, x)
  BY <1>1, <1>3 DEF RetMade
<1>5. \A z \in 0..StackSize : p.mem[z] = n.mem[z]
  BY <1>4 DEF Same, Like
<1>6. ValueOf(p, Mem("rsp", 0)) = <<"after", dest>>
  <2>1. 0 \in Int /\ g + 0 = g
    BY <1>2
  <2>2. ValueOf(p, Mem("rsp", 0)) = p.mem[g + 0]
    BY <1>2, <1>4, <2>1, Values
  <2> QED
    BY <1>1, <1>2, <1>5, <2>1, <2>2
<1>7. q = p3
  <2>1. ValueOf(p, Mem("rsp", 0))[1] = "after" /\ ValueOf(p, Mem("rsp", 0))[2] = dest
    BY <1>6
  <2> QED
    BY <2>1, <1>p DEF ReturnRun
<1>8. Same(p, p2, {"rsp"}, {}) /\ p2.reg["rsp"] = Address(u)
  <2> DEFINE k == 1
  <2>1. k \in Int /\ g + k = u /\ p2 = Moved(p, k)
    BY <1>2, <1>p
  <2> HIDE DEF k
  <2>2. Same(p, p2, {"rsp"}, {}) /\ p2.reg["rsp"] = Address(g + k)
    BY <1>2, <1>4, <2>1, MoveStackPointer
  <2> QED
    BY <2>1, <2>2
<1>9. p2.reg["rbp"] = Address(h) /\ p2.reg["rax"] = p.reg["rax"] /\ IsMachine(p2) /\ \A z \in 0..StackSize : p2.mem[z] = n.mem[z]
  BY <1>4, <1>5, <1>8, <1>r DEF Same, Like
<1>10. Based(p2, h)
  BY <1>1, <1>2, <1>9 DEF Based
<1>11. Back(p2, p3, f, h, dest)
  BY <1>1, <1>2, <1>8, <1>10, <1>p, AfterText
<1>12. /\ IsMachine(p3) /\ p3.inputs = p2.inputs /\ p3.seen = p2.seen
       /\ p3.reg["rbp"] = Address(h) /\ p3.reg["rsp"] = p2.mem[f + 12] /\ ValueOf(p3, dest) = p2.reg["rax"]
       /\ \A i \in 1..11 : Reg(RegisterList[i]) # dest => p3.reg[RegisterList[i]] = p2.mem[f + (12 - i)]
       /\ \A z \in 0..StackSize : z \notin CellOf(h, dest) => p3.mem[z] = p2.mem[z]
  BY <1>11 DEF Back
<1>13. f + 12 \in 0..StackSize /\ \A i \in 1..11 : f + (12 - i) \in 0..StackSize
  <2>1. f \in Int /\ 1 <= f /\ f + 13 <= StackSize /\ StackSize \in Nat
    <3>1. g = f + 13 /\ g \in 1..StackSize /\ f \in Int /\ 1 <= f
      BY <1>2
    <3> QED
      BY <3>1, StackAssumption
  <2> QED
    BY <2>1
<1>14. p3.inputs = n.inputs /\ p3.seen = n.seen
  BY <1>4, <1>8, <1>12 DEF Same
<1>15. p3.reg["rsp"] = Address(Bottom(a, h))
  BY <1>1, <1>9, <1>12, <1>13
<1>16. x # NoValue => ValueOf(p3, dest) = ValueOf(n, x)
  BY <1>4, <1>9, <1>12
<1>17. \A i \in 1..11 : Reg(RegisterList[i]) # dest => p3.reg[RegisterList[i]] = n.mem[f + (12 - i)]
  BY <1>9, <1>12, <1>13
<1>18. \A z \in 0..StackSize : z \notin CellOf(h, dest) => p3.mem[z] = n.mem[z]
  BY <1>9, <1>12
<1>19. AtCaller(n, p3, a, f, h, x)
  BY <1>12, <1>14, <1>15, <1>16, <1>17, <1>18 DEF AtCaller, dest
<1> QED
  BY <1>3, <1>7, <1>19

\* The caller's own values, where it looks for them.
LEMMA CallerInPlace ==
  ASSUME NEW n, NEW q, NEW a, ActOK(a), NEW f, NEW h, NEW b, ReturnAt(n, a, f, h, b), NEW x, AtCaller(n, q, a, f, h, x),
         SlotsAt(n.mem, a, h), ArgsAt(n.mem, a, h), SavedFor(n.mem, f, a), \A l \in DOMAIN a.locals : l \in Places,
         NEW v, x # NoValue => v = ValueOf(n, x), x = NoValue => v = NoValue, NEW a2, GivenBack(a, a2, v)
  PROVE  InPlace(q, a2) /\ ArgsAt(q.mem, a2, h)
<1> DEFINE k == Len(a.args)
           dest == a.dest
<1>1. /\ h \in Int /\ h <= StackSize /\ k \in Nat /\ f \in 1..StackSize /\ f + 13 < h - SpillCount - k
      /\ dest \in Places /\ SpillCount \in Nat /\ StackSize \in Nat
  BY FrameAssumption, StackAssumption DEF ReturnAt
<1>2. /\ IsMachine(q) /\ q.reg["rbp"] = Address(h)
      /\ x # NoValue => ValueOf(q, dest) = ValueOf(n, x)
      /\ \A i \in 1..11 : Reg(RegisterList[i]) # dest => q.reg[RegisterList[i]] = n.mem[f + (12 - i)]
      /\ \A z \in 0..StackSize : z \notin CellOf(h, dest) => q.mem[z] = n.mem[z]
  BY DEF AtCaller
<1>3. Based(q, h)
  <2> HIDE DEF k
  <2>1. h - SpillCount >= 1
    BY <1>1
  <2> QED
    BY <1>1, <1>2, <2>1 DEF Based
<1>4. is_virtual_reg(dest) => h + dest[3] \in (h - SpillCount)..(h - 1)
  BY <1>1, <1>3, PlaceValue
<1>5. /\ a2.args = a.args
      /\ \A l \in DOMAIN a2.locals : l # dest => l \in DOMAIN a.locals /\ a2.locals[l] = a.locals[l]
      /\ dest \in DOMAIN a2.locals => v # NoValue /\ a2.locals[dest] = v
  BY DEF GivenBack
<1> HIDE DEF k, dest
<1>6. ASSUME NEW l \in DOMAIN a2.locals
      PROVE  ValueOf(q, l) = a2.locals[l]
  <2>1. CASE l = dest
    BY <1>2, <1>5, <2>1
  <2>2. CASE l # dest
    <3>1. l \in DOMAIN a.locals /\ a2.locals[l] = a.locals[l] /\ l \in Places
      BY <1>5, <2>2
    <3>2. CASE is_virtual_reg(l)
      <4> DEFINE z == h + l[3]
      <4>1. ValueOf(q, l) = q.mem[z] /\ z \in 1..StackSize
        BY <1>3, <3>1, <3>2, PlaceValue
      <4>2. n.mem[z] = a.locals[l]
        BY <3>1, <3>2 DEF SlotsAt
      <4>3. z \notin CellOf(h, dest)
        <5>1. CellOf(h, l) \intersect CellOf(h, dest) = {}
          BY <1>1, <2>2, <3>1, PlacesApart
        <5>2. z \in CellOf(h, l)
          BY <3>2 DEF CellOf
        <5> QED
          BY <5>1, <5>2
      <4> HIDE DEF z
      <4>4. z \in 0..StackSize
        BY <1>1, <4>1
      <4> QED
        BY <1>2, <3>1, <4>1, <4>2, <4>3, <4>4
    <3>3. CASE ~is_virtual_reg(l)
      <4> DEFINE r == l[2]
      <4>1. l = Reg(r) /\ r \in Kept_Registers
        BY <3>1, <3>3, PlaceKinds
      <4>2. n.mem[f + (12 - Position(r))] = a.locals[l]
        BY <3>1, <3>3 DEF SavedFor
      <4> HIDE DEF r
      <4>3. Position(r) \in 1..11 /\ RegisterList[Position(r)] = r
        BY <4>1, Positions
      <4>4. q.reg[r] = n.mem[f + (12 - Position(r))]
        BY <1>2, <2>2, <4>1, <4>3
      <4>5. ValueOf(q, l) = q.reg[r]
        BY <4>1, RegisterValue
      <4> QED
        BY <3>1, <4>2, <4>4, <4>5
    <3> QED
      BY <3>2, <3>3
  <2> QED
    BY <2>1, <2>2
<1>7. ArgsAt(q.mem, a2, h)
  <2> SUFFICES ASSUME NEW i \in 1..k
               PROVE  q.mem[h - SpillCount - i] = a.args[i]
    BY <1>5 DEF ArgsAt, k
  <2> DEFINE z == h - SpillCount - i
  <2>1. z \in 0..StackSize
    BY <1>1
  <2>2. z \notin CellOf(h, dest)
    <3>1. z \notin (h - SpillCount)..(h - 1)
      BY <1>1
    <3> HIDE DEF z
    <3> QED
      BY <1>4, <3>1 DEF CellOf
  <2>3. n.mem[z] = a.args[i]
    BY DEF ArgsAt, k
  <2> HIDE DEF z
  <2>4. q.mem[z] = a.args[i]
    BY <1>2, <2>1, <2>2, <2>3
  <2> QED
    BY <2>4 DEF z
<1> QED
  BY <1>6, <1>7 DEF InPlace

SameAbove(mem, mem2, h) == \A z \in h..StackSize : mem2[z] = mem[z]
SameBelow(as, bs, e) == \A i \in 1..(e - 1) : ActOK(as[i]) /\ bs[i] = as[i]
StillThere(mem, as, F, e, c) == Apart(as, F, e, c) /\ Below(mem, as, F, e) /\ Links(mem, as, F, e)

\* The frames below an activation stay, as long as the cells from its frame up keep what they hold.
LEMMA StackKept ==
  ASSUME NEW as, NEW bs, NEW F, NEW e \in Nat, NEW c \in 0..MaxInstructions, Apart(as, F, e, c),
         NEW mem, NEW mem2, Below(mem, as, F, e), Links(mem, as, F, e), SameAbove(mem, mem2, F[e]), SameBelow(as, bs, e)
  PROVE  StillThere(mem2, bs, F, e, c)
<1>1. \A i \in 1..(e - 1) : ActOK(as[i]) /\ bs[i] = as[i]
  BY DEF SameBelow
<1>2. \A z \in F[e]..StackSize : mem2[z] = mem[z]
  BY DEF SameAbove
<1>3. Links(mem2, bs, F, e)
  BY <1>1, <1>2, LinksKept
<1>4. \A z \in F[e]..StackSize : z # F[e] /\ z # F[e] + 12 => mem2[z] = mem[z]
  BY <1>2
<1>5. Apart(bs, F, e, c) /\ Below(mem2, bs, F, e)
  BY <1>1, <1>4, MemoryKept
<1> QED
  BY <1>3, <1>5 DEF StillThere

ReturnDone(n, q, bs, e, c, x) ==
  IsText(ret(x)) /\ BodyAt(q, bs, e, c) /\ q.inputs = n.inputs /\ q.seen = n.seen

\* A return keeps all frames but its own.
LEMMA ReturnBody ==
  ASSUME NEW n, NEW as, NEW F, NEW d, NEW c \in 0..MaxInstructions, ActsOK(as, d), Body(n, as, F, d, c),
         as[d].args = <<>>, NEW e \in Nat, e >= 1, d = e + 1,
         NEW x, x # NoValue => x \in DOMAIN as[d].locals \union Constants /\ ~is_virtual_reg(x),
         NEW v, x # NoValue => v = Meaning(as[d], x), x = NoValue => v = NoValue,
         NEW bs, bs = ReturnedOf(as, e, v), NEW q, q = ReturnRun(n, x)
  PROVE  ReturnDone(n, q, bs, e, c, x)
<1> DEFINE f == F[d]
           h == F[e]
           a == as[e]
<1>f. PICK b : ReturnAt(n, a, f, h, b)
  BY ReturnCells
<1>1. x # NoValue => Good(x) /\ ~is_virtual_reg(x) /\ v = ValueOf(n, x) /\ v[1] # "address"
  <2> SUFFICES ASSUME x # NoValue
               PROVE  Good(x) /\ ~is_virtual_reg(x) /\ v = ValueOf(n, x) /\ v[1] # "address"
    OBVIOUS
  <2>1. Means(n, as[d], x)
    BY BodyOperand
  <2> QED
    BY <2>1 DEF Means
<1>2. v[1] # "address"
  BY <1>1 DEF NoValue
<1>3. ReturnsTo(as, bs, e, v)
  BY <1>2, Returns
<1>4. /\ ActsOK(bs, e) /\ bs[e].pars = 0 /\ GivenBack(a, bs[e], v) /\ \A i \in 1..(e - 1) : bs[i] = as[i]
  BY <1>3 DEF ReturnsTo
<1>5. e \in 1..(d - 1) /\ e \in 1..d /\ e + 1 = d /\ (\A i \in 1..e : i \in 1..d) /\ \A i \in 1..(e - 1) : i \in 1..(d - 1)
  OBVIOUS
<1>6. ActOK(a) /\ (\A i \in 1..(e - 1) : ActOK(as[i]) /\ bs[i] = as[i]) /\ \A l \in DOMAIN a.locals : l \in Places
  <2>1. \A i \in 1..(d - 1) : ActOK(as[i])
    BY ActsParts
  <2>2. \A i \in 1..d : \A l \in DOMAIN as[i].locals : l \in Places
    BY ActsParts
  <2> QED
    BY <1>4, <1>5, <2>1, <2>2
<1>7. Apart(as, F, d, c) /\ Below(n.mem, as, F, d) /\ Links(n.mem, as, F, d)
  BY DEF Body
<1>8. Apart(as, F, e, c) /\ Below(n.mem, as, F, e) /\ Links(n.mem, as, F, e)
  <2>1. Apart(as, F, e, c)
    BY <1>5, <1>7 DEF Apart
  <2>2. Below(n.mem, as, F, e)
    BY <1>5, <1>7 DEF Below
  <2>3. Links(n.mem, as, F, e)
    BY <1>5, <1>7 DEF Links
  <2> QED
    BY <2>1, <2>2, <2>3
<1>9. SlotsAt(n.mem, a, h) /\ ArgsAt(n.mem, a, h) /\ SavedFor(n.mem, f, a)
  <2>1. SlotsAt(n.mem, as[e], F[e]) /\ ArgsAt(n.mem, as[e], F[e]) /\ SavedFor(n.mem, F[e + 1], as[e])
    BY <1>5, <1>7 DEF Below
  <2> QED
    BY <1>5, <2>1
<1> HIDE DEF f, h, a
<1>10. IsText(ret(x)) /\ AtCaller(n, q, a, f, h, x)
  BY <1>1, <1>f, ReturnText
<1>11. InPlace(q, bs[e]) /\ ArgsAt(q.mem, bs[e], h)
  <2>1. x # NoValue => v = ValueOf(n, x)
    BY <1>1
  <2>2. ActOK(a) /\ (\A l \in DOMAIN a.locals : l \in Places) /\ GivenBack(a, bs[e], v) /\ AtCaller(n, q, a, f, h, x)
    BY <1>4, <1>6, <1>10
  <2> QED
    BY <1>9, <1>f, <2>1, <2>2, CallerInPlace
<1>12. /\ IsMachine(q) /\ q.inputs = n.inputs /\ q.seen = n.seen
       /\ q.reg["rbp"] = Address(h) /\ q.reg["rsp"] = Address(Bottom(a, h))
       /\ \A z \in 0..StackSize : z \notin CellOf(h, a.dest) => q.mem[z] = n.mem[z]
  BY <1>10 DEF AtCaller
<1>13. \A z \in h..StackSize : q.mem[z] = n.mem[z]
  <2>1. h \in Int /\ h <= StackSize /\ h - SpillCount >= 1 /\ a.dest \in Places /\ SpillCount \in Nat
    <3> DEFINE k == Len(a.args)
    <3>1. h \in Int /\ h <= StackSize /\ k \in Nat /\ f \in 1..StackSize /\ f + 13 < h - SpillCount - k /\ SpillCount \in Nat
      BY <1>f, FrameAssumption DEF ReturnAt
    <3> HIDE DEF k
    <3>2. h - SpillCount >= 1
      BY <3>1
    <3> QED
      BY <1>f, <3>1, <3>2 DEF ReturnAt
  <2>2. is_virtual_reg(a.dest) => h + a.dest[3] \in (h - SpillCount)..(h - 1)
    <3>1. Based(q, h)
      BY <1>12, <2>1 DEF Based
    <3> QED
      BY <2>1, <3>1, PlaceValue
  <2>3. \A z \in h..StackSize : z \in 0..StackSize /\ z \notin (h - SpillCount)..(h - 1)
    BY <2>1
  <2>4. \A z \in h..StackSize : z \notin CellOf(h, a.dest)
    BY <2>2, <2>3 DEF CellOf
  <2> QED
    BY <1>12, <2>3, <2>4
<1>14. Apart(bs, F, e, c) /\ Below(q.mem, bs, F, e) /\ Links(q.mem, bs, F, e)
  <2>1. SameAbove(n.mem, q.mem, F[e])
    BY <1>13 DEF h, SameAbove
  <2>2. SameBelow(as, bs, e)
    BY <1>6 DEF SameBelow
  <2>3. StillThere(q.mem, bs, F, e, c)
    BY <1>8, <2>1, <2>2, StackKept
  <2> QED
    BY <2>3 DEF StillThere
<1>15. Bottom(bs[e], h) = Bottom(a, h)
  BY <1>4 DEF GivenBack, Bottom
<1>16. Body(q, bs, F, e, c)
  BY <1>11, <1>12, <1>14, <1>15 DEF Body, h
<1>17. BodyAt(q, bs, e, c)
  BY <1>4, <1>16 DEF BodyAt
<1> QED
  BY <1>10, <1>12, <1>17 DEF ReturnDone

\* RET keeps the invariant.
LEMMA ReturnKeeps ==
  ASSUME Admit = {}, FrameInv, NEW x, x \in Operands \/ x = NoValue, FReturn(x)
  PROVE  FrameInv'
<1>f. PICK as, d, c : as = acts /\ d = Depth /\ c = calls
  OBVIOUS
<1>1. /\ InBody /\ Depth > 1 /\ Top.args = <<>> /\ calls' = calls /\ steps' = steps
      /\ inputs' = inputs /\ seen' = seen /\ text' = "body" /\ ~is_virtual_reg(x)
  BY DEF FReturn, Return
<1>2. PICK n, F : Starting(n, F)
  BY <1>1, Starts
<1>3. c \in 0..MaxInstructions /\ steps \in Nat
  BY <1>f DEF FrameInv
<1>4. /\ ActsOK(as, d) /\ Body(n, as, F, d, c) /\ n.inputs = inputs /\ n.seen = seen
      /\ IsText(Before) /\ n = Run(m, Before)
  BY <1>2, <1>f DEF Starting
<1>5. d \in Nat
  BY <1>4, ActsParts
<1>6. PICK e : e = d - 1
  OBVIOUS
<1>7. e \in Nat /\ e >= 1 /\ d = e + 1
  BY <1>1, <1>5, <1>6, <1>f
<1>8. as[d].args = <<>>
  BY <1>1, <1>f DEF Top
<1>9. PICK v : v = (IF x = NoValue THEN NoValue ELSE Is(x))
  OBVIOUS
<1>10. x # NoValue => v = Meaning(as[d], x) /\ x \in DOMAIN as[d].locals \union Constants /\ ~is_virtual_reg(x)
  BY <1>1, <1>9, <1>f, OperandsOf
<1>11. x = NoValue => v = NoValue
  BY <1>9
<1>12. PICK bs, q : bs = ReturnedOf(as, e, v) /\ q = ReturnRun(n, x)
  OBVIOUS
<1>13. acts' = bs
  BY <1>6, <1>9, <1>12, <1>f DEF FReturn, Return, ReturnedOf
<1>14. ReturnDone(n, q, bs, e, c, x)
  <2>1. ActsOK(as, d) /\ Body(n, as, F, d, c)
    BY <1>4
  <2>2. x # NoValue => v = Meaning(as[d], x)
    BY <1>10
  <2>3. x # NoValue => x \in DOMAIN as[d].locals \union Constants /\ ~is_virtual_reg(x)
    BY <1>10
  <2> QED
    BY <1>3, <1>7, <1>8, <1>11, <1>12, <2>1, <2>2, <2>3, ReturnBody
<1>15. IsText(ret(x)) /\ BodyAt(q, bs, e, c) /\ q.inputs = n.inputs /\ q.seen = n.seen
  BY <1>14 DEF ReturnDone
<1>16. m' = q
  <2> DEFINE t == ret(x)
  <2>1. IsText(t)
    BY <1>15
  <2>2. Run(m, Before \o t) = Run(n, t)
    <3> HIDE DEF t
    <3> QED
      BY <1>4, <2>1, RunConcat
  <2>3. m' = (LET done == Run(m, Before \o t)
                  back == ValueOf(done, Mem("rsp", 0))
              IN IF back[1] = "after" THEN Run(Moved(done, 1), AfterCall(back[2])) ELSE done)
    BY DEF FReturn, Before
  <2> QED
    BY <1>12, <2>2, <2>3 DEF ReturnRun
<1>17. Depth' = e
  <2>1. Len(bs) = e
    BY <1>15 DEF BodyAt, ActsOK
  <2> QED
    BY <1>13, <2>1 DEF Depth
<1>18. BodyAt(m', acts', Depth', calls')
  BY <1>1, <1>13, <1>15, <1>16, <1>17, <1>f
<1> QED
  BY <1>1, <1>3, <1>4, <1>f, <1>15, <1>16, <1>18 DEF FrameInv

\* The end of main keeps it.
LEMMA ExitKeeps ==
  ASSUME FrameInv, FExit
  PROVE  FrameInv'
BY DEF FrameInv, FExit, Exit

-----------------------------------------------------------------------------
(* The beginning.                                                          *)

\* The stack has room for main and MaxInstructions calls.
LEMMA RoomForAll ==
  /\ StackSize \in Int /\ SpillCount \in Nat /\ MaxArgs \in Nat /\ StackSize \in 1..StackSize
  /\ Room(0) \in Int /\ Room(0) >= 7 /\ StackSize - SpillCount - MaxArgs >= Room(0) /\ 0 \in 0..MaxInstructions
<1>1. SpillCount \in Nat /\ MaxArgs \in Nat /\ MaxInstructions \in Nat /\ StackSize \in Int /\ StackSize \in 1..StackSize
  BY FrameAssumption, StackAssumption
<1> DEFINE k == SpillCount + MaxArgs + 14
           u == MaxInstructions * k
<1>2. k \in Nat /\ u \in Nat /\ (MaxInstructions + 1) * k = u + k
  <2> HIDE DEF k
  <2>1. k \in Nat
    BY <1>1 DEF k
  <2> QED
    BY <1>1, <2>1, Products DEF u
<1>3. SpillCount + MaxArgs + REGISTER_COUNT + 3 = k
  BY <1>1, Registers
<1>4. StackSize >= u + k
  BY <1>2, <1>3, RoomAssumption
<1>5. Room(0) = u + 7
  BY <1>1 DEF Room
<1> HIDE DEF u
<1>6. StackSize - SpillCount - MaxArgs >= Room(0) /\ Room(0) \in Int /\ Room(0) >= 7
  BY <1>1, <1>2, <1>4, <1>5
<1> QED
  BY <1>1, <1>6

\* main has built its frame.
FirstFrame(p) ==
  /\ IsMachine(p) /\ p.reg["rbp"] = Address(StackSize) /\ p.reg["rsp"] = Address(StackSize - SpillCount)
  /\ p.inputs = Started.inputs /\ p.seen = Started.seen

\* The first instructions of main build its frame.
LEMMA FirstText ==
  ASSUME NEW n, n = Started, NEW p, p = Run(n, MainText)
  PROVE  FirstFrame(p)
<1> DEFINE b == StackSize + 1
           c == StackSize
           n1 == Execute(n, <<"push", Rbp>>)
           n2 == Execute(n1, <<"mov", Rsp, Rbp>>)
           k == -SpillCount
           n3 == Execute(n2, <<"add", Imm(k), Rsp>>)
<1>1. SpillCount \in Nat /\ c \in 1..StackSize /\ b \in Int /\ b = c + 1 /\ c \in Int /\ k \in Int /\ c + k = StackSize - SpillCount
  BY RoomForAll
<1>r. "rsp" \in MachineRegisters /\ "rbp" \in MachineRegisters /\ Rbp = Reg("rbp") /\ Rsp = Reg("rsp")
  BY Registers DEF Rbp, Rsp
<1>2. IsMachine(n) /\ n.reg["rsp"] = Address(b) /\ n.inputs = Started.inputs /\ n.seen = Started.seen
  BY <1>r DEF Started, IsMachine
<1>3. p = n3
  BY RunThree DEF MainText
<1>4. n1 = push_word(n, ValueOf(n, Rbp))
  BY ExecutesOfOne DEF push
<1>5. n2 = Execute(n1, <<"mov", Reg("rsp"), Reg("rbp")>>)
  BY <1>r
<1>6. n3 = Execute(n2, <<"add", Imm(k), Rsp>>)
  OBVIOUS
<1> HIDE DEF n1, n2, n3, b, c, k
<1>7. Same(n, n1, {"rsp"}, {c}) /\ n1.reg["rsp"] = Address(c)
  BY <1>1, <1>2, <1>4, PushWord
<1>8. IsMachine(n1) /\ n1.inputs = n.inputs /\ n1.seen = n.seen
  BY <1>7 DEF Same, Like
<1>9. Loaded(n1, n2, "rbp", Address(c))
  BY <1>5, <1>7, <1>8, <1>r, MoveRegister
<1>10. IsMachine(n2) /\ n2.inputs = n1.inputs /\ n2.seen = n1.seen /\ n2.reg["rbp"] = Address(c) /\ n2.reg["rsp"] = Address(c)
  BY <1>7, <1>9, <1>r DEF Loaded, Same, Like
<1>11. Same(n2, n3, {"rsp"}, {}) /\ n3.reg["rsp"] = Address(c + k)
  BY <1>1, <1>6, <1>10, AddStackPointer
<1>12. IsMachine(n3) /\ n3.inputs = n2.inputs /\ n3.seen = n2.seen /\ n3.reg["rbp"] = Address(c)
  BY <1>10, <1>11, <1>r DEF Same, Like
<1>13. n3.reg["rsp"] = Address(StackSize - SpillCount)
  BY <1>1, <1>11
<1> QED
  BY <1>2, <1>3, <1>8, <1>10, <1>12, <1>13 DEF FirstFrame, c

\* q is p with the numbers main has read.
NumbersIn(p, q) ==
  /\ IsMachine(q) /\ q.inputs = p.inputs /\ q.seen = p.seen
  /\ q.reg["rbp"] = p.reg["rbp"] /\ q.reg["rsp"] = p.reg["rsp"]
  /\ \A r \in MachineRegisters : Reg(r) \in Locations => q.reg[r] = Input(Numbered[Reg(r)])
  /\ \A z \in 0..StackSize : Slot(StackSize - z) \in Locations => q.mem[z] = Input(Numbered[Slot(StackSize - z)])

\* The machine with the numbers main has read.
LEMMA FilledIs ==
  ASSUME NEW p, IsMachine(p), NEW q, q = Filled(p)
  PROVE  NumbersIn(p, q)
<1> DEFINE g == [r \in DOMAIN p.reg |-> IF Reg(r) \in Locations THEN Input(Numbered[Reg(r)]) ELSE p.reg[r]]
           h == [a \in DOMAIN p.mem |-> IF Slot(StackSize - a) \in Locations
                                          THEN Input(Numbered[Slot(StackSize - a)]) ELSE p.mem[a]]
<1>1. q = [p EXCEPT !.reg = g, !.mem = h]
  BY DEF Filled
<1>2. DOMAIN p = {"reg", "mem", "flags", "inputs", "seen"} /\ DOMAIN p.reg = MachineRegisters /\ DOMAIN p.mem = 0..StackSize
  BY DEF IsMachine
<1>3. DOMAIN g = MachineRegisters /\ \A r \in MachineRegisters : g[r] = (IF Reg(r) \in Locations THEN Input(Numbered[Reg(r)]) ELSE p.reg[r])
  BY <1>2
<1>4. DOMAIN h = 0..StackSize /\ \A z \in 0..StackSize : Slot(StackSize - z) \in Locations => h[z] = Input(Numbered[Slot(StackSize - z)])
  BY <1>2
<1> HIDE DEF g, h
<1>5. DOMAIN q = DOMAIN p /\ q.reg = g /\ q.mem = h /\ q.inputs = p.inputs /\ q.seen = p.seen
  BY <1>1, <1>2
<1>6. IsMachine(q)
  BY <1>2, <1>3, <1>4, <1>5 DEF IsMachine
<1>7. Reg("rbp") \notin Locations /\ Reg("rsp") \notin Locations
  <2>1. ASSUME NEW r, Reg(r) \in Locations
        PROVE  r \in Kept_Registers
    <3>1. Reg(r) \in Places /\ ~is_virtual_reg(Reg(r))
      BY <2>1, LocationsPlaces DEF Reg, is_virtual_reg
    <3>2. Reg(r)[2] \in Kept_Registers /\ Reg(r)[2] = r
      BY <3>1, PlaceKinds DEF Reg
    <3> QED
      BY <3>2
  <2>2. "rbp" \notin Kept_Registers /\ "rsp" \notin Kept_Registers
    BY Registers
  <2> QED
    BY <2>1, <2>2
<1>8. q.reg["rbp"] = p.reg["rbp"] /\ q.reg["rsp"] = p.reg["rsp"]
  BY <1>3, <1>5, <1>7, Registers
<1> QED
  BY <1>3, <1>4, <1>5, <1>6, <1>8 DEF NumbersIn

\* They are in place.
LEMMA FirstInPlace ==
  ASSUME NEW p, FirstFrame(p), NEW q, NumbersIn(p, q), NEW a, DOMAIN a.locals \subseteq Locations,
         \A l \in DOMAIN a.locals : a.locals[l] = Input(Numbered[l])
  PROVE  InPlace(q, a)
<1> SUFFICES ASSUME NEW l \in DOMAIN a.locals
             PROVE  ValueOf(q, l) = Input(Numbered[l])
  BY DEF InPlace
<1>1. l \in Places /\ l \in Locations
  BY LocationsPlaces
<1> DEFINE f == StackSize
<1>2. f \in Int /\ SpillCount \in Nat /\ f <= f /\ f - SpillCount >= 1
  <2> DEFINE r == Room(0)
  <2>1. f \in Int /\ SpillCount \in Nat /\ MaxArgs \in Nat /\ r \in Int /\ r >= 7 /\ f - SpillCount - MaxArgs >= r
    BY RoomForAll
  <2> HIDE DEF f, r
  <2> QED
    BY <2>1
<1>3. q.reg["rbp"] = Address(f) /\ IsMachine(q)
  BY DEF FirstFrame, NumbersIn
<1>4. Based(q, f)
  BY <1>2, <1>3 DEF Based
<1>5. CASE is_virtual_reg(l)
  <2> DEFINE k == l[3]
             z == f + k
  <2>1. ValueOf(q, l) = q.mem[z] /\ z \in 1..StackSize
    <3> HIDE DEF f
    <3> QED
      BY <1>1, <1>4, <1>5, PlaceValue
  <2>2. l = Mem("rbp", k) /\ k \in Int
    BY <1>1, <1>5, PlaceKinds
  <2>3. StackSize - z = -k /\ -(-k) = k /\ z \in 0..StackSize
    BY <1>2, <2>1, <2>2
  <2>4. Slot(StackSize - z) = l
    <3> HIDE DEF k, z
    <3> QED
      BY <2>2, <2>3 DEF Slot
  <2> HIDE DEF k, z
  <2>5. q.mem[z] = Input(Numbered[l])
    BY <1>1, <2>3, <2>4 DEF NumbersIn
  <2> QED
    BY <2>1, <2>5
<1>6. CASE ~is_virtual_reg(l)
  <2> DEFINE r == l[2]
  <2>1. l = Reg(r) /\ ValueOf(q, l) = q.reg[r] /\ r \in MachineRegisters
    BY <1>1, <1>4, <1>6, PlaceKinds, PlaceValue
  <2> HIDE DEF r
  <2>2. q.reg[r] = Input(Numbered[Reg(r)])
    BY <1>1, <2>1 DEF NumbersIn
  <2> QED
    BY <2>1, <2>2
<1> QED
  BY <1>5, <1>6

\* main when it begins.
FirstOf == [Activation(0) EXCEPT !.locals = [l \in Locations |-> Input(Numbered[l])]]

\* The first activation.
LEMMA FirstOK ==
  ASSUME NEW a, a = FirstOf
  PROVE  /\ ActOK(a) /\ a.args = <<>> /\ a.pars = 0 /\ DOMAIN a.locals \subseteq Locations
         /\ \A l \in DOMAIN a.locals : a.locals[l] = Input(Numbered[l])
<1> DEFINE g == [l \in Locations |-> Input(Numbered[l])]
           b == Activation(0)
<1>1. DOMAIN b = {"locals", "args", "pars", "dest"} /\ b.args = <<>> /\ b.pars = 0
  BY DEF Activation
<1>2. DOMAIN g = Locations /\ \A l \in Locations : g[l] = Input(Numbered[l])
  OBVIOUS
<1>3. a = [b EXCEPT !.locals = g]
  BY DEF FirstOf
<1> HIDE DEF g, b
<1>4. DOMAIN a = DOMAIN b /\ a.locals = g /\ a.args = <<>> /\ a.pars = 0
  BY <1>1, <1>3
<1>5. \A l \in Locations : g[l][1] # "address"
  BY <1>2 DEF Input
<1>6. IsText(a.args) /\ Len(a.args) = 0 /\ MaxArgs \in Nat
  BY <1>4, RunNothing, RoomForAll
<1>7. ActOK(a)
  <2>1. Len(a.args) <= MaxArgs /\ \A i \in 1..Len(a.args) : a.args[i][1] # "address"
    BY <1>6
  <2> QED
    BY <1>1, <1>2, <1>4, <1>5, <1>6, <2>1 DEF ActOK
<1> QED
  BY <1>2, <1>4, <1>7

\* The invariant holds at the beginning.
LEMMA InitFrameInv ==
  ASSUME FInit
  PROVE  FrameInv
<1>f. PICK a, s, p, f, c : a = FirstOf /\ s = Started /\ p = Run(s, MainText) /\ f = StackSize /\ c = 0
  OBVIOUS
<1>1. /\ acts = <<a>> /\ m = Filled(p) /\ inputs = Started.inputs /\ seen = Started.seen /\ text = "body"
      /\ steps = 0 /\ calls = c
  BY <1>f DEF FInit, FirstOf, Started
<1>2. FirstFrame(p)
  BY <1>f, FirstText
<1>3. NumbersIn(p, m)
  BY <1>1, <1>2, FilledIs DEF FirstFrame
<1>4. /\ ActOK(a) /\ a.args = <<>> /\ a.pars = 0 /\ DOMAIN a.locals \subseteq Locations
      /\ \A l \in DOMAIN a.locals : a.locals[l] = Input(Numbered[l])
  BY <1>f, FirstOK
<1>5. IsMachine(m) /\ m.inputs = inputs /\ m.seen = seen /\ m.reg["rbp"] = Address(f)
      /\ m.reg["rsp"] = Address(f - SpillCount)
  BY <1>1, <1>2, <1>3, <1>f DEF NumbersIn, FirstFrame
<1>6. InPlace(m, a)
  BY <1>2, <1>3, <1>4, FirstInPlace
<1>7. /\ f \in Int /\ f = StackSize /\ f - SpillCount - MaxArgs >= Room(c) /\ c \in 0..MaxInstructions /\ calls \in 0..MaxInstructions
      /\ SpillCount \in Nat
  BY <1>1, <1>f, RoomForAll
<1>8. ActsOK(acts, 1)
  <2>1. IsText(<<a>>) /\ Len(<<a>>) = 1 /\ <<a>>[1] = a
    BY RunOne
  <2>2. \A j \in 1..1 : j = 1
    OBVIOUS
  <2>3. \A j \in 1..(1 - 1) : FALSE
    OBVIOUS
  <2> QED
    BY <1>1, <1>4, <2>1, <2>2, <2>3 DEF ActsOK
<1>9. acts[1] = a /\ Depth = 1
  BY <1>1 DEF Depth
<1> DEFINE F == [j \in 1..1 |-> f]
<1>10. F[1] = f
  OBVIOUS
<1> HIDE DEF F
<1>11. Apart(acts, F, 1, c)
  <2>1. \A j \in 1..1 : j = 1
    OBVIOUS
  <2>2. \A j \in 1..1 : F[j] \in Int /\ F[j] <= StackSize /\ F[j] - SpillCount - MaxArgs >= Room(c)
    <3>1. f <= StackSize
      BY <1>7
    <3> QED
      BY <1>7, <1>10, <2>1, <3>1
  <2>3. \A i, j \in 1..1 : i < j => FALSE
    OBVIOUS
  <2> QED
    BY <2>2, <2>3 DEF Apart
<1>12. Below(m.mem, acts, F, 1) /\ Links(m.mem, acts, F, 1)
  <2>1. \A j \in 1..(1 - 1) : FALSE
    OBVIOUS
  <2> QED
    BY <2>1 DEF Below, Links
<1>13. Bottom(a, f) = f - SpillCount /\ ArgsAt(m.mem, a, f)
  <2>1. Len(a.args) = 0 /\ \A i \in 1..Len(a.args) : FALSE
    BY <1>4
  <2>2. Bottom(a, f) = f - SpillCount
    BY <1>7, <2>1 DEF Bottom
  <2> QED
    BY <2>1, <2>2 DEF ArgsAt
<1>14. Body(m, acts, F, 1, c)
  BY <1>5, <1>6, <1>9, <1>10, <1>11, <1>12, <1>13 DEF Body
<1>15. BodyAt(m, acts, Depth, calls)
  BY <1>1, <1>4, <1>8, <1>9, <1>14 DEF BodyAt
<1> QED
  BY <1>1, <1>5, <1>7, <1>15 DEF FrameInv

\* A step that changes nothing keeps it.
LEMMA StutterKeeps ==
  ASSUME FrameInv, UNCHANGED frame_vars
  PROVE  FrameInv'
<1>1. acts' = acts /\ inputs' = inputs /\ seen' = seen /\ m' = m /\ text' = text /\ steps' = steps /\ calls' = calls
  BY DEF frame_vars
<1>2. Depth' = Depth
  BY <1>1 DEF Depth
<1> QED
  BY <1>1, <1>2 DEF FrameInv

\* Every step keeps it.
LEMMA StepFrameInv ==
  ASSUME Admit = {}, FrameInv, [FNext]_frame_vars
  PROVE  FrameInv'
<1>1. CASE UNCHANGED frame_vars
  BY <1>1, StutterKeeps
<1>2. ASSUME NEW l \in Locations, FRead(l)
      PROVE  FrameInv'
  BY <1>2, ReadKeeps
<1>3. ASSUME NEW l \in Locations, NEW x \in Operands, FMov(l, x)
      PROVE  FrameInv'
  BY <1>3, MovKeeps
<1>4. ASSUME NEW l \in Locations, NEW x \in Operands, NEW y \in Operands, NEW op \in {"add", "sub"}, Additive(op, l, x, y)
      PROVE  FrameInv'
  BY <1>4, AdditiveKeeps
<1>5. ASSUME NEW l \in Locations, NEW x \in Operands, NEW y \in Operands, NEW op \in {"imulq", "idivq"}, Scale(op, l, x, y)
      PROVE  FrameInv'
  BY <1>5, ScaleKeeps
<1>6. ASSUME NEW l \in Placed, FGetPar(l)
      PROVE  FrameInv'
  BY <1>6, GetParKeeps
<1>7. ASSUME NEW l \in Placed, NEW n \in 0..MaxArgs, FCall(l, n)
      PROVE  FrameInv'
  BY <1>7, CallKeeps
<1>8. ASSUME NEW k \in Operands \ Constants, NEW l \in Operands \ Constants, FSwap(k, l)
      PROVE  FrameInv'
  BY <1>8, SwapKeeps
<1>9. ASSUME NEW x \in Operands, FWrite(x) \/ FWriteLast(x)
      PROVE  FrameInv'
  BY <1>9, WriteKeeps
<1>10. ASSUME NEW x \in Operands, FSetPar(x)
       PROVE  FrameInv'
  BY <1>10, SetParKeeps
<1>11. ASSUME NEW x, x \in Operands \/ x = NoValue, FReturn(x)
       PROVE  FrameInv'
  BY <1>11, ReturnKeeps
<1>12. ASSUME NEW x \in Operands, NEW y \in Operands, FCompare(x, y)
       PROVE  FrameInv'
  BY <1>12, CompareKeeps
<1>13. CASE FNewLine
  BY <1>13, NewLineKeeps
<1>14. CASE FExit
  BY <1>14, ExitKeeps
<1>15. ASSUME NEW l \in Locations,
              \/ FRead(l)
              \/ \E x \in Operands : FMov(l, x)
              \/ \E x, y \in Operands :
                   \/ \E op \in Operations \intersect {"add", "sub"} : Additive(op, l, x, y)
                   \/ \E op \in Operations \intersect {"imulq", "idivq"} : Scale(op, l, x, y)
       PROVE  FrameInv'
  BY <1>2, <1>3, <1>4, <1>5, <1>15, Zenon
<1>16. CASE FNext
  BY <1>6, <1>7, <1>8, <1>9, <1>10, <1>11, <1>12, <1>13, <1>14, <1>15, <1>16 DEF FNext
<1> QED
  BY <1>1, <1>16

\* Unless the text has a class of instructions it is wrong for, the machine keeps every
\* activation where the text expects it, for all locations, slots and depths of calls.
THEOREM FrameInvariant ==
  ASSUME Admit = {}
  PROVE  FSpec => []FrameInv
<1>1. FInit => FrameInv
  BY InitFrameInv
<1>2. FrameInv /\ [FNext]_frame_vars => FrameInv'
  BY StepFrameInv
<1> QED
  BY <1>1, <1>2, PTL DEF FSpec

-----------------------------------------------------------------------------
(* Where CallFrame's properties look for what the activations keep.        *)

\* Induction from n down to 1.
LEMMA DownTo ==
  ASSUME NEW n \in Nat, NEW S, n \in S, \A k \in 1..n : k < n /\ k + 1 \in S => k \in S
  PROVE  \A k \in 1..n : k \in S
<1> DEFINE T == {k \in 0..n : n - k \in S \/ n - k < 1}
<1>1. 0 \in T
  OBVIOUS
<1>2. \A k \in 1..n : k - 1 \in T => k \in T
  <2> SUFFICES ASSUME NEW k \in 1..n, k - 1 \in T, n - k >= 1
               PROVE  n - k \in S
    OBVIOUS
  <2> DEFINE i == n - k
  <2>1. i \in 1..n /\ i < n /\ n - (k - 1) = i + 1 /\ ~(i + 1 < 1)
    OBVIOUS
  <2>2. i + 1 \in S
    BY <2>1
  <2> QED
    BY <2>1, <2>2
<1> HIDE DEF T
<1>3. \A k \in 0..n : k \in T
  BY <1>1, <1>2, UpTo
<1> SUFFICES ASSUME NEW k \in 1..n
             PROVE  k \in S
  OBVIOUS
<1>4. n - k \in 0..n /\ n - (n - k) = k /\ ~(k < 1)
  OBVIOUS
<1>5. n - k \in T
  BY <1>3, <1>4
<1> QED
  BY <1>4, <1>5 DEF T

\* The number of the activation whose frame rbp points to.
Framing == IF text = "pars" THEN Depth - 1 ELSE Depth

\* g is the function FramePointer defines, for d activations, the one number e being the
\* highest that has rbp.
Pointers(g, d, e) ==
  g = [j \in 1..d |-> IF j >= e THEN m.reg["rbp"] ELSE m.mem[Cell(g[j + 1], 0)]]

\* The frames are at F and linked in the stack.
Chained(F, d, e) ==
  /\ d \in Nat /\ e \in 1..d /\ m.reg["rbp"] = Address(F[e])
  /\ \A j \in 1..d : F[j] \in 1..StackSize
  /\ \A j \in 1..(e - 1) : m.mem[F[j + 1]] = Address(F[j])

\* The cell of an address in the stack.
LEMMA CellAt ==
  ASSUME NEW f \in Int, NEW k \in Int, f + k \in 1..StackSize
  PROVE  Cell(Address(f), k) = f + k
BY DEF Cell, Address

PointersAt(g, F, d, e) == DOMAIN g = 1..d /\ \A j \in 1..d : g[j] = Address(F[IF j >= e THEN e ELSE j])

\* A function that follows the links from rbp upward has the frames.
LEMMA PointersUnique ==
  ASSUME NEW F, NEW d, NEW e, Chained(F, d, e), NEW g, Pointers(g, d, e)
  PROVE  PointersAt(g, F, d, e)
<1>1. /\ d \in Nat /\ e \in 1..d /\ m.reg["rbp"] = Address(F[e]) /\ \A j \in 1..d : F[j] \in 1..StackSize
      /\ \A j \in 1..(e - 1) : m.mem[F[j + 1]] = Address(F[j])
  BY DEF Chained
<1>2. DOMAIN g = 1..d /\ \A j \in 1..d : g[j] = (IF j >= e THEN m.reg["rbp"] ELSE m.mem[Cell(g[j + 1], 0)])
  BY DEF Pointers
<1> DEFINE T == {j \in 1..d : g[j] = Address(F[IF j >= e THEN e ELSE j])}
<1>3. \A j \in 1..d : j >= e => j \in T
  BY <1>1, <1>2
<1>4. ASSUME NEW k \in 1..d, k < d, k + 1 \in T
      PROVE  k \in T
  <2>1. CASE k >= e
    BY <1>3, <2>1
  <2>2. CASE k < e
    <3> DEFINE i == k + 1
               h == F[i]
    <3>1. i \in 1..d /\ k \in 1..(e - 1) /\ (IF i >= e THEN e ELSE i) = i
      BY <1>1, <1>4, <2>2
    <3>2. g[i] = Address(h)
      BY <1>4, <3>1
    <3>3. h \in Int /\ h + 0 = h /\ h \in 1..StackSize
      BY <1>1, <3>1
    <3>4. Cell(g[i], 0) = h
      <4> HIDE DEF h
      <4>1. Cell(Address(h), 0) = h + 0
        BY <3>3, CellAt
      <4> QED
        BY <3>2, <3>3, <4>1
    <3>5. m.mem[h] = Address(F[k])
      BY <1>1, <3>1
    <3>6. g[k] = Address(F[k])
      BY <1>1, <1>2, <2>2, <3>4, <3>5
    <3> QED
      BY <1>1, <2>2, <3>6
  <2> QED
    BY <1>1, <2>1, <2>2
<1>5. d \in T
  BY <1>1, <1>3
<1> HIDE DEF T
<1>6. \A k \in 1..d : k \in T
  BY <1>1, <1>4, <1>5, DownTo
<1> QED
  BY <1>2, <1>6 DEF T, PointersAt

\* There is one.
LEMMA PointersExist ==
  ASSUME NEW F, NEW d, NEW e, Chained(F, d, e)
  PROVE  \E g : Pointers(g, d, e)
<1>1. /\ d \in Nat /\ e \in 1..d /\ m.reg["rbp"] = Address(F[e]) /\ \A j \in 1..d : F[j] \in 1..StackSize
      /\ \A j \in 1..(e - 1) : m.mem[F[j + 1]] = Address(F[j])
  BY DEF Chained
<1> DEFINE g == [j \in 1..d |-> Address(F[IF j >= e THEN e ELSE j])]
<1>2. ASSUME NEW j \in 1..d
      PROVE  g[j] = (IF j >= e THEN m.reg["rbp"] ELSE m.mem[Cell(g[j + 1], 0)])
  <2>1. CASE j >= e
    BY <1>1, <2>1
  <2>2. CASE j < e
    <3> DEFINE i == j + 1
               h == F[i]
    <3>1. i \in 1..d /\ j \in 1..(e - 1) /\ (IF i >= e THEN e ELSE i) = i
      BY <1>1, <2>2
    <3>2. g[i] = Address(h)
      BY <3>1
    <3>3. h \in Int /\ h + 0 = h /\ h \in 1..StackSize
      BY <1>1, <3>1
    <3>4. Cell(g[i], 0) = h
      <4> HIDE DEF h, g
      <4>1. Cell(Address(h), 0) = h + 0
        BY <3>3, CellAt
      <4> QED
        BY <3>2, <3>3, <4>1
    <3>5. m.mem[h] = Address(F[j])
      BY <1>1, <3>1
    <3>6. g[j] = Address(F[j])
      BY <1>1, <2>2
    <3> HIDE DEF g
    <3> QED
      BY <1>1, <2>2, <3>4, <3>5, <3>6
  <2> QED
    BY <1>1, <2>1, <2>2
<1>3. g = [j \in 1..d |-> g[j]]
  OBVIOUS
<1> HIDE DEF g
<1>4. Pointers(g, d, e)
  BY <1>2, <1>3 DEF Pointers
<1> QED
  BY <1>4

\* So FramePointer has the frames.
LEMMA FramePointers ==
  ASSUME text \in {"pars", "body"}, NEW F, Chained(F, Depth, Framing), text = "pars" => Depth >= 2
  PROVE  PointersAt(FramePointer, F, Depth, Framing)
<1>f. PICK d, e : d = Depth /\ e = Framing
  OBVIOUS
<1>1. d \in Nat /\ e \in 1..d
  BY <1>f DEF Chained
<1>2. \A j \in 1..d : (j = Depth \/ AtEntry(j + 1)) = (j >= e)
  BY <1>1, <1>f DEF AtEntry, Framing
<1> DEFINE P(g) == g = [j \in 1..Depth |-> IF j = Depth \/ AtEntry(j + 1) THEN m.reg["rbp"] ELSE m.mem[Cell(g[j + 1], 0)]]
<1>3. FramePointer = CHOOSE g : P(g)
  BY DEF FramePointer
<1>4. \A g : P(g) <=> Pointers(g, d, e)
  BY <1>2, <1>f DEF Pointers
<1>5. \E g : Pointers(g, d, e)
  BY <1>f, PointersExist
<1> HIDE DEF P
<1>6. P(FramePointer)
  BY <1>3, <1>4, <1>5
<1>7. Pointers(FramePointer, d, e)
  BY <1>4, <1>6
<1> QED
  BY <1>7, <1>f, PointersUnique

\* What the invariant says of the machine between two instructions.
View(F, d, e) ==
  /\ d = Depth /\ e = Framing /\ ActsOK(acts, d) /\ Apart(acts, F, d, calls) /\ Below(m.mem, acts, F, d)
  /\ Links(m.mem, acts, F, e) /\ d \in Nat /\ e \in 1..d
  /\ IsMachine(m) /\ m.reg["rbp"] = Address(F[e]) /\ m.reg["rsp"] = Address(Bottom(acts[e], F[e]))
  /\ InPlace(m, acts[d])
  /\ text = "pars" => /\ m.reg["r11"] = Address(F[d] + 1) /\ d >= 2
                      /\ acts[d].args = <<>> /\ \A l \in DOMAIN acts[d].locals : ~is_virtual_reg(l)
  /\ text = "body" => ArgsAt(m.mem, acts[d], F[d])

\* The invariant, for a function that runs its body and one that takes its
\* parameters.
LEMMA ViewOf ==
  ASSUME FrameInv, text # "exited"
  PROVE  text \in {"pars", "body"} /\ \E F, d, e : View(F, d, e)
<1>1. text \in {"pars", "body"}
  BY DEF FrameInv
<1>f. PICK d, e : d = Depth /\ e = Framing
  OBVIOUS
<1>2. ASSUME text = "body"
      PROVE  \E F : View(F, d, e)
  <2>1. BodyAt(m, acts, d, calls) /\ d = e
    BY <1>2, <1>f DEF FrameInv, Framing
  <2>2. PICK F : Body(m, acts, F, d, calls)
    BY <2>1 DEF BodyAt
  <2>3. ActsOK(acts, d)
    BY <2>1 DEF BodyAt
  <2>4. d \in Nat /\ e \in 1..d
    BY <2>1, <2>3, ActsParts
  <2>5. View(F, d, e)
    BY <1>2, <1>f, <2>1, <2>2, <2>3, <2>4 DEF View, Body
  <2> QED
    BY <2>5
<1>3. ASSUME text = "pars"
      PROVE  \E F : View(F, d, e)
  <2>1. EntryAt(m, acts, d, calls) /\ e = d - 1
    BY <1>3, <1>f DEF FrameInv, Framing
  <2>2. PICK F : Entry(m, acts, F, d, calls)
    BY <2>1 DEF EntryAt
  <2>3. ActsOK(acts, d)
    BY <2>1 DEF EntryAt
  <2>4. d \in Nat /\ d >= 2
    BY <2>2, <2>3, ActsParts DEF Entry
  <2>5. e \in 1..d
    BY <2>1, <2>4
  <2>6. View(F, d, e)
    BY <1>3, <1>f, <2>1, <2>2, <2>3, <2>4, <2>5 DEF View, Entry
  <2> QED
    BY <2>6
<1> QED
  BY <1>1, <1>2, <1>3

\* The frames are in the stack, with the cells the caller has saved above each.
InStack(F, d) ==
  /\ \A j \in 1..d : F[j] \in 1..StackSize /\ F[j] - SpillCount - MaxArgs >= 7
  /\ \A j \in 1..(d - 1) : F[j + 1] + 13 \in 1..StackSize

\* All frames and what is saved for their callers are in the stack.
LEMMA ViewInStack ==
  ASSUME FrameInv, NEW F, NEW d, NEW e, View(F, d, e)
  PROVE  InStack(F, d)
<1>1. calls \in 0..MaxInstructions
  BY DEF FrameInv
<1>2. Apart(acts, F, d, calls) /\ ActsOK(acts, d) /\ d \in Nat
  BY DEF View
<1>3. ASSUME NEW j \in 1..d
      PROVE  F[j] \in 1..StackSize /\ F[j] - SpillCount - MaxArgs >= 7
  <2> DEFINE f == F[j]
             r == Room(calls)
  <2>1. f \in Int /\ f <= StackSize /\ f - SpillCount - MaxArgs >= r
    BY <1>2 DEF Apart
  <2>2. r \in Int /\ r >= 7 /\ SpillCount \in Nat /\ MaxArgs \in Nat /\ StackSize \in Nat
    BY <1>1, RoomEnough, FrameAssumption, StackAssumption
  <2> HIDE DEF f, r
  <2>3. f \in 1..StackSize /\ f - SpillCount - MaxArgs >= 7
    BY <2>1, <2>2
  <2> QED
    BY <2>3 DEF f
<1>4. ASSUME NEW j \in 1..(d - 1)
      PROVE  F[j + 1] + 13 \in 1..StackSize
  <2>1. \A i \in 1..(d - 1) : ActOK(acts[i])
    BY <1>2, ActsParts
  <2> DEFINE f == F[j + 1]
  <2>2. f \in Int /\ f + 13 <= StackSize /\ StackSize \in Nat
    BY <1>1, <1>2, <2>1, CellsAbove
  <2>3. j + 1 \in 1..d
    BY <1>2
  <2>4. f >= 1
    BY <1>3, <2>3
  <2> HIDE DEF f
  <2>5. f + 13 \in 1..StackSize
    BY <2>2, <2>4
  <2> QED
    BY <2>5 DEF f
<1> QED
  BY <1>3, <1>4 DEF InStack

\* They are linked.
LEMMA ViewChained ==
  ASSUME NEW F, NEW d, NEW e, View(F, d, e), InStack(F, d)
  PROVE  Chained(F, d, e)
<1>1. /\ d \in Nat /\ e \in 1..d /\ m.reg["rbp"] = Address(F[e]) /\ \A j \in 1..d : F[j] \in 1..StackSize
  BY DEF View, InStack
<1>2. \A j \in 1..(e - 1) : m.mem[F[j + 1]] = Address(F[j])
  BY DEF View, Links, Linked
<1> QED
  BY <1>1, <1>2 DEF Chained

\* The frame pointers and the places of what was saved, as CallFrame computes them.
Located(F, d, e) ==
  /\ \A j \in 1..e : FramePointer[j] = Address(F[j])
  /\ \A j \in 2..d : Saved(j) = Address(F[j] + 1)

\* Therefore the properties look in the right cells.
LEMMA ViewLocated ==
  ASSUME text \in {"pars", "body"}, NEW F, NEW d, NEW e, View(F, d, e), InStack(F, d)
  PROVE  Located(F, d, e)
<1>1. Chained(F, d, e)
  BY ViewChained
<1>2. d = Depth /\ e = Framing /\ d \in Nat /\ e \in 1..d /\ (text = "pars" => d >= 2)
  BY DEF View
<1>3. PointersAt(FramePointer, F, d, e)
  BY <1>1, <1>2, FramePointers
<1>4. \A j \in 1..d : FramePointer[j] = Address(F[IF j >= e THEN e ELSE j])
  BY <1>3 DEF PointersAt
<1>5. \A j \in 1..e : j \in 1..d /\ (IF j >= e THEN e ELSE j) = j
  BY <1>2
<1>6. ASSUME NEW j \in 2..d
      PROVE  Saved(j) = Address(F[j] + 1)
  <2>1. CASE AtEntry(j)
    <3>1. j = d /\ text = "pars"
      BY <1>2, <2>1 DEF AtEntry
    <3>2. m.reg["r11"] = Address(F[d] + 1)
      BY <3>1 DEF View
    <3> QED
      BY <2>1, <3>1, <3>2 DEF Saved
  <2>2. CASE ~AtEntry(j)
    <3>1. j \in 1..e
      BY <1>2, <2>2 DEF AtEntry, Framing
    <3>2. FramePointer[j] = Address(F[j])
      BY <1>4, <1>5, <3>1
    <3>3. Arithmetic("add", Address(F[j]), Const(1)) = Address(F[j] + 1)
      BY DEF Arithmetic, Address, Const
    <3> QED
      BY <2>2, <3>2, <3>3 DEF Saved
  <2> QED
    BY <2>1, <2>2
<1> QED
  BY <1>4, <1>5, <1>6 DEF Located

\* The values are where the properties look,
LEMMA ViewValuesKept ==
  ASSUME FrameInv
  PROVE  ValuesKept
<1> SUFFICES ASSUME text # "exited", NEW j \in 1..Depth, NEW l \in DOMAIN acts[j].locals
             PROVE  Kept(j, l) = acts[j].locals[l]
  BY DEF ValuesKept
<1>1. text \in {"pars", "body"}
  BY ViewOf
<1>2. PICK F, d, e : View(F, d, e)
  BY ViewOf
<1>3. InStack(F, d) /\ Located(F, d, e)
  BY <1>1, <1>2, ViewInStack, ViewLocated
<1>4. d = Depth /\ e = Framing /\ d \in Nat /\ e \in 1..d /\ ActsOK(acts, d)
  BY <1>2 DEF View
<1>5. l \in Places
  BY <1>4, ActsParts
<1>6. \A i \in 2..d : Saved(i) = Address(F[i] + 1)
  BY <1>3 DEF Located
<1>7. CASE is_virtual_reg(l)
  <2>1. j \in 1..e
    BY <1>1, <1>2, <1>4, <1>7 DEF View, Framing
  <2>2. FramePointer[j] = Address(F[j])
    BY <1>3, <2>1 DEF Located
  <2> DEFINE f == F[j]
             k == l[3]
  <2>3. k \in Int /\ -k \in 1..SpillCount /\ l = Mem("rbp", k)
    BY <1>5, <1>7, PlaceKinds
  <2>4. f \in 1..StackSize /\ f - SpillCount - MaxArgs >= 7 /\ SpillCount \in Nat /\ MaxArgs \in Nat /\ StackSize \in Nat
    BY <1>3, <1>4, FrameAssumption, StackAssumption DEF InStack
  <2> HIDE DEF f, k
  <2>5. f \in Int /\ f + k \in 1..StackSize
    BY <2>3, <2>4
  <2>6. Cell(Address(f), k) = f + k
    BY <2>3, <2>5, CellAt
  <2>7. m.mem[f + k] = acts[j].locals[l]
    <3>1. CASE j < d
      <4>1. SlotsAt(m.mem, acts[j], F[j])
        BY <1>2, <1>4, <3>1 DEF View, Below
      <4> QED
        BY <1>7, <4>1 DEF SlotsAt, f, k
    <3>2. CASE j = d
      <4>1. InPlace(m, acts[d]) /\ m.reg["rbp"] = Address(F[e]) /\ e = d
        BY <1>2, <1>4, <2>1, <3>2 DEF View
      <4>2. ValueOf(m, l) = acts[j].locals[l]
        BY <3>2, <4>1 DEF InPlace
      <4>3. ValueOf(m, Mem("rbp", k)) = m.mem[f + k]
        <5>1. m.reg["rbp"] = Address(f)
          BY <3>2, <4>1 DEF f
        <5> QED
          BY <2>3, <2>5, <5>1, Values
      <4> QED
        BY <2>3, <4>2, <4>3
    <3> QED
      BY <1>4, <3>1, <3>2
  <2>8. Kept(j, l) = m.mem[Cell(FramePointer[j], k)]
    <3>1. is_virtual_reg(l) /\ ~(l[1] = "reg" /\ j = Depth) /\ ~(l[1] = "reg" /\ j < Depth)
      BY <1>7 DEF is_virtual_reg
    <3> QED
      BY <3>1, Zenon DEF Kept, k
  <2> QED
    BY <2>2, <2>6, <2>7, <2>8 DEF f
<1>8. CASE ~is_virtual_reg(l)
  <2> DEFINE r == l[2]
  <2>1. l = Reg(r) /\ l[1] = "reg" /\ r \in Kept_Registers
    BY <1>5, <1>8, PlaceKinds
  <2> HIDE DEF r
  <2>2. CASE j = Depth
    <3>1. Kept(j, l) = m.reg[r]
      <4>1. ~is_virtual_reg(l) /\ (l[1] = "reg" /\ j = Depth) /\ ~(l[1] = "reg" /\ j < Depth)
        BY <1>4, <1>8, <2>1, <2>2
      <4> QED
        BY <4>1, Zenon DEF Kept, r
    <3>2. ValueOf(m, l) = acts[j].locals[l]
      BY <1>2, <1>4, <2>2 DEF View, InPlace
    <3> QED
      BY <2>1, <3>1, <3>2, RegisterValue
  <2>3. CASE j # Depth
    <3>1. j < Depth /\ j \in 1..(d - 1)
      BY <1>4, <2>3
    <3> DEFINE i == j + 1
               f == F[i]
               p == Position(r)
    <3>2. Kept(j, l) = m.mem[Cell(Saved(i), REGISTER_COUNT - p)]
      <4>1. ~is_virtual_reg(l) /\ ~(l[1] = "reg" /\ j = Depth) /\ (l[1] = "reg" /\ j < Depth)
        BY <1>8, <2>1, <2>3, <3>1
      <4> QED
        BY <4>1, Zenon DEF Kept, r
    <3>3. i \in 2..d /\ i \in 1..d
      BY <1>4, <3>1
    <3>4. Saved(i) = Address(f + 1)
      BY <1>6, <3>3
    <3>5. p \in 1..11 /\ REGISTER_COUNT = 11
      BY <2>1, Positions, Registers
    <3>6. f \in 1..StackSize /\ f + 13 \in 1..StackSize
      BY <1>3, <3>1, <3>3 DEF InStack
    <3>7. m.mem[f + (12 - p)] = acts[j].locals[l]
      <4>1. SavedFor(m.mem, f, acts[j])
        BY <1>2, <3>1 DEF View, Below
      <4> QED
        BY <1>8, <4>1 DEF SavedFor, r
    <3> HIDE DEF i, f, p
    <3>8. Cell(Address(f + 1), REGISTER_COUNT - p) = f + (12 - p)
      <4> DEFINE f1 == f + 1
                 q == REGISTER_COUNT - p
      <4>0. q = 11 - p /\ p \in 1..11 /\ f \in 1..StackSize /\ f + 13 \in 1..StackSize /\ StackSize \in Nat
        BY <3>5, <3>6, StackAssumption
      <4> HIDE DEF q
      <4>1. f1 \in Int /\ q \in Int /\ f1 + q \in 1..StackSize /\ f1 + q = f + (12 - p)
        BY <4>0
      <4> HIDE DEF f1, q
      <4>2. Cell(Address(f1), q) = f1 + q
        BY <4>1, CellAt
      <4> QED
        BY <4>1, <4>2 DEF f1, q
    <3> QED
      BY <3>2, <3>4, <3>7, <3>8
  <2> QED
    BY <2>2, <2>3
<1> QED
  BY <1>7, <1>8

\* so are the arguments,
LEMMA ViewArguments ==
  ASSUME FrameInv
  PROVE  ArgumentsInPlace
<1> SUFFICES ASSUME text # "exited", NEW j \in 1..Depth, NEW i \in 1..Len(acts[j].args)
             PROVE  m.mem[Cell(FramePointer[j], -SpillCount - i)] = acts[j].args[i]
  BY DEF ArgumentsInPlace
<1>1. text \in {"pars", "body"}
  BY ViewOf
<1>2. PICK F, d, e : View(F, d, e)
  BY ViewOf
<1>3. InStack(F, d) /\ Located(F, d, e)
  BY <1>1, <1>2, ViewInStack, ViewLocated
<1>4. d = Depth /\ e = Framing /\ d \in Nat /\ e \in 1..d /\ ActsOK(acts, d)
  BY <1>2 DEF View
<1>5. ActOK(acts[j]) /\ j \in 1..d
  BY <1>4 DEF ActsOK
<1>6. j \in 1..e
  <2>1. text = "pars" => j # d
    <3> SUFFICES ASSUME text = "pars", j = d
                 PROVE  FALSE
      OBVIOUS
    <3>1. acts[j].args = <<>>
      BY <1>2 DEF View
    <3>2. Len(acts[j].args) = 0
      BY <3>1
    <3> QED
      BY <3>2
  <2> QED
    BY <1>1, <1>4, <2>1 DEF Framing
<1>7. FramePointer[j] = Address(F[j])
  BY <1>3, <1>6 DEF Located
<1>8. ArgsAt(m.mem, acts[j], F[j])
  <2>1. CASE j < d
    BY <1>2, <1>5, <2>1 DEF View, Below
  <2>2. CASE j = d
    <3>1. text = "body"
      BY <1>1, <1>4, <1>6, <2>2 DEF Framing
    <3> QED
      BY <1>2, <2>2, <3>1 DEF View
  <2> QED
    BY <1>4, <1>5, <2>1, <2>2
<1> DEFINE f == F[j]
           k == Len(acts[j].args)
           q == -SpillCount - i
<1>9. m.mem[f - SpillCount - i] = acts[j].args[i]
  BY <1>8 DEF ArgsAt
<1>10. /\ f \in 1..StackSize /\ f - SpillCount - MaxArgs >= 7 /\ SpillCount \in Nat /\ MaxArgs \in Nat
       /\ StackSize \in Nat /\ k \in Nat /\ k <= MaxArgs /\ i \in 1..k
  BY <1>3, <1>5, FrameAssumption, StackAssumption, TextLength DEF InStack, ActOK
<1> HIDE DEF f, k
<1>11. f \in Int /\ q \in Int /\ f + q \in 1..StackSize /\ f + q = f - SpillCount - i
  BY <1>10
<1> HIDE DEF q
<1>12. Cell(Address(f), q) = f + q
  BY <1>11, CellAt
<1> QED
  BY <1>7, <1>9, <1>11, <1>12 DEF f, q

\* and the stack pointer and the return addresses.
LEMMA ViewStackPointer ==
  ASSUME FrameInv
  PROVE  StackPointerInFrame
<1> SUFFICES ASSUME text # "exited"
             PROVE  /\ m.reg["rsp"] = Arithmetic("add", FramePointer[Framing],
                                                 Const(-SpillCount - Len(acts[Framing].args)))
                    /\ \A i \in 2..Depth :
                         m.mem[Cell(Saved(i), REGISTER_COUNT + 1)] = <<"after", acts[i - 1].dest>>
  BY DEF StackPointerInFrame, Framing
<1>1. text \in {"pars", "body"}
  BY ViewOf
<1>2. PICK F, d, e : View(F, d, e)
  BY ViewOf
<1>3. InStack(F, d) /\ Located(F, d, e)
  BY <1>1, <1>2, ViewInStack, ViewLocated
<1>4. d = Depth /\ e = Framing /\ d \in Nat /\ e \in 1..d /\ ActsOK(acts, d)
  BY <1>2 DEF View
<1>5. m.reg["rsp"] = Arithmetic("add", FramePointer[e], Const(-SpillCount - Len(acts[e].args)))
  <2> DEFINE f == F[e]
             k == Len(acts[e].args)
             q == -SpillCount - k
  <2>1. FramePointer[e] = Address(f) /\ m.reg["rsp"] = Address(f - SpillCount - k)
    BY <1>2, <1>3, <1>4 DEF Located, View, Bottom
  <2>2. f \in Int /\ k \in Nat /\ SpillCount \in Nat
    BY <1>3, <1>4, FrameAssumption, TextLength DEF InStack, ActsOK, ActOK
  <2> HIDE DEF f, k
  <2>3. f + q = f - SpillCount - k
    BY <2>2
  <2>4. Arithmetic("add", Address(f), Const(q)) = Address(f + q)
    BY DEF Arithmetic, Address, Const
  <2> QED
    BY <2>1, <2>3, <2>4 DEF k
<1>6. ASSUME NEW i \in 2..d
      PROVE  m.mem[Cell(Saved(i), REGISTER_COUNT + 1)] = <<"after", acts[i - 1].dest>>
  <2> DEFINE j == i - 1
             f == F[i]
             f1 == f + 1
             q == REGISTER_COUNT + 1
  <2>1. j \in 1..(d - 1) /\ i \in 1..d /\ j + 1 = i
    BY <1>4
  <2>2. Saved(i) = Address(f1)
    BY <1>3 DEF Located
  <2>3. f \in 1..StackSize /\ f + 13 \in 1..StackSize /\ q = 12
    <3>1. F[j + 1] + 13 \in 1..StackSize
      BY <1>3, <2>1 DEF InStack
    <3> QED
      BY <1>3, <2>1, <3>1, Registers DEF InStack
  <2>4. m.mem[f + 13] = <<"after", acts[j].dest>>
    <3>1. SavedFor(m.mem, F[j + 1], acts[j])
      BY <1>2, <2>1 DEF View, Below
    <3> QED
      BY <2>1, <3>1 DEF SavedFor
  <2> HIDE DEF j, f, q
  <2>5. f1 \in Int /\ q \in Int /\ f1 + q = f + 13 /\ f1 + q \in 1..StackSize
    BY <2>3
  <2> HIDE DEF f1
  <2>6. Cell(Address(f1), q) = f1 + q
    BY <2>5, CellAt
  <2>7. m.mem[Cell(Saved(i), q)] = <<"after", acts[j].dest>>
    BY <2>2, <2>4, <2>5, <2>6
  <2> QED
    BY <2>7 DEF j, q
<1> QED
  BY <1>4, <1>5, <1>6

\* No instruction, call or return destroys a value of any activation.
THEOREM FrameValuesKept ==
  ASSUME Admit = {}
  PROVE  FSpec => []ValuesKept
<1>1. FrameInv => ValuesKept
  BY ViewValuesKept
<1> QED
  BY <1>1, FrameInvariant, PTL

\* The arguments of every call are where the GETPARs of the function pop them.
THEOREM FrameArgumentsInPlace ==
  ASSUME Admit = {}
  PROVE  FSpec => []ArgumentsInPlace
<1>1. FrameInv => ArgumentsInPlace
  BY ViewArguments
<1> QED
  BY <1>1, FrameInvariant, PTL

\* A return finds its address and a call writes over no frame.
THEOREM FrameStackPointer ==
  ASSUME Admit = {}
  PROVE  FSpec => []StackPointerInFrame
<1>1. FrameInv => StackPointerInFrame
  BY ViewStackPointer
<1> QED
  BY <1>1, FrameInvariant, PTL

\* What the machine writes, compares and reads is what the instructions mean.
THEOREM FrameSeenAsMeant ==
  ASSUME Admit = {}
  PROVE  FSpec => []SeenAsMeant
<1>1. FrameInv => SeenAsMeant
  BY DEF FrameInv, SeenAsMeant
<1> QED
  BY <1>1, FrameInvariant, PTL

=============================================================================
