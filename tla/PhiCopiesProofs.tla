--------------------------- MODULE PhiCopiesProofs ---------------------------
(***************************************************************************)
(* Proof that insert_phi_copies implements the parallel copy of its PHIs,  *)
(* for any number of registers and PHIs, as long as at most one spill slot *)
(* takes part (OneSlot; with two of them the SWAP is wrong).               *)
(*                                                                         *)
(* The inductive invariant says for each phase what the store holds:       *)
(*   Settled   the PHIs that are done have their value, and no location    *)
(*             without a PHI is ever written;                              *)
(*   MovState  the PHIs that wait still find their source intact, because  *)
(*             a location is only written when its out-degree is 0; once   *)
(*             the queue is empty, targets and sources are the same set,   *)
(*             by counting, so that only cycles remain (Cyclic);           *)
(*   SwapState the SWAP loop carries the value "end" along the cycle: the  *)
(*             waiting sources are the waiting targets with "end" in the   *)
(*             place of the current one.                                   *)
(***************************************************************************)
EXTENDS PhiCopies, FiniteSetTheorems, WellFoundedInduction, TLAPS

OneSlot == \A s, t \in Slot : s = t

Target(i) == phis[i].reg
Source(i) == phis[i].arg

Targets(P) == {Target(i) : i \in P}
Sources(P) == {Source(i) : i \in P}
Readers(P, l) == {i \in P : Source(i) = l}

Distinct == \A i, j \in DOMAIN phis : Target(i) = Target(j) => i = j

SourcesDistinct(P) == \A i, j \in P : Source(i) = Source(j) => i = j

Cyclic(P) == Targets(P) = Sources(P) /\ SourcesDistinct(P)

Collected ==
  /\ Pending \subseteq Moved
  /\ \A i \in Pending : mov_instructs[i] = Source(i)
  /\ const_movs \subseteq {i \in DOMAIN phis : Source(i) \in Const}

Settled ==
  /\ \A i \in DOMAIN phis \ (Pending \union const_movs) : store[Target(i)] = Source(i)
  /\ \A l \in Loc \ Targets(DOMAIN phis) : store[l] = l

SourcesIntact == \A i \in Pending : store[Source(i)] = Source(i)

Counting ==
  /\ \A l \in Loc : to_out_degree[l] = Cardinality(Readers(Pending, l))
  /\ \A i \in Pending : to_out_degree[Target(i)] = 0 => i \in Range(queue)
  /\ \A i \in Range(queue) \intersect Pending : to_out_degree[Target(i)] = 0

MovState == SourcesIntact /\ (Counting \/ (queue = <<>> /\ Cyclic(Pending)))

SwapState ==
  /\ queue = <<>>
  /\ to \in Pending
  /\ from = Source(to)
  /\ end \in Loc /\ end # from
  /\ store[Target(to)] = end
  /\ \A l \in Targets(Pending \ {to}) : store[l] = l
  /\ SourcesDistinct(Pending)
  /\ Sources(Pending) = Targets(Pending \ {to}) \union {end}
  /\ end \notin Targets(Pending \ {to})

PhiInv ==
  /\ phis \in Seq(Phi)
  /\ Distinct
  /\ store \in [Loc -> Loc \union Const]
  /\ to_out_degree \in [Loc -> Nat]
  /\ queue \in Seq(Nat)
  /\ step \in {"collect", "mov", "swap", "const", "done"}
  /\ step = "collect" => store = [l \in Loc |-> l]
  /\ step # "collect" => Collected /\ Settled
  /\ step = "mov" => MovState
  /\ step = "swap" => SwapState
  /\ step \in {"const", "done"} => Pending = {}
  /\ step = "done" => const_movs = {}

-----------------------------------------------------------------------------
(* The PHIs.                                                               *)

LEMMA PhiFacts ==
  ASSUME phis \in Seq(Phi)
  PROVE  /\ DOMAIN phis \subseteq Nat \ {0} /\ IsFiniteSet(DOMAIN phis)
         /\ \A i \in DOMAIN phis : Target(i) \in Loc /\ Source(i) \in Loc \union Const
         /\ Moved = {i \in DOMAIN phis : Source(i) \in Loc /\ Source(i) # Target(i)}
         /\ Loc \intersect Const = {}
  <1>1. Len(phis) \in Nat /\ DOMAIN phis = 1..Len(phis)
    OBVIOUS
  <1>2. IsFiniteSet(DOMAIN phis) /\ DOMAIN phis \subseteq Nat \ {0}
    <2>1. IsFiniteSet(1..Len(phis))
      BY <1>1, FS_Interval
    <2> QED BY <1>1, <2>1
  <1>3. \A i \in DOMAIN phis : phis[i] \in Phi
    BY <1>1
  <1>4. \A i \in DOMAIN phis : Target(i) \in Loc /\ Source(i) \in Loc \union Const
    BY <1>3 DEF Phi, Target, Source
  <1>5. Moved = {i \in DOMAIN phis : Source(i) \in Loc /\ Source(i) # Target(i)}
    BY <1>4 DEF Moved, Source, Target
  <1>6. Loc \intersect Const = {}
    BY LocationsAssumption DEF Loc
  <1> QED BY <1>2, <1>4, <1>5, <1>6

\* The registers of the PHIs are all different: reg_map finds the right one.
LEMMA RegMap ==
  ASSUME phis \in Seq(Phi), Distinct, NEW i \in Moved
  PROVE  reg_map(Target(i)) = i
  <1>1. Moved \subseteq DOMAIN phis
    BY DEF Moved
  <1>2. \E j \in Moved : phis[j].reg = Target(i)
    BY DEF Target
  <1>3. \A j \in Moved : phis[j].reg = Target(i) => j = i
    BY <1>1 DEF Distinct, Target
  <1> QED BY <1>2, <1>3 DEF reg_map

\* The pigeonholes: if every target is also a source, the copies are cycles.
LEMMA Pigeonholes ==
  ASSUME Distinct, NEW P \in SUBSET DOMAIN phis, IsFiniteSet(P),
         \A i \in P : Readers(P, Target(i)) # {}
  PROVE  Cyclic(P)
  <1> DEFINE f == [i \in P |-> Source(i)]
             g == [i \in P |-> Target(i)]
  <1>1. f \in Surjection(P, Sources(P))
    BY DEF Surjection, Sources
  <1>2. g \in Bijection(P, Targets(P))
    BY DEF Bijection, Surjection, Injection, IsInjective, Targets, Distinct
  <1>3. Targets(P) \subseteq Sources(P)
    BY DEF Targets, Sources, Readers
  <1>4. Cardinality(Targets(P)) = Cardinality(P)
    BY <1>2, FS_Bijection DEF ExistsBijection
  <1>5. /\ IsFiniteSet(Sources(P))
        /\ Cardinality(Sources(P)) <= Cardinality(P)
        /\ Cardinality(Sources(P)) = Cardinality(P) <=> f \in Injection(P, Sources(P))
    BY <1>1, FS_Surjection
  <1>6. Cardinality(Targets(P)) <= Cardinality(Sources(P))
    BY <1>3, <1>5, FS_Subset
  <1>7. Cardinality(P) \in Nat /\ Cardinality(Sources(P)) \in Nat
    BY <1>5, FS_CardinalityType
  <1>8. Cardinality(Sources(P)) = Cardinality(Targets(P))
        /\ Cardinality(Sources(P)) = Cardinality(P)
    BY <1>4, <1>5, <1>6, <1>7
  <1>9. Targets(P) = Sources(P)
    BY <1>3, <1>5, <1>8, FS_Subset
  <1>10. f \in Injection(P, Sources(P))
    BY <1>5, <1>8
  <1>11. SourcesDistinct(P)
    BY <1>10 DEF Injection, IsInjective, SourcesDistinct
  <1> QED BY <1>9, <1>11 DEF Cyclic

\* A sequence without repetitions that is as long as its set lists the set.
LEMMA SequenceOfSet ==
  ASSUME NEW S \in SUBSET Nat, IsFiniteSet(S), NEW q \in SetToSeqs(S)
  PROVE  q \in Seq(Nat) /\ Range(q) = S
  <1> DEFINE D == 1..Cardinality(S)
  <1>1. Cardinality(S) \in Nat
    BY FS_CardinalityType
  <1>2. q \in [D -> S] /\ \A i, j \in D : i # j => q[i] # q[j]
    BY DEF SetToSeqs
  <1>3. q \in Injection(D, S)
    BY <1>2 DEF Injection, IsInjective
  <1>4. IsFiniteSet(D) /\ Cardinality(D) = Cardinality(S)
    BY <1>1, FS_Interval
  <1>5. q \in Surjection(D, S)
    BY <1>3, <1>4, FS_Injection
  <1>6. q \in Seq(Nat)
    <2>1. q \in [D -> Nat]
      BY <1>2
    <2> QED BY <1>1, <2>1
  <1> QED BY <1>2, <1>5, <1>6, ZenonT(60) DEF Range, Surjection

LEMMA TailOfSequence ==
  ASSUME NEW S, NEW q \in Seq(S), q # <<>>
  PROVE  /\ Head(q) \in S /\ Tail(q) \in Seq(S)
         /\ Range(q) = {Head(q)} \union Range(Tail(q))
  <1>1. /\ Len(q) \in Nat /\ Len(q) # 0 /\ DOMAIN q = 1..Len(q)
        /\ Tail(q) \in Seq(S) /\ Len(Tail(q)) = Len(q) - 1
        /\ DOMAIN Tail(q) = 1..(Len(q) - 1)
        /\ \A i \in 1..(Len(q) - 1) : Tail(q)[i] = q[i + 1]
        /\ Head(q) = q[1]
    OBVIOUS
  <1>2. \A i \in 1..Len(q) : i = 1 \/ i - 1 \in 1..(Len(q) - 1)
    BY <1>1
  <1>3. \A i \in 1..(Len(q) - 1) : i + 1 \in 1..Len(q)
    BY <1>1
  <1>4. Range(q) \subseteq {Head(q)} \union Range(Tail(q))
    <2> SUFFICES ASSUME NEW i \in 1..Len(q) PROVE q[i] \in {Head(q)} \union Range(Tail(q))
      BY <1>1 DEF Range
    <2>1. CASE i = 1
      BY <1>1, <2>1
    <2>2. CASE i # 1
      <3>1. i - 1 \in 1..(Len(q) - 1) /\ (i - 1) + 1 = i
        BY <1>2, <2>2
      <3>2. Tail(q)[i - 1] = q[i]
        BY <1>1, <3>1
      <3> QED BY <1>1, <3>1, <3>2 DEF Range
    <2> QED BY <2>1, <2>2
  <1>5. {Head(q)} \union Range(Tail(q)) \subseteq Range(q)
    BY <1>1, <1>3 DEF Range
  <1> QED BY <1>1, <1>4, <1>5

LEMMA AppendToSequence ==
  ASSUME NEW q \in Seq(Nat), NEW x \in Nat
  PROVE  Append(q, x) \in Seq(Nat) /\ Range(Append(q, x)) = Range(q) \union {x}
  <1>1. /\ Len(q) \in Nat /\ DOMAIN q = 1..Len(q)
        /\ DOMAIN Append(q, x) = 1..(Len(q) + 1)
        /\ \A i \in 1..Len(q) : Append(q, x)[i] = q[i]
        /\ Append(q, x)[Len(q) + 1] = x
        /\ Append(q, x) \in Seq(Nat)
    OBVIOUS
  <1> QED BY <1>1 DEF Range

-----------------------------------------------------------------------------
(* The steps.                                                              *)

LEMMA CollectStep ==
  ASSUME PhiInv, Collect
  PROVE  PhiInv'
  <1> DEFINE free == {i \in Moved : to_out_degree'[phis[i].reg] = 0}
  <1>1. /\ phis \in Seq(Phi) /\ phis' = phis /\ Distinct /\ store' = store
        /\ store = [l \in Loc |-> l] /\ step' = "mov"
    BY DEF PhiInv, Collect
  <1>2. /\ mov_instructs' = [i \in Moved |-> phis[i].arg]
        /\ Pending' = Moved
        /\ to_out_degree' = [l \in Loc |-> Cardinality({i \in Moved : phis[i].arg = l})]
        /\ const_movs' = {i \in DOMAIN phis : phis[i].arg \in Const}
        /\ queue' \in SetToSeqs(free)
    BY DEF Collect, QueueFilled, Pending
  <1>3. /\ DOMAIN phis \subseteq Nat \ {0} /\ IsFiniteSet(DOMAIN phis)
        /\ \A i \in DOMAIN phis : Target(i) \in Loc /\ Source(i) \in Loc \union Const
        /\ Moved = {i \in DOMAIN phis : Source(i) \in Loc /\ Source(i) # Target(i)}
        /\ Loc \intersect Const = {}
    BY <1>1, PhiFacts
  <1>4. IsFiniteSet(Moved) /\ Moved \in SUBSET DOMAIN phis /\ free \in SUBSET Moved
    BY <1>3, FS_Subset
  <1>6. queue' \in Seq(Nat) /\ Range(queue') = free
    <2>1. IsFiniteSet(free) /\ free \in SUBSET Nat
      BY <1>3, <1>4, FS_Subset
    <2> HIDE DEF free
    <2> QED BY <1>2, <2>1, SequenceOfSet
  <1>7. to_out_degree' \in [Loc -> Nat]
    <2> DEFINE readers(l) == {i \in Moved : phis[i].arg = l}
    <2>1. ASSUME NEW l \in Loc PROVE Cardinality(readers(l)) \in Nat
      <3>1. IsFiniteSet(readers(l))
        BY <1>4, FS_Subset
      <3> HIDE DEF readers
      <3> QED BY <3>1, FS_CardinalityType
    <2>2. to_out_degree' = [l \in Loc |-> Cardinality(readers(l))]
      BY <1>2
    <2> HIDE DEF readers
    <2> QED BY <2>1, <2>2
  <1>8. Collected'
    BY <1>1, <1>2 DEF Collected, Source, Moved
  <1>9. Settled'
    <2>1. \A i \in DOMAIN phis \ (Moved \union const_movs') : Source(i) = Target(i)
      BY <1>2, <1>3 DEF Source
    <2> QED BY <1>1, <1>2, <1>3, <2>1 DEF Settled, Source, Target
  <1>10. MovState'
    <2>1. SourcesIntact'
      BY <1>1, <1>2, <1>3 DEF SourcesIntact, Source
    <2>2. Counting'
      <3>1. \A l \in Loc : to_out_degree'[l] = Cardinality(Readers(Moved, l))
        BY <1>2 DEF Readers, Source
      <3>2. \A i \in Moved : to_out_degree'[Target(i)] = 0 <=> i \in Range(queue')
        BY <1>6 DEF Target
      <3> QED BY <1>1, <1>2, <3>1, <3>2 DEF Counting, Readers, Source, Target
    <2> QED BY <2>1, <2>2 DEF MovState
  <1>11. Distinct' /\ phis' \in Seq(Phi) /\ store' \in [Loc -> Loc \union Const]
    BY <1>1 DEF Distinct, Target
  <1> QED BY <1>1, <1>6, <1>7, <1>8, <1>9, <1>10, <1>11 DEF PhiInv

\* What every step but the first relies on and leaves alone.
LEMMA Constants ==
  ASSUME PhiInv, step # "collect"
  PROVE  /\ phis \in Seq(Phi) /\ Distinct /\ Collected /\ Settled
         /\ store \in [Loc -> Loc \union Const] /\ to_out_degree \in [Loc -> Nat]
         /\ queue \in Seq(Nat)
         /\ DOMAIN phis \subseteq Nat \ {0} /\ IsFiniteSet(DOMAIN phis)
         /\ \A i \in DOMAIN phis : Target(i) \in Loc /\ Source(i) \in Loc \union Const
         /\ Moved = {i \in DOMAIN phis : Source(i) \in Loc /\ Source(i) # Target(i)}
         /\ Loc \intersect Const = {}
         /\ Pending \in SUBSET DOMAIN phis /\ IsFiniteSet(Pending)
         /\ \A i \in Pending : /\ mov_instructs[i] = Source(i)
                               /\ Source(i) \in Loc /\ Source(i) # Target(i)
                               /\ i \notin const_movs
  <1>1. phis \in Seq(Phi) /\ Distinct /\ Collected /\ Settled
        /\ store \in [Loc -> Loc \union Const] /\ to_out_degree \in [Loc -> Nat]
        /\ queue \in Seq(Nat)
    BY DEF PhiInv
  <1>2. /\ DOMAIN phis \subseteq Nat \ {0} /\ IsFiniteSet(DOMAIN phis)
        /\ \A i \in DOMAIN phis : Target(i) \in Loc /\ Source(i) \in Loc \union Const
        /\ Moved = {i \in DOMAIN phis : Source(i) \in Loc /\ Source(i) # Target(i)}
        /\ Loc \intersect Const = {}
    BY <1>1, PhiFacts
  <1>3. Pending \in SUBSET DOMAIN phis
    BY <1>1, <1>2 DEF Collected
  <1>4. IsFiniteSet(Pending)
    BY <1>2, <1>3, FS_Subset
  <1>5. \A i \in Pending : /\ mov_instructs[i] = Source(i)
                           /\ Source(i) \in Loc /\ Source(i) # Target(i)
                           /\ i \notin const_movs
    BY <1>1, <1>2 DEF Collected
  <1> QED BY <1>1, <1>2, <1>3, <1>4, <1>5

LEMMA WithoutSome ==
  ASSUME NEW D, mov_instructs' = Without(D)
  PROVE  /\ Pending' = Pending \ D
         /\ \A i \in Pending' : mov_instructs'[i] = mov_instructs[i]
  BY DEF Without, Pending

\* A MOV writes a location that nobody reads any more.
LEMMA MovStep ==
  ASSUME PhiInv, step = "mov", Counting, SourcesIntact,
         NEW i \in Pending, to_out_degree[Target(i)] = 0,
         store' = Mov(phis[i].reg, mov_instructs[i]),
         to_out_degree' = [to_out_degree EXCEPT ![mov_instructs[i]] = @ - 1],
         mov_instructs' = Without({i}), phis' = phis, const_movs' = const_movs
  PROVE  /\ Collected' /\ Settled' /\ SourcesIntact'
         /\ store' \in [Loc -> Loc \union Const] /\ to_out_degree' \in [Loc -> Nat]
         /\ \A l \in Loc : to_out_degree'[l] = Cardinality(Readers(Pending', l))
         /\ \A l \in Loc : to_out_degree'[l] = 0 => to_out_degree[l] = 0 \/ l = Source(i)
         /\ \A l \in Loc : to_out_degree[l] = 0 => to_out_degree'[l] = 0
  <1>1. /\ Distinct /\ Collected /\ Settled
        /\ store \in [Loc -> Loc \union Const] /\ to_out_degree \in [Loc -> Nat]
        /\ \A k \in DOMAIN phis : Target(k) \in Loc /\ Source(k) \in Loc \union Const
        /\ Pending \in SUBSET DOMAIN phis /\ IsFiniteSet(Pending)
        /\ \A k \in Pending : /\ mov_instructs[k] = Source(k)
                              /\ Source(k) \in Loc /\ Source(k) # Target(k)
                              /\ k \notin const_movs
    BY Constants
  <1>2. /\ Pending' = Pending \ {i}
        /\ \A k \in Pending' : mov_instructs'[k] = mov_instructs[k]
    BY WithoutSome
  <1>3. store' = [store EXCEPT ![Target(i)] = Source(i)]
    BY <1>1 DEF Mov, SourcesIntact, Target
  <1>4. \A k \in Pending : Source(k) # Target(i)
    <2>1. IsFiniteSet(Readers(Pending, Target(i)))
      BY <1>1, FS_Subset DEF Readers
    <2>2. Cardinality(Readers(Pending, Target(i))) = 0
      BY <1>1 DEF Counting
    <2>3. Readers(Pending, Target(i)) = {}
      BY <2>1, <2>2, FS_EmptySet
    <2> QED BY <2>3 DEF Readers
  <1>5. Collected'
    BY <1>1, <1>2 DEF Collected, Moved, Source
  <1>6. store' \in [Loc -> Loc \union Const]
    BY <1>1, <1>3
  <1>7. Settled'
    <2>1. ASSUME NEW k \in DOMAIN phis \ (Pending' \union const_movs)
          PROVE  store'[Target(k)] = Source(k)
      <3>1. CASE k = i
        BY <1>1, <1>3, <3>1
      <3>2. CASE k # i
        BY <1>1, <1>2, <1>3, <3>2 DEF Settled, Distinct
      <3> QED BY <3>1, <3>2
    <2>2. ASSUME NEW l \in Loc \ Targets(DOMAIN phis) PROVE store'[l] = l
      BY <1>1, <1>3 DEF Settled, Targets
    <2> QED BY <2>1, <2>2 DEF Settled, Targets, Target, Source
  <1>8. SourcesIntact'
    BY <1>1, <1>2, <1>3, <1>4 DEF SourcesIntact, Source
  <1>9. /\ to_out_degree'[Source(i)] = to_out_degree[Source(i)] - 1
        /\ \A l \in Loc \ {Source(i)} : to_out_degree'[l] = to_out_degree[l]
    BY <1>1
  <1>10. \A l \in Loc : to_out_degree'[l] = Cardinality(Readers(Pending', l))
    <2> SUFFICES ASSUME NEW l \in Loc
                 PROVE  to_out_degree'[l] = Cardinality(Readers(Pending \ {i}, l))
      BY <1>2 DEF Readers, Source
    <2>1. IsFiniteSet(Readers(Pending, l))
      BY <1>1, FS_Subset DEF Readers
    <2>2. Readers(Pending \ {i}, l) = Readers(Pending, l) \ {i}
      BY DEF Readers
    <2>3. to_out_degree[l] = Cardinality(Readers(Pending, l))
      BY DEF Counting
    <2>4. i \in Readers(Pending, l) <=> l = Source(i)
      BY DEF Readers
    <2>5. Cardinality(Readers(Pending, l) \ {i}) =
            IF i \in Readers(Pending, l) THEN Cardinality(Readers(Pending, l)) - 1
                                         ELSE Cardinality(Readers(Pending, l))
      BY <2>1, FS_RemoveElement
    <2> QED BY <1>9, <2>2, <2>3, <2>4, <2>5
  <1>11. \A l \in Loc : to_out_degree[l] = 0 => l # Source(i)
    <2> SUFFICES ASSUME to_out_degree[Source(i)] = 0 PROVE FALSE
      OBVIOUS
    <2>1. IsFiniteSet(Readers(Pending, Source(i))) /\ i \in Readers(Pending, Source(i))
      BY <1>1, FS_Subset DEF Readers
    <2>2. Cardinality(Readers(Pending, Source(i))) = 0
      BY <1>1 DEF Counting
    <2> QED BY <2>1, <2>2, FS_EmptySet
  <1>12. to_out_degree' \in [Loc -> Nat]
    <2>1. ASSUME NEW l \in Loc PROVE Cardinality(Readers(Pending', l)) \in Nat
      <3>1. IsFiniteSet(Readers(Pending', l))
        BY <1>1, <1>2, FS_Subset DEF Readers
      <3> QED BY <3>1, FS_CardinalityType
    <2> QED BY <1>1, <1>10, <2>1
  <1> QED BY <1>5, <1>6, <1>7, <1>8, <1>9, <1>10, <1>11, <1>12

LEMMA MovNextStep ==
  ASSUME PhiInv, MovNext
  PROVE  PhiInv'
  <1> DEFINE i == Head(queue)
  <1>1. /\ step = "mov" /\ step' = "mov" /\ queue # <<>>
        /\ phis' = phis /\ const_movs' = const_movs
    BY DEF MovNext
  <1>2. /\ phis \in Seq(Phi) /\ Distinct /\ Collected /\ Settled
        /\ store \in [Loc -> Loc \union Const] /\ to_out_degree \in [Loc -> Nat]
        /\ queue \in Seq(Nat) /\ DOMAIN phis \subseteq Nat \ {0}
        /\ \A k \in DOMAIN phis : Target(k) \in Loc
        /\ Pending \in SUBSET DOMAIN phis
        /\ \A k \in Pending : mov_instructs[k] = Source(k) /\ Source(k) \in Loc
    BY <1>1, Constants
  <1>3. SourcesIntact /\ Counting
    BY <1>1 DEF PhiInv, MovState
  <1>4. Tail(queue) \in Seq(Nat) /\ Range(queue) = {i} \union Range(Tail(queue))
    BY <1>1, <1>2, TailOfSequence
  <1>5. Distinct' /\ phis' \in Seq(Phi)
    BY <1>1, <1>2 DEF Distinct, Target
  <1> HIDE DEF i
  <1>6. CASE i \in Pending
    <2>1. /\ store' = Mov(phis[i].reg, mov_instructs[i])
          /\ to_out_degree' = [to_out_degree EXCEPT ![mov_instructs[i]] = @ - 1]
          /\ mov_instructs' = Without({i})
          /\ queue' = IF to_out_degree'[mov_instructs[i]] = 0
                        THEN Append(Tail(queue), reg_map(mov_instructs[i]))
                        ELSE Tail(queue)
      BY <1>6 DEF MovNext, i
    <2>2. to_out_degree[Target(i)] = 0
      BY <1>3, <1>4, <1>6 DEF Counting
    <2>3. /\ Collected' /\ Settled' /\ SourcesIntact'
          /\ store' \in [Loc -> Loc \union Const] /\ to_out_degree' \in [Loc -> Nat]
          /\ \A l \in Loc : to_out_degree'[l] = Cardinality(Readers(Pending', l))
          /\ \A l \in Loc : to_out_degree'[l] = 0 => to_out_degree[l] = 0 \/ l = Source(i)
          /\ \A l \in Loc : to_out_degree[l] = 0 => to_out_degree'[l] = 0
      BY <1>1, <1>3, <1>6, <2>1, <2>2, MovStep
    <2>4. Pending' = Pending \ {i}
      BY <2>1, WithoutSome
    <2>5. mov_instructs[i] = Source(i)
      BY <1>2, <1>6
    <2>6. ASSUME NEW k \in Pending, Target(k) = Source(i)
          PROVE  reg_map(Source(i)) = k
      <3>1. k \in Moved
        BY <1>2 DEF Collected
      <3> QED BY <1>2, <2>6, <3>1, RegMap
    <2>7. reg_map(Source(i)) \in Nat
      BY <1>2 DEF reg_map, Moved, Zero
    <2>8. /\ queue' \in Seq(Nat)
          /\ Range(Tail(queue)) \subseteq Range(queue')
          /\ to_out_degree'[Source(i)] = 0 => reg_map(Source(i)) \in Range(queue')
          /\ \A k \in Range(queue') : k \in Range(Tail(queue))
               \/ (to_out_degree'[Source(i)] = 0 /\ k = reg_map(Source(i)))
      <3>1. CASE to_out_degree'[Source(i)] = 0
        <4>1. queue' = Append(Tail(queue), reg_map(Source(i)))
          BY <2>1, <2>5, <3>1
        <4> DEFINE r == reg_map(Source(i))
                   t == Tail(queue)
        <4>2. r \in Nat /\ t \in Seq(Nat)
          BY <1>4, <2>7
        <4> HIDE DEF r, t
        <4>3. Append(t, r) \in Seq(Nat) /\ Range(Append(t, r)) = Range(t) \union {r}
          BY <4>2, AppendToSequence
        <4>4. queue' \in Seq(Nat) /\ Range(queue') = Range(Tail(queue)) \union {reg_map(Source(i))}
          BY <4>1, <4>3 DEF r, t
        <4> QED BY <3>1, <4>4
      <3>2. CASE to_out_degree'[Source(i)] # 0
        BY <1>4, <2>1, <2>5, <3>2
      <3> QED BY <3>1, <3>2
    <2>9. ASSUME NEW k \in Pending', to_out_degree'[Target(k)] = 0
          PROVE  k \in Range(queue')
      <3>1. k \in Pending /\ k # i /\ Target(k) \in Loc
        BY <1>2, <2>4
      <3>2. CASE to_out_degree[Target(k)] = 0
        BY <1>3, <1>4, <2>8, <3>1, <3>2 DEF Counting
      <3>3. CASE Target(k) = Source(i)
        BY <2>6, <2>8, <2>9, <3>1, <3>3
      <3> QED BY <2>3, <2>9, <3>1, <3>2, <3>3
    <2>10. ASSUME NEW k \in Range(queue') \intersect Pending'
           PROVE  to_out_degree'[Target(k)] = 0
      <3>1. k \in Pending /\ Target(k) \in Loc
        BY <1>2, <2>4
      <3>2. CASE k \in Range(Tail(queue))
        BY <1>3, <1>4, <2>3, <3>1, <3>2 DEF Counting
      <3>3. CASE to_out_degree'[Source(i)] = 0 /\ k = reg_map(Source(i))
        <4>1. k # Zero
          BY <1>2, <3>1 DEF Zero
        <4>2. Target(k) = Source(i)
          BY <3>3, <4>1 DEF reg_map, Target
        <4> QED BY <3>3, <4>2
      <3> QED BY <2>8, <3>2, <3>3
    <2>11. Counting'
      BY <1>1, <2>3, <2>9, <2>10 DEF Counting, Readers, Source, Target
    <2>12. MovState'
      BY <2>3, <2>11 DEF MovState
    <2> QED BY <1>1, <1>5, <2>3, <2>8, <2>12 DEF PhiInv
  <1>7. CASE i \notin Pending
    <2>1. /\ queue' = Tail(queue) /\ store' = store
          /\ to_out_degree' = to_out_degree /\ mov_instructs' = mov_instructs
      BY <1>7 DEF MovNext, i
    <2>2. Pending' = Pending
      BY <2>1 DEF Pending
    <2>3. Collected' /\ Settled' /\ SourcesIntact'
      BY <1>1, <1>2, <1>3, <2>1, <2>2
      DEF Collected, Settled, SourcesIntact, Moved, Source, Target, Targets
    <2>4. Counting'
      <3>1. \A k \in Pending : to_out_degree[Target(k)] = 0 => k \in Range(queue')
        BY <1>3, <1>4, <1>7, <2>1 DEF Counting
      <3>2. \A k \in Range(queue') \intersect Pending : to_out_degree[Target(k)] = 0
        BY <1>3, <1>4, <2>1 DEF Counting
      <3> QED BY <1>1, <1>3, <2>1, <2>2, <3>1, <3>2
          DEF Counting, Readers, Source, Target
    <2>5. MovState'
      BY <2>3, <2>4 DEF MovState
    <2> QED BY <1>1, <1>2, <1>4, <1>5, <2>1, <2>3, <2>5 DEF PhiInv
  <1> QED BY <1>6, <1>7

\* With the queue empty, whatever still waits forms cycles.
LEMMA QueueEmpty ==
  ASSUME PhiInv, step = "mov", queue = <<>>
  PROVE  SourcesIntact /\ Cyclic(Pending)
  <1>1. /\ Distinct /\ Pending \in SUBSET DOMAIN phis /\ IsFiniteSet(Pending)
        /\ \A k \in DOMAIN phis : Target(k) \in Loc
    BY Constants
  <1>2. SourcesIntact /\ (Counting \/ Cyclic(Pending))
    BY DEF PhiInv, MovState
  <1>3. ASSUME Counting PROVE Cyclic(Pending)
    <2>1. Range(queue) = {}
      BY DEF Range
    <2>2. ASSUME NEW k \in Pending PROVE Readers(Pending, Target(k)) # {}
      <3>1. to_out_degree[Target(k)] # 0
        BY <1>3, <2>1 DEF Counting
      <3>2. Cardinality(Readers(Pending, Target(k))) # 0
        BY <1>1, <1>3, <3>1 DEF Counting
      <3> QED BY <3>2, FS_EmptySet
    <2> QED BY <1>1, <2>2, Pigeonholes
  <1> QED BY <1>2, <1>3

LEMMA CycleStartStep ==
  ASSUME PhiInv, CycleStart
  PROVE  PhiInv'
  <1>1. /\ step = "mov" /\ queue = <<>> /\ Pending # {} /\ step' = "swap"
        /\ to' = CHOOSE i \in Pending : \A j \in Pending : i <= j
        /\ from' = mov_instructs[to'] /\ end' = phis[to'].reg
        /\ phis' = phis /\ mov_instructs' = mov_instructs /\ queue' = queue
        /\ to_out_degree' = to_out_degree
        /\ const_movs' = const_movs /\ store' = store
    BY DEF CycleStart
  <1>2. /\ phis \in Seq(Phi) /\ Distinct /\ Collected /\ Settled
        /\ store \in [Loc -> Loc \union Const] /\ to_out_degree \in [Loc -> Nat]
        /\ DOMAIN phis \subseteq Nat \ {0}
        /\ \A k \in DOMAIN phis : Target(k) \in Loc
        /\ Pending \in SUBSET DOMAIN phis
        /\ \A k \in Pending : mov_instructs[k] = Source(k) /\ Source(k) # Target(k)
    BY <1>1, Constants
  <1>3. SourcesIntact /\ Cyclic(Pending)
    BY <1>1, QueueEmpty
  <1>4. to' \in Pending
    <2>1. \E i \in Pending : \A j \in Pending : i <= j
      <3>1. Pending \subseteq Nat
        BY <1>2
      <3>2. PICK i \in Pending : \A j \in Pending : ~(<<j, i>> \in OpToRel(<, Nat))
        BY <1>1, <3>1, NatLessThanWellFounded, WFMin, Zenon
      <3>3. ASSUME NEW k \in Nat, NEW m \in Nat, k < m
            PROVE  <<k, m>> \in OpToRel(<, Nat)
        BY <3>3 DEF OpToRel
      <3>4. ASSUME NEW j \in Pending PROVE i <= j
        <4>1. i \in Nat /\ j \in Nat /\ ~(j < i)
          BY <3>1, <3>2, <3>3, Zenon
        <4> QED BY <4>1
      <3> QED BY <3>4
    <2> QED BY <1>1, <2>1
  <1>5. Pending' = Pending
    BY <1>1 DEF Pending
  <1>6. \A l \in Targets(Pending) : store[l] = l
    BY <1>3 DEF Cyclic, Sources, SourcesIntact
  <1>7. end' = Target(to') /\ from' = Source(to')
    BY <1>1, <1>2, <1>4 DEF Target
  <1>8. SwapState'
    <2> DEFINE t == to'
               Q == Pending \ {t}
    <2>1. t \in Pending /\ end' = Target(t) /\ from' = Source(t)
      BY <1>4, <1>7
    <2> HIDE DEF t
    <2>2. end' \in Loc /\ end' # from' /\ store[Target(t)] = end'
      BY <1>2, <1>6, <2>1 DEF Targets
    <2>3. \A l \in Targets(Q) : store[l] = l
      BY <1>6 DEF Targets
    <2>4. SourcesDistinct(Pending)
      BY <1>3 DEF Cyclic
    <2>5. Sources(Pending) = Targets(Q) \union {end'}
      BY <1>3, <2>1 DEF Cyclic, Targets
    <2>6. end' \notin Targets(Q)
      BY <1>2, <2>1 DEF Targets, Distinct
    <2>7. /\ Sources(Pending)' = Sources(Pending)
          /\ Targets(Pending \ {to})' = Targets(Q)
          /\ Target(to)' = Target(t) /\ Source(to)' = Source(t)
          /\ SourcesDistinct(Pending)'
      BY <1>1, <1>5, <2>4 DEF SourcesDistinct, Sources, Targets, Source, Target, t
    <2>8. to' \in Pending'
      BY <1>5, <2>1 DEF t
    <2> QED BY <1>1, <2>1, <2>2, <2>3, <2>5, <2>6, <2>7, <2>8 DEF SwapState
  <1>9. Collected' /\ Settled' /\ Distinct'
    BY <1>1, <1>2, <1>5
    DEF Collected, Settled, Distinct, Moved, Source, Target, Targets
  <1>10. queue' \in Seq(Nat)
    BY <1>1
  <1> QED BY <1>1, <1>2, <1>8, <1>9, <1>10 DEF PhiInv

\* One SWAP: the current PHI gets its value, and the value that was displaced
\* when the cycle was entered moves on to where the next PHI expects it.
LEMMA SwapNextStep ==
  ASSUME OneSlot, PhiInv, SwapNext
  PROVE  PhiInv'
  <1> DEFINE nxt == reg_map(from)
             Q == Pending \ {to}
             R == Q \ {nxt}
  <1>1. /\ step = "swap"
        /\ store' = Swap(phis[to].reg, from) /\ to' = nxt
        /\ phis' = phis /\ to_out_degree' = to_out_degree /\ queue' = queue
        /\ const_movs' = const_movs /\ end' = end
    BY DEF SwapNext
  <1>2. /\ phis \in Seq(Phi) /\ Distinct /\ Collected /\ Settled
        /\ store \in [Loc -> Loc \union Const] /\ to_out_degree \in [Loc -> Nat]
        /\ queue \in Seq(Nat)
        /\ \A k \in DOMAIN phis : Target(k) \in Loc
        /\ Pending \in SUBSET DOMAIN phis
        /\ \A k \in Pending : /\ mov_instructs[k] = Source(k)
                              /\ Source(k) \in Loc /\ Source(k) # Target(k)
                              /\ k \notin const_movs
    BY <1>1, Constants
  <1>3. /\ queue = <<>> /\ to \in Pending /\ from = Source(to)
        /\ end \in Loc /\ end # from /\ store[Target(to)] = end
        /\ \A l \in Targets(Q) : store[l] = l
        /\ SourcesDistinct(Pending)
        /\ Sources(Pending) = Targets(Q) \union {end}
        /\ end \notin Targets(Q)
    BY <1>1 DEF PhiInv, SwapState
  <1>4. nxt \in Q /\ Target(nxt) = from
    <2>1. from \in Targets(Q)
      BY <1>3 DEF Sources
    <2>2. PICK k \in Q : Target(k) = from
      BY <2>1 DEF Targets
    <2>3. k \in Moved
      BY <1>2 DEF Collected
    <2>4. reg_map(Target(k)) = k
      BY <1>2, <2>3, RegMap
    <2> QED BY <2>2, <2>4
  <1>5. /\ from' = Source(nxt)
        /\ step' = IF Source(nxt) = end THEN "mov" ELSE "swap"
        /\ Pending' = IF Source(nxt) = end THEN R ELSE Q
        /\ \A k \in Pending' : mov_instructs'[k] = mov_instructs[k]
    <2>1. /\ from' = mov_instructs[nxt]
          /\ IF from' = end
               THEN step' = "mov" /\ mov_instructs' = Without({to, nxt})
               ELSE step' = "swap" /\ mov_instructs' = Without({to})
      BY <1>1, <1>4 DEF SwapNext
    <2>2. from' = Source(nxt)
      BY <1>2, <1>4, <2>1
    <2> QED BY <2>1, <2>2, WithoutSome
  <1> HIDE DEF nxt
  <1>6. /\ Target(to) \in Loc /\ from \in Loc /\ Target(to) # from
        /\ store[from] = from
        /\ store' = [store EXCEPT ![Target(to)] = from, ![from] = end]
    <2>1. Target(to) \in Loc /\ from \in Loc /\ Target(to) # from
      BY <1>2, <1>3
    <2>2. store[from] = from
      BY <1>3, <1>4 DEF Targets
    <2>3. ~({Target(to), from} \subseteq Slot)
      BY <2>1 DEF OneSlot
    <2> QED BY <1>1, <1>3, <2>1, <2>2, <2>3 DEF Swap, Target
  <1>7. /\ store' \in [Loc -> Loc \union Const]
        /\ store'[Target(to)] = Source(to)
        /\ store'[Target(nxt)] = end
        /\ \A l \in Loc \ {Target(to), from} : store'[l] = store[l]
    BY <1>2, <1>3, <1>4, <1>6
  <1>8. Collected'
    BY <1>1, <1>2, <1>5 DEF Collected, Moved, Source
  <1>9. Settled'
    <2>1. ASSUME NEW k \in DOMAIN phis \ (Pending' \union const_movs)
          PROVE  store'[Target(k)] = Source(k)
      <3>1. CASE k = to
        BY <1>7, <3>1
      <3>2. CASE k = nxt
        BY <1>4, <1>5, <1>7, <2>1, <3>2
      <3>3. CASE k # to /\ k # nxt
        <4>1. k \notin Pending
          BY <1>5, <2>1, <3>3
        <4>2. Target(k) # Target(to) /\ Target(k) # from
          BY <1>2, <1>3, <1>4, <3>3 DEF Distinct
        <4> QED BY <1>2, <1>7, <2>1, <4>1, <4>2 DEF Settled
      <3> QED BY <3>1, <3>2, <3>3
    <2>2. ASSUME NEW l \in Loc \ Targets(DOMAIN phis) PROVE store'[l] = l
      <3>1. l # Target(to) /\ l # from
        BY <1>2, <1>3, <1>4 DEF Targets
      <3> QED BY <1>2, <1>7, <3>1 DEF Settled
    <2> QED BY <1>1, <2>1, <2>2 DEF Settled, Targets, Target, Source
  <1>10. SourcesDistinct(Q) /\ SourcesDistinct(R)
    BY <1>3 DEF SourcesDistinct
  <1>11. from \notin Sources(Q)
    BY <1>3 DEF SourcesDistinct, Sources
  <1>12. Sources(Q) = Targets(R) \union {end}
    <2>1. Targets(R) = Targets(Q) \ {from}
      BY <1>2, <1>4 DEF Targets, Distinct
    <2>2. Sources(Q) = Sources(Pending) \ {from}
      BY <1>3, <1>11 DEF Sources
    <2> QED BY <1>3, <2>1, <2>2
  <1>13. end \notin Targets(R)
    BY <1>3 DEF Targets
  <1>14. \A l \in Targets(R) : store'[l] = l
    <2> SUFFICES ASSUME NEW k \in R PROVE store'[Target(k)] = Target(k)
      BY DEF Targets
    <2>1. store[Target(k)] = Target(k)
      BY <1>3 DEF Targets
    <2>2. Target(k) # Target(to) /\ Target(k) # from /\ Target(k) \in Loc
      BY <1>2, <1>3, <1>4 DEF Distinct
    <2> QED BY <1>7, <2>1, <2>2
  <1>15. Distinct' /\ queue' \in Seq(Nat)
    BY <1>1, <1>2 DEF Distinct, Target
  <1>16. CASE Source(nxt) = end
    <2>1. Sources(R) = Targets(R)
      <3>1. Sources(R) = Sources(Q) \ {end}
        BY <1>4, <1>10, <1>16 DEF Sources, SourcesDistinct
      <3> QED BY <1>12, <1>13, <3>1
    <2>2. \A k \in R : store'[Source(k)] = Source(k)
      BY <1>14, <2>1 DEF Sources
    <2>3. Pending' = R /\ step' = "mov"
      BY <1>5, <1>16
    <2>4. /\ Sources(Pending)' = Sources(R)
          /\ Targets(Pending)' = Targets(R)
          /\ SourcesDistinct(Pending)'
          /\ SourcesIntact'
      BY <1>1, <1>10, <2>2, <2>3
      DEF SourcesIntact, SourcesDistinct, Sources, Targets, Source, Target
    <2>5. MovState'
      BY <1>1, <1>3, <2>1, <2>4 DEF MovState, Cyclic
    <2> QED BY <1>1, <1>2, <1>7, <1>8, <1>9, <1>15, <2>3, <2>5 DEF PhiInv
  <1>17. CASE Source(nxt) # end
    <2>1. Pending' = Q /\ step' = "swap" /\ from' = Source(nxt) /\ to' = nxt /\ end' = end
      BY <1>1, <1>5, <1>17
    <2>2. SwapState'
      BY <1>1, <1>3, <1>4, <1>7, <1>10, <1>12, <1>13, <1>14, <1>17, <2>1
      DEF SwapState, SourcesDistinct, Sources, Targets, Source, Target
    <2> QED BY <1>1, <1>2, <1>7, <1>8, <1>9, <1>15, <2>1, <2>2 DEF PhiInv
  <1> QED BY <1>16, <1>17

LEMMA ConstStartStep ==
  ASSUME PhiInv, ConstStart
  PROVE  PhiInv'
  <1>1. /\ step = "mov" /\ Pending = {}
        /\ step' = IF const_movs = {} THEN "done" ELSE "const"
        /\ phis' = phis /\ mov_instructs' = mov_instructs /\ queue' = queue
        /\ to_out_degree' = to_out_degree
        /\ const_movs' = const_movs /\ store' = store
    BY DEF ConstStart
  <1>2. Pending' = {}
    BY <1>1 DEF Pending
  <1>3. Collected' /\ Settled' /\ Distinct'
    BY <1>1, <1>2 DEF PhiInv, Collected, Settled, Distinct, Moved, Source, Target, Targets
  <1> QED BY <1>1, <1>2, <1>3 DEF PhiInv

LEMMA ConstNextStep ==
  ASSUME PhiInv, ConstNext
  PROVE  PhiInv'
  <1>1. PICK i \in const_movs : /\ store' = Mov(phis[i].reg, phis[i].arg)
                                /\ const_movs' = const_movs \ {i}
    BY DEF ConstNext
  <1>2. /\ step = "const"
        /\ step' = IF const_movs' = {} THEN "done" ELSE "const"
        /\ phis' = phis /\ mov_instructs' = mov_instructs /\ queue' = queue
        /\ to_out_degree' = to_out_degree
    BY DEF ConstNext
  <1>3. /\ phis \in Seq(Phi) /\ Distinct /\ Collected /\ Settled
        /\ store \in [Loc -> Loc \union Const] /\ to_out_degree \in [Loc -> Nat]
        /\ \A k \in DOMAIN phis : Target(k) \in Loc /\ Source(k) \in Loc \union Const
        /\ Loc \intersect Const = {}
    BY <1>2, Constants
  <1>4. Pending = {} /\ Pending' = {}
    BY <1>2 DEF PhiInv, Pending
  <1>5. i \in DOMAIN phis /\ Source(i) \in Const /\ Source(i) \notin Loc
    BY <1>3 DEF Collected
  <1>6. store' = [store EXCEPT ![Target(i)] = Source(i)]
    BY <1>1, <1>5 DEF Mov, Source, Target
  <1>7. store' \in [Loc -> Loc \union Const]
    BY <1>3, <1>5, <1>6
  <1>8. Collected' /\ Distinct'
    BY <1>1, <1>2, <1>3, <1>4 DEF Collected, Distinct, Moved, Source, Target
  <1>9. Settled'
    <2>1. ASSUME NEW k \in DOMAIN phis \ const_movs' PROVE store'[Target(k)] = Source(k)
      <3>1. CASE k = i
        BY <1>3, <1>5, <1>6, <3>1
      <3>2. CASE k # i
        BY <1>1, <1>3, <1>4, <1>5, <1>6, <2>1, <3>2 DEF Settled, Distinct
      <3> QED BY <3>1, <3>2
    <2>2. ASSUME NEW l \in Loc \ Targets(DOMAIN phis) PROVE store'[l] = l
      BY <1>3, <1>5, <1>6 DEF Settled, Targets
    <2> QED BY <1>2, <1>4, <2>1, <2>2 DEF Settled, Targets, Target, Source
  <1> QED BY <1>2, <1>3, <1>4, <1>7, <1>8, <1>9 DEF PhiInv

LEMMA InitPhiInv ==
  ASSUME Init
  PROVE  PhiInv
  <1>1. PICK n \in 0..MaxPhis : phis \in [1..n -> Phi]
    BY DEF Init
  <1>2. phis \in Seq(Phi)
    BY <1>1, MaxPhisAssumption
  <1>3. Distinct
    BY DEF Init, Distinct, Target
  <1> QED BY <1>2, <1>3 DEF Init, PhiInv

LEMMA NextPhiInv ==
  ASSUME OneSlot, PhiInv, [Next]_vars
  PROVE  PhiInv'
  <1>1. CASE Next
    BY <1>1, CollectStep, MovNextStep, CycleStartStep, SwapNextStep, ConstStartStep,
       ConstNextStep DEF Next
  <1>2. CASE UNCHANGED vars
    <2>1. Collected' = Collected /\ Settled' = Settled /\ Distinct' = Distinct
      BY <1>2 DEF vars, Collected, Settled, Distinct, Targets, Source, Target, Moved, Pending
    <2>2. MovState' = MovState
      <3>1. SourcesIntact' = SourcesIntact /\ Cyclic(Pending)' = Cyclic(Pending)
        BY <1>2 DEF vars, SourcesIntact, Cyclic, SourcesDistinct, Sources, Targets, Source,
           Target, Pending
      <3>2. Counting' = Counting
        BY <1>2 DEF vars, Counting, Readers, Source, Target, Pending
      <3> QED BY <1>2, <3>1, <3>2 DEF vars, MovState
    <2>3. SwapState' = SwapState
      BY <1>2 DEF vars, SwapState, SourcesDistinct, Sources, Targets, Source, Target, Pending
    <2>4. Pending' = Pending
      BY <1>2 DEF vars, Pending
    <2> QED BY <1>2, <2>1, <2>2, <2>3, <2>4 DEF vars, PhiInv
  <1> QED BY <1>1, <1>2

\* A MOV takes the head off the queue and may add what reg_map returns.
LEMMA QueueType ==
  ASSUME NEW S, NEW q \in Seq(S), q # <<>>, NEW x \in S
  PROVE  Tail(q) \in Seq(S) /\ Append(Tail(q), x) \in Seq(S)
  <1>1. Tail(q) \in Seq(S)
    OBVIOUS
  <1> QED BY <1>1

LEMMA TypeStep ==
  ASSUME PhiInv, PhiInv', TypeOK, Next
  PROVE  TypeOK'
  <1> DEFINE Numbers == DOMAIN phis \union {Zero}
  <1>1. /\ phis' = phis /\ DOMAIN phis \subseteq Nat \ {0}
        /\ \A i \in DOMAIN phis : phis[i].reg \in Loc
    <2>1. phis' = phis
      BY DEF Next, Collect, MovNext, CycleStart, SwapNext, ConstStart, ConstNext
    <2> QED BY <2>1, PhiFacts DEF PhiInv, Target
  <1>2. /\ store' \in [Loc -> Loc \union Const] /\ to_out_degree' \in [Loc -> Nat]
        /\ step' \in {"collect", "mov", "swap", "const", "done", "undefined"}
    BY DEF PhiInv
  <1>3. /\ Collected'
    BY DEF PhiInv, Next, Collect, MovNext, CycleStart, SwapNext, ConstStart, ConstNext
  <1>4. \A l : reg_map(l) \in Numbers
    BY DEF reg_map, Moved
  <1>5. /\ Pending' \subseteq DOMAIN phis /\ const_movs' \subseteq DOMAIN phis
        /\ \A i \in Pending' : mov_instructs'[i] \in Loc
    BY <1>1, <1>3 DEF Collected, Moved, Source
  <1>6. mov_instructs' = [i \in Pending' |-> mov_instructs'[i]]
    BY DEF TypeOK, Pending, Without, Next, Collect, MovNext, CycleStart, SwapNext,
       ConstStart, ConstNext
  <1>7. mov_instructs' \in [Pending' -> Loc]
    BY <1>5, <1>6
  <1>8. queue' \in Seq(Numbers)
    <2>1. queue \in Seq(Numbers)
      BY DEF TypeOK
    <2>2. CASE Collect
      <3> DEFINE free == {i \in Moved : to_out_degree'[phis[i].reg] = 0}
      <3>1. queue' \in SetToSeqs(free)
        BY <2>2 DEF Collect, QueueFilled
      <3>2. IsFiniteSet(free) /\ free \in SUBSET Nat /\ free \subseteq Numbers
        BY PhiFacts, FS_Subset DEF PhiInv, Moved
      <3> HIDE DEF free
      <3>3. queue' \in [1..Cardinality(free) -> free] /\ Cardinality(free) \in Nat
        BY <3>1, <3>2, FS_CardinalityType DEF SetToSeqs
      <3>4. queue' \in [1..Cardinality(free) -> Numbers]
        BY <3>2, <3>3
      <3> QED BY <3>3, <3>4
    <2>3. CASE MovNext
      <3> DEFINE x == reg_map(mov_instructs[Head(queue)])
      <3>1. x \in Numbers
        BY <1>4
      <3>2. queue # <<>> /\ queue' \in {Tail(queue), Append(Tail(queue), x)}
        BY <2>3 DEF MovNext
      <3> HIDE DEF x, Numbers
      <3> QED BY <2>1, <3>1, <3>2, QueueType
    <2>4. CASE CycleStart \/ SwapNext \/ ConstStart \/ ConstNext
      BY <2>1, <2>4 DEF CycleStart, SwapNext, ConstStart, ConstNext
    <2> QED BY <2>2, <2>3, <2>4 DEF Next
  <1>9. /\ to' \in Numbers /\ from' \in Loc \union {Zero} /\ end' \in Loc \union {Zero}
    <2>1. CASE CycleStart
      <3>1. to' \in Pending' /\ end' \in Loc
        BY <2>1 DEF PhiInv, CycleStart, SwapState
      <3>2. Pending' = Pending /\ mov_instructs' = mov_instructs /\ from' = mov_instructs[to']
        BY <2>1 DEF CycleStart, Pending
      <3> QED BY <1>5, <3>1, <3>2
    <2>2. CASE SwapNext
      <3>1. to' \in Numbers /\ end' = end
        BY <1>4, <2>2 DEF SwapNext
      <3>2. from' = from \/ (to' \in Pending /\ from' = mov_instructs[to'])
        BY <2>2 DEF SwapNext
      <3> QED BY <3>1, <3>2 DEF TypeOK
    <2>3. CASE Collect \/ MovNext \/ ConstStart \/ ConstNext
      BY <2>3 DEF TypeOK, Collect, MovNext, ConstStart, ConstNext
    <2> QED BY <2>1, <2>2, <2>3 DEF Next
  <1> QED BY <1>1, <1>2, <1>5, <1>7, <1>8, <1>9 DEF TypeOK

LEMMA InitType ==
  ASSUME Init
  PROVE  TypeOK
  <1>1. PICK n \in 0..MaxPhis : phis \in [1..n -> Phi]
    BY DEF Init
  <1>2. phis \in Seq(Phi) /\ Len(phis) <= MaxPhis
    BY <1>1, MaxPhisAssumption
  <1>3. mov_instructs = <<>> /\ queue = <<>> /\ Pending = {}
    BY DEF Init, Pending
  <1> QED BY <1>2, <1>3 DEF Init, TypeOK

-----------------------------------------------------------------------------
(* The theorems.                                                           *)

\* The invariant of the module comment holds throughout the three loops of
\* insert_phi_copies.
THEOREM PhiInvariance ==
  ASSUME OneSlot
  PROVE  Spec => []PhiInv
  <1>1. Init => PhiInv
    BY InitPhiInv
  <1>2. PhiInv /\ [Next]_vars => PhiInv'
    BY NextPhiInv
  <1> QED BY <1>1, <1>2, PTL DEF Spec

\* The function's variables keep their types, and the undefined lookup behind
\* the SWAP loop is the only way they could fail to.
THEOREM PhiTypeCorrect ==
  ASSUME OneSlot
  PROVE  Spec => []TypeOK
  <1>1. Init => TypeOK
    BY InitType
  <1>2. PhiInv /\ PhiInv' /\ TypeOK /\ [Next]_vars => TypeOK'
    <2> SUFFICES ASSUME PhiInv, PhiInv', TypeOK, [Next]_vars PROVE TypeOK'
      OBVIOUS
    <2>1. CASE UNCHANGED vars
      BY <2>1 DEF vars, TypeOK, Pending
    <2> QED BY <2>1, TypeStep
  <1> QED BY <1>1, <1>2, PhiInvariance, PTL DEF Spec

\* The SWAP loop only ever meets disjoint cycles, so that the lookup behind it,
\* which has no defined result for a PHI that is not there, always succeeds.
THEOREM CyclesOnly ==
  ASSUME OneSlot
  PROVE  Spec => []OnlyCyclesLeft
  <1>1. PhiInv => OnlyCyclesLeft
    <2> SUFFICES ASSUME PhiInv, step = "mov", queue = <<>>
                 PROVE  /\ {phis[i].reg : i \in Pending} = {mov_instructs[i] : i \in Pending}
                        /\ \A i, j \in Pending : mov_instructs[i] = mov_instructs[j] => i = j
      BY DEF OnlyCyclesLeft
    <2>1. Cyclic(Pending)
      BY QueueEmpty
    <2>2. \A i \in Pending : mov_instructs[i] = Source(i)
      BY Constants
    <2>3. {phis[i].reg : i \in Pending} = Targets(Pending)
      BY DEF Targets, Target
    <2>4. {mov_instructs[i] : i \in Pending} = Sources(Pending)
      BY <2>2 DEF Sources
    <2>5. \A i, j \in Pending : mov_instructs[i] = mov_instructs[j] => i = j
      BY <2>1, <2>2 DEF Cyclic, SourcesDistinct
    <2> QED BY <2>1, <2>3, <2>4, <2>5 DEF Cyclic
  <1> QED BY <1>1, PhiInvariance, PTL

\* The inserted code does on the edge what the PHIs of the block promise: all of
\* them read their arguments before any of them is written.
THEOREM CopiesInParallel ==
  ASSUME OneSlot
  PROVE  Spec => ImplementsParallelCopy
  <1> DEFINE copies == [l \in {phis[i].reg : i \in DOMAIN phis} |->
                          phis[CHOOSE i \in DOMAIN phis : phis[i].reg = l].arg]
  <1>1. Init => Promised!PCInit
    <2> SUFFICES ASSUME Init PROVE Promised!PCInit
      OBVIOUS
    <2>1. /\ phis \in Seq(Phi) /\ Distinct /\ step = "collect"
      BY InitPhiInv DEF Init, PhiInv
    <2>2. \A i \in DOMAIN phis : phis[i].reg \in Loc /\ phis[i].arg \in Loc \union Const
      BY <2>1, PhiFacts DEF Source, Target
    <2>3. \A l \in DOMAIN copies : copies[l] \in Loc \union Const
      BY <2>2
    <2>4. DOMAIN copies \in SUBSET Loc /\ copies \in [DOMAIN copies -> Loc \union Const]
      BY <2>2, <2>3
    <2> HIDE DEF copies
    <2>5. \E D \in SUBSET Loc : copies \in [D -> Loc \union Const]
      BY <2>4
    <2> QED BY <2>1, <2>5 DEF Promised!PCInit, Promised!Before, copies
  <1>2. ASSUME PhiInv, PhiInv', [Next]_vars
        PROVE  [Promised!Copy]_(Promised!pc_vars)
    <2>1. phis' = phis /\ copies' = copies
      <3>1. phis' = phis
        BY <1>2 DEF Next, vars, Collect, MovNext, CycleStart, SwapNext, ConstStart, ConstNext
      <3> QED BY <3>1
    <2>2. CASE step = "done"
      <3>1. UNCHANGED vars
        BY <1>2, <2>2 DEF Next, Collect, MovNext, CycleStart, SwapNext, ConstStart, ConstNext
      <3> QED BY <2>1, <3>1 DEF vars, Promised!pc_vars, copies
    <2>3. CASE step # "done" /\ step' # "done"
      BY <2>1, <2>3 DEF Promised!pc_vars, copies
    <2>4. CASE step # "done" /\ step' = "done"
      <3>1. /\ Distinct /\ Settled' /\ store' \in [Loc -> Loc \union Const]
            /\ Pending' = {} /\ const_movs' = {}
        BY <1>2, <2>4 DEF PhiInv
      <3>2. \A i \in DOMAIN phis : store'[phis[i].reg] = phis[i].arg
        BY <2>1, <3>1 DEF Settled, Source, Target
      <3>3. \A l \in Loc \ DOMAIN copies : store'[l] = l
        BY <2>1, <3>1 DEF Settled, Targets, Target
      <3>4. \A l \in DOMAIN copies : store'[l] = copies[l]
        BY <3>2
      <3> HIDE DEF copies
      <3>5. store' = [l \in Loc |-> IF l \in DOMAIN copies THEN copies[l] ELSE l]
        BY <3>1, <3>3, <3>4
      <3> QED BY <2>1, <2>4, <3>5 DEF Promised!Copy, Promised!After, copies
    <2> QED BY <2>2, <2>3, <2>4
  <1> QED BY <1>1, <1>2, PhiInvariance, PTL
        DEF Spec, ImplementsParallelCopy, Promised!PCSpec

=============================================================================
