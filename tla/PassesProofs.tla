------------------------------ MODULE PassesProofs ------------------------------
(***************************************************************************)
(* Proofs about Passes, for source texts of every length and shape: no     *)
(* block is left out by the liveness analysis, the coloring or the         *)
(* emission, and the PHIs of a JOIN and of a closed loop are copied        *)
(* exactly once on each edge, with the arguments of that edge, which the   *)
(* liveness analysis kept alive, and in blocks that lead nowhere else.     *)
(*                                                                         *)
(* All three passes may refuse a block.  What makes up for it is the shape *)
(* of the graph, which ControlFlowProofs has established when they start:  *)
(*  - liveness: the block that lets another one be analyzed has it among   *)
(*    its predecessors and calls it;                                       *)
(*  - coloring: the colored blocks are closed in the dominator tree, so    *)
(*    that the dominator of a block with a colored predecessor is colored  *)
(*    (DomsOK) and the call from that predecessor is not refused;          *)
(*  - emission: predecessors have smaller indices and are in the same      *)
(*    function.                                                            *)
(*                                                                         *)
(* color_block() makes the calls for an edge when the second of its ends   *)
(* gets its registers, so that the calls made so far belong to the edges   *)
(* between colored blocks (Copied).  On which edge a call takes which      *)
(* arguments depends on the shape of the graph, which EdgeProofs has       *)
(* established when the passes start.                                      *)
(***************************************************************************)
EXTENDS Passes, EdgeProofs

Indexes == 0..(ir.size - 1)

LivenessInv ==
  /\ todo \in Seq(Indexes)
  /\ index \in 1..ir.size
  /\ analyzed \subseteq Blocks
  /\ \A b \in Blocks \ analyzed :
       \/ b \in Range(todo)
       \/ ~(Succs(ir, b) \subseteq analyzed)
       \/ Succs(ir, b) = {} /\ index <= b

ColoringInv ==
  /\ todo \in Seq(Indexes)
  /\ colored \in SUBSET Indexes /\ 0 \in colored
  /\ Closed(ir, colored)
  /\ \A b \in Blocks \ colored :
       Preds(ir, b) \intersect colored # {} => b \in Range(todo)

\* The blocks the emitter has dealt with, of which "todo" are the rest.
Emitted == {EmissionOrder[i] : i \in 1..(ir.size - 1 - Len(todo))}

EmissionInv ==
  /\ todo \in Seq(Nat) /\ Len(todo) <= ir.size - 1
  /\ \A i \in 1..Len(todo) : todo[i] = EmissionOrder[i + (ir.size - 1 - Len(todo))]
  /\ text \in Seq(Nat) /\ Range(text) = Emitted

PassesInv ==
  /\ Inv
  /\ pass # "parse" => phase = "done"
  /\ pass = "parse" => todo = <<>> /\ index = 1 /\ analyzed = {}
  /\ pass \in {"parse", "liveness", "coloring"} => text = <<>>
  /\ pass = "liveness" => LivenessInv
  /\ pass = "coloring" => ColoringInv
  /\ pass = "emission" => EmissionInv
  /\ EveryBlockAnalyzed
  /\ EveryBlockColored
  /\ EveryBlockEmitted
  /\ pass \in {"parse", "liveness", "coloring", "emission", "done"}

-----------------------------------------------------------------------------
LEMMA GreatestNumber ==
  ASSUME NEW n \in Nat, NEW S \in SUBSET (0..n), S # {}
  PROVE  \E i \in S : \A j \in S : j <= i
  <1> DEFINE T == {k \in 0..n : n - k \in S}
  <1>1. T \in SUBSET Nat /\ T # {}
    <2>1. PICK i \in S : i \in 0..n
      OBVIOUS
    <2>2. i \in Nat /\ i <= n
      BY <2>1
    <2>3. n - i \in 0..n /\ n - (n - i) = i
      BY <2>2
    <2> DEFINE k == n - i
    <2>4. k \in 0..n /\ n - k \in S
      BY <2>1, <2>3
    <2> HIDE DEF k
    <2>5. k \in T /\ \A m \in T : m \in Nat
      BY <2>4
    <2> HIDE DEF T
    <2> QED BY <2>5
  <1> HIDE DEF T
  <1>2. PICK k \in T : \A j \in T : k <= j
    BY <1>1, LeastNumber
  <1>3. k \in 0..n /\ n - k \in S
    BY DEF T
  <1>4. ASSUME NEW j \in S PROVE j <= n - k
    <2>1. j \in 0..n /\ n - j \in 0..n /\ n - (n - j) = j
      OBVIOUS
    <2>2. n - j \in T
      BY <2>1 DEF T
    <2> QED BY <1>2, <1>3, <2>1, <2>2
  <1> QED BY <1>3, <1>4

LEMMA HeadAndTail ==
  ASSUME NEW S, NEW q \in Seq(S), q # <<>>
  PROVE  /\ Head(q) \in S /\ Tail(q) \in Seq(S)
         /\ Head(q) = q[1]
         /\ Len(Tail(q)) = Len(q) - 1 /\ Len(q) \in Nat \ {0}
         /\ \A i \in 1..(Len(q) - 1) : Tail(q)[i] = q[i + 1]
         /\ Range(q) = {Head(q)} \union Range(Tail(q))
  <1>1. /\ Head(q) \in S /\ Tail(q) \in Seq(S) /\ Head(q) = q[1]
        /\ Len(Tail(q)) = Len(q) - 1 /\ Len(q) \in Nat \ {0}
        /\ \A i \in 1..(Len(q) - 1) : Tail(q)[i] = q[i + 1]
    OBVIOUS
  <1>2. Range(q) = {Head(q)} \union Range(Tail(q))
    <2>1. Range(q) = {q[i] : i \in 1..Len(q)}
      BY DEF Range
    <2>2. Range(Tail(q)) = {q[i + 1] : i \in 1..(Len(q) - 1)}
      <3>1. /\ DOMAIN Tail(q) = 1..(Len(q) - 1)
            /\ Range(Tail(q)) = {Tail(q)[i] : i \in DOMAIN Tail(q)}
        BY <1>1 DEF Range
      <3> QED BY <1>1, <3>1
    <2>3. ASSUME NEW x \in Range(q) PROVE x = q[1] \/ x \in Range(Tail(q))
      <3>1. PICK i \in 1..Len(q) : x = q[i]
        BY <2>1
      <3>2. i = 1 \/ (i - 1 \in 1..(Len(q) - 1) /\ (i - 1) + 1 = i)
        BY <1>1
      <3> QED BY <2>2, <3>1, <3>2
    <2>4. ASSUME NEW x \in Range(Tail(q)) PROVE x \in Range(q)
      <3>1. PICK i \in 1..(Len(q) - 1) : x = q[i + 1]
        BY <2>2
      <3>2. i + 1 \in 1..Len(q)
        BY <1>1
      <3> QED BY <2>1, <3>1, <3>2
    <2>5. q[1] \in Range(q)
      BY <1>1, <2>1
    <2> QED BY <1>1, <2>3, <2>4, <2>5
  <1> QED BY <1>1, <1>2

LEMMA RangeOfConcat ==
  ASSUME NEW S, NEW p \in Seq(S), NEW q \in Seq(S)
  PROVE  p \o q \in Seq(S) /\ Range(p \o q) = Range(p) \union Range(q)
  <1>1. /\ p \o q \in Seq(S) /\ Len(p \o q) = Len(p) + Len(q)
        /\ Len(p) \in Nat /\ Len(q) \in Nat
        /\ \A i \in 1..(Len(p) + Len(q)) :
             (p \o q)[i] = IF i <= Len(p) THEN p[i] ELSE q[i - Len(p)]
    BY ConcatProperties
  <1> DEFINE r == p \o q
  <1>2. /\ Range(p) = {p[i] : i \in 1..Len(p)}
        /\ Range(q) = {q[i] : i \in 1..Len(q)}
        /\ Range(r) = {r[i] : i \in 1..(Len(p) + Len(q))}
    BY <1>1 DEF Range
  <1>3. ASSUME NEW x \in Range(r) PROVE x \in Range(p) \union Range(q)
    <2>1. PICK i \in 1..(Len(p) + Len(q)) : x = r[i]
      BY <1>2
    <2>2. CASE i <= Len(p)
      BY <1>1, <1>2, <2>1, <2>2
    <2>3. CASE ~(i <= Len(p))
      <3>1. i - Len(p) \in 1..Len(q) /\ x = q[i - Len(p)]
        BY <1>1, <2>1, <2>3
      <3> QED BY <1>2, <3>1
    <2> QED BY <2>2, <2>3
  <1>4. ASSUME NEW x \in Range(p) PROVE x \in Range(r)
    <2>1. PICK i \in 1..Len(p) : x = p[i]
      BY <1>2
    <2>2. i \in 1..(Len(p) + Len(q)) /\ r[i] = p[i]
      BY <1>1
    <2> QED BY <1>2, <2>1, <2>2
  <1>5. ASSUME NEW x \in Range(q) PROVE x \in Range(r)
    <2>1. PICK i \in 1..Len(q) : x = q[i]
      BY <1>2
    <2>2. i + Len(p) \in 1..(Len(p) + Len(q)) /\ r[i + Len(p)] = q[i]
      <3>1. i + Len(p) \in 1..(Len(p) + Len(q)) /\ ~(i + Len(p) <= Len(p))
            /\ (i + Len(p)) - Len(p) = i
        BY <1>1
      <3> QED BY <1>1, <3>1
    <2> QED BY <1>2, <2>1, <2>2
  <1> QED BY <1>1, <1>3, <1>4, <1>5

LEMMA CallsInFront ==
  ASSUME NEW p \in Seq(Indexes), NEW q \in Seq(Indexes)
  PROVE  p \o q \in Seq(Indexes) /\ Range(p \o q) = Range(p) \union Range(q)
  BY RangeOfConcat

\* What the passes know of the graph when the Parser is done.
LEMMA FinishedGraph ==
  ASSUME IROK(ir)
  PROVE  /\ ir.size \in Nat \ {0} /\ Blocks \subseteq Indexes
         /\ Indexes = Blocks \union {0} /\ 0 \notin Blocks
         /\ \A b \in Indexes : /\ ir.blocks[b].successors \in Seq(Indexes)
                               /\ Succs(ir, b) \subseteq Blocks
         /\ \A b \in Blocks : /\ ir.blocks[b].predecessors \in Seq(Indexes)
                              /\ Preds(ir, b) \subseteq Indexes
                              /\ Preds(ir, b) # {}
                              /\ ir.doms[b] \in Indexes
                              /\ \A p \in Preds(ir, b) : p < b /\ b \in Succs(ir, p)
                              /\ \A s \in Succs(ir, b) : b < s /\ b \in Preds(ir, s)
  <1>1. ir.size \in Nat \ {0} /\ \A b \in Indexes : ir.blocks[b] \in BasicBlocks
    BY DEF IROK, IRType, Indexes
  <1>2. Blocks \subseteq Indexes /\ Indexes = Blocks \union {0} /\ 0 \notin Blocks
    BY <1>1 DEF Blocks, Indices, Indexes
  <1>3. GraphOK(ir)
    BY DEF IROK
  <1>4. \A b \in Indexes : Succs(ir, b) \subseteq Blocks
    BY <1>2, <1>3 DEF GraphOK, Blocks
  <1>5. ASSUME NEW b \in Blocks
        PROVE  /\ Preds(ir, b) \subseteq Indexes
               /\ Preds(ir, b) # {}
               /\ ir.doms[b] \in Indexes
               /\ \A p \in Preds(ir, b) : p < b /\ b \in Succs(ir, p)
               /\ \A s \in Succs(ir, b) : b < s /\ b \in Preds(ir, s)
    <2>1. /\ ir.doms[b] < b /\ Preds(ir, b) # {}
          /\ \A p \in Preds(ir, b) : p < b /\ b \in Succs(ir, p)
          /\ \A s \in Succs(ir, b) : b < s /\ b \in Preds(ir, s)
      BY <1>3 DEF GraphOK, Blocks
    <2>2. Preds(ir, b) \subseteq Nat /\ ir.doms[b] \in Nat /\ b \in Nat /\ b < ir.size
      BY <1>1, <1>2, NeighboursAreNaturals DEF IROK, IRType, Indexes
    <2> QED BY <1>1, <2>1, <2>2 DEF Indexes
  <1>6. ASSUME NEW q \in Seq(Nat), Range(q) \subseteq Indexes
        PROVE  q \in Seq(Indexes)
    <2>1. \A i \in 1..Len(q) : q[i] \in Indexes
      BY <1>6 DEF Range
    <2> QED BY <2>1
  <1>7. \A b \in Indexes : /\ ir.blocks[b].successors \in Seq(Nat)
                           /\ ir.blocks[b].predecessors \in Seq(Nat)
    BY <1>1 DEF BasicBlocks
  <1> QED BY <1>1, <1>2, <1>4, <1>5, <1>6, <1>7 DEF Preds, Succs

-----------------------------------------------------------------------------
(* The liveness analysis.                                                  *)

\* No more calls are made: a block that is left out would have a successor
\* that is left out, and the last one has none.
LEMMA AnalysisComplete ==
  ASSUME IROK(ir), LivenessInv, todo = <<>>, index = ir.size
  PROVE  analyzed = Blocks
  <1> DEFINE U == Blocks \ analyzed
  <1>1. U \in SUBSET (0..(ir.size - 1)) /\ ir.size - 1 \in Nat
    BY FinishedGraph DEF Indexes
  <1>2. ASSUME U # {} PROVE FALSE
    <2> HIDE DEF U
    <2>1. PICK b \in U : \A c \in U : c <= b
      BY <1>1, <1>2, GreatestNumber
    <2>2. b \in Blocks /\ b \notin Range(todo) /\ ~(index <= b)
      <3>1. Range(todo) = {}
        BY DEF LivenessInv, Range
      <3>2. b \in 0..(ir.size - 1)
        BY <1>1
      <3>3. ~(index <= b)
        BY <1>1, <3>2, FinishedGraph
      <3> QED BY <3>1, <3>3 DEF U
    <2>3. PICK s \in Succs(ir, b) : s \notin analyzed
      BY <2>1, <2>2 DEF LivenessInv, U
    <2>4. s \in Blocks /\ b < s
      BY <2>2, FinishedGraph
    <2>5. s \in U /\ s <= b
      BY <2>1, <2>3, <2>4 DEF U
    <2> QED BY <1>1, <2>1, <2>4, <2>5
  <1> QED BY <1>2 DEF LivenessInv

LEMMA LivenessSteps ==
  ASSUME IROK(ir), LivenessInv, UNCHANGED ir,
         liveness_analysis \/ SkipAnalysis \/ analyze_block
  PROVE  LivenessInv'
  <1>1. /\ Blocks' = Blocks /\ Indexes' = Indexes
        /\ \A c : Succs(ir', c) = Succs(ir, c)
    BY DEF Blocks, Indexes
  <1>2. CASE liveness_analysis
    <2>1. /\ todo = <<>> /\ index < ir.size /\ analyzed' = analyzed /\ index' = index + 1
          /\ todo' = IF Succs(ir, index) = {} THEN <<index>> ELSE <<>>
      BY <1>2 DEF liveness_analysis
    <2>2. index \in Indexes /\ index' \in 1..ir'.size /\ index \in Int
      BY <2>1, FinishedGraph DEF LivenessInv, Indexes
    <2>3. todo' \in Seq(Indexes)
      BY <2>1, <2>2
    <2>4. Range(todo) = {} /\ (Succs(ir, index) = {} => index \in Range(todo'))
      BY <2>1 DEF Range
    <2>5. ASSUME NEW c \in Blocks \ analyzed
          PROVE  \/ c \in Range(todo') \/ ~(Succs(ir, c) \subseteq analyzed)
                 \/ Succs(ir, c) = {} /\ index' <= c
      <3>1. c \in Int
        BY FinishedGraph DEF Indexes
      <3> QED BY <2>1, <2>2, <2>4, <3>1 DEF LivenessInv
    <2> QED BY <1>1, <2>1, <2>2, <2>3, <2>5 DEF LivenessInv
  <1>3. CASE SkipAnalysis
    <2> DEFINE b == Head(todo)
    <2>1. /\ todo # <<>> /\ todo' = Tail(todo) /\ analyzed' = analyzed /\ index' = index
          /\ b \in analyzed \/ b = 0 \/ ~(Succs(ir, b) \subseteq analyzed)
      BY <1>3 DEF SkipAnalysis, analyze_refused
    <2>2. todo' \in Seq(Indexes) /\ Range(todo) = {b} \union Range(todo')
      BY <2>1, HeadAndTail DEF LivenessInv
    <2>3. 0 \notin Blocks
      BY FinishedGraph
    <2> HIDE DEF b
    <2> QED BY <1>1, <2>1, <2>2, <2>3 DEF LivenessInv
  <1>4. CASE analyze_block
    <2> DEFINE b == Head(todo)
               ps == ir.blocks[b].predecessors
    <2>1. /\ todo # <<>> /\ analyzed' = analyzed \union {b} /\ index' = index
          /\ todo' = ps \o Tail(todo)
          /\ b \notin analyzed /\ b # 0
      BY <1>4 DEF analyze_block, analyze_refused
    <2>2. /\ b \in Indexes /\ Tail(todo) \in Seq(Indexes)
          /\ Range(todo) = {b} \union Range(Tail(todo))
      BY <2>1, HeadAndTail DEF LivenessInv
    <2>3. b \in Blocks /\ ps \in Seq(Indexes)
      BY <2>1, <2>2, FinishedGraph
    <2>4. todo' \in Seq(Indexes) /\ Range(todo') = Preds(ir, b) \union Range(Tail(todo))
      BY <2>1, <2>2, <2>3, CallsInFront DEF Preds
    <2> HIDE DEF b, ps
    <2>5. ASSUME NEW c \in Blocks \ analyzed'
          PROVE  \/ c \in Range(todo') \/ ~(Succs(ir, c) \subseteq analyzed')
                 \/ Succs(ir, c) = {} /\ index' <= c
      <3>1. b \in Succs(ir, c) => c \in Preds(ir, b)
        BY FinishedGraph
      <3>2. \/ c \in Range(todo) \/ ~(Succs(ir, c) \subseteq analyzed)
            \/ Succs(ir, c) = {} /\ index <= c
        BY <2>1 DEF LivenessInv
      <3> QED BY <2>1, <2>2, <2>4, <3>1, <3>2
    <2> QED BY <1>1, <2>1, <2>3, <2>4, <2>5 DEF LivenessInv
  <1> QED BY <1>2, <1>3, <1>4

-----------------------------------------------------------------------------
(* The coloring.                                                           *)

\* No more calls are made: the first block that is left out has a predecessor
\* before it, which would have called it.
LEMMA ColoringComplete ==
  ASSUME IROK(ir), ColoringInv, todo = <<>>
  PROVE  colored = Blocks \union {0}
  <1> DEFINE U == Blocks \ colored
  <1>1. U \in SUBSET Nat
    BY FinishedGraph DEF Indexes
  <1>2. ASSUME U # {} PROVE FALSE
    <2> HIDE DEF U
    <2>1. PICK b \in U : \A c \in U : b <= c
      BY <1>1, <1>2, LeastNumber
    <2>2. b \in Blocks \ colored /\ Range(todo) = {}
      BY <2>1 DEF U, ColoringInv, Range
    <2>3. PICK p \in Preds(ir, b) : p < b /\ p \in Blocks \union {0}
      BY <2>2, FinishedGraph
    <2>4. p \notin colored
      BY <2>2, <2>3 DEF ColoringInv
    <2>5. p \in U
      BY <2>3, <2>4 DEF U, ColoringInv
    <2> QED BY <1>1, <2>1, <2>3, <2>5
  <1> QED BY <1>2, FinishedGraph DEF ColoringInv

LEMMA ColoringStart ==
  ASSUME IROK(ir), UNCHANGED ir, StartColoring
  PROVE  ColoringInv'
  <1>1. /\ colored' = {0} /\ todo' = ir.blocks[0].successors
        /\ Blocks' = Blocks /\ Indexes' = Indexes
        /\ \A c : Preds(ir', c) = Preds(ir, c)
        /\ ir.doms[0] = 0
    BY DEF StartColoring, Blocks, Indexes, IROK, DomsOK
  <1>2. Closed(ir', colored')
    BY <1>1 DEF Closed
  <1>3. todo' \in Seq(Indexes) /\ Range(todo') = Succs(ir, 0) /\ 0 \in Indexes
    BY <1>1, FinishedGraph DEF Succs
  <1>4. \A b \in Blocks : 0 \in Preds(ir, b) => b \in Succs(ir, 0)
    BY FinishedGraph
  <1> QED BY <1>1, <1>2, <1>3, <1>4 DEF ColoringInv

LEMMA ColoringSteps ==
  ASSUME IROK(ir), ColoringInv, UNCHANGED ir, SkipColoring \/ color_block
  PROVE  ColoringInv'
  <1> DEFINE b == Head(todo)
             succs == ir.blocks[b].successors
  <1>1. /\ Blocks' = Blocks /\ Indexes' = Indexes
        /\ \A c : Preds(ir', c) = Preds(ir, c)
    BY DEF Blocks, Indexes
  <1>2. todo # <<>>
    BY DEF SkipColoring, color_block
  <1>3. /\ b \in Indexes /\ Tail(todo) \in Seq(Indexes)
        /\ Range(todo) = {b} \union Range(Tail(todo))
    BY <1>2, HeadAndTail DEF ColoringInv
  <1>4. CASE SkipColoring
    <2>1. /\ todo' = Tail(todo) /\ colored' = colored
          /\ ir.doms[b] \notin colored \/ b \in colored
      BY <1>4 DEF SkipColoring, color_refused
    <2> HIDE DEF b
    <2>2. b \notin colored => Preds(ir, b) \intersect colored = {}
      <3>1. b \notin colored => b \in Indices(ir)
        BY <1>3, FinishedGraph DEF ColoringInv, Blocks
      <3> QED BY <2>1, <3>1 DEF ColoringInv, IROK, DomsOK, Indexes
    <2>3. Closed(ir', colored')
      BY <2>1 DEF ColoringInv
    <2> QED BY <1>1, <1>3, <2>1, <2>2, <2>3 DEF ColoringInv
  <1>5. CASE color_block
    <2>1. /\ todo' = succs \o Tail(todo) /\ colored' = colored \union {b}
          /\ ir.doms[b] \in colored
      BY <1>5 DEF color_block, color_refused
    <2>2. succs \in Seq(Indexes)
      BY <1>3, FinishedGraph
    <2>3. todo' \in Seq(Indexes) /\ Range(todo') = Succs(ir, b) \union Range(Tail(todo))
      BY <1>3, <2>1, <2>2, CallsInFront DEF Succs
    <2> HIDE DEF b, succs
    <2>4. Closed(ir', colored')
      BY <2>1 DEF ColoringInv, Closed
    <2>5. ASSUME NEW c \in Blocks \ colored', Preds(ir, c) \intersect colored' # {}
          PROVE  c \in Range(todo')
      <3>1. b \in Preds(ir, c) => c \in Succs(ir, b)
        BY FinishedGraph
      <3>2. Preds(ir, c) \intersect colored # {} => c \in Range(todo)
        BY <2>1 DEF ColoringInv
      <3> QED BY <1>3, <2>1, <2>3, <2>5, <3>1, <3>2
    <2> QED BY <1>1, <1>3, <2>1, <2>3, <2>4, <2>5 DEF ColoringInv
  <1> QED BY <1>4, <1>5

-----------------------------------------------------------------------------
(* The emission.                                                           *)

LEMMA EmissionStart ==
  ASSUME IROK(ir), entry \in Blocks, text = <<>>, UNCHANGED <<ir, entry>>, StartEmission
  PROVE  EmissionInv'
  <1> DEFINE n == ir.size - 1
  <1>1. /\ todo' = EmissionOrder /\ text' = text /\ ir' = ir
        /\ EmissionOrder' = EmissionOrder
    BY DEF StartEmission, EmissionOrder, Blocks
  <1>2. /\ n \in Nat /\ ir.size \in Nat /\ entry \in 1..n /\ Blocks = 1..n
    BY FinishedGraph DEF Blocks, Indices
  <1>3. EmissionOrder \in Seq(Nat) /\ Len(EmissionOrder) = n
    <2>1. EmissionOrder \in [1..n -> Nat]
      BY <1>2 DEF EmissionOrder
    <2> QED BY <1>2, <2>1
  <1>4. \A i \in 1..n : i + (n - n) = i
    BY <1>2
  <1>5. n - n = 0 /\ 1..0 = {}
    BY <1>2
  <1>6. Emitted' = {}
    BY <1>1, <1>3, <1>5 DEF Emitted
  <1>7. Range(text') = {} /\ text' \in Seq(Nat)
    BY <1>1 DEF Range
  <1> QED BY <1>1, <1>2, <1>3, <1>4, <1>6, <1>7 DEF EmissionInv

\* The predecessors of the block whose turn it is have had theirs.
LEMMA PredecessorsEmitted ==
  ASSUME IROK(ir), entry \in Succs(ir, 0), NEW i \in Blocks,
         NEW p \in Preds(ir, EmissionOrder[i]), p # 0
  PROVE  \E j \in 1..(i - 1) : p = EmissionOrder[j]
  <1> DEFINE b == EmissionOrder[i]
             n == ir.size - 1
             m == ir.size - entry
  <1>1. n \in Nat /\ ir.size \in Nat /\ entry \in 1..n /\ Blocks = 1..n
    BY FinishedGraph DEF Blocks, Indices, Indexes
  <1>2. \A j \in 1..n : EmissionOrder[j] = IF j <= m THEN entry + j - 1 ELSE j - m
    BY <1>1 DEF EmissionOrder
  <1>3. b \in Blocks
    BY <1>1, <1>2
  <1> HIDE DEF b
  <1>4. p < b /\ SameFunction(ir, p, b) /\ p \in 1..n
    <2>1. p < b /\ SameFunction(ir, p, b)
      BY <1>3 DEF IROK, GraphOK, Blocks, b
    <2>2. p \in Blocks
      BY <1>3, FinishedGraph DEF b
    <2> QED BY <1>1, <2>1, <2>2
  <1>5. entry <= p <=> entry <= b
    BY <1>4 DEF SameFunction
  <1>6. CASE i <= m
    <2>1. b = entry + i - 1 /\ entry <= p
      BY <1>1, <1>2, <1>5, <1>6 DEF b
    <2> DEFINE j == p - entry + 1
    <2>2. j \in 1..(i - 1) /\ j \in 1..n /\ j <= m /\ entry + j - 1 = p
      BY <1>1, <1>4, <1>6, <2>1
    <2> QED BY <1>2, <2>2
  <1>7. CASE ~(i <= m)
    <2>1. b = i - m /\ ~(entry <= p)
      BY <1>1, <1>2, <1>5, <1>7 DEF b
    <2> DEFINE j == p + m
    <2>2. j \in 1..(i - 1) /\ j \in 1..n /\ ~(j <= m) /\ j - m = p
      BY <1>1, <1>4, <1>7, <2>1
    <2> QED BY <1>2, <2>2
  <1> QED BY <1>6, <1>7

LEMMA EmissionStep ==
  ASSUME IROK(ir), entry \in Succs(ir, 0), EmissionInv, UNCHANGED <<ir, entry>>, block
  PROVE  EmissionInv'
  <1> DEFINE b == Head(todo)
             n == ir.size - 1
             k == n - Len(todo)
  <1>1. /\ todo # <<>> /\ todo' = Tail(todo) /\ ir' = ir
        /\ text' = IF Preds(ir, b) \ {0} \subseteq Range(text) THEN Append(text, b) ELSE text
        /\ EmissionOrder' = EmissionOrder
    BY DEF block, EmissionOrder, Blocks
  <1>2. /\ todo' \in Seq(Nat) /\ Len(todo') = Len(todo) - 1 /\ Len(todo) \in Nat \ {0}
        /\ b = todo[1] /\ b \in Nat
        /\ \A i \in 1..(Len(todo) - 1) : todo'[i] = todo[i + 1]
    BY <1>1, HeadAndTail DEF EmissionInv
  <1>3. n \in Nat /\ Blocks = 1..n /\ Len(todo) <= n
    BY FinishedGraph DEF Blocks, Indices, EmissionInv
  <1>4. k \in Nat /\ k + 1 \in Blocks /\ n - Len(todo') = k + 1
    BY <1>2, <1>3
  <1>5. b = EmissionOrder[k + 1]
    <2>1. 1 + k = k + 1 /\ 1 \in 1..Len(todo)
      BY <1>2, <1>4
    <2> QED BY <1>2, <2>1 DEF EmissionInv
  <1>6. Range(text) = {EmissionOrder[i] : i \in 1..k}
    BY DEF EmissionInv, Emitted
  <1> HIDE DEF b
  <1>7. Preds(ir, b) \ {0} \subseteq Range(text)
    <2> SUFFICES ASSUME NEW p \in Preds(ir, b), p # 0 PROVE p \in Range(text)
      OBVIOUS
    <2>1. (k + 1) - 1 = k
      BY <1>4
    <2>2. PICK j \in 1..((k + 1) - 1) : p = EmissionOrder[j]
      BY <1>4, <1>5, PredecessorsEmitted
    <2> QED BY <1>6, <2>1, <2>2
  <1>8. text \in Seq(Nat)
    BY DEF EmissionInv
  <1>9. text' = Append(text, b) /\ text' \in Seq(Nat)
    BY <1>1, <1>2, <1>7, <1>8
  <1>10. Range(text') = Range(text) \union {b}
    <2>1. Range(Append(text, b)) = Range(text) \union {b}
      BY <1>2, <1>8, RangeOfAppend
    <2> QED BY <1>9, <2>1
  <1>11. Emitted' = {EmissionOrder[i] : i \in 1..(k + 1)}
    BY <1>1, <1>4 DEF Emitted
  <1>12. Range(text') = Emitted'
    <2>1. \A i : i \in 1..(k + 1) <=> i \in 1..k \/ i = k + 1
      BY <1>4
    <2> QED BY <1>5, <1>6, <1>10, <1>11, <2>1
  <1>13. ASSUME NEW i \in 1..Len(todo')
         PROVE  todo'[i] = EmissionOrder'[i + (ir'.size - 1 - Len(todo'))]
    <2>0. i \in 1..(Len(todo) - 1) /\ i + 1 \in 1..Len(todo)
      BY <1>2
    <2>1. i \in 1..(Len(todo) - 1) /\ i + 1 \in 1..Len(todo) /\ (i + 1) + k = i + (k + 1)
      <3> HIDE DEF k
      <3> QED BY <1>4, <2>0
    <2>2. todo'[i] = todo[i + 1]
      BY <1>2, <2>1
    <2>3. \A j \in 1..Len(todo) : todo[j] = EmissionOrder[j + k]
      BY DEF EmissionInv
    <2>4. todo[i + 1] = EmissionOrder[(i + 1) + k]
      <3> HIDE DEF k
      <3> QED BY <2>1, <2>3
    <2> QED BY <1>1, <1>4, <2>1, <2>2, <2>4
  <1>14. Len(todo') <= ir'.size - 1
    BY <1>1, <1>2, <1>3
  <1> QED BY <1>2, <1>9, <1>12, <1>13, <1>14 DEF EmissionInv

LEMMA EmissionComplete ==
  ASSUME IROK(ir), entry \in Blocks, EmissionInv, todo = <<>>
  PROVE  Range(text) = Blocks
  <1> DEFINE n == ir.size - 1
             m == ir.size - entry
  <1>1. n \in Nat /\ ir.size \in Nat /\ entry \in 1..n /\ Blocks = 1..n
    BY FinishedGraph DEF Blocks, Indices, Indexes
  <1>2. \A j \in 1..n : EmissionOrder[j] = IF j <= m THEN entry + j - 1 ELSE j - m
    BY <1>1 DEF EmissionOrder
  <1>3. Range(text) = {EmissionOrder[i] : i \in 1..n}
    <2>1. n - Len(todo) = n
      <3>1. Len(todo) = 0
        OBVIOUS
      <3> QED BY <1>1, <3>1
    <2> QED BY <2>1 DEF EmissionInv, Emitted
  <1>4. \A j \in 1..n : EmissionOrder[j] \in 1..n
    BY <1>1, <1>2
  <1>5. ASSUME NEW b \in 1..n PROVE \E j \in 1..n : EmissionOrder[j] = b
    <2>1. CASE entry <= b
      <3>1. b - entry + 1 \in 1..n /\ b - entry + 1 <= m /\ entry + (b - entry + 1) - 1 = b
        BY <1>1, <2>1
      <3> QED BY <1>2, <3>1
    <2>2. CASE ~(entry <= b)
      <3>1. b + m \in 1..n /\ ~(b + m <= m) /\ (b + m) - m = b
        BY <1>1, <2>2
      <3> QED BY <1>2, <3>1
    <2> QED BY <2>1, <2>2
  <1> QED BY <1>1, <1>3, <1>4, <1>5

-----------------------------------------------------------------------------
(* The steps.                                                              *)

LEMMA ParseStep ==
  ASSUME PassesInv, Parse
  PROVE  PassesInv'
  <1>1. /\ pass = "parse" /\ Inv /\ [Next]_vars
        /\ UNCHANGED <<pass, todo, index, analyzed, alive, colored, copies, text>>
    BY DEF Parse, PassesInv, pass_vars
  <1>2. Inv'
    BY <1>1, NextInv
  <1>3. EveryBlockAnalyzed' /\ EveryBlockColored' /\ EveryBlockEmitted'
    BY <1>1 DEF EveryBlockAnalyzed, EveryBlockColored, EveryBlockEmitted
  <1> QED BY <1>1, <1>2, <1>3 DEF PassesInv

\* The parser has finished and its state stays as it is.
LEMMA LaterStep ==
  ASSUME PassesInv, phase = "done", UNCHANGED vars
  PROVE  /\ Inv' /\ phase' = "done" /\ IROK(ir) /\ UNCHANGED <<ir, entry>>
         /\ Blocks' = Blocks
         /\ entry \in Succs(ir, 0) /\ entry \in Blocks
  <1>1. /\ Inv /\ UNCHANGED <<ir, curr_block, ignore, while_loop, frames, entry, phase, pos>>
    BY DEF PassesInv, vars
  <1>2. Inv'
    <2>1. [Next]_vars
      OBVIOUS
    <2> QED BY <1>1, <2>1, NextInv
  <1>3. IROK(ir) /\ entry \in Succs(ir, 0)
    BY <1>1 DEF Inv
  <1>4. Blocks' = Blocks
    BY <1>1 DEF Blocks
  <1>5. entry \in Blocks
    BY <1>3, FinishedGraph DEF Indexes
  <1> QED BY <1>1, <1>2, <1>3, <1>4, <1>5

LEMMA LivenessPhase ==
  ASSUME PassesInv,
         StartLiveness \/ liveness_analysis \/ SkipAnalysis \/ analyze_block
  PROVE  PassesInv'
  <1>1. /\ phase = "done" /\ UNCHANGED vars /\ pass' = "liveness" /\ text' = text
        /\ pass \in {"parse", "liveness"}
    BY DEF StartLiveness, liveness_analysis, SkipAnalysis, analyze_block, PassesInv
  <1>2. Inv' /\ phase' = "done" /\ IROK(ir) /\ UNCHANGED ir /\ Blocks' = Blocks
    BY <1>1, LaterStep
  <1>3. LivenessInv'
    <2>1. CASE StartLiveness
      <3>1. todo' = <<>> /\ index' = 1 /\ analyzed' = {} /\ ir' = ir
        BY <1>2, <2>1 DEF StartLiveness, PassesInv
      <3>2. 1 \in 1..ir.size /\ \A b \in Blocks : 1 <= b
        BY <1>2, FinishedGraph DEF Blocks, Indices
      <3>3. \A b : Succs(ir', b) = Succs(ir, b)
        BY <3>1
      <3>4. todo' \in Seq(Indexes')
        BY <3>1
      <3> QED BY <1>2, <3>1, <3>2, <3>3, <3>4 DEF LivenessInv
    <2>2. CASE liveness_analysis \/ SkipAnalysis \/ analyze_block
      <3>1. LivenessInv
        BY <2>2, Zenon DEF PassesInv, liveness_analysis, SkipAnalysis, analyze_block
      <3> QED BY <1>2, <2>2, <3>1, LivenessSteps, Zenon
    <2> QED BY <2>1, <2>2
  <1>4. text' = <<>>
    BY <1>1 DEF PassesInv
  <1> QED BY <1>1, <1>2, <1>3, <1>4
      DEF PassesInv, EveryBlockAnalyzed, EveryBlockColored, EveryBlockEmitted

LEMMA ColoringPhase ==
  ASSUME PassesInv, StartColoring \/ SkipColoring \/ color_block
  PROVE  PassesInv'
  <1>1. /\ phase = "done" /\ UNCHANGED vars /\ pass' = "coloring" /\ text' = text
        /\ analyzed' = analyzed /\ pass \in {"liveness", "coloring"}
    BY Zenon DEF StartColoring, SkipColoring, color_block, PassesInv
  <1>2. Inv' /\ phase' = "done" /\ IROK(ir) /\ UNCHANGED ir /\ Blocks' = Blocks
    BY <1>1, LaterStep
  <1>3. ColoringInv' /\ analyzed = Blocks
    <2>1. CASE StartColoring
      <3>1. LivenessInv /\ todo = <<>> /\ index = ir.size
        BY <2>1 DEF StartColoring, PassesInv
      <3> QED BY <1>2, <2>1, <3>1, AnalysisComplete, ColoringStart
    <2>2. CASE SkipColoring \/ color_block
      <3>1. ColoringInv /\ analyzed = Blocks
        BY <2>2, Zenon DEF PassesInv, SkipColoring, color_block, EveryBlockAnalyzed
      <3> QED BY <1>2, <2>2, <3>1, ColoringSteps
    <2> QED BY <2>1, <2>2
  <1>4. text' = <<>>
    BY <1>1 DEF PassesInv
  <1> QED BY <1>1, <1>2, <1>3, <1>4
      DEF PassesInv, EveryBlockAnalyzed, EveryBlockColored, EveryBlockEmitted

LEMMA EmissionPhase ==
  ASSUME PassesInv, StartEmission \/ block \/ Finish
  PROVE  PassesInv'
  <1>1. /\ phase = "done" /\ UNCHANGED vars /\ UNCHANGED <<analyzed, colored>>
        /\ pass \in {"coloring", "emission"} /\ analyzed = Blocks
        /\ pass = "emission" => colored = Blocks \union {0} /\ EmissionInv
        /\ pass = "coloring" => text = <<>> /\ ColoringInv
    BY DEF StartEmission, block, Finish, PassesInv, EveryBlockAnalyzed, EveryBlockColored
  <1>2. /\ Inv' /\ phase' = "done" /\ IROK(ir) /\ UNCHANGED <<ir, entry>> /\ Blocks' = Blocks
        /\ entry \in Succs(ir, 0) /\ entry \in Blocks
    BY <1>1, LaterStep
  <1>3. colored = Blocks \union {0}
    <2>1. pass = "coloring" => todo = <<>>
      BY DEF StartEmission, block, Finish
    <2> QED BY <1>1, <1>2, <2>1, ColoringComplete
  <1>4. EveryBlockAnalyzed' /\ EveryBlockColored'
    BY <1>1, <1>2, <1>3 DEF EveryBlockAnalyzed, EveryBlockColored
  <1>5. CASE StartEmission \/ block
    <2>1. pass' = "emission"
      BY <1>5 DEF StartEmission, block
    <2>2. EmissionInv'
      <3>1. CASE StartEmission
        <4>1. text = <<>>
          BY <1>1, <3>1 DEF StartEmission
        <4> QED BY <1>2, <3>1, <4>1, EmissionStart
      <3>2. CASE block
        <4>1. EmissionInv
          BY <1>1, <3>2 DEF block
        <4> QED BY <1>2, <3>2, <4>1, EmissionStep
      <3> QED BY <1>5, <3>1, <3>2
    <2> QED BY <1>2, <1>4, <2>1, <2>2 DEF PassesInv, EveryBlockEmitted
  <1>6. CASE Finish
    <2>1. pass' = "done" /\ text' = text /\ todo = <<>> /\ EmissionInv
      BY <1>1, <1>6 DEF Finish
    <2>2. Range(text') = Blocks'
      BY <1>2, <2>1, EmissionComplete
    <2> QED BY <1>2, <1>4, <2>1, <2>2 DEF PassesInv, EveryBlockEmitted
  <1> QED BY <1>5, <1>6

LEMMA PassesInitInv ==
  ASSUME PassesInit
  PROVE  PassesInv
  <1>1. Inv
    BY InitInv DEF PassesInit
  <1>2. pass = "parse" /\ todo = <<>> /\ index = 1 /\ analyzed = {} /\ text = <<>>
    BY DEF PassesInit
  <1> QED BY <1>1, <1>2
      DEF PassesInv, EveryBlockAnalyzed, EveryBlockColored, EveryBlockEmitted

LEMMA PassesNextInv ==
  ASSUME PassesInv, [PassesNext]_all_vars
  PROVE  PassesInv'
  <1>1. CASE PassesNext
    BY <1>1, ParseStep, LivenessPhase, ColoringPhase, EmissionPhase DEF PassesNext
  <1>2. CASE UNCHANGED all_vars
    <2>1. UNCHANGED vars /\ Inv /\ UNCHANGED pass_vars
      BY <1>2 DEF all_vars, PassesInv
    <2>2. Inv'
      <3>1. [Next]_vars
        BY <2>1
      <3> QED BY <2>1, <3>1, NextInv
    <2>3. /\ UNCHANGED <<ir, entry, phase>>
          /\ UNCHANGED <<pass, todo, index, analyzed, alive, colored, copies, text>>
      BY <2>1 DEF vars, pass_vars
    <2>4. Blocks' = Blocks /\ Indexes' = Indexes /\ EmissionOrder' = EmissionOrder
      BY <2>3 DEF Blocks, Indexes, EmissionOrder
    <2>5. LivenessInv' = LivenessInv /\ ColoringInv' = ColoringInv
      BY <2>3, <2>4 DEF LivenessInv, ColoringInv
    <2>6. EmissionInv' = EmissionInv
      BY <2>3, <2>4 DEF EmissionInv, Emitted
    <2> QED BY <2>2, <2>3, <2>4, <2>5, <2>6
        DEF PassesInv, EveryBlockAnalyzed, EveryBlockColored, EveryBlockEmitted
  <1> QED BY <1>1, <1>2

-----------------------------------------------------------------------------
(* The theorems.                                                           *)

\* The invariant of the module comment holds from the first statement of the
\* text to the last block that is emitted.
THEOREM PassesInvariance == PassesSpec => []PassesInv
  <1>1. PassesInit => PassesInv
    BY PassesInitInv
  <1>2. PassesInv /\ [PassesNext]_all_vars => PassesInv'
    BY PassesNextInv
  <1> QED BY <1>1, <1>2, PTL DEF PassesSpec

\* When coloring starts, every block has been analyzed: the recursion of
\* analyze_block(), which refuses a block with a successor that is not analyzed
\* yet, has come back to each of them.
THEOREM AllAnalyzed == PassesSpec => []EveryBlockAnalyzed
  <1>1. PassesInv => EveryBlockAnalyzed
    BY DEF PassesInv
  <1> QED BY <1>1, PassesInvariance, PTL

\* When emission starts, every block has been colored: color_block() refuses a
\* block before its immediate dominator, but never the last call for a block.
THEOREM AllColored == PassesSpec => []EveryBlockColored
  <1>1. PassesInv => EveryBlockColored
    BY DEF PassesInv
  <1> QED BY <1>1, PassesInvariance, PTL

\* Every block of every function is emitted, although block() gives up for good
\* on one with a predecessor that is not.
THEOREM AllEmitted == PassesSpec => []EveryBlockEmitted
  <1>1. PassesInv => EveryBlockEmitted
    BY DEF PassesInv
  <1> QED BY <1>1, PassesInvariance, PTL

-----------------------------------------------------------------------------
(* The copies of the PHIs.                                                 *)

CallSides == {"left", "right"}
Calls == Indexes \X Indexes \X CallSides

\* p and c are the ends of an edge between blocks of D, or p, in D, is the end
\* of a loop and c the header it jumps back to.
Called(D, p, c) ==
  \/ p \in D \intersect Blocks /\ is_branch_back(ir, p) /\ c = ir.blocks[p].loop_header
  \/ c \in D \intersect Blocks /\ p \in D \intersect Preds(ir, c)

\* q holds the calls for the blocks of D, each of them once.
Copied(q, D) ==
  /\ q \in Seq(Calls) /\ IsInjective(q)
  /\ \A x \in Range(q) : x = implement_phi_copies(x[1], x[2])
  /\ \A p, c \in Indexes : implement_phi_copies(p, c) \in Range(q) <=> Called(D, p, c)

\* What is alive at the ends of the blocks that are analyzed.
KeptAlive == \A b \in analyzed : get_phi_liveness(b) \subseteq alive

CopyInv ==
  /\ PassesInv
  /\ EInv
  /\ pass \in {"parse", "liveness"} => copies = <<>>
  /\ pass \notin {"parse", "liveness"} => Copied(copies, colored)
  /\ KeptAlive

-----------------------------------------------------------------------------
(* The blocks of a sequence that are colored.                              *)

AmongIteration(q, D, n, g) ==
  g = [i \in 0..n |-> IF i = 0 THEN <<>>
                      ELSE IF q[i] \in D THEN Append(g[i - 1], q[i]) ELSE g[i - 1]]

LEMMA AmongIterationExists ==
  ASSUME NEW q, NEW D, NEW n \in Nat
  PROVE  \E g : AmongIteration(q, D, n, g)
  <1> DEFINE T == {m \in Nat : ~ \E g : AmongIteration(q, D, m, g)}
             Step(g, k) == IF q[k] \in D THEN Append(g[k - 1], q[k]) ELSE g[k - 1]
  <1> SUFFICES ASSUME T # {}
               PROVE  FALSE
    OBVIOUS
  <1>1. PICK m \in T : \A k \in T : m <= k
    <2> HIDE DEF T
    <2>1. T \subseteq Nat
      BY DEF T
    <2> QED BY <2>1, LeastNumber
  <1>2. m \in Nat /\ ~ \E g : AmongIteration(q, D, m, g)
    BY <1>1
  <1>3. CASE m = 0
    <2> DEFINE g == [k \in 0..0 |-> <<>>]
    <2>1. AmongIteration(q, D, 0, g)
      BY DEF AmongIteration
    <2> QED BY <1>2, <1>3, <2>1
  <1>4. CASE m # 0
    <2>1. m - 1 \in Nat /\ m - 1 \notin T
      BY <1>1, <1>2, <1>4
    <2>2. PICK h : AmongIteration(q, D, m - 1, h)
      BY <2>1
    <2> DEFINE g == [k \in 0..m |-> IF k = m THEN Step(h, m) ELSE h[k]]
    <2>3. \A k \in 0..(m - 1) : h[k] = IF k = 0 THEN <<>> ELSE Step(h, k)
      BY <2>2 DEF AmongIteration
    <2>4. \A k \in 0..m : g[k] = IF k = 0 THEN <<>> ELSE Step(g, k)
      <3> TAKE k \in 0..m
      <3>1. CASE k = m
        <4>1. g[k] = Step(h, m) /\ g[k - 1] = h[m - 1] /\ k # 0
          BY <1>2, <1>4, <3>1
        <4> QED BY <3>1, <4>1
      <3>2. CASE k # m /\ k # 0
        <4>1. k \in 0..(m - 1) /\ g[k] = h[k] /\ g[k - 1] = h[k - 1]
          BY <1>2, <3>2
        <4> QED BY <2>3, <3>2, <4>1
      <3>3. CASE k # m /\ k = 0
        <4>1. k \in 0..(m - 1) /\ g[k] = h[k]
          BY <1>2, <3>3
        <4> QED BY <2>3, <3>3, <4>1
      <3> QED BY <3>1, <3>2, <3>3
    <2>5. AmongIteration(q, D, m, g)
      <3> HIDE DEF g
      <3>1. g = [k \in 0..m |-> g[k]]
        BY DEF g
      <3> QED BY <2>4, <3>1 DEF AmongIteration
    <2> QED BY <1>2, <2>5
  <1> QED BY <1>3, <1>4

LEMMA AppendKeepsInjective ==
  ASSUME NEW S, NEW q \in Seq(S), IsInjective(q), NEW x \in S, x \notin Range(q)
  PROVE  IsInjective(Append(q, x))
  <1> DEFINE r == Append(q, x)
             n == Len(q)
  <1>1. /\ n \in Nat /\ DOMAIN q = 1..n /\ DOMAIN r = 1..(n + 1)
        /\ \A i \in 1..n : r[i] = q[i]
        /\ r[n + 1] = x
    OBVIOUS
  <1>2. \A i \in 1..n : q[i] # x
    BY <1>1 DEF Range
  <1> HIDE DEF r, n
  <1>3. ASSUME NEW i \in 1..(n + 1), NEW j \in 1..(n + 1), r[i] = r[j]
        PROVE  i = j
    <2>1. \A k \in 1..(n + 1) : k \in 1..n \/ k = n + 1
      BY <1>1
    <2>2. \A k, l \in 1..n : q[k] = q[l] => k = l
      BY <1>1 DEF IsInjective
    <2> QED BY <1>1, <1>2, <1>3, <2>1, <2>2
  <1>4. IsInjective(r)
    BY <1>1, <1>3 DEF IsInjective
  <1> QED BY <1>4 DEF r

\* Among keeps the blocks of D, and none of them comes twice that did not.
LEMMA AmongBlocks ==
  ASSUME NEW S, NEW q \in Seq(S), NEW D
  PROVE  /\ Among(q, D) \in Seq(S)
         /\ Range(Among(q, D)) = Range(q) \intersect D
         /\ IsInjective(q) => IsInjective(Among(q, D))
  <1> DEFINE n == Len(q)
             g == CHOOSE f : AmongIteration(q, D, n, f)
             Upto(k) == {q[i] : i \in 1..k}
             Good(k) == /\ g[k] \in Seq(S) /\ Range(g[k]) = Upto(k) \intersect D
                        /\ IsInjective(q) => IsInjective(g[k])
             T == {k \in 0..n : ~Good(k)}
  <1>1. n \in Nat /\ DOMAIN q = 1..n /\ \A i \in 1..n : q[i] \in S
    OBVIOUS
  <1>2. AmongIteration(q, D, n, g)
    BY <1>1, AmongIterationExists
  <1>3. Among(q, D) = g[n]
    BY DEF Among, AmongIteration
  <1> HIDE DEF g, n
  <1>4. \A k \in 0..n : g[k] = IF k = 0 THEN <<>>
                               ELSE IF q[k] \in D THEN Append(g[k - 1], q[k]) ELSE g[k - 1]
    BY <1>2 DEF AmongIteration
  <1>5. Good(0)
    <2>1. g[0] = <<>>
      BY <1>1, <1>4
    <2>2. <<>> \in Seq(S) /\ Range(<<>>) = {} /\ IsInjective(<<>>)
      BY DEF Range, IsInjective
    <2>3. Upto(0) = {}
      OBVIOUS
    <2> QED BY <2>1, <2>2, <2>3
  <1>6. ASSUME NEW k \in 1..n, Good(k - 1)
        PROVE  Good(k)
    <2> DEFINE a == g[k - 1]
               x == q[k]
    <2>1. k \in 0..n /\ k # 0 /\ x \in S /\ k \in 1..n /\ k - 1 \in Nat /\ k - 1 < k
      BY <1>1, <1>6
    <2>2. Upto(k) = Upto(k - 1) \union {x}
      <3>1. 1..k = (1..(k - 1)) \union {k}
        BY <2>1
      <3> QED BY <3>1
    <2>3. IsInjective(q) => x \notin Upto(k - 1)
      <3>1. \A i \in 1..(k - 1) : i \in 1..n /\ i # k
        BY <1>1, <2>1
      <3> QED BY <1>1, <2>1, <3>1 DEF IsInjective
    <2>4. g[k] = IF x \in D THEN Append(a, x) ELSE a
      BY <1>4, <2>1
    <2>5. a \in Seq(S) /\ Range(a) = Upto(k - 1) \intersect D
          /\ (IsInjective(q) => IsInjective(a))
      BY <1>6
    <2> HIDE DEF a, x, Upto
    <2>6. CASE x \in D
      <3>1. g[k] = Append(a, x) /\ g[k] \in Seq(S)
        BY <2>1, <2>4, <2>5, <2>6
      <3>2. Range(g[k]) = Upto(k) \intersect D
        BY <2>1, <2>2, <2>5, <2>6, <3>1, RangeOfAppend
      <3>3. IsInjective(q) => IsInjective(g[k])
        BY <2>1, <2>3, <2>5, <3>1, AppendKeepsInjective
      <3> QED BY <3>1, <3>2, <3>3
    <2>7. CASE x \notin D
      BY <2>2, <2>4, <2>5, <2>7
    <2> QED BY <2>6, <2>7
  <1> HIDE DEF Good
  <1>7. T = {}
    <2> SUFFICES ASSUME T # {}
                 PROVE  FALSE
      OBVIOUS
    <2>1. T \subseteq Nat
      BY <1>1
    <2> HIDE DEF T
    <2>2. PICK k \in T : \A j \in T : k <= j
      BY <2>1, LeastNumber
    <2>3. k \in 0..n /\ ~Good(k)
      BY <2>2 DEF T
    <2>4. k \in 1..n /\ k - 1 \in 0..n /\ ~(k <= k - 1)
      BY <1>1, <1>5, <2>3
    <2>5. k - 1 \notin T
      BY <2>2, <2>4
    <2> QED BY <1>6, <2>3, <2>4, <2>5 DEF T
  <1>8. Good(n)
    BY <1>1, <1>7
  <1>9. Upto(n) = Range(q)
    BY <1>1 DEF Range
  <1> QED BY <1>3, <1>8, <1>9 DEF Good

LEMMA ConcatKeepsInjective ==
  ASSUME NEW S, NEW p \in Seq(S), NEW q \in Seq(S), IsInjective(p), IsInjective(q),
         \A x \in Range(p) : x \notin Range(q)
  PROVE  IsInjective(p \o q)
  <1> DEFINE r == p \o q
             m == Len(p)
             n == Len(q)
  <1>1. /\ r \in Seq(S) /\ Len(r) = m + n
        /\ m \in Nat /\ n \in Nat /\ DOMAIN p = 1..m /\ DOMAIN q = 1..n
        /\ \A i \in 1..(m + n) : r[i] = IF i <= m THEN p[i] ELSE q[i - m]
    BY ConcatProperties
  <1>2. DOMAIN r = 1..(m + n)
    BY <1>1
  <1> HIDE DEF r, m, n
  <1>3. /\ \A i, j \in 1..m : p[i] = p[j] => i = j
        /\ \A i, j \in 1..n : q[i] = q[j] => i = j
        /\ \A i \in 1..m, j \in 1..n : p[i] # q[j]
    <2>1. Range(p) = {p[i] : i \in 1..m} /\ Range(q) = {q[i] : i \in 1..n}
      BY <1>1 DEF Range
    <2>2. \A i \in 1..m, j \in 1..n : p[i] # q[j]
      BY <2>1
    <2> QED BY <1>1, <2>2 DEF IsInjective
  <1>4. ASSUME NEW i \in 1..(m + n), NEW j \in 1..(m + n), r[i] = r[j]
        PROVE  i = j
    <2>1. \A k \in 1..(m + n) : IF k <= m THEN k \in 1..m ELSE k - m \in 1..n
      BY <1>1
    <2>2. CASE i <= m /\ j <= m
      BY <1>1, <1>3, <1>4, <2>1, <2>2
    <2>3. CASE ~(i <= m) /\ ~(j <= m)
      <3>1. i - m \in 1..n /\ j - m \in 1..n /\ q[i - m] = q[j - m]
        BY <1>1, <1>4, <2>1, <2>3
      <3>2. i - m = j - m
        BY <1>3, <3>1
      <3> QED BY <1>1, <3>2
    <2>4. CASE i <= m /\ ~(j <= m)
      <3>1. i \in 1..m /\ j - m \in 1..n /\ p[i] = q[j - m]
        BY <1>1, <1>4, <2>1, <2>4
      <3> QED BY <1>3, <3>1
    <2>5. CASE ~(i <= m) /\ j <= m
      <3>1. j \in 1..m /\ i - m \in 1..n /\ p[j] = q[i - m]
        BY <1>1, <1>4, <2>1, <2>5
      <3> QED BY <1>3, <3>1
    <2> QED BY <2>2, <2>3, <2>4, <2>5
  <1>5. IsInjective(r)
    BY <1>2, <1>4 DEF IsInjective
  <1> QED BY <1>5 DEF r

-----------------------------------------------------------------------------
(* The coloring.                                                           *)

LEMMA ImplementIsCall ==
  ASSUME NEW p \in Indexes, NEW c \in Indexes
  PROVE  /\ implement_phi_copies(p, c) \in Calls
         /\ implement_phi_copies(p, c)[1] = p
         /\ implement_phi_copies(p, c)[2] = c
  BY DEF implement_phi_copies, Calls, CallSides

LEMMA CallsInto ==
  ASSUME NEW q \in Seq(Indexes), IsInjective(q), NEW b \in Indexes,
         NEW r, r = [i \in DOMAIN q |-> implement_phi_copies(q[i], b)]
  PROVE  /\ r \in Seq(Calls) /\ IsInjective(r)
         /\ \A x : x \in Range(r) <=> \E p \in Range(q) : x = implement_phi_copies(p, b)
  <1>1. Len(q) \in Nat /\ DOMAIN q = 1..Len(q) /\ \A i \in 1..Len(q) : q[i] \in Indexes
    OBVIOUS
  <1>2. \A i \in 1..Len(q) : /\ r[i] = implement_phi_copies(q[i], b)
                             /\ r[i] \in Calls /\ r[i][1] = q[i]
    BY <1>1, ImplementIsCall
  <1>3. DOMAIN r = 1..Len(q) /\ r = [i \in 1..Len(q) |-> r[i]]
    BY <1>1
  <1>4. r \in Seq(Calls)
    BY <1>1, <1>2, <1>3
  <1>5. IsInjective(r)
    BY <1>1, <1>2, <1>3 DEF IsInjective
  <1>6. Range(r) = {r[i] : i \in 1..Len(q)} /\ Range(q) = {q[i] : i \in 1..Len(q)}
    BY <1>1, <1>3 DEF Range
  <1> QED BY <1>2, <1>4, <1>5, <1>6

LEMMA CallsOutOf ==
  ASSUME NEW q \in Seq(Indexes), IsInjective(q), NEW b \in Indexes,
         NEW r, r = [i \in DOMAIN q |-> implement_phi_copies(b, q[i])]
  PROVE  /\ r \in Seq(Calls) /\ IsInjective(r)
         /\ \A x : x \in Range(r) <=> \E s \in Range(q) : x = implement_phi_copies(b, s)
  <1>1. Len(q) \in Nat /\ DOMAIN q = 1..Len(q) /\ \A i \in 1..Len(q) : q[i] \in Indexes
    OBVIOUS
  <1>2. \A i \in 1..Len(q) : /\ r[i] = implement_phi_copies(b, q[i])
                             /\ r[i] \in Calls /\ r[i][2] = q[i]
    BY <1>1, ImplementIsCall
  <1>3. DOMAIN r = 1..Len(q) /\ r = [i \in 1..Len(q) |-> r[i]]
    BY <1>1
  <1>4. r \in Seq(Calls)
    BY <1>1, <1>2, <1>3
  <1>5. IsInjective(r)
    BY <1>1, <1>2, <1>3 DEF IsInjective
  <1>6. Range(r) = {r[i] : i \in 1..Len(q)} /\ Range(q) = {q[i] : i \in 1..Len(q)}
    BY <1>1, <1>3 DEF Range
  <1> QED BY <1>2, <1>4, <1>5, <1>6

\* What the edges of a finished graph are like, in terms of the passes.
LEMMA FinishedEdges ==
  ASSUME IROK(ir), EdgesOK(ir), NEW b \in Blocks
  PROVE  /\ IsInjective(ir.blocks[b].predecessors)
         /\ IsInjective(ir.blocks[b].successors)
         /\ is_branch_back(ir, b) =>
              /\ ir.blocks[b].loop_header \in Indexes
              /\ ir.blocks[b].loop_header < b
              /\ ir.blocks[ir.blocks[b].loop_header].branch_block = b
  <1>1. b \in Indices(ir) /\ b \in 0..(ir.size - 1)
    BY FinishedGraph DEF Blocks, Indexes
  <1>2. IsInjective(ir.blocks[b].predecessors)
    <2>1. CASE IsJoin(ir, b)
      <3>1. PICK p1, p2 \in Indices(ir) : p1 # p2 /\ ir.blocks[b].predecessors = <<p1, p2>>
        BY <1>1, <2>1 DEF EdgesOK, TwoPreds
      <3> QED BY <3>1 DEF IsInjective
    <2>2. CASE ~IsJoin(ir, b)
      <3>1. Len(ir.blocks[b].predecessors) = 1
        BY <1>1, <2>2 DEF EdgesOK, OnePred
      <3>2. ir.blocks[b].predecessors \in Seq(Indexes)
        BY FinishedGraph
      <3>3. DOMAIN ir.blocks[b].predecessors = {1}
        BY <3>1, <3>2
      <3> QED BY <3>3 DEF IsInjective
    <2> QED BY <2>1, <2>2
  <1>3. IsInjective(ir.blocks[b].successors)
    BY <1>1 DEF EdgesOK
  <1>4. ASSUME is_branch_back(ir, b)
        PROVE  LoopOf(ir, b, ir.blocks[b].loop_header)
    BY <1>1, <1>4 DEF EdgesOK
  <1> QED BY <1>2, <1>3, <1>4, FinishedGraph DEF LoopOf, Blocks

\* The calls that are new when b is colored.
NewCall(b, D, p, c) ==
  \/ p = b /\ is_branch_back(ir, b) /\ c = ir.blocks[b].loop_header
  \/ c = b /\ p \in D \intersect Preds(ir, b)
  \/ p = b /\ c \in D \intersect Succs(ir, b)

NewCallsOf(q, b, D) ==
  /\ q \in Seq(Calls) /\ IsInjective(q)
  /\ \A x : x \in Range(q) <=>
       \E p, c \in Indexes : NewCall(b, D, p, c) /\ x = implement_phi_copies(p, c)

LEMMA PhiCopiesOfBlock ==
  ASSUME IROK(ir), EdgesOK(ir), NEW b \in Blocks, NEW D
  PROVE  NewCallsOf(PhiCopies(b, D), b, D)
  <1> DEFINE ps == Among(ir.blocks[b].predecessors, D)
             ss == Among(ir.blocks[b].successors, D)
             h == ir.blocks[b].loop_header
             q1 == IF is_branch_back(ir, b) THEN <<implement_phi_copies(b, h)>> ELSE <<>>
             q2 == [i \in DOMAIN ps |-> implement_phi_copies(ps[i], b)]
             q3 == [i \in DOMAIN ss |-> implement_phi_copies(b, ss[i])]
  <1>1. PhiCopies(b, D) = (q1 \o q2) \o q3
    BY DEF PhiCopies
  <1>2. /\ b \in Indexes /\ Blocks \subseteq Indexes /\ b \in Nat /\ Indexes \subseteq Nat
        /\ ir.blocks[b].predecessors \in Seq(Indexes)
        /\ ir.blocks[b].successors \in Seq(Indexes)
        /\ \A p \in Preds(ir, b) : p \in Indexes /\ p < b
        /\ \A s \in Succs(ir, b) : s \in Indexes /\ b < s
    <2>1. Indexes \subseteq Nat
      BY FinishedGraph DEF Indexes
    <2> QED BY <2>1, FinishedGraph
  <1>3. /\ IsInjective(ir.blocks[b].predecessors) /\ IsInjective(ir.blocks[b].successors)
        /\ is_branch_back(ir, b) => h \in Indexes /\ h < b
    BY FinishedEdges
  <1>4. /\ ps \in Seq(Indexes) /\ IsInjective(ps) /\ Range(ps) = Preds(ir, b) \intersect D
        /\ ss \in Seq(Indexes) /\ IsInjective(ss) /\ Range(ss) = Succs(ir, b) \intersect D
    BY <1>2, <1>3, AmongBlocks DEF Preds, Succs
  <1> HIDE DEF ps, ss
  <1>5. /\ q2 \in Seq(Calls) /\ IsInjective(q2)
        /\ \A x : x \in Range(q2) <=> \E p \in Range(ps) : x = implement_phi_copies(p, b)
    BY <1>2, <1>4, CallsInto
  <1>6. /\ q3 \in Seq(Calls) /\ IsInjective(q3)
        /\ \A x : x \in Range(q3) <=> \E s \in Range(ss) : x = implement_phi_copies(b, s)
    BY <1>2, <1>4, CallsOutOf
  <1>7. /\ q1 \in Seq(Calls) /\ IsInjective(q1)
        /\ \A x : x \in Range(q1) <=> is_branch_back(ir, b) /\ x = implement_phi_copies(b, h)
    <2>1. CASE is_branch_back(ir, b)
      <3> DEFINE y == implement_phi_copies(b, h)
      <3>1. y \in Calls /\ q1 = <<y>>
        BY <1>2, <1>3, <2>1, ImplementIsCall
      <3> HIDE DEF y, q1, h
      <3>2. DOMAIN q1 = {1} /\ q1[1] = y /\ q1 \in Seq(Calls)
        BY <3>1
      <3> QED BY <2>1, <3>2 DEF IsInjective, Range, y
    <2>2. CASE ~is_branch_back(ir, b)
      BY <2>2 DEF IsInjective, Range
    <2> QED BY <2>1, <2>2
  <1> HIDE DEF q1, q2, q3, h
  <1>0. \A p, c \in Indexes : /\ implement_phi_copies(p, c)[1] = p
                              /\ implement_phi_copies(p, c)[2] = c
    BY ImplementIsCall
  <1>8. \A x \in Range(q1) : x[1] = b /\ x[2] < b
    <2> SUFFICES ASSUME NEW x \in Range(q1)
                 PROVE  x[1] = b /\ x[2] < b
      OBVIOUS
    <2>1. x = implement_phi_copies(b, h) /\ h \in Indexes /\ h < b
      BY <1>3, <1>7
    <2>2. x[1] = b /\ x[2] = h
      BY <1>0, <1>2, <2>1
    <2> QED BY <2>1, <2>2
  <1>9. \A x \in Range(q2) : x[1] < b /\ x[2] = b
    <2> SUFFICES ASSUME NEW x \in Range(q2)
                 PROVE  x[1] < b /\ x[2] = b
      OBVIOUS
    <2>1. PICK p \in Range(ps) : x = implement_phi_copies(p, b)
      BY <1>5
    <2>2. p \in Indexes /\ p < b
      BY <1>2, <1>4
    <2> QED BY <1>0, <1>2, <2>1, <2>2
  <1>10. \A x \in Range(q3) : x[1] = b /\ b < x[2] /\ x[2] \in Nat
    <2> SUFFICES ASSUME NEW x \in Range(q3)
                 PROVE  x[1] = b /\ b < x[2] /\ x[2] \in Nat
      OBVIOUS
    <2>1. PICK s \in Range(ss) : x = implement_phi_copies(b, s)
      BY <1>6
    <2>2. s \in Indexes /\ b < s /\ s \in Nat
      BY <1>2, <1>4
    <2> QED BY <1>0, <1>2, <2>1, <2>2
  <1>11. /\ q1 \o q2 \in Seq(Calls) /\ Range(q1 \o q2) = Range(q1) \union Range(q2)
         /\ IsInjective(q1 \o q2)
    <2>1. \A x \in Range(q1) : x \notin Range(q2)
      BY <1>2, <1>8, <1>9
    <2> QED BY <1>5, <1>7, <2>1, RangeOfConcat, ConcatKeepsInjective
  <1>12. /\ (q1 \o q2) \o q3 \in Seq(Calls) /\ IsInjective((q1 \o q2) \o q3)
         /\ Range((q1 \o q2) \o q3) = (Range(q1) \union Range(q2)) \union Range(q3)
    <2>1. \A x \in Range(q1 \o q2) : x \notin Range(q3)
      <3> SUFFICES ASSUME NEW x \in Range(q1) \union Range(q2)
                   PROVE  x \notin Range(q3)
        BY <1>11
      <3>1. CASE x \in Range(q1)
        BY <1>2, <1>8, <1>10, <3>1
      <3>2. CASE x \in Range(q2)
        BY <1>2, <1>9, <1>10, <3>2
      <3> QED BY <3>1, <3>2
    <2> DEFINE r == q1 \o q2
    <2>2. r \in Seq(Calls) /\ IsInjective(r) /\ \A x \in Range(r) : x \notin Range(q3)
      BY <1>11, <2>1
    <2>3. Range(r) = Range(q1) \union Range(q2)
      BY <1>11
    <2> HIDE DEF r
    <2>4. r \o q3 \in Seq(Calls) /\ Range(r \o q3) = Range(r) \union Range(q3)
      BY <1>6, <2>2, RangeOfConcat
    <2>5. IsInjective(r \o q3)
      BY <1>6, <2>2, ConcatKeepsInjective
    <2> QED BY <2>3, <2>4, <2>5 DEF r
  <1>13. ASSUME NEW x
         PROVE  x \in Range(q1) \/ x \in Range(q2) \/ x \in Range(q3) <=>
                \E p, c \in Indexes : NewCall(b, D, p, c) /\ x = implement_phi_copies(p, c)
    <2>1. ASSUME x \in Range(q1) \/ x \in Range(q2) \/ x \in Range(q3)
          PROVE  \E p, c \in Indexes : NewCall(b, D, p, c) /\ x = implement_phi_copies(p, c)
      <3>1. CASE x \in Range(q1)
        <4>1. NewCall(b, D, b, h) /\ h \in Indexes /\ x = implement_phi_copies(b, h)
          BY <1>3, <1>7, <3>1 DEF NewCall, h
        <4> QED BY <1>2, <4>1
      <3>2. CASE x \in Range(q2)
        <4>1. PICK p \in Range(ps) : x = implement_phi_copies(p, b)
          BY <1>5, <3>2
        <4>2. NewCall(b, D, p, b) /\ p \in Indexes
          BY <1>2, <1>4, <4>1 DEF NewCall
        <4> QED BY <1>2, <4>1, <4>2
      <3>3. CASE x \in Range(q3)
        <4>1. PICK s \in Range(ss) : x = implement_phi_copies(b, s)
          BY <1>6, <3>3
        <4>2. NewCall(b, D, b, s) /\ s \in Indexes
          BY <1>2, <1>4, <4>1 DEF NewCall
        <4> QED BY <1>2, <4>1, <4>2
      <3> QED BY <2>1, <3>1, <3>2, <3>3
    <2>2. ASSUME NEW p \in Indexes, NEW c \in Indexes,
                 NewCall(b, D, p, c), x = implement_phi_copies(p, c)
          PROVE  x \in Range(q1) \/ x \in Range(q2) \/ x \in Range(q3)
      <3>1. CASE p = b /\ is_branch_back(ir, b) /\ c = h
        BY <1>7, <2>2, <3>1
      <3>2. CASE c = b /\ p \in D \intersect Preds(ir, b)
        BY <1>4, <1>5, <2>2, <3>2
      <3>3. CASE p = b /\ c \in D \intersect Succs(ir, b)
        BY <1>4, <1>6, <2>2, <3>3
      <3> QED BY <2>2, <3>1, <3>2, <3>3 DEF NewCall, h
    <2> QED BY <2>1, <2>2
  <1>14. NewCallsOf((q1 \o q2) \o q3, b, D)
    BY <1>12, <1>13 DEF NewCallsOf
  <1> QED BY <1>1, <1>14

LEMMA NewCalls ==
  ASSUME IROK(ir), EdgesOK(ir), NEW D, 0 \in D, NEW b \in Blocks, b \notin D,
         NEW E, E = D \union {b}, NEW p \in Indexes, NEW c \in Indexes
  PROVE  /\ Called(E, p, c) <=> Called(D, p, c) \/ NewCall(b, E, p, c)
         /\ ~(Called(D, p, c) /\ NewCall(b, E, p, c))
  <1>1. /\ \A q \in Preds(ir, b) : q < b
        /\ \A s \in Succs(ir, b) : b < s
        /\ \A d \in Blocks : b \in Preds(ir, d) <=> d \in Succs(ir, b)
    BY FinishedGraph
  <1>2. \A d \in Blocks : d \in Nat
    BY FinishedGraph DEF Indexes
  <1>3. Succs(ir, b) \subseteq Blocks /\ b \notin Preds(ir, b)
    BY <1>1, <1>2, FinishedGraph
  <1>4. \A d \in Blocks : is_branch_back(ir, d) => ir.blocks[d].loop_header < d
    BY FinishedEdges
  <1>5. Called(E, p, c) => Called(D, p, c) \/ NewCall(b, E, p, c)
    <2>1. CASE p \in E \intersect Blocks /\ is_branch_back(ir, p) /\ c = ir.blocks[p].loop_header
      BY <2>1 DEF Called, NewCall
    <2>2. CASE c \in E \intersect Blocks /\ p \in E \intersect Preds(ir, c)
      <3>1. CASE c = b
        BY <2>2, <3>1 DEF NewCall
      <3>2. CASE c # b /\ p = b
        BY <1>1, <2>2, <3>2 DEF NewCall
      <3>3. CASE c # b /\ p # b
        BY <2>2, <3>3 DEF Called
      <3> QED BY <3>1, <3>2, <3>3
    <2> QED BY <2>1, <2>2 DEF Called
  <1>6. Called(D, p, c) => Called(E, p, c)
    BY DEF Called
  <1>7. NewCall(b, E, p, c) => Called(E, p, c)
    <2>1. CASE p = b /\ is_branch_back(ir, b) /\ c = ir.blocks[b].loop_header
      BY <2>1 DEF Called
    <2>2. CASE c = b /\ p \in E \intersect Preds(ir, b)
      BY <2>2 DEF Called
    <2>3. CASE p = b /\ c \in E \intersect Succs(ir, b)
      BY <1>1, <1>3, <2>3 DEF Called
    <2> QED BY <2>1, <2>2, <2>3 DEF NewCall
  <1>8. ASSUME Called(D, p, c), NewCall(b, E, p, c)
        PROVE  FALSE
    <2>1. p \in D
      BY <1>8 DEF Called
    <2>2. c = b /\ p \in Preds(ir, b)
      BY <1>8, <2>1 DEF NewCall
    <2>3. p \in Blocks /\ is_branch_back(ir, p) /\ b = ir.blocks[p].loop_header
      BY <1>8, <2>2 DEF Called
    <2> QED BY <1>1, <1>2, <1>4, <2>2, <2>3
  <1> QED BY <1>5, <1>6, <1>7, <1>8

LEMMA ColorOne ==
  ASSUME IROK(ir), EdgesOK(ir), NEW D, 0 \in D, NEW b \in Blocks, b \notin D,
         NEW E, E = D \union {b}, NEW q, Copied(q, D)
  PROVE  Copied(q \o PhiCopies(b, E), E)
  <1> DEFINE r == PhiCopies(b, E)
             Ends(x) == x = implement_phi_copies(x[1], x[2])
  <1>0. NewCallsOf(r, b, E)
    BY PhiCopiesOfBlock
  <1>2. /\ q \in Seq(Calls) /\ IsInjective(q) /\ \A x \in Range(q) : Ends(x)
        /\ \A p, c \in Indexes : implement_phi_copies(p, c) \in Range(q) <=> Called(D, p, c)
    BY DEF Copied
  <1> HIDE DEF r
  <1>1. /\ r \in Seq(Calls) /\ IsInjective(r)
        /\ \A x : x \in Range(r) <=>
             \E p, c \in Indexes : NewCall(b, E, p, c) /\ x = implement_phi_copies(p, c)
    BY <1>0 DEF NewCallsOf
  <1>3. \A p, c \in Indexes : /\ implement_phi_copies(p, c)[1] = p
                              /\ implement_phi_copies(p, c)[2] = c
    BY ImplementIsCall
  <1>4. \A p, c \in Indexes : implement_phi_copies(p, c) \in Range(r) <=> NewCall(b, E, p, c)
    <2> SUFFICES ASSUME NEW p \in Indexes, NEW c \in Indexes
                 PROVE  implement_phi_copies(p, c) \in Range(r) <=> NewCall(b, E, p, c)
      OBVIOUS
    <2>1. NewCall(b, E, p, c) => implement_phi_copies(p, c) \in Range(r)
      BY <1>1
    <2>2. ASSUME implement_phi_copies(p, c) \in Range(r)
          PROVE  NewCall(b, E, p, c)
      <3>1. PICK p1 \in Indexes, c1 \in Indexes :
              NewCall(b, E, p1, c1) /\ implement_phi_copies(p, c) = implement_phi_copies(p1, c1)
        BY <1>1, <2>2
      <3>2. p = p1 /\ c = c1
        BY <1>3, <3>1
      <3> QED BY <3>1, <3>2
    <2> QED BY <2>1, <2>2
  <1>5. ASSUME NEW x \in Range(r)
        PROVE  /\ Ends(x) /\ x[1] \in Indexes /\ x[2] \in Indexes
               /\ NewCall(b, E, x[1], x[2])
    <2>1. PICK p \in Indexes, c \in Indexes :
            NewCall(b, E, p, c) /\ x = implement_phi_copies(p, c)
      BY <1>1, <1>5
    <2>2. x[1] = p /\ x[2] = c
      BY <1>3, <2>1
    <2> QED BY <2>1, <2>2
  <1>6. \A p, c \in Indexes : /\ Called(E, p, c) <=> Called(D, p, c) \/ NewCall(b, E, p, c)
                              /\ ~(Called(D, p, c) /\ NewCall(b, E, p, c))
    BY NewCalls
  <1>7. \A x \in Range(q) : x \notin Range(r)
    <2> SUFFICES ASSUME NEW x, x \in Range(q), x \in Range(r)
                 PROVE  FALSE
      OBVIOUS
    <2>1. Ends(x) /\ x[1] \in Indexes /\ x[2] \in Indexes /\ NewCall(b, E, x[1], x[2])
      BY <1>5
    <2>2. implement_phi_copies(x[1], x[2]) \in Range(q)
      BY <2>1
    <2>3. Called(D, x[1], x[2])
      BY <1>2, <2>1, <2>2
    <2> QED BY <1>6, <2>1, <2>3
  <1>8. q \o r \in Seq(Calls) /\ Range(q \o r) = Range(q) \union Range(r)
    BY <1>1, <1>2, RangeOfConcat
  <1>9. IsInjective(q \o r)
    BY <1>1, <1>2, <1>7, ConcatKeepsInjective
  <1>10. \A x \in Range(q \o r) : Ends(x)
    <2> SUFFICES ASSUME NEW x \in Range(q \o r)
                 PROVE  Ends(x)
      OBVIOUS
    <2>1. x \in Range(q) \/ x \in Range(r)
      BY <1>8
    <2> HIDE DEF Ends
    <2> QED BY <1>2, <1>5, <2>1
  <1>11. \A p, c \in Indexes : implement_phi_copies(p, c) \in Range(q \o r) <=> Called(E, p, c)
    BY <1>2, <1>4, <1>6, <1>8
  <1>12. Copied(q \o r, E)
    BY <1>8, <1>9, <1>10, <1>11 DEF Copied
  <1> QED BY <1>12 DEF r

LEMMA NothingCopied ==
  ASSUME IROK(ir)
  PROVE  Copied(<<>>, {0})
  <1>1. Range(<<>>) = {} /\ IsInjective(<<>>) /\ <<>> \in Seq(Calls)
    BY DEF Range, IsInjective
  <1>2. \A p, c \in Indexes : ~Called({0}, p, c)
    BY FinishedGraph DEF Called
  <1> QED BY <1>1, <1>2 DEF Copied

-----------------------------------------------------------------------------
(* The edges of a JOIN and of a loop.                                      *)

\* What a finished graph promises to the copies.
Promised ==
  /\ IROK(ir) /\ EdgesOK(ir)
  /\ \A b \in Blocks : IsJoin(ir, b) => JoinOK(ir, b)
  /\ \A b \in Blocks : BranchOK(ir, {}, b)

LEMMA FinishedPromises ==
  ASSUME EInv, phase = "done"
  PROVE  Promised /\ frames = <<>>
  <1>1. Inv /\ ~Parsing
    BY DEF EInv, DInv, Parsing
  <1>2. frames = <<>> /\ IROK(ir)
    BY <1>1 DEF Inv
  <1>3. Len(frames) = 0
    BY <1>2
  <1>4. OwedWay(frames) = {}
    BY <1>3 DEF OwedWay
  <1>5. EdgesOK(ir) /\ JoinsOK(ir, None) /\ BranchesOK(ir, {}, None)
    BY <1>4 DEF EInv, Settled
  <1>6. \A b \in Blocks : IsJoin(ir, b) => JoinOK(ir, b)
    BY <1>5, EveryJoin DEF Blocks
  <1>7. \A b \in Blocks : BranchOK(ir, {}, b)
    BY <1>5, EveryBranch DEF Blocks
  <1> QED BY <1>2, <1>5, <1>6, <1>7 DEF Promised

\* The way from p into c is one of those the PHIs of c are copied on.
GoodCall(p, c) ==
  /\ p \in Blocks
  /\ implement_phi_copies(p, c) \in PhiEdges
  /\ implement_phi_copies(p, c) \in get_phi_liveness(p)
  /\ ~will_return(ir, p) => Flow(p) = {c}

LEMMA AloneBehind ==
  ASSUME Promised, NEW p \in Blocks, ~Overrun(p), NEW c \in Succs(ir, p),
         ir.blocks[p].op # "Bcc"
  PROVE  /\ ir.blocks[p].successors = <<c>> /\ Succs(ir, p) = {c}
         /\ ~is_branch_back(ir, p)
         /\ has_one_successor(p) /\ OnlySuccessor(p) = c
         /\ ir.blocks[p].loop_header = None
  <1> DEFINE q == ir.blocks[p].successors
             n == Len(q)
  <1>1. p \in Indexes /\ q \in Seq(Indexes)
    BY FinishedGraph DEF Promised
  <1>2. c \in {q[i] : i \in 1..n} /\ n \in Nat
    BY <1>1 DEF Succs, Range
  <1>3. n <= 1
    <2>1. ~(n > 1)
      BY DEF Overrun
    <2> HIDE DEF n
    <2> QED BY <1>2, <2>1
  <1> HIDE DEF q
  <1>4. n = 1 /\ q[1] = c
    <2> HIDE DEF n
    <2>1. PICK i \in 1..n : c = q[i]
      BY <1>2
    <2>2. i = 1 /\ n = 1
      BY <1>2, <1>3, <2>1
    <2> QED BY <2>1, <2>2
  <1>5. q = <<c>>
    BY <1>1, <1>4
  <1>6. ~is_branch_back(ir, p)
    <2>1. q # <<>>
      BY <1>5
    <2> QED BY <2>1 DEF Overrun, q
  <1>7. Range(<<c>>) = {c}
    BY DEF Range
  <1> QED BY <1>4, <1>5, <1>6, <1>7 DEF q, Succs, has_one_successor, OnlySuccessor, is_branch_back

LEMMA JoinEdges ==
  ASSUME NEW b \in Joins
  PROVE  /\ <<ir.blocks[b].predecessors[1], b, "left">> \in PhiEdges
         /\ <<ir.blocks[b].predecessors[2], b, "right">> \in PhiEdges
  <1> DEFINE first(c) == <<ir.blocks[c].predecessors[1], c, "left">>
             second(c) == <<ir.blocks[c].predecessors[2], c, "right">>
  <1>1. first(b) \in {first(c) : c \in Joins \union ClosedLoops}
    OBVIOUS
  <1>2. second(b) \in {second(c) : c \in Joins}
    OBVIOUS
  <1> QED BY <1>1, <1>2, Zenon DEF PhiEdges

LEMMA LoopEdges ==
  ASSUME NEW b \in ClosedLoops
  PROVE  /\ <<ir.blocks[b].predecessors[1], b, "left">> \in PhiEdges
         /\ <<ir.blocks[b].branch_block, b, "right">> \in PhiEdges
  <1> DEFINE first(c) == <<ir.blocks[c].predecessors[1], c, "left">>
             back(c) == <<ir.blocks[c].branch_block, c, "right">>
  <1>1. first(b) \in {first(c) : c \in Joins \union ClosedLoops}
    OBVIOUS
  <1>2. back(b) \in {back(c) : c \in ClosedLoops}
    OBVIOUS
  <1> QED BY <1>1, <1>2, Zenon DEF PhiEdges

LEMMA JoinCalls ==
  ASSUME Promised, NEW b \in Joins
  PROVE  /\ b \in Blocks /\ ~is_loop_header(ir, b)
         /\ ir.blocks[b].predecessors[1] \in Preds(ir, b)
         /\ ir.blocks[b].predecessors[2] \in Preds(ir, b)
         /\ implement_phi_copies(ir.blocks[b].predecessors[1], b)
              = <<ir.blocks[b].predecessors[1], b, "left">>
         /\ implement_phi_copies(ir.blocks[b].predecessors[2], b)
              = <<ir.blocks[b].predecessors[2], b, "right">>
         /\ \A p \in Preds(ir, b) : GoodCall(p, b)
  <1>1. b \in Blocks /\ IsJoin(ir, b) /\ \A p \in Preds(ir, b) : ~Overrun(p)
    BY DEF Joins, IsJoin
  <1>2. b \in Indices(ir) /\ b # None
    BY <1>1 DEF Blocks, Indices, None
  <1>3. PICK p1, p2 \in Indices(ir) : ir.blocks[b].predecessors = <<p1, p2>>
    BY <1>1, <1>2 DEF Promised, EdgesOK, TwoPreds
  <1>4. /\ ir.blocks[b].predecessors[1] = p1 /\ ir.blocks[b].predecessors[2] = p2
        /\ Preds(ir, b) = {p1, p2} /\ p1 \in Blocks /\ p2 \in Blocks
    <2>1. Range(<<p1, p2>>) = {p1, p2}
      BY DEF Range
    <2> QED BY <1>3, <2>1 DEF Preds, Blocks
  <1>5. b \in Succs(ir, p1) /\ b \in Succs(ir, p2) /\ ~Overrun(p1) /\ ~Overrun(p2)
    BY <1>1, <1>4, FinishedGraph DEF Promised
  <1>6. ~is_loop_header(ir, b)
    BY <1>1, <1>2 DEF Promised, EdgesOK, IsJoin
  <1>7. <<p1, b, "left">> \in PhiEdges /\ <<p2, b, "right">> \in PhiEdges
    BY <1>4, JoinEdges
  <1>8. JoinOK(ir, b)
    BY <1>1 DEF Promised
  <1>9. /\ implement_phi_copies(p1, b) = <<p1, b, "left">>
        /\ get_phi_liveness(p1) = {<<p1, b, "left">>}
        /\ Flow(p1) = {b}
    <2>1. ir.blocks[p1].op = "BRA" /\ ir.blocks[p1].larg = b
      BY <1>4, <1>8 DEF JoinOK, JumpsIn
    <2>2. /\ ir.blocks[p1].successors = <<b>> /\ Succs(ir, p1) = {b}
          /\ ~is_branch_back(ir, p1) /\ has_one_successor(p1) /\ OnlySuccessor(p1) = b
          /\ ir.blocks[p1].loop_header = None
      BY <1>4, <1>5, <2>1, AloneBehind
    <2>3. has_branch_instruction(ir, p1)
      BY <2>1 DEF has_branch_instruction
    <2>4. implement_phi_copies(p1, b) = <<p1, b, "left">>
      BY <1>2, <2>2, <2>3 DEF implement_phi_copies
    <2>5. get_phi_liveness(p1) = {<<p1, b, "left">>}
      BY <2>2, <2>3 DEF get_phi_liveness
    <2>6. Flow(p1) = {b}
      BY <2>1, <2>2 DEF Flow
    <2> QED BY <2>4, <2>5, <2>6
  <1>10. /\ implement_phi_copies(p2, b) = <<p2, b, "right">>
         /\ get_phi_liveness(p2) = {<<p2, b, "right">>}
         /\ Flow(p2) = {b}
    <2>1. FallsIn(ir, p2)
      BY <1>4, <1>8 DEF JoinOK
    <2>2. ir.blocks[p2].op = "EMPTY"
      <3>1. p2 \in Indexes /\ ir.blocks[p2].successors \in Seq(Indexes)
        BY <1>4, FinishedGraph DEF Promised
      <3>2. ~(Len(ir.blocks[p2].successors) > 2)
        <4>1. Len(ir.blocks[p2].successors) \in Nat
          BY <3>1
        <4>2. ~(Len(ir.blocks[p2].successors) > (IF ir.blocks[p2].op = "Bcc" THEN 2 ELSE 1))
          BY <1>5 DEF Overrun
        <4> HIDE DEF Promised
        <4> QED BY <4>1, <4>2
      <3>3. ~is_branch_back(ir, p2)
        <4>1. Range(<<>>) = {}
          BY DEF Range
        <4>2. ir.blocks[p2].successors # <<>>
          BY <1>5, <4>1 DEF Succs
        <4> QED BY <1>5, <4>2 DEF Overrun
      <3> QED BY <2>1, <3>2, <3>3 DEF FallsIn
    <2>3. /\ ir.blocks[p2].successors = <<b>> /\ Succs(ir, p2) = {b}
          /\ ~is_branch_back(ir, p2) /\ has_one_successor(p2) /\ OnlySuccessor(p2) = b
          /\ ir.blocks[p2].loop_header = None
      BY <1>4, <1>5, <2>2, AloneBehind
    <2>4. ~has_branch_instruction(ir, p2)
      BY <2>2 DEF has_branch_instruction
    <2>5. implement_phi_copies(p2, b) = <<p2, b, "right">>
      BY <1>2, <1>6, <2>3, <2>4 DEF implement_phi_copies
    <2>6. get_phi_liveness(p2) = {<<p2, b, "right">>}
      BY <1>6, <2>3, <2>4 DEF get_phi_liveness
    <2>7. Flow(p2) = {b}
      BY <2>2, <2>3 DEF Flow
    <2> QED BY <2>5, <2>6, <2>7
  <1>11. \A p \in Preds(ir, b) : GoodCall(p, b)
    <2>1. GoodCall(p1, b)
      BY <1>4, <1>7, <1>9 DEF GoodCall
    <2>2. GoodCall(p2, b)
      BY <1>4, <1>7, <1>10 DEF GoodCall
    <2> QED BY <1>4, <2>1, <2>2
  <1> QED BY <1>1, <1>4, <1>6, <1>9, <1>10, <1>11

\* The block before a loop ends with no conditional branch: the loop header is
\* none of the two blocks such a branch needs, and a third one is an overrun.
LEMMA NoBranchIntoLoop ==
  ASSUME Promised, NEW p \in Blocks, ~Overrun(p), NEW c \in Succs(ir, p),
         ir.blocks[c].type = "INVALID"
  PROVE  ir.blocks[p].op # "Bcc"
  <1> SUFFICES ASSUME ir.blocks[p].op = "Bcc"
               PROVE  FALSE
    OBVIOUS
  <1> DEFINE q == ir.blocks[p].successors
             n == Len(q)
  <1>1. p \in Indexes /\ q \in Seq(Indexes)
    BY FinishedGraph DEF Promised
  <1>2. Succs(ir, p) = {q[i] : i \in 1..n} /\ n \in Nat
    BY <1>1 DEF Succs, Range
  <1>3. n <= 2
    <2>1. ~(n > 2)
      BY DEF Overrun
    <2> HIDE DEF n
    <2> QED BY <1>2, <2>1
  <1>4. Forked(ir, p)
    BY DEF Promised, BranchOK
  <1>5. PICK s, t \in Ways(ir, p) : s # t
    BY <1>4 DEF Forked
  <1>6. s \in Succs(ir, p) /\ t \in Succs(ir, p) /\ s # c /\ t # c
    BY DEF Ways, WayType
  <1> HIDE DEF q, n
  <1>7. PICK i, j, k \in 1..n : q[i] = s /\ q[j] = t /\ q[k] = c
    BY <1>2, <1>6
  <1> QED BY <1>2, <1>3, <1>5, <1>6, <1>7

LEMMA LoopCalls ==
  ASSUME Promised, NEW b \in ClosedLoops
  PROVE  /\ b \in Blocks /\ ir.blocks[b].type = "INVALID"
         /\ ir.blocks[b].branch_block \in Blocks
         /\ is_branch_back(ir, ir.blocks[b].branch_block)
         /\ ir.blocks[ir.blocks[b].branch_block].loop_header = b
         /\ ir.blocks[b].predecessors[1] \in Preds(ir, b)
         /\ implement_phi_copies(ir.blocks[b].predecessors[1], b)
              = <<ir.blocks[b].predecessors[1], b, "left">>
         /\ implement_phi_copies(ir.blocks[b].branch_block, b)
              = <<ir.blocks[b].branch_block, b, "right">>
         /\ \A p \in Preds(ir, b) : GoodCall(p, b)
         /\ GoodCall(ir.blocks[b].branch_block, b)
  <1> DEFINE w == ir.blocks[b].branch_block
  <1>1. /\ b \in Blocks /\ is_loop_header(ir, b) /\ ir.blocks[w].loop_header = b
        /\ \A p \in Preds(ir, b) \union {w} : ~Overrun(p)
    BY DEF ClosedLoops
  <1>2. b \in Indices(ir) /\ b # None /\ b \in Nat
    BY <1>1, FinishedGraph DEF Blocks, Indices, None, Promised
  <1>3. ir.blocks[b].type = "INVALID" /\ w \in Blocks /\ b < w
    BY <1>1, <1>2 DEF Promised, EdgesOK, HeaderOf, Blocks
  <1> HIDE DEF w
  <1>4. Len(ir.blocks[b].predecessors) = 1 /\ 0 \notin Preds(ir, b)
    BY <1>2, <1>3 DEF Promised, EdgesOK, IsJoin, OnePred
  <1> DEFINE p == ir.blocks[b].predecessors[1]
  <1>5. Preds(ir, b) = {p} /\ p \in Blocks /\ p # w
    <2> DEFINE q == ir.blocks[b].predecessors
    <2>1. q \in Seq(Indexes) /\ \A x \in Preds(ir, b) : x \in Indexes /\ x < b
      BY <1>1, FinishedGraph DEF Promised
    <2>2. Range(q) = {p}
      <3> HIDE DEF q
      <3>1. Len(q) = 1
        BY <1>4 DEF q
      <3>2. DOMAIN q = {1}
        BY <2>1, <3>1
      <3>3. Range(q) = {q[1]}
        BY <3>2 DEF Range
      <3> QED BY <3>3 DEF q
    <2>3. Preds(ir, b) = {p}
      BY <2>2 DEF Preds
    <2> HIDE DEF p
    <2>4. Indexes = Blocks \union {0} /\ w \in Nat
      BY <1>3, FinishedGraph DEF Promised, Blocks, Indices
    <2>5. p \in Indexes /\ p < b /\ p # 0
      BY <1>4, <2>1, <2>3
    <2>6. p \in Nat
      BY <2>5 DEF Indexes
    <2> QED BY <1>2, <1>3, <2>3, <2>4, <2>5, <2>6
  <1> HIDE DEF p
  <1>6. <<p, b, "left">> \in PhiEdges /\ <<w, b, "right">> \in PhiEdges
    BY LoopEdges DEF p, w
  <1>7. /\ implement_phi_copies(p, b) = <<p, b, "left">>
        /\ get_phi_liveness(p) = {<<p, b, "left">>}
        /\ ~will_return(ir, p) => Flow(p) = {b}
    <2>1. b \in Succs(ir, p) /\ ~Overrun(p)
      BY <1>1, <1>5, FinishedGraph DEF Promised
    <2>2. ir.blocks[p].op # "Bcc"
      BY <1>3, <1>5, <2>1, NoBranchIntoLoop
    <2>3. /\ ir.blocks[p].successors = <<b>> /\ Succs(ir, p) = {b}
          /\ ~is_branch_back(ir, p) /\ has_one_successor(p) /\ OnlySuccessor(p) = b
          /\ ir.blocks[p].loop_header = None
      BY <1>5, <2>1, <2>2, AloneBehind
    <2>4. implement_phi_copies(p, b) = <<p, b, "left">>
      BY <1>1, <1>2, <2>3 DEF implement_phi_copies
    <2>5. get_phi_liveness(p) = {<<p, b, "left">>}
      BY <1>1, <2>3 DEF get_phi_liveness
    <2>6. ASSUME ~will_return(ir, p)
          PROVE  Flow(p) = {b}
      <3>1. ~ \E s \in Succs(ir, p) : IsJoin(ir, s)
        BY <1>3, <2>3 DEF IsJoin
      <3>2. BranchOK(ir, {}, p)
        BY <1>5 DEF Promised
      <3>3. ir.blocks[p].op # "BRA"
        BY <2>3, <2>6, <3>1, <3>2 DEF BranchOK
      <3> QED BY <2>3, <3>3 DEF Flow
    <2> QED BY <2>4, <2>5, <2>6
  <1>8. is_branch_back(ir, w)
    BY <1>1, <1>2 DEF is_branch_back
  <1>9. /\ implement_phi_copies(w, b) = <<w, b, "right">>
        /\ get_phi_liveness(w) = {<<w, b, "right">>}
        /\ ~will_return(ir, w) => Flow(w) = {b}
    <2>1. ir.blocks[w].successors = <<>>
      BY <1>1, <1>8 DEF Overrun
    <2>2. implement_phi_copies(w, b) = <<w, b, "right">>
      BY <1>1 DEF implement_phi_copies, w
    <2>3. get_phi_liveness(w) = {<<w, b, "right">>}
      BY <1>1, <1>8 DEF get_phi_liveness
    <2>4. ASSUME ~will_return(ir, w)
          PROVE  Flow(w) = {b}
      <3>1. BranchOK(ir, {}, w)
        BY <1>3 DEF Promised
      <3>2. JumpsBack(ir, w)
        BY <1>8, <2>1, <2>4, <3>1 DEF BranchOK
      <3>3. Succs(ir, w) = {}
        BY <2>1 DEF Succs, Range
      <3> QED BY <1>1, <3>2, <3>3 DEF Flow, JumpsBack
    <2> QED BY <2>2, <2>3, <2>4
  <1>10. GoodCall(p, b) /\ GoodCall(w, b)
    BY <1>3, <1>5, <1>6, <1>7, <1>9 DEF GoodCall
  <1> QED BY <1>1, <1>3, <1>5, <1>7, <1>8, <1>9, <1>10 DEF p, w

LEMMA PhiBlockIs ==
  \A c \in PhiBlocks : c \in Joins \/ c \in ClosedLoops
  <1> SUFFICES ASSUME NEW e \in PhiEdges
               PROVE  e[2] \in Joins \/ e[2] \in ClosedLoops
    BY DEF PhiBlocks
  <1> DEFINE first(b) == <<ir.blocks[b].predecessors[1], b, "left">>
             second(b) == <<ir.blocks[b].predecessors[2], b, "right">>
             back(b) == <<ir.blocks[b].branch_block, b, "right">>
  <1>1. \/ e \in {first(b) : b \in Joins \union ClosedLoops}
        \/ e \in {second(b) : b \in Joins}
        \/ e \in {back(b) : b \in ClosedLoops}
    BY Zenon DEF PhiEdges
  <1>2. CASE e \in {first(b) : b \in Joins \union ClosedLoops}
    BY <1>2
  <1>3. CASE e \in {second(b) : b \in Joins}
    BY <1>3
  <1>4. CASE e \in {back(b) : b \in ClosedLoops}
    BY <1>4
  <1> QED BY <1>1, <1>2, <1>3, <1>4

\* Every call for a block with PHIs belongs to one of its edges.
LEMMA CallsAreGood ==
  ASSUME Promised, NEW p \in Indexes, NEW c \in PhiBlocks, Called(Indexes, p, c)
  PROVE  GoodCall(p, c)
  <1>1. CASE c \in Joins
    <2>1. ~is_loop_header(ir, c) /\ c \in Blocks /\ \A x \in Preds(ir, c) : GoodCall(x, c)
      BY <1>1, JoinCalls
    <2>2. ~(p \in Blocks /\ is_branch_back(ir, p) /\ c = ir.blocks[p].loop_header)
      <3> SUFFICES ASSUME p \in Blocks, is_branch_back(ir, p), c = ir.blocks[p].loop_header
                   PROVE  FALSE
        OBVIOUS
      <3>1. ir.blocks[c].branch_block = p
        BY FinishedEdges DEF Promised
      <3>2. p # None
        BY DEF Blocks, Indices, None
      <3> QED BY <2>1, <3>1, <3>2 DEF is_loop_header
    <2> QED BY <2>1, <2>2 DEF Called
  <1>2. CASE c \in ClosedLoops
    <2>1. /\ \A x \in Preds(ir, c) : GoodCall(x, c)
          /\ GoodCall(ir.blocks[c].branch_block, c)
      BY <1>2, LoopCalls
    <2>2. ASSUME p \in Blocks, is_branch_back(ir, p), c = ir.blocks[p].loop_header
          PROVE  ir.blocks[c].branch_block = p
      BY <2>2, FinishedEdges DEF Promised
    <2> QED BY <2>1, <2>2 DEF Called
  <1> QED BY <1>1, <1>2, PhiBlockIs

\* Every edge into a block with PHIs is called for.
LEMMA EdgesAreCalled ==
  ASSUME Promised, NEW e \in PhiEdges
  PROVE  \E p, c \in Indexes : Called(Indexes, p, c) /\ e = implement_phi_copies(p, c)
  <1> DEFINE first(b) == <<ir.blocks[b].predecessors[1], b, "left">>
             second(b) == <<ir.blocks[b].predecessors[2], b, "right">>
             back(b) == <<ir.blocks[b].branch_block, b, "right">>
  <1>1. \/ e \in {first(b) : b \in Joins \union ClosedLoops}
        \/ e \in {second(b) : b \in Joins}
        \/ e \in {back(b) : b \in ClosedLoops}
    BY Zenon DEF PhiEdges
  <1>2. /\ Blocks \subseteq Indexes
        /\ \A b \in Blocks : \A p \in Preds(ir, b) : p \in Indexes /\ Called(Indexes, p, b)
    BY FinishedGraph DEF Promised, Called
  <1>3. CASE e \in {first(b) : b \in Joins \union ClosedLoops}
    <2>1. PICK b \in Joins \union ClosedLoops : e = first(b)
      BY <1>3
    <2> DEFINE p == ir.blocks[b].predecessors[1]
    <2>2. b \in Blocks /\ p \in Preds(ir, b) /\ implement_phi_copies(p, b) = first(b)
      BY JoinCalls, LoopCalls
    <2> HIDE DEF p
    <2>3. p \in Indexes /\ b \in Indexes /\ Called(Indexes, p, b)
      BY <1>2, <2>2
    <2> QED BY <2>1, <2>2, <2>3
  <1>4. CASE e \in {second(b) : b \in Joins}
    <2>1. PICK b \in Joins : e = second(b)
      BY <1>4
    <2> DEFINE p == ir.blocks[b].predecessors[2]
    <2>2. b \in Blocks /\ p \in Preds(ir, b) /\ implement_phi_copies(p, b) = second(b)
      BY JoinCalls
    <2> HIDE DEF p
    <2>3. p \in Indexes /\ b \in Indexes /\ Called(Indexes, p, b)
      BY <1>2, <2>2
    <2> QED BY <2>1, <2>2, <2>3
  <1>5. CASE e \in {back(b) : b \in ClosedLoops}
    <2>1. PICK b \in ClosedLoops : e = back(b)
      BY <1>5
    <2> DEFINE w == ir.blocks[b].branch_block
    <2>2. /\ b \in Blocks /\ w \in Blocks /\ is_branch_back(ir, w)
          /\ ir.blocks[w].loop_header = b /\ implement_phi_copies(w, b) = back(b)
      BY LoopCalls
    <2> HIDE DEF w
    <2>3. w \in Indexes /\ b \in Indexes /\ Called(Indexes, w, b)
      BY <1>2, <2>2 DEF Called
    <2> QED BY <2>1, <2>2, <2>3
  <1> QED BY <1>1, <1>3, <1>4, <1>5

-----------------------------------------------------------------------------
(* The steps.                                                              *)

LEMMA CopiedAfter ==
  ASSUME UNCHANGED ir, Copied(copies', colored')
  PROVE  Copied(copies, colored)'
  <1>1. /\ Indexes' = Indexes /\ Calls' = Calls /\ Blocks' = Blocks
        /\ \A b : is_branch_back(ir', b) = is_branch_back(ir, b)
        /\ \A b : Preds(ir', b) = Preds(ir, b)
    BY DEF Indexes, Calls, Blocks
  <1>2. \A b, c : implement_phi_copies(b, c)' = implement_phi_copies(b, c)
    BY DEF implement_phi_copies
  <1>3. \A D, p, c : Called(D, p, c)' = Called(D, p, c)
    BY <1>1 DEF Called
  <1> QED BY <1>1, <1>2, <1>3 DEF Copied

LEMMA KeptAliveAfter ==
  ASSUME UNCHANGED ir,
         \A b \in analyzed' : get_phi_liveness(b) \subseteq alive'
  PROVE  KeptAlive'
  <1>1. \A b : get_phi_liveness(b)' = get_phi_liveness(b)
    BY DEF get_phi_liveness, has_one_successor, OnlySuccessor
  <1> QED BY <1>1 DEF KeptAlive

LEMMA CopyParse ==
  ASSUME CopyInv, Parse
  PROVE  CopyInv'
  <1>1. PassesInv' /\ EInv'
    BY ParseStep, NextEInv DEF CopyInv, Parse
  <1>2. /\ pass = "parse" /\ analyzed = {} /\ copies = <<>>
        /\ pass' = pass /\ analyzed' = analyzed /\ copies' = copies
    BY DEF CopyInv, PassesInv, Parse, pass_vars
  <1> QED BY <1>1, <1>2 DEF CopyInv, KeptAlive

\* The Parser has finished: its state stays, and so does what it promises.
LEMMA CopyLater ==
  ASSUME CopyInv, phase = "done", UNCHANGED vars
  PROVE  EInv' /\ Promised /\ UNCHANGED ir
  <1>1. [Next]_vars
    OBVIOUS
  <1> QED BY <1>1, NextEInv, FinishedPromises DEF CopyInv, vars

LEMMA CopyLiveness ==
  ASSUME CopyInv,
         StartLiveness \/ liveness_analysis \/ SkipAnalysis \/ analyze_block
  PROVE  CopyInv'
  <1>1. PassesInv'
    BY LivenessPhase DEF CopyInv
  <1>2. /\ phase = "done" /\ UNCHANGED vars /\ pass' = "liveness" /\ copies' = copies
        /\ pass \in {"parse", "liveness"}
    BY DEF StartLiveness, liveness_analysis, SkipAnalysis, analyze_block, CopyInv, PassesInv
  <1>3. EInv' /\ UNCHANGED ir
    BY <1>2, CopyLater
  <1>4. copies' = <<>>
    BY <1>2 DEF CopyInv
  <1>5. KeptAlive'
    <2>1. \A b \in analyzed : get_phi_liveness(b) \subseteq alive
      BY DEF CopyInv, KeptAlive
    <2>2. \A b \in analyzed' : get_phi_liveness(b) \subseteq alive'
      <3>1. CASE StartLiveness \/ liveness_analysis \/ SkipAnalysis
        <4>1. analyzed' = analyzed /\ alive' = alive
          BY <3>1, Zenon DEF StartLiveness, liveness_analysis, SkipAnalysis
        <4> QED BY <2>1, <4>1
      <3>2. CASE analyze_block
        <4>1. PICK b : /\ analyzed' = analyzed \union {b}
                       /\ alive' = alive \union get_phi_liveness(b)
          BY <3>2, Zenon DEF analyze_block
        <4> QED BY <2>1, <4>1
      <3> QED BY <3>1, <3>2
    <2> QED BY <1>3, <2>2, KeptAliveAfter
  <1> QED BY <1>1, <1>2, <1>3, <1>4, <1>5 DEF CopyInv

LEMMA CopyColoring ==
  ASSUME CopyInv, StartColoring \/ SkipColoring \/ color_block
  PROVE  CopyInv'
  <1>1. PassesInv'
    BY ColoringPhase DEF CopyInv
  <1>2. /\ phase = "done" /\ UNCHANGED vars /\ pass' = "coloring"
        /\ analyzed' = analyzed /\ alive' = alive /\ pass \in {"liveness", "coloring"}
    BY Zenon DEF StartColoring, SkipColoring, color_block, CopyInv, PassesInv
  <1>3. EInv' /\ UNCHANGED ir /\ IROK(ir) /\ EdgesOK(ir)
    BY <1>2, CopyLater DEF Promised
  <1>4. KeptAlive'
    BY <1>2, <1>3, KeptAliveAfter DEF CopyInv, KeptAlive
  <1>5. Copied(copies', colored')
    <2>1. CASE StartColoring
      <3>1. copies' = <<>> /\ colored' = {0}
        BY <2>1 DEF StartColoring, CopyInv
      <3> QED BY <1>3, <3>1, NothingCopied
    <2>2. CASE SkipColoring
      <3>1. copies' = copies /\ colored' = colored /\ pass = "coloring"
        BY <2>2 DEF SkipColoring
      <3> QED BY <3>1 DEF CopyInv
    <2>3. CASE color_block
      <3> DEFINE b == Head(todo)
      <3>1. /\ pass = "coloring" /\ todo # <<>> /\ b \notin colored
            /\ colored' = colored \union {b} /\ copies' = copies \o PhiCopies(b, colored')
        BY <2>3, Zenon DEF color_block, color_refused
      <3>2. ColoringInv /\ Copied(copies, colored)
        BY <3>1 DEF CopyInv, PassesInv
      <3>3. b \in Indexes /\ 0 \in colored
        BY <3>1, <3>2, HeadAndTail DEF ColoringInv
      <3>4. b \in Blocks
        BY <1>3, <3>1, <3>3, FinishedGraph
      <3> HIDE DEF b
      <3> QED BY <1>3, <3>1, <3>2, <3>3, <3>4, ColorOne
    <2> QED BY <2>1, <2>2, <2>3
  <1>6. Copied(copies, colored)'
    BY <1>3, <1>5, CopiedAfter
  <1> QED BY <1>1, <1>2, <1>3, <1>4, <1>6 DEF CopyInv

LEMMA CopyEmission ==
  ASSUME CopyInv, StartEmission \/ block \/ Finish
  PROVE  CopyInv'
  <1>1. PassesInv'
    BY EmissionPhase DEF CopyInv
  <1>2. /\ phase = "done" /\ UNCHANGED vars
        /\ UNCHANGED <<analyzed, alive, colored, copies>>
        /\ pass \notin {"parse", "liveness"} /\ pass' \notin {"parse", "liveness"}
    BY DEF StartEmission, block, Finish, CopyInv, PassesInv
  <1>3. EInv' /\ UNCHANGED ir
    BY <1>2, CopyLater
  <1>4. KeptAlive'
    BY <1>2, <1>3, KeptAliveAfter DEF CopyInv, KeptAlive
  <1>5. Copied(copies, colored)'
    BY <1>2, <1>3, CopiedAfter DEF CopyInv
  <1> QED BY <1>1, <1>2, <1>3, <1>4, <1>5 DEF CopyInv

LEMMA CopyStutter ==
  ASSUME CopyInv, UNCHANGED all_vars
  PROVE  CopyInv'
  <1>1. PassesInv' /\ EInv'
    BY PassesNextInv, NextEInv DEF CopyInv, all_vars
  <1>2. /\ UNCHANGED ir
        /\ UNCHANGED <<pass, analyzed, alive, colored, copies>>
    BY DEF all_vars, vars, pass_vars
  <1>3. KeptAlive'
    BY <1>2, KeptAliveAfter DEF CopyInv, KeptAlive
  <1>4. pass \notin {"parse", "liveness"} => Copied(copies, colored)'
    BY <1>2, CopiedAfter DEF CopyInv
  <1> QED BY <1>1, <1>2, <1>3, <1>4 DEF CopyInv

LEMMA CopyInit ==
  ASSUME PassesInit
  PROVE  CopyInv
  <1>1. PassesInv /\ EInv
    BY PassesInitInv, InitEInv DEF PassesInit
  <1> QED BY <1>1 DEF PassesInit, CopyInv, KeptAlive

-----------------------------------------------------------------------------
(* The theorems.                                                           *)

\* At every moment of the coloring the calls of implement_phi_copies() made so
\* far are those for the edges between colored blocks and for the ends of loops
\* that are colored, each exactly once.
THEOREM CopyInvariance == PassesSpec => []CopyInv
  <1>1. PassesInit => CopyInv
    BY CopyInit
  <1>2. CopyInv /\ [PassesNext]_all_vars => CopyInv'
    BY CopyParse, CopyLiveness, CopyColoring, CopyEmission, CopyStutter DEF PassesNext
  <1> QED BY <1>1, <1>2, PTL DEF PassesSpec

\* What is known when the coloring is done.
LEMMA ColoringDone ==
  ASSUME CopyInv, pass \in {"emission", "done"}
  PROVE  /\ Promised /\ Copied(copies, Indexes)
         /\ \A b \in Blocks : get_phi_liveness(b) \subseteq alive
  <1>1. phase = "done" /\ analyzed = Blocks /\ colored = Blocks \union {0}
    BY DEF CopyInv, PassesInv, EveryBlockAnalyzed, EveryBlockColored
  <1>2. Promised
    BY <1>1, FinishedPromises DEF CopyInv
  <1>3. colored = Indexes
    BY <1>1, <1>2, FinishedGraph DEF Promised
  <1> QED BY <1>1, <1>2, <1>3 DEF CopyInv, KeptAlive

LEMMA CopiesAreGood ==
  ASSUME CopyInv, pass \in {"emission", "done"}, NEW x \in Range(copies), x[2] \in PhiBlocks
  PROVE  GoodCall(x[1], x[2]) /\ x = implement_phi_copies(x[1], x[2])
  <1>1. Promised /\ Copied(copies, Indexes)
    BY ColoringDone
  <1>2. x = implement_phi_copies(x[1], x[2]) /\ copies \in Seq(Calls)
    BY <1>1 DEF Copied
  <1>3. x \in Calls
    BY <1>2, RangeOfSequence
  <1>4. x[1] \in Indexes /\ x[2] \in Indexes
    BY <1>3 DEF Calls
  <1>5. Called(Indexes, x[1], x[2])
    BY <1>1, <1>2, <1>4 DEF Copied
  <1> QED BY <1>1, <1>2, <1>4, <1>5, CallsAreGood

\* insert_phi_copies() runs once for each edge into a JOIN or the header of a
\* closed loop, whichever of the two ends is colored first, and takes the
\* arguments of that edge.
THEOREM CopiedOnce == PassesSpec => []EdgesCopiedOnce
  <1>1. ASSUME CopyInv
        PROVE  EdgesCopiedOnce
    <2> SUFFICES ASSUME pass \in {"emission", "done"}
                 PROVE  /\ \A c \in Range(copies) : c[2] \in PhiBlocks => c \in PhiEdges
                        /\ \A e \in PhiEdges : \E i \in DOMAIN copies :
                             \A j \in DOMAIN copies : copies[j] = e <=> j = i
      BY DEF EdgesCopiedOnce
    <2>1. \A c \in Range(copies) : c[2] \in PhiBlocks => c \in PhiEdges
      BY <1>1, CopiesAreGood DEF GoodCall
    <2>2. ASSUME NEW e \in PhiEdges
          PROVE  \E i \in DOMAIN copies : \A j \in DOMAIN copies : copies[j] = e <=> j = i
      <3>1. Promised /\ Copied(copies, Indexes)
        BY <1>1, ColoringDone
      <3>2. PICK p \in Indexes, c \in Indexes :
              Called(Indexes, p, c) /\ e = implement_phi_copies(p, c)
        BY <3>1, EdgesAreCalled
      <3>3. e \in Range(copies)
        BY <3>1, <3>2 DEF Copied
      <3>4. PICK i \in DOMAIN copies : copies[i] = e
        BY <3>3 DEF Range
      <3>5. \A j \in DOMAIN copies : copies[j] = e <=> j = i
        BY <3>1, <3>4 DEF Copied, IsInjective
      <3> QED BY <3>5
    <2> QED BY <2>1, <2>2
  <1> QED BY <1>1, CopyInvariance, PTL

\* The arguments the copies of an edge read are alive up to the end of the block
\* they are put in: the liveness analysis and the coloring, which work out the
\* side of an edge each in its own way, agree.
THEOREM ArgumentsAlive == PassesSpec => []CopiedArgumentsAlive
  <1>1. ASSUME CopyInv
        PROVE  CopiedArgumentsAlive
    <2> SUFFICES ASSUME pass \in {"emission", "done"},
                        NEW x \in Range(copies), x[2] \in PhiBlocks
                 PROVE  x \in alive
      BY DEF CopiedArgumentsAlive
    <2>1. GoodCall(x[1], x[2]) /\ x = implement_phi_copies(x[1], x[2])
      BY <1>1, CopiesAreGood
    <2>2. x[1] \in Blocks /\ x \in get_phi_liveness(x[1])
      BY <2>1 DEF GoodCall
    <2> QED BY <1>1, <2>2, ColoringDone
  <1> QED BY <1>1, CopyInvariance, PTL

\* The copies of an edge are put in a block whose only way leads along that edge,
\* unless the block returns: they destroy no value another way still needs.
THEOREM CopiedOnTheWay == PassesSpec => []CopiesOnWayOnly
  <1>1. ASSUME CopyInv
        PROVE  CopiesOnWayOnly
    <2> SUFFICES ASSUME pass \in {"emission", "done"},
                        NEW x \in Range(copies), x[2] \in PhiBlocks, ~will_return(ir, x[1])
                 PROVE  Flow(x[1]) = {x[2]}
      BY DEF CopiesOnWayOnly
    <2>1. GoodCall(x[1], x[2])
      BY <1>1, CopiesAreGood
    <2> QED BY <2>1 DEF GoodCall
  <1> QED BY <1>1, CopyInvariance, PTL

=============================================================================
