---------------------------- MODULE ParallelCopy -----------------------------
(***************************************************************************)
(* What the PHIs of a block promise on one edge into the block: all their  *)
(* arguments are read first, then all of them get their values at once.    *)
(*                                                                         *)
(* Every location holds a value named after it when the edge is taken, so  *)
(* that the value a location ends up with tells where it came from.        *)
(***************************************************************************)
CONSTANTS
  Loc,     \* the locations values live in
  Const    \* the constants a PHI can have as an argument

VARIABLES
  copies,  \* for the location of each PHI, the location or constant it gets
  store,   \* the value in every location
  done

pc_vars == <<copies, store, done>>

Before == [l \in Loc |-> l]

After(c) == [l \in Loc |-> IF l \in DOMAIN c THEN c[l] ELSE l]

PCInit ==
  /\ \E D \in SUBSET Loc : copies \in [D -> Loc \union Const]
  /\ store = Before
  /\ done = FALSE

Copy ==
  /\ ~done
  /\ done' = TRUE
  /\ store' = After(copies)
  /\ UNCHANGED copies

PCSpec == PCInit /\ [][Copy]_pc_vars

=============================================================================
