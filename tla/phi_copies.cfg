SPECIFICATION Spec
CONSTANTS
  Reg = {r1, r2, r3}
  Slot = {s1}
  Const = {c1}
  MaxPhis = 4
CHECK_DEADLOCK FALSE
INVARIANTS TypeOK OnlyCyclesLeft
PROPERTIES ImplementsParallelCopy Terminates
