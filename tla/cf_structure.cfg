SPECIFICATION PassesSpec
CONSTANT MaxStatements = 5
CHECK_DEADLOCK FALSE
INVARIANTS TypeOK WellFormedGraph BranchesLabelled BranchesComplete WhileLoopFlag DomsAreDominators EveryBlockAnalyzed EveryBlockColored EveryBlockEmitted EdgesCopiedOnce CopiedArgumentsAlive CopiesOnWayOnly
