SPECIFICATION Spec
CONSTANTS
  Func <- F3
  Relevant <- Third
  Programs <- CyclePrograms
  Entries <- First
  MaxRounds = 32
  MaxStack = 256
  MaxContexts = 50000
  ContextsPerFunc = 64
  HasDeadline = FALSE
  Reuse = TRUE
  Unknown = Unknown
  None = None
INVARIANTS Inv WaitersAreHeld RoundsSuffice AloneDefersNothing ReadyIsLeastSolution EdgesAreExact NeverAbove
