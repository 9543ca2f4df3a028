SPECIFICATION Spec
CONSTANTS
  Func <- F7
  Relevant <- Seventh
  Programs <- GroupPrograms
  Entries <- F7
  MaxRounds = 32
  MaxStack = 256
  MaxContexts = 50000
  ContextsPerFunc = 64
  HasDeadline = FALSE
  Reuse = FALSE
  Unknown = Unknown
  None = None
INVARIANTS ReadyIsLeastSolution
