SPECIFICATION Spec
CONSTANTS
  Func <- F3
  Relevant <- Third
  Programs <- ValuePrograms
  Entries <- First
  MaxRounds = 32
  MaxStack = 2
  MaxContexts = 50000
  ContextsPerFunc = 2
  HasDeadline = FALSE
  Reuse = TRUE
  Unknown = Unknown
  None = None
INVARIANTS WithinLimits CutsAreMarked EntryIsMarked CutsSayUnknown ReadyIsLeastSolution
