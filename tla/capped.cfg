SPECIFICATION Spec
CONSTANTS
  Func <- F3
  Relevant <- Third
  Programs <- ValuePrograms
  Entries <- First
  MaxRounds = 1
  MaxStack = 256
  MaxContexts = 50000
  ContextsPerFunc = 64
  HasDeadline = FALSE
  Reuse = TRUE
  Unknown = Unknown
  None = None
INVARIANTS CappedSayUnknown
