SPECIFICATION FairSpec
CONSTANTS
  Func <- F7
  Relevant <- Seventh
  Programs <- GroupPrograms
  Entries <- F7
  MaxRounds = 32
  MaxStack = 256
  MaxContexts = 50000
  ContextsPerFunc = 64
  HasDeadline = TRUE
  Reuse = TRUE
  Unknown = Unknown
  None = None
INVARIANTS TypeOK StackMatches ReaderIsTheAsker WalkedOnce CutsAreMarked CutsSayUnknown NothingLeftWaiting
PROPERTIES ReadyIsFinal ImplementsStore Terminates
