SPECIFICATION FairWalkSpec
CONSTANTS
  p = p
  q = q
  x = x
  y = y
  Name <- Names
  Params <- PQ
  Bodies <- ShortBodies
INVARIANTS RelevantInv NothingMissed ExactlyWhatFlows
PROPERTIES Finishes
