SPECIFICATION Spec
CONSTANTS
  Programs <- FamilyPrograms
  Family = "bodies"
  NoScope = NoScope
  NotYet = NotYet
  FpDepth = 2
  Deep = 8
INVARIANTS TypeOK CallsShown CallsShownInSummary OnlyRealCalls ModesAgree KeysAreCanonical KeysBounded
