SPECIFICATION Spec
CONSTANTS
  Programs <- FamilyPrograms
  Family = "breaks"
  NoScope = NoScope
  NotYet = NotYet
  FpDepth = 2
  Deep = 8
INVARIANTS CallsShown
