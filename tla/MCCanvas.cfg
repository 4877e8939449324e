SPECIFICATION LiveSpec
CONSTANTS
  Diagram = {Blank, bad}
  Broken = {bad}
  Blank = Blank
  First = Blank
  Field = {name}
  Unset = Unset
  NoPlan = NoPlan
  NoJob = NoJob
  HistoryLimit = 2
  MaxActs = 4
  MaxWire = 2
  MaxLost = 1
INVARIANTS
  TypeOK
  UnsavedIsMarked
  ProblemsAreOfCanvas
PROPERTIES
  ShownIsApplied
  JobIsShown
CHECK_DEADLOCK FALSE
