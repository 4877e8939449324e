SPECIFICATION Spec
CONSTANTS
  Diagram = {Blank, bad}
  Broken = {bad}
  Blank = Blank
  First = Blank
  Field = {name}
  Unset = Unset
  NoPlan = NoPlan
  NoJob = NoJob
  HistoryLimit = 2
  MaxActs = 4
  MaxWire = 2
  MaxLost = 0
PROPERTIES
  ReviewedIsApplied
CHECK_DEADLOCK FALSE
