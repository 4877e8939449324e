SPECIFICATION ServerLiveSpec
CONSTANTS
  Sem = {a, b}
  Wire = {u}
  Worker = {srv}
  Srv = srv
  NoPlan = NoPlan
  Nothing = Nothing
  Partial = Partial
  NoHash = NoHash
  Client = {c1}
  Asked = {"plan", "drift"}
  Faults = TRUE
  MaxSerial = 1
INVARIANTS
  TypeOK
  OutputsWritten
PROPERTIES
  ReviewedRuns
  PlannedHashRuns
  PlanTakesEffectOnce
  EditsSurvive
  
  JobsEnd
