SPECIFICATION ServerSpec
CONSTANTS
  Sem = {a}
  Wire = {u, v}
  Worker = {srv}
  Srv = srv
  NoPlan = NoPlan
  Nothing = Nothing
  Partial = Partial
  NoHash = NoHash
  Client = {c1}
  Asked = {"plan"}
  Faults = FALSE
  MaxSerial = 1
PROPERTIES
  PlannedDiagramRuns
