SPECIFICATION CliSpec
CONSTANTS
  Sem = {a, b}
  Wire = {u}
  Worker = {cli}
  Cli = cli
  NoPlan = NoPlan
  Nothing = Nothing
  Partial = Partial
  Faults = TRUE
  MaxSerial = 2
PROPERTIES
  DestroyRunsWhatWasShown
  PlanTakesEffectOnce
