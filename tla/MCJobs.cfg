SPECIFICATION JobLiveSpec
CONSTANTS
  MaxJobs = 2
  MaxLines = 3
  ChanCap = 1
  Stream = {s1}
INVARIANTS
  OneBodyAtATime
  StreamInOrder
  CompleteUnlessSlow
  DoneIsLast
PROPERTIES
  OutcomeIsFinal
  ImplementsExecutor
  CancelEndsJob
  StreamEnds
CHECK_DEADLOCK FALSE
