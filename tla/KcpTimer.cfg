CONSTANTS
  Wrap = 25
  Interval = 2
  Retry = 2
  SlapMax = 3
  RtoMin = 2
  RtoDef = 3
  RtoMax = 3
  ProbeInit = 2
  ProbeLimit = 3
  FastResend = 1
  SndWnd = 2
  MaxLag = 1
  Scenarios <- MCScenarios
SPECIFICATION Spec
INVARIANTS TypeOK FlushOnTime RetransmitOnTime ProbeOnTime
PROPERTIES RetransmitNotEarly TimerRearmed
