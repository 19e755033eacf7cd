\* Whatever fails, and when nothing does.
CONSTANTS
  Timeout = 2
  KqCap = 3
  Scenarios <- Both
SPECIFICATION Spec
INVARIANTS TypeOK ServerReadyAfterClient LookupFindsLive HealthyStaysValid
PROPERTIES NeverReadyAgain DisagreementEnds FallsBack AllDelivered
CHECK_DEADLOCK FALSE
