SPECIFICATION FairSpec
CONSTANTS
  Window = 4
  TTL = 2
  PollPeriod = 2
  DialPeriod = 1
  ProbePeriod = 2
  FailureThreshold = 2
PROPERTY KedaCanReestablish
