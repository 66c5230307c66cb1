SPECIFICATION FairSpec
CONSTANTS
  Window = 4
  TTL = 2
  PollPeriod = 2
  DialPeriod = 5
  ProbePeriod = 2
  FailureThreshold = 2
INVARIANTS
  TypeOK
  EndpointMeansRecentAnswer
PROPERTIES
  OutageMarksUnready
  StaysReadyWhileConnected
