\* The two clocks differ, messages take their time.
CONSTANTS
  TicksPerSecond = 2
  MaxPresignExpirySeconds = 3
  MinSecretBytes = 2
  WellFormedRegions <- MCWellFormed
  ChinaRegions = {"cn-north-1"}
  Callers = {"alice", "bob"}
  Unset = Unset
  NoRegion = NoRegion
  Unparsable = Unparsable
  NoEndpoint = NoEndpoint
  NoInput = NoInput
  NoConfig = NoConfig
  NoEnvelope = NoEnvelope
  NoAnswer = NoAnswer
  NoGrant = NoGrant
  Inputs <- FewInputs
  Servers <- TwoServers
  Starts = {8, 9}
  Skews <- AnySkew
SPECIFICATION FairSpec
CHECK_DEADLOCK FALSE
INVARIANTS
  StaleExplained
  RoundTrip
PROPERTY
  EventuallyExits
