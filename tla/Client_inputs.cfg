\* Every input, no difference of clocks, hardly any time.
CONSTANTS
  TicksPerSecond = 2
  MaxPresignExpirySeconds = 3
  MinSecretBytes = 2
  WellFormedRegions <- MCWellFormed
  ChinaRegions = {"cn-north-1"}
  Callers = {"alice", "bob"}
  Unset = Unset
  NoRegion = NoRegion
  Unparsable = Unparsable
  NoEndpoint = NoEndpoint
  NoInput = NoInput
  NoConfig = NoConfig
  NoEnvelope = NoEnvelope
  NoAnswer = NoAnswer
  NoGrant = NoGrant
  Inputs <- ManyInputs
  Servers <- OneServer
  Starts = {8}
  Skews <- NoSkew
SPECIFICATION Spec
CHECK_DEADLOCK FALSE
INVARIANTS
  TypeOK
  WellReceived
  RefusalExplained
  CommandLineDecides
