\* Both clients and other programs against a pair of servers.
CONSTANTS
  TicksPerSecond = 2
  MaxPresignExpirySeconds = 3
  MinSecretBytes = 2
  WellFormedRegions = {"us-east-1", "eu-west-1"}
  ChinaRegions = {}
  Callers = {"alice", "bob"}
  LaxUrls <- MCLaxUrls
  BadPorts = {"abc", "99999"}
  LeadingZeros <- MCLeadingZeros
  Lowered <- MCLowered
  Unsendable <- MCUnsendable
  Unset = Unset
  NoRegion = NoRegion
  Unparsable = Unparsable
  NoEndpoint = NoEndpoint
  NoConfig = NoConfig
  NoMessage = NoMessage
  NoAnswer = NoAnswer
  NoGrant = NoGrant
  Inputs <- MCInputs
  Foreign <- MCForeign
  Servers <- MCServers
  Starts = {8, 9}
  Horizon = 13
SPECIFICATION Spec
CHECK_DEADLOCK FALSE
INVARIANTS
  TypeOK
  ProofsCross
  ServersAgree
  TokensCross
