\* Two concurrent requests, restarts under another policy, all answers of STS.
CONSTANTS
  r1 = r1
  r2 = r2
  Requests = {r1, r2}
  Envelopes <- FewEnvelopes
  Configs <- TwoConfigs
  StsAnswers <- FewAnswers
  TicksPerSecond = 2
  MaxPresignExpirySeconds = 3
  MinSecretBytes = 2
  StsTimeout = 1
  MaxTime = 6
  Unparsable = Unparsable
  NoEndpoint = NoEndpoint
  Down = Down
  NoAdmission = NoAdmission
  NoReply = NoReply
  NoAnswer = NoAnswer
  NoGrant = NoGrant
  NoEnvelope = NoEnvelope
SPECIFICATION Spec
SYMMETRY Symmetry
INVARIANTS
  TypeOK
  GrantJustified
  ReplayBounded
PROPERTIES
  ImplementsFederation
