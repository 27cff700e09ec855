\* One request, every envelope and every answer of STS, which may also stay silent.
CONSTANTS
  r1 = r1
  r2 = r2
  Requests = {r1}
  Envelopes <- AllEnvelopes
  Configs <- AllConfigs
  StsAnswers <- AllAnswers
  TicksPerSecond = 2
  MaxPresignExpirySeconds = 3
  MinSecretBytes = 2
  StsTimeout = 2
  MaxTime = 3
  Unparsable = Unparsable
  NoEndpoint = NoEndpoint
  Down = Down
  NoAdmission = NoAdmission
  NoReply = NoReply
  NoAnswer = NoAnswer
  NoGrant = NoGrant
  NoEnvelope = NoEnvelope
SPECIFICATION FairSpec
INVARIANTS
  Bookkeeping
  ExtractionFaithful
  DelegationGated
  AnswerExplained
PROPERTIES
  EventuallyAnswered
