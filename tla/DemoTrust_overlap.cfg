SPECIFICATION Spec
CONSTANTS
  Starts = {s1, s2}
  Ports <- MCDefaultPort
  Endpoints <- MCEndpoints
  AwsEndpoint <- MCAwsEndpoint
  Aws = Aws
  San <- MCSan
  Validity = 1
  BackDate = 1
  MaxTime = 3
  Absent = Absent
  Empty = Empty
  Nobody = Nobody
  NoAnswer = NoAnswer
INVARIANT
  TrustsWitnessed
