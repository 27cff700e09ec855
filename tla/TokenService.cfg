\* One token, restarts under eight jwt sections, a clock that may be set back.
CONSTANTS
  Tokens = {k1}
  Strangers <- MCStrangers
  Settings <- MCSettings
  TicksPerSecond = 2
  MinSecretBytes = 2
  MaxTime = 8
  Down = Down
  NoGrant = NoGrant
  NoVerdict = NoVerdict
SPECIFICATION Spec
INVARIANTS
  TypeOK
  AcceptedOnlyInLife
  HonouredInLife
  BornAlive
  StrangersRefused
