---------------------------- MODULE ClientProofs ---------------------------
(***************************************************************************)
(* What a run of the client guarantees for any inputs, any configurations  *)
(* of the server, any clocks and any bounds.                               *)
(***************************************************************************)
EXTENDS Client, OperatorProofs

---------------------------------------------------------------------------
(* The inductive invariant: the types, and the stages in which there is    *)
(* a configuration, an envelope, an answer.                                *)
Progress ==
  /\ stage = "start" => cfg = NoConfig
  /\ env # NoEnvelope => stage \in {"posting", "verifying", "succeeded", "failed"}
  /\ answer # NoAnswer => service = "done"

IInv == TypeOK /\ Progress

LEMMA Loading ==
  ASSUME TypeOK, Progress, NEW in \in Inputs, Load(in)
  PROVE  IInv'
<1>1. Parse(in) # NoConfig
  BY ClientAssumption
<1> QED BY <1>1 DEF Load, IInv, TypeOK, Progress, Underway, serverVars, settingVars

LEMMA Posting ==
  ASSUME TypeOK, Progress, PostAuth
  PROVE  IInv'
BY DEF PostAuth, IInv, TypeOK, Progress, Underway, serverVars, settingVars

LEMMA Serving ==
  ASSUME TypeOK, Progress, Check \/ Federate \/ AnswerVerify
  PROVE  IInv'
BY DEF Check, Federate, AnswerVerify, IInv, TypeOK, Progress, Underway, clientVars, settingVars

LEMMA Waiting ==
  ASSUME TypeOK, Progress, Retrieve \/ ReceiveToken \/ ReceiveClaims \/ Expire \/ Fail \/ Tick
  PROVE  IInv'
BY DEF Retrieve, ReceiveToken, ReceiveClaims, Expire, Fail, Tick, IInv, TypeOK, Progress,
       Underway, clientVars, serverVars, settingVars

LEMMA Frozen ==
  ASSUME TypeOK, Progress, UNCHANGED vars
  PROVE  IInv'
BY DEF vars, clientVars, serverVars, settingVars, IInv, TypeOK, Progress, Underway

LEMMA Inductive == Spec => []IInv
<1>1. Init => IInv
  BY ClientAssumption DEF Init, IInv, TypeOK, Progress, Underway
<1>2. IInv /\ [Next]_vars => IInv'
  <2> SUFFICES ASSUME TypeOK, Progress, [Next]_vars PROVE IInv'
    BY DEF IInv
  <2> QED BY Loading, Posting, Serving, Waiting, Frozen DEF Next, Run
<1> QED BY <1>1, <1>2, PTL DEF Spec

(* TypeOK, for every instance: in particular the client never runs with a  *)
(* configuration that validate refuses (main.go:35-40).                    *)
THEOREM TypeCorrect == Spec => []TypeOK
BY Inductive, PTL DEF IInv

---------------------------------------------------------------------------
LEMMA ParsedFields ==
  ASSUME NEW in \in Inputs
  PROVE  /\ Parse(in).expiry = in.expiry
         /\ Parse(in).region = ChosenRegion(in)
         /\ Parse(in).endpoint = ChosenEndpoint(in)
         /\ Validates(Parse(in)) => Parse(in).expiry \in Int
BY ClientAssumption DEF Parse, Validates

LEMMA PostedReadable ==
  ASSUME TypeOK, env # NoEnvelope
  PROVE  /\ WellReceived
         /\ Undisguised(cfg) => Authentic(env)
         /\ Validates(cfg)
         /\ signedOn + skew \in Int
         /\ env = Build(cfg, signedOn + skew)
<1>1. /\ input \in Inputs /\ cfg = Parse(input) /\ Validates(cfg)
      /\ signedOn + skew \in Int /\ env = Build(cfg, signedOn + skew)
  BY DEF TypeOK
<1> QED BY <1>1, Readable, ParsedFields DEF WellReceived

(* Whatever configuration the client accepted, the server reads the        *)
(* envelope and takes from it what was signed (config.go:207-268,          *)
(* auth.go:105-326).                                                       *)
THEOREM EnvelopesReadable == Spec => []WellReceived
<1>1. IInv => WellReceived
  <2>1. CASE env = NoEnvelope BY <2>1 DEF WellReceived
  <2>2. CASE env # NoEnvelope BY <2>2, PostedReadable DEF IInv
  <2> QED BY <2>1, <2>2
<1> QED BY <1>1, Inductive, PTL

---------------------------------------------------------------------------
(* What is written on the command line for one of region and endpoint      *)
(* decides about both (config.go:138-184).                                 *)
THEOREM CommandLineObeyed == Spec => []CommandLineDecides
<1>1. ASSUME TypeOK PROVE CommandLineDecides
  <2> SUFFICES ASSUME NEW in \in Inputs
               PROVE  LET c == Parse(in)
                      IN  /\ /\ in.region.flag \notin {Unset} \cup ChinaRegions
                             /\ in.endpoint.flag = Unset
                             => c.region = in.region.flag /\ RegionAgrees(c)
                          /\ /\ in.endpoint.flag # Unset
                             /\ in.region.flag = Unset
                             /\ ParsesUntrimmed(in.endpoint.flag)
                             => c.endpoint = in.endpoint.flag /\ RegionAgrees(c)
    BY <1>1 DEF TypeOK, CommandLineDecides
  <2> DEFINE c == Parse(in)
  <2>1. ASSUME in.region.flag \notin {Unset} \cup ChinaRegions, in.endpoint.flag = Unset
        PROVE  c.region = in.region.flag /\ RegionAgrees(c)
    <3> DEFINE r == in.region.flag
    <3>1. /\ Strength(in.region) = 2 /\ Strength(in.endpoint) \in {0, 1}
          /\ Given(in.region, DefaultRegion) = r
      BY <2>1 DEF Strength, Given
    <3>2. EndpointForRegion(r) = IF r = DefaultRegion THEN DefaultEndpoint ELSE StandardEndpoint(r)
      BY Zenon, <2>1 DEF EndpointForRegion
    <3>3. EndpointForRegion(r) # NoEndpoint
      BY <3>2, ClientAssumption
    <3>4. c.region = r
      BY <3>1, ParsedFields DEF ChosenRegion
    <3>5. c.endpoint = EndpointForRegion(r)
      BY <3>1, <3>3, ParsedFields DEF ChosenEndpoint
    <3>6. RegionForSTSHost(EndpointForRegion(r).host) = r
      <4>1. RegionForSTSHost(DefaultEndpoint.host) = DefaultRegion
        BY Zenon DEF RegionForSTSHost
      <4>2. ASSUME NEW h, h = StandardEndpoint(r).host
            PROVE  RegionForSTSHost(h) = r
        <5>1. h = <<"sts", r, "amazonaws", "com">>
          BY <4>2 DEF StandardEndpoint, Url
        <5>2. h # DefaultEndpoint.host
          BY <5>1 DEF DefaultEndpoint, Url
        <5>3. h[1] = "sts" /\ h[2] = r /\ SubSeq(h, 3, Len(h)) = <<"amazonaws", "com">>
          <6> DEFINE rest == SubSeq(h, 3, 4)
          <6>1. /\ h \in Seq({"sts", r, "amazonaws", "com"}) /\ Len(h) = 4
                /\ h[1] = "sts" /\ h[2] = r /\ h[3] = "amazonaws" /\ h[4] = "com"
            BY <5>1
          <6>2. /\ rest \in Seq({"sts", r, "amazonaws", "com"}) /\ Len(rest) = 2
                /\ rest[1] = h[3] /\ rest[2] = h[4]
            BY <6>1
          <6>3. rest = <<"amazonaws", "com">>
            <7> HIDE DEF rest
            <7> QED BY <6>1, <6>2
          <6> QED BY <6>1, <6>3
        <5> QED BY <5>2, <5>3 DEF RegionForSTSHost
      <4> QED BY <3>2, <4>1, <4>2
    <3> QED BY <3>4, <3>5, <3>6 DEF RegionAgrees
  <2>2. ASSUME in.endpoint.flag # Unset, in.region.flag = Unset, ParsesUntrimmed(in.endpoint.flag)
        PROVE  c.endpoint = in.endpoint.flag /\ RegionAgrees(c)
    <3> DEFINE u == in.endpoint.flag
    <3>1. /\ Strength(in.endpoint) = 2 /\ Strength(in.region) \in {0, 1}
          /\ Given(in.endpoint, DefaultEndpoint) = u
      BY <2>2 DEF Strength, Given
    <3>2. c.endpoint = u
      BY <3>1, ParsedFields DEF ChosenEndpoint
    <3>3. RegionForSTSHost(u.host) # NoRegion => c.region = RegionForSTSHost(u.host)
      BY <2>2, <3>1, ParsedFields DEF ChosenRegion
    <3> QED BY <3>2, <3>3 DEF RegionAgrees
  <2> QED BY <2>1, <2>2
<1> QED BY <1>1, TypeCorrect, PTL

---------------------------------------------------------------------------
(* What the server's answers say about the proof the client made.          *)

(* What is signed at t is not fresh at u: one of the clocks is to blame,   *)
(* or the way was too long.                                                *)
LEMMA NotFresh ==
  ASSUME NEW c, NEW s, NEW t \in Int, NEW u \in Int, NEW w \in Int,
         s \in Servers, c.expiry \in Int,
         w = Window(s, Meaning(Build(c, t).signed)),
         ~Fresh(s, Meaning(Build(c, t).signed), u)
  PROVE  t > u \/ u - t + TicksPerSecond > w
<1> DEFINE p == Meaning(Build(c, t).signed)
<1>1. p.signedAt = Instant(Seconds(t))
  BY DEF Build, BuildProof, BuildPresignedProof, EnvelopeFromRequest, PresignedEnvelope,
         SignHTTP, PresignHTTP, Meaning, AmzDate, Host, ContentType, Binding
<1> HIDE DEF p
<1>2. ~(u - p.signedAt >= 0 /\ u - p.signedAt <= w)
  BY DEF Fresh, p
<1> QED BY <1>1, <1>2, Truncation, WallClockAssumption

(* A request of the client has the right shape.                            *)
LEMMA GoodShape ==
  ASSUME NEW c, NEW t, c.form \in {"header", "presigned"}
  PROVE  LET p == Meaning(Build(c, t).signed)
         IN  /\ p.binding = c.binding
             /\ p.method = ExpectedMethod(p)
             /\ p.action = GetCallerIdentity
BY SignedShape, EnvelopeFields

(* The answers without a call of STS.                                      *)
LEMMA EarlyAnswers ==
  ASSUME TypeOK, env # NoEnvelope, NEW a, a = EarlyAnswer(env, now), a # Accepted
  PROVE  \/ /\ a.error = "binding_mismatch" /\ cfg.binding # server.binding
         \/ /\ a.error = "stale"
            /\ \/ skew > now - signedOn
               \/ now - signedOn - skew + TicksPerSecond > Window(server, ExtractProof(env))
         \/ /\ a.error = "verification_failed"
            /\ NormalizeEndpoint(cfg.endpoint) \notin AllowedEndpoints(server.endpoints)
<1> DEFINE p == ExtractProof(env)
           t == signedOn + skew
<1>1. /\ ExtractCheck(env) = Accepted /\ env = Build(cfg, t) /\ p = Meaning(env.signed)
      /\ Validates(cfg) /\ t \in Int /\ cfg.expiry \in Int
      /\ {now, signedOn, skew} \subseteq Int /\ server \in Servers
  BY PostedReadable, ParsedFields DEF WellReceived, TypeOK
<1> HIDE DEF p, t
<1>2. p.binding = cfg.binding /\ p.method = ExpectedMethod(p) /\ p.action = GetCallerIdentity
  <2>1. cfg.form \in {"header", "presigned"}
    BY <1>1 DEF Validates
  <2>2. p = Meaning(Build(cfg, t).signed)
    BY <1>1
  <2>3. LET m == Meaning(Build(cfg, t).signed)
        IN  m.binding = cfg.binding /\ m.method = ExpectedMethod(m) /\ m.action = GetCallerIdentity
    BY <2>1, GoodShape
  <2> QED BY <2>2, <2>3
<1>3. env.url = cfg.endpoint /\ ~env.url.padded
  BY <1>1, EnvelopeFields DEF Validates, ParsesUntrimmed
<1> DEFINE reason == LocalCheck(server, p, now)
           err == DelegationError(server.endpoints, env)
<1>4. \/ reason = "binding_mismatch" /\ cfg.binding # server.binding
      \/ reason = "stale" /\ ~Fresh(server, p, now)
      \/ reason = "none"
  BY <1>2 DEF LocalCheck
<1>5. \/ err = "rejected"
         /\ NormalizeEndpoint(cfg.endpoint) \notin AllowedEndpoints(server.endpoints)
      \/ err = "none"
  BY <1>3 DEF DelegationError
<1>6. \/ reason # "none" /\ a = Refusal(RejectionStatus(reason), reason)
      \/ reason = "none" /\ err # "none" /\ a = WriteAuthError(err)
  BY <1>1 DEF EarlyAnswer, p
<1>7. ASSUME ~Fresh(server, p, now)
      PROVE  \/ skew > now - signedOn
             \/ now - signedOn - skew + TicksPerSecond > Window(server, p)
  <2>1. Window(server, p) \in Int
    <3>1. p.expiry \in Int
      <4>1. p.expiry = 0 \/ p.expiry = Instant(Seconds(cfg.expiry))
        BY <1>1 DEF Build, BuildProof, BuildPresignedProof, EnvelopeFromRequest,
                    PresignedEnvelope, SignHTTP, PresignHTTP, Meaning
      <4> QED BY <1>1, <4>1, Truncation
    <3> QED BY <1>1, <3>1, ClientAssumption DEF Window
  <2>2. t > now \/ now - t + TicksPerSecond > Window(server, p)
    BY <1>1, <1>7, <2>1, NotFresh
  <2> QED BY <1>1, <2>1, <2>2, WallClockAssumption DEF t
<1> HIDE DEF reason, err
<1> QED BY <1>4, <1>5, <1>6, <1>7 DEF Refusal, WriteAuthError, p

(* What an answer was decided on stays as it was.                          *)
Grounds == <<env, signedOn, checkedOn, skew, server, cfg>>

LEMMA AnswersStay ==
  ASSUME TypeOK, Progress, [Next]_vars
  PROVE  \/ /\ answer' = answer
            /\ answer # NoAnswer => UNCHANGED Grounds
         \/ Check /\ answer' = EarlyAnswer(env, now) /\ answer' # Accepted
         \/ Federate
<1> USE DEF clientVars, serverVars, settingVars, TypeOK, Progress, Grounds
<1>1. ASSUME NEW in \in Inputs, Load(in) PROVE answer' = answer /\ answer = NoAnswer
  BY <1>1 DEF Load
<1>2. CASE PostAuth
  BY <1>2 DEF PostAuth
<1>3. CASE Retrieve \/ ReceiveToken \/ ReceiveClaims \/ Expire \/ Fail \/ Tick
  BY <1>3 DEF Retrieve, ReceiveToken, ReceiveClaims, Expire, Fail, Tick
<1>4. CASE Check
  BY <1>4 DEF Check
<1>5. CASE AnswerVerify
  BY <1>5 DEF AnswerVerify
<1>6. CASE UNCHANGED vars
  BY <1>6 DEF vars
<1> QED BY <1>1, <1>2, <1>3, <1>4, <1>5, <1>6 DEF Next, Run

(* The clocks or the way are to blame for a stale proof (service.go:56-71).*)
THEOREM StalenessExplained == Spec => []StaleExplained
<1>1. Init => StaleExplained
  BY DEF Init, StaleExplained
<1>2. IInv /\ StaleExplained /\ [Next]_vars => StaleExplained'
  <2> SUFFICES ASSUME TypeOK, Progress, StaleExplained, [Next]_vars,
                      answer' # NoAnswer, answer'.error = "stale"
               PROVE  (\/ skew > checkedOn - signedOn
                       \/ checkedOn - signedOn - skew + TicksPerSecond
                            > Window(server, ExtractProof(env)))'
    BY DEF IInv, StaleExplained
  <2>0. \/ answer' = answer /\ UNCHANGED Grounds
        \/ Check /\ answer' = EarlyAnswer(env, now) /\ answer' # Accepted
        \/ Federate
    BY AnswersStay
  <2>1. CASE answer' = answer /\ UNCHANGED Grounds
    BY <2>1 DEF StaleExplained, Grounds
  <2>2. CASE Check /\ answer' = EarlyAnswer(env, now) /\ answer' # Accepted
    <3>1. env # NoEnvelope /\ checkedOn' = now /\ UNCHANGED <<env, signedOn, skew, server>>
      BY <2>2 DEF Check, clientVars, settingVars
    <3>2. \/ skew > now - signedOn
          \/ now - signedOn - skew + TicksPerSecond > Window(server, ExtractProof(env))
      BY <2>2, <3>1, EarlyAnswers
    <3>3. (Window(server, ExtractProof(env)))' = Window(server, ExtractProof(env))
      BY <3>1
    <3>4. (skew - (checkedOn - signedOn))' = skew - (now - signedOn)
      BY <3>1
    <3> QED BY <3>1, <3>2, <3>3
  <2>3. CASE Federate
    BY <2>3 DEF Federate, WriteAuthError, Refusal, RejectionStatus
  <2> QED BY <2>0, <2>1, <2>2, <2>3
<1> QED BY <1>1, <1>2, Inductive, PTL DEF Spec

---------------------------------------------------------------------------
(* STS refuses the client only for a caller it does not know, at a host    *)
(* that is not a standard one, or for a Host that was not signed.          *)
LEMMA StsRefusals ==
  ASSUME TypeOK, env # NoEnvelope, ~StsRecognises(env)
  PROVE  cfg.caller \notin Callers \/ RegionForSTSHost(cfg.endpoint.host) = NoRegion \/ ~Undisguised(cfg)
<1>1. (Undisguised(cfg) => Authentic(env)) /\ Validates(cfg) /\ env = Build(cfg, signedOn + skew)
  BY PostedReadable
<1>2. env.url = cfg.endpoint /\ env.signed.signer = cfg.caller
  BY <1>1, EnvelopeFields
<1>3. cfg.endpoint.host \in Seq(STRING)
  BY ClientAssumption DEF TypeOK
<1>4. RegionForSTSHost(cfg.endpoint.host) \in {NoRegion, cfg.region}
  BY <1>1 DEF Validates, RegionAgrees
<1> QED BY <1>1, <1>2, <1>3, <1>4, StandardHostsUndotted DEF StsRecognises

(* Every refusal of the client's request has a cause outside the client    *)
(* (config.go:207-268).                                                    *)
THEOREM RefusalsExplained == Spec => []RefusalExplained
<1>1. Init => RefusalExplained
  BY DEF Init, RefusalExplained
<1>2. IInv /\ RefusalExplained /\ [Next]_vars => RefusalExplained'
  <2> SUFFICES ASSUME TypeOK, Progress, RefusalExplained, [Next]_vars, answer' # NoAnswer
               PROVE  RefusalExplained'
    BY DEF IInv, RefusalExplained
  <2>0. \/ answer' = answer /\ UNCHANGED Grounds
        \/ Check /\ answer' = EarlyAnswer(env, now) /\ answer' # Accepted
        \/ Federate
    BY AnswersStay
  <2>1. CASE answer' = answer /\ UNCHANGED Grounds
    BY <2>1 DEF RefusalExplained, Grounds
  <2>2. CASE Check /\ answer' = EarlyAnswer(env, now) /\ answer' # Accepted
    <3>1. env # NoEnvelope /\ UNCHANGED <<cfg, server>>
      BY <2>2 DEF Check, clientVars, settingVars
    <3> QED BY <2>2, <3>1, EarlyAnswers DEF RefusalExplained
  <2>3. CASE Federate
    <3>1. env # NoEnvelope /\ UNCHANGED <<cfg, server>>
      BY <2>3 DEF Federate, clientVars, settingVars, TypeOK
    <3>2. env.signed.signer = cfg.caller
      BY <3>1, PostedReadable, EnvelopeFields
    <3>3. \/ ~StsRecognises(env) /\ answer'.error = "verification_failed"
          \/ answer'.error \in {"upstream_error", "none"}
          \/ answer'.error = "arn_not_allowed" /\ cfg.caller \notin server.arns
      BY <2>3, <3>2 DEF Federate, WriteAuthError, Refusal
    <3> QED BY <3>1, <3>3, StsRefusals DEF RefusalExplained, Undisguised
  <2> QED BY <2>0, <2>1, <2>2, <2>3
<1> QED BY <1>1, <1>2, Inductive, PTL DEF Spec

---------------------------------------------------------------------------
(* A token is accepted at least until a second before its ttl is over.     *)
LEMMA FreshToken ==
  ASSUME NEW s \in Servers, NEW sub, NEW m \in Int, NEW t \in Int,
         t - m + TicksPerSecond <= s.ttl
  PROVE  WriteVerifyAnswer(VerifyToken(s, IssueCredential(s, "jti", sub, m), t)).status = 200
<1> DEFINE tok == IssueCredential(s, "jti", sub, m)
<1>1. /\ tok.segments = 3 /\ tok.header /\ tok.payload /\ tok.key = s.secret
      /\ tok.claims.iss = s.iss /\ tok.claims.aud = s.aud
      /\ tok.claims.exp = Seconds(m + s.ttl)
  BY DEF IssueCredential, Claims
<1> HIDE DEF tok
<1>2. ~Expired(tok.claims, t)
  <2>1. s.ttl \in Int /\ m + s.ttl \in Int
    BY ClientAssumption
  <2> QED BY <1>1, <2>1, Truncation, WallClockAssumption DEF Expired
<1>3. Inspect(s, tok) = "valid"
  BY <1>1 DEF Inspect
<1>4. VerifyToken(s, tok, t) = "valid"
  BY <1>1, <1>2, <1>3 DEF VerifyToken
<1>5. WriteVerifyAnswer("valid") = Refusal(200, "none")
  BY Zenon DEF WriteVerifyAnswer
<1> QED BY <1>4, <1>5 DEF tok, Refusal

(* What the verification of the granted token relies on.                   *)
GrantHeld ==
  /\ answer # NoAnswer /\ answer.status = 200 =>
       /\ granted.at \in Int
       /\ \E sub : granted.token = IssueCredential(server, "jti", sub, granted.at)
  /\ stage = "verifying" => answer # NoAnswer /\ answer.status = 200
  /\ verdict # NoAnswer => answer # NoAnswer

LEMMA GrantHeldStep ==
  ASSUME TypeOK, Progress, GrantHeld, [Next]_vars
  PROVE  GrantHeld'
<1> USE DEF GrantHeld, TypeOK, Progress, clientVars, serverVars, settingVars
<1>1. ASSUME NEW in \in Inputs, Load(in) PROVE GrantHeld'
  BY <1>1 DEF Load
<1>2. CASE Retrieve \/ PostAuth \/ ReceiveToken \/ ReceiveClaims \/ Expire \/ Fail \/ Tick
  BY <1>2 DEF Retrieve, PostAuth, ReceiveToken, ReceiveClaims, Expire, Fail, Tick
<1>3. CASE Check
  <2>1. answer = NoAnswer /\ stage # "verifying" /\ stage' = stage
    BY <1>3 DEF Check
  <2>2. answer' # NoAnswer => answer'.status # 200
    <3>1. CASE answer' = NoAnswer BY <3>1
    <3>2. CASE answer' = EarlyAnswer(env, now) /\ EarlyAnswer(env, now) # Accepted
      <4>1. ExtractCheck(env) = Accepted
        BY <1>3, PostedReadable DEF Check, WellReceived
      <4> QED BY <3>2, <4>1 DEF EarlyAnswer, WriteAuthError, Refusal, RejectionStatus
    <3> QED BY <1>3, <2>1, <3>1, <3>2 DEF Check
  <2> QED BY <1>3, <2>1, <2>2 DEF Check
<1>4. CASE Federate
  BY <1>4 DEF Federate, WriteAuthError, Refusal, RejectionStatus
<1>5. CASE AnswerVerify
  BY <1>5 DEF AnswerVerify
<1>6. CASE UNCHANGED vars
  BY <1>6 DEF vars
<1> QED BY <1>1, <1>2, <1>3, <1>4, <1>5, <1>6 DEF Next, Run

(* The round trip of the demo succeeds unless the token is about to expire *)
(* (client/main.go:90-115, verify_service.go:29-53).                       *)
THEOREM RoundTripsSucceed == Spec => []RoundTrip
<1>1. Init => GrantHeld /\ RoundTrip
  BY DEF Init, GrantHeld, RoundTrip
<1>2. IInv /\ GrantHeld /\ RoundTrip /\ [Next]_vars => (GrantHeld /\ RoundTrip)'
  <2> SUFFICES ASSUME TypeOK, Progress, GrantHeld, RoundTrip, [Next]_vars PROVE RoundTrip'
    BY GrantHeldStep DEF IInv
  <2>1. CASE AnswerVerify
    <3>1. PICK sub : granted.token = IssueCredential(server, "jti", sub, granted.at)
      BY <2>1 DEF AnswerVerify, GrantHeld
    <3>2. granted.at \in Int /\ now \in Int /\ server \in Servers /\ server.ttl \in Int
      BY <2>1, ClientAssumption DEF AnswerVerify, GrantHeld, TypeOK
    <3>3. /\ verdict'.answer = WriteVerifyAnswer(VerifyToken(server, granted.token, now))
          /\ verdict'.at = now
          /\ UNCHANGED <<granted, server>>
      BY <2>1 DEF AnswerVerify, settingVars
    <3>4. \/ verdict'.answer.status = 200
          \/ now - granted.at + TicksPerSecond > server.ttl
      BY <3>1, <3>2, <3>3, FreshToken, WallClockAssumption
    <3> QED BY <3>3, <3>4 DEF RoundTrip
  <2>2. CASE Federate
    BY <2>2 DEF Federate, RoundTrip, GrantHeld, Progress
  <2>3. ASSUME NEW in \in Inputs, Load(in) PROVE RoundTrip'
    BY <2>3 DEF Load, RoundTrip, serverVars, settingVars
  <2>4. CASE Run \/ Fail \/ Tick
    BY <2>4 DEF Run, Retrieve, PostAuth, ReceiveToken, ReceiveClaims, Expire, Fail, Tick,
                RoundTrip, serverVars, settingVars
  <2>5. CASE Check
    BY <2>5 DEF Check, RoundTrip, settingVars
  <2>6. CASE UNCHANGED vars
    BY <2>6 DEF vars, RoundTrip, serverVars, settingVars
  <2> QED BY <2>1, <2>2, <2>3, <2>4, <2>5, <2>6 DEF Next
<1> QED BY <1>1, <1>2, Inductive, PTL DEF Spec
===========================================================================
