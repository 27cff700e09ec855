------------------------- MODULE TokenServiceProofs ------------------------
(***************************************************************************)
(* What POST /verify guarantees for any ttl, any resolution of the clock,  *)
(* any number of tokens, restarts and corrections of the clock.            *)
(***************************************************************************)
EXTENDS TokenService, OperatorProofs

---------------------------------------------------------------------------
(* The three ways /verify answers a posted body.                           *)
LEMMA AnswerCases ==
  ASSUME NEW json \in Bodies, NEW tok
  PROVE  \/ VerifyAnswer(json, tok) \in
              {Refusal(413, "body_too_large"), Refusal(400, "invalid_body")}
         \/ VerifyAnswer(json, tok) = WriteVerifyAnswer(VerifyToken(conf, tok, now))
<1>1. BindJSONBody(json) \in
        {Accepted, Refusal(413, "body_too_large"), Refusal(400, "invalid_body")}
  BY Zenon DEF BindJSONBody
<1> QED BY Zenon, <1>1 DEF VerifyAnswer

---------------------------------------------------------------------------
(* Types, and the invariant of the last answer.                            *)
THEOREM TokensWellFormed == Spec => [](TypeOK /\ VerdictExact)
<1>1. Init => TypeOK /\ VerdictExact
  BY TokenServiceAssumption DEF Init, TypeOK, VerdictExact, Issued
<1>2. TypeOK /\ VerdictExact /\ [Next]_vars => (TypeOK /\ VerdictExact)'
  <2> SUFFICES ASSUME TypeOK, VerdictExact, [Next]_vars PROVE (TypeOK /\ VerdictExact)'
    OBVIOUS
  <2>1. CASE UNCHANGED vars
    BY <2>1 DEF vars, TypeOK, VerdictExact, Issued, Presented, VerifyAnswer
  <2>2. ASSUME NEW c \in Settings, Boot(c) PROVE (TypeOK /\ VerdictExact)'
    BY <2>2 DEF Boot, TypeOK, VerdictExact, Issued
  <2>3. CASE Stop
    BY <2>3 DEF Stop, TypeOK, VerdictExact, Issued
  <2>4. CASE Tick
    BY <2>4, TokenServiceAssumption DEF Tick, TypeOK, VerdictExact, Issued
  <2>5. ASSUME NEW t \in 0..MaxTime, SetBack(t) PROVE (TypeOK /\ VerdictExact)'
    BY <2>5 DEF SetBack, TypeOK, VerdictExact, Issued
  <2>6. ASSUME NEW k \in Tokens, Issue(k) PROVE (TypeOK /\ VerdictExact)'
    BY <2>6 DEF Issue, TypeOK, VerdictExact, Issued
  <2>7. ASSUME NEW json \in Bodies, NEW tok \in Presented, Verify(json, tok)
        PROVE  (TypeOK /\ VerdictExact)'
    <3>1. Presented' = Presented BY <2>7 DEF Verify, Presented, Issued
    <3>2. TypeOK' BY <2>7, <3>1 DEF Verify, TypeOK, Issued
    <3>3. VerifyAnswer(json, tok)' = VerifyAnswer(json, tok)
      BY <2>7 DEF Verify, VerifyAnswer
    <3>4. VerdictExact' BY <2>7, <3>3 DEF Verify, VerdictExact, VerifyAnswer
    <3> QED BY <3>2, <3>4
  <2> QED
    BY <2>1, <2>2, <2>3, <2>4, <2>5, <2>6, <2>7 DEF Next
<1> QED BY <1>1, <1>2, PTL DEF Spec

(* What an answer of /verify says of the token it was given.               *)
LEMMA AnswerMeaning ==
  ASSUME VerdictExact, verdict # NoVerdict
  PROVE  /\ verdict.answer.status = 200 => VerifyToken(conf, verdict.token, now) = "valid"
         /\ \/ verdict.answer.error \in {"invalid_body", "body_too_large"}
            \/ VerifyToken(conf, verdict.token, now) = "valid" => verdict.answer.status = 200
<1>1. PICK json \in Bodies : verdict.answer = VerifyAnswer(json, verdict.token)
  BY DEF VerdictExact
<1>2. CASE verdict.answer \in {Refusal(413, "body_too_large"), Refusal(400, "invalid_body")}
  BY <1>2 DEF Refusal
<1>3. CASE verdict.answer = WriteVerifyAnswer(VerifyToken(conf, verdict.token, now))
  BY <1>3, VerdictStatus DEF Refusal
<1> QED BY <1>1, <1>2, <1>3, AnswerCases

(* No token outlives its ttl, nor the secret, issuer or audience it was    *)
(* issued under.                                                           *)
THEOREM NoTokenOutlivesItsTTL == Spec => []AcceptedOnlyInLife
<1>1. TypeOK /\ VerdictExact => AcceptedOnlyInLife
  <2> SUFFICES ASSUME TypeOK, VerdictExact, NEW k \in Issued, verdict # NoVerdict,
                      verdict.token = granted[k].token, verdict.answer.status = 200
               PROVE  SameIssuer(granted[k].conf, conf)
                      /\ now < granted[k].at + granted[k].conf.ttl
    BY DEF AcceptedOnlyInLife
  <2> DEFINE c == granted[k].conf
             m == granted[k].at
  <2>1. verdict.token = IssueCredential(c, k, "arn", m) BY DEF TypeOK
  <2>2. VerifyToken(conf, IssueCredential(c, k, "arn", m), now) = "valid"
    BY <2>1, AnswerMeaning
  <2>3. SameIssuer(c, conf) /\ ~(now >= Instant(Seconds(m + c.ttl)))
    BY <2>2, OwnToken DEF SameIssuer
  <2>4. m \in Int /\ c.ttl \in Int /\ m + c.ttl \in Int /\ now \in Int
    BY TokenServiceAssumption DEF TypeOK
  <2>5. Instant(Seconds(m + c.ttl)) \in Int /\ Instant(Seconds(m + c.ttl)) <= m + c.ttl
    BY <2>4, Truncation
  <2> HIDE DEF m, c
  <2>6. SameIssuer(c, conf) /\ now < m + c.ttl
    BY <2>3, <2>4, <2>5
  <2> QED BY <2>6 DEF m, c
<1> QED BY <1>1, TokensWellFormed, PTL

(* Truncation costs a token less than a second of its ttl.                 *)
THEOREM TokensHonoured == Spec => []HonouredInLife
<1>1. TypeOK /\ VerdictExact => HonouredInLife
  <2> SUFFICES ASSUME TypeOK, VerdictExact, NEW k \in Issued, verdict # NoVerdict,
                      verdict.token = granted[k].token,
                      verdict.answer.error # "invalid_body",
                      verdict.answer.error # "body_too_large",
                      SameIssuer(granted[k].conf, conf),
                      now + TicksPerSecond <= granted[k].at + granted[k].conf.ttl
               PROVE  verdict.answer.status = 200
    BY DEF HonouredInLife
  <2> DEFINE c == granted[k].conf
             m == granted[k].at
  <2>1. verdict.token = IssueCredential(c, k, "arn", m) BY DEF TypeOK
  <2>2. m \in Int /\ c.ttl \in Int /\ m + c.ttl \in Int /\ now \in Int
    BY TokenServiceAssumption DEF TypeOK
  <2>3. /\ Instant(Seconds(m + c.ttl)) \in Int
        /\ m + c.ttl < Instant(Seconds(m + c.ttl)) + TicksPerSecond
    BY <2>2, Truncation
  <2>4. ~(now >= Instant(Seconds(m + c.ttl)))
    <3> DEFINE last == Instant(Seconds(m + c.ttl))
    <3> HIDE DEF last
    <3>1. last \in Int /\ m + c.ttl < last + TicksPerSecond BY <2>3 DEF last
    <3>2. now < last BY <3>1, <2>2, WallClockAssumption
    <3>3. ~(now >= last) BY <3>1, <3>2, <2>2
    <3> QED BY <3>3 DEF last
  <2>5. VerifyToken(conf, IssueCredential(c, k, "arn", m), now) = "valid"
    BY <2>4, OwnToken DEF SameIssuer
  <2> QED BY <2>1, <2>5, AnswerMeaning
<1> QED BY <1>1, TokensWellFormed, PTL

(* The smallest ttl a server starts with is large enough.                  *)
THEOREM TokensBornAlive == Spec => []BornAlive
<1>1. TypeOK => BornAlive
  <2> SUFFICES ASSUME TypeOK, NEW k \in Issued
               PROVE  VerifyToken(granted[k].conf, granted[k].token, granted[k].at) = "valid"
    BY DEF BornAlive
  <2> DEFINE c == granted[k].conf
             m == granted[k].at
             last == Instant(Seconds(m + c.ttl))
  <2>1. granted[k].token = IssueCredential(c, k, "arn", m) BY DEF TypeOK
  <2>2. m \in Int /\ c.ttl \in Int /\ m + c.ttl \in Int /\ c.ttl >= TicksPerSecond
    <3>1. m \in 0..MaxTime /\ c \in Settings /\ IssuerLoads(c) BY DEF TypeOK
    <3>2. c.ttl >= TicksPerSecond BY <3>1 DEF IssuerLoads
    <3>3. c.ttl \in Int BY <3>1, TokenServiceAssumption
    <3> HIDE DEF c, m
    <3> QED BY <3>1, <3>2, <3>3, TokenServiceAssumption
  <2>3. last \in Int /\ m + c.ttl < last + TicksPerSecond
    BY <2>2, Truncation
  <2>4. ~(m >= last)
    <3> HIDE DEF last, m
    <3> QED BY <2>2, <2>3, WallClockAssumption
  <2>5. SameIssuer(c, c) BY DEF SameIssuer
  <2>6. VerifyToken(c, IssueCredential(c, k, "arn", m), m) = "valid"
    BY <2>4, <2>5, OwnToken DEF SameIssuer
  <2> QED BY <2>1, <2>6
<1> QED BY <1>1, TokensWellFormed, PTL

(* The signature, the issuer and the audience stop every other token.      *)
THEOREM StrangersAreRefused == Spec => []StrangersRefused
<1>1. VerdictExact => StrangersRefused
  <2> SUFFICES ASSUME VerdictExact, verdict # NoVerdict, verdict.answer.status = 200
               PROVE  /\ verdict.token.key = conf.secret
                      /\ verdict.token.claims.iss = conf.iss
                      /\ verdict.token.claims.aud = conf.aud
    BY DEF StrangersRefused
  <2>1. VerifyToken(conf, verdict.token, now) = "valid"
    BY AnswerMeaning
  <2>2. \A tok, c, t : VerifyToken(c, tok, t) = "valid" =>
           Inspect(c, tok) # "rejected" /\ tok.claims.iss = c.iss /\ tok.claims.aud = c.aud
    <3>1. /\ "valid" # "rejected" /\ "valid" # "token_expired"
          /\ "valid" # "issuer_mismatch" /\ "valid" # "audience_mismatch"
      OBVIOUS
    <3> QED BY Zenon, <3>1 DEF VerifyToken
  <2> QED BY <2>1, <2>2 DEF Inspect
<1> QED BY <1>1, TokensWellFormed, PTL
===========================================================================
