--------------------------- MODULE InteropProofs ---------------------------
(***************************************************************************)
(* What a client of either kind and a server of either kind mean to each   *)
(* other: for any inputs, any messages of other programs, any configuration*)
(* the two servers share, any clock and any port and URL that Python reads *)
(* in its own way.                                                         *)
(***************************************************************************)
EXTENDS Interop, OperatorProofs, FiniteSetTheorems

---------------------------------------------------------------------------
(* Whoever refuses gives an answer, and it is no grant.                    *)
Refusals == {a \in Answers : a.status # 200}

LEMMA RefusalsListed ==
  /\ Refusal(413, "body_too_large") \in Refusals
  /\ \A x \in {"invalid_body", "invalid_signature", "invalid_shape"} : Refusal(400, x) \in Refusals
  /\ \A x \in {"stale", "verification_failed"} : Refusal(401, x) \in Refusals
  /\ \A x \in {"binding_not_signed", "binding_mismatch", "arn_not_allowed"} :
       Refusal(403, x) \in Refusals
  /\ Refusal(502, "upstream_error") \in Refusals
BY DEF Refusal, Refusals, Answers

LEMMA Granting == Refusal(200, "none") \in Answers \ Refusals
BY DEF Refusal, Refusals, Answers

LEMMA RefusalsDistinct ==
  /\ Refusal(200, "none") # NoAnswer
  /\ \A a \in Refusals : a \in Answers /\ a # NoAnswer /\ a # Refusal(200, "none")
<1>1. NoAnswer \notin Answers
  BY InteropAssumption
<1> QED BY <1>1, Granting DEF Refusals

LEMMA AuthErrors == \A err : WriteAuthError(err) \in Refusals
BY RefusalsListed DEF WriteAuthError

LEMMA Rejections ==
  \A reason \in {"binding_mismatch", "invalid_shape", "stale", "arn_not_allowed"} :
    Refusal(RejectionStatus(reason), reason) \in Refusals
<1>1. /\ RejectionStatus("invalid_shape") = 400 /\ RejectionStatus("stale") = 401
      /\ RejectionStatus("binding_mismatch") = 403 /\ RejectionStatus("arn_not_allowed") = 403
  BY DEF RejectionStatus
<1> QED BY <1>1, RefusalsListed

(* What STS makes the server answer.                                       *)
StsAnswer(sent) ==
  IF ~StsRecognises(message, sent) THEN WriteAuthError("rejected")
  ELSE IF message.env.signed.signer \notin server.arns
  THEN Refusal(RejectionStatus("arn_not_allowed"), "arn_not_allowed")
  ELSE Refusal(200, "none")

(* A server that answers without STS refuses.                              *)
LEMMA EarlyRefuses ==
  ASSUME NEW i \in Impl, NEW m, NEW t, EarlyAnswer(i, m, t) # Accepted
  PROVE  EarlyAnswer(i, m, t) \in Refusals
<1> DEFINE e == Reads(i, m)
           x == ExtractCheck(e)
           reason == LocalCheck(server, ExtractProof(e), t)
           err == DelegationErrorBy(i, server.endpoints, m)
<1>1. x # Accepted => x \in Refusals
  <2>1. x \in {Accepted, Refusal(413, "body_too_large"), Refusal(400, "invalid_body"),
               Refusal(400, "invalid_signature"), Refusal(403, "binding_not_signed")}
    BY ExtractResults
  <2> HIDE DEF x
  <2> QED BY <2>1, RefusalsListed
<1>2. reason # "none" => Refusal(RejectionStatus(reason), reason) \in Refusals
  <2>1. reason \in {"none", "binding_mismatch", "invalid_shape", "stale"}
    BY LocalResults
  <2> HIDE DEF reason
  <2> QED BY <2>1, Rejections
<1>3. WriteAuthError(err) \in Refusals
  BY AuthErrors
<1>4. \/ EarlyAnswer(i, m, t) = x /\ x # Accepted
      \/ EarlyAnswer(i, m, t) = Refusal(RejectionStatus(reason), reason) /\ reason # "none"
      \/ EarlyAnswer(i, m, t) = WriteAuthError(err)
  <2>1. EarlyAnswer(i, m, t) # Accepted
    OBVIOUS
  <2> HIDE DEF x, reason, err
  <2> QED BY <2>1, Zenon DEF EarlyAnswer, x, e, reason, err
<1> HIDE DEF x, reason, err
<1> QED BY <1>1, <1>2, <1>3, <1>4

---------------------------------------------------------------------------
(* Types.                                                                  *)
LEMMA TypeInit == Init => TypeOK
<1> SUFFICES ASSUME Init PROVE TypeOK
  OBVIOUS
<1>1. now \in Times
  <2>1. now \in Starts /\ now \in Int /\ Horizon \in Int /\ now <= Horizon
    BY InteropAssumption DEF Init
  <2>2. now \in now..Horizon
    BY <2>1
  <2> QED BY <2>1, <2>2 DEF Times
<1>2. NoAnswer # Refusal(200, "none")
  BY RefusalsDistinct
<1> QED BY <1>1, <1>2 DEF Init, TypeOK, Impl

LEMMA TypeRun ==
  ASSUME TypeOK, NEW i \in Impl, NEW in \in Inputs, Run(i, in)
  PROVE  TypeOK'
<1>1. cfg' # NoConfig /\ message' # NoMessage
  <2>1. now \in Times
    BY DEF TypeOK
  <2>2. /\ ParseBy(i, in) # NoConfig
        /\ ValidatesBy(i, ParseBy(i, in)) =>
             NoMessage # Post(i, ParseBy(i, in), now)
    BY <2>1, InteropAssumption, Zenon
  <2> QED BY <2>2 DEF Run
<1>2. client' \in Impl /\ client' # "none" /\ client' # "other"
  BY DEF Run, Impl
<1>3. ValidatesBy(client', cfg') /\ message'.quirks = QuirksOf(cfg')
  BY DEF Run, Post
<1>4. UNCHANGED <<now, server, checkedOn, service, answer, granted>>
  BY DEF Run, authVars
<1>5. (client' = "none" <=> message' = NoMessage) /\ (client' \in Impl <=> cfg' # NoConfig)
  BY <1>1, <1>2
<1> QED BY <1>2, <1>3, <1>4, <1>5 DEF TypeOK

LEMMA TypePostForeign ==
  ASSUME TypeOK, NEW m \in Foreign, PostForeign(m)
  PROVE  TypeOK'
<1>1. message' # NoMessage
  BY InteropAssumption DEF PostForeign
<1>2. "other" \notin Impl /\ "none" \notin Impl
  BY DEF Impl
<1> QED BY <1>1, <1>2 DEF PostForeign, TypeOK, authVars

LEMMA TypeCheck ==
  ASSUME TypeOK, NEW i \in Impl, Check(i)
  PROVE  TypeOK'
<1> DEFINE early == EarlyAnswer(i, message, now)
<1>1. /\ UNCHANGED <<now, server, client, cfg, message, granted>>
      /\ service[i] = "idle"
      /\ checkedOn' = [checkedOn EXCEPT ![i] = now]
  BY DEF Check, clientVars
<1>2. \/ /\ early # Accepted
         /\ service' = [service EXCEPT ![i] = "done"] /\ answer' = [answer EXCEPT ![i] = early]
      \/ service' = [service EXCEPT ![i] = "delegated"] /\ answer' = answer
  BY DEF Check
<1>3. early # Accepted => early \in Answers /\ early # NoAnswer /\ early # Refusal(200, "none")
  BY EarlyRefuses, RefusalsDistinct
<1>4. answer[i] = NoAnswer /\ granted[i] = NoGrant
  BY <1>1, RefusalsDistinct DEF TypeOK
<1> HIDE DEF early
<1> QED BY <1>1, <1>2, <1>3, <1>4 DEF TypeOK

LEMMA TypeFederate ==
  ASSUME TypeOK, NEW i \in Impl, Federate(i)
  PROVE  TypeOK'
<1>1. /\ UNCHANGED <<now, server, client, cfg, message, checkedOn>>
      /\ service[i] = "delegated" /\ service' = [service EXCEPT ![i] = "done"]
  BY DEF Federate, clientVars
<1>2. answer[i] = NoAnswer /\ granted[i] = NoGrant
  BY <1>1, RefusalsDistinct DEF TypeOK
<1>3. \/ \E a \in Refusals : answer' = [answer EXCEPT ![i] = a] /\ granted' = granted
      \/ \E grant : /\ grant # NoGrant
                    /\ answer' = [answer EXCEPT ![i] = Refusal(200, "none")]
                    /\ granted' = [granted EXCEPT ![i] = grant]
  <2>1. PICK sent \in ForwardedBy(i, message) :
          LET signer == message.env.signed.signer
          IN  \/ answer' = [answer EXCEPT ![i] = WriteAuthError("rejected")] /\ granted' = granted
              \/ /\ answer' = [answer EXCEPT ![i] = Refusal(RejectionStatus("arn_not_allowed"), "arn_not_allowed")]
                 /\ granted' = granted
              \/ /\ signer \in Callers
                 /\ answer' = [answer EXCEPT ![i] = Refusal(200, "none")]
                 /\ granted' = [granted EXCEPT ![i] = [token |-> IssueCredential(server, i, signer, now), at |-> now]]
    BY DEF Federate, StsRecognises
  <2>2. \A who \in Callers : NoGrant # [token |-> IssueCredential(server, i, who, now), at |-> now]
    <3>1. server \in Servers /\ now \in Times
      BY DEF TypeOK
    <3> QED BY <3>1, InteropAssumption, Zenon
  <2> QED BY <2>1, <2>2, AuthErrors, Rejections
<1> QED BY <1>1, <1>2, <1>3, Granting, RefusalsDistinct DEF TypeOK

LEMMA TypeFailFederation ==
  ASSUME TypeOK, NEW i \in Impl, FailFederation(i)
  PROVE  TypeOK'
<1>1. WriteAuthError("infra") \in Refusals
  BY AuthErrors
<1>2. answer[i] = NoAnswer /\ granted[i] = NoGrant
  BY RefusalsDistinct DEF FailFederation, TypeOK
<1> QED BY <1>1, <1>2, RefusalsDistinct DEF FailFederation, TypeOK, clientVars

LEMMA TypeTick ==
  ASSUME TypeOK, Tick
  PROVE  TypeOK'
<1>1. now' \in Times
  <2>1. PICK t \in Starts : now \in t..Horizon
    BY DEF TypeOK, Times
  <2>2. t \in Int /\ Horizon \in Int
    BY InteropAssumption
  <2>3. now + 1 \in t..Horizon
    BY <2>1, <2>2 DEF Tick
  <2> QED BY <2>3 DEF Times, Tick
<1> QED BY <1>1 DEF Tick, TypeOK, clientVars, authVars

LEMMA TypeStep == TypeOK /\ [Next]_vars => TypeOK'
<1> SUFFICES ASSUME TypeOK, [Next]_vars PROVE TypeOK'
  OBVIOUS
<1>1. ASSUME NEW i \in Impl, NEW in \in Inputs, Run(i, in) PROVE TypeOK'
  BY <1>1, TypeRun
<1>2. ASSUME NEW m \in Foreign, PostForeign(m) PROVE TypeOK'
  BY <1>2, TypePostForeign
<1>3. ASSUME NEW i \in Impl, Check(i) \/ Federate(i) \/ FailFederation(i) PROVE TypeOK'
  BY <1>3, TypeCheck, TypeFederate, TypeFailFederation
<1>4. ASSUME NEW p \in Presented, Verify(p) PROVE TypeOK'
  BY <1>4 DEF Verify, TypeOK, clientVars, authVars
<1>5. CASE Tick
  BY <1>5, TypeTick
<1>6. CASE UNCHANGED vars
  BY <1>6 DEF vars, TypeOK
<1> QED BY <1>1, <1>2, <1>3, <1>4, <1>5, <1>6 DEF Next

(* Every variable has its type; a client posts only under a configuration  *)
(* its load accepts, and only a token is a good answer.                    *)
THEOREM TypeCorrect == Spec => []TypeOK
BY TypeInit, TypeStep, PTL DEF Spec

---------------------------------------------------------------------------
(* The inductive invariant.  The message is what its client builds from an *)
(* input, at some time, or what another program posts.                     *)
Posted ==
  /\ client \in Impl =>
       \E in \in Inputs, t \in Times :
         /\ cfg = ParseBy(client, in)
         /\ client = "python" => PyBuilds(cfg)
         /\ message = Post(client, cfg, t)
  /\ client = "other" => message \in Foreign

(* A server that has looked at the message decided on it as it was then,   *)
(* and sent one of the requests it may make of it.                         *)
DecidedBy(i) ==
  service[i] # "idle" =>
    LET early == EarlyAnswer(i, message, checkedOn[i])
    IN  /\ message # NoMessage
        /\ \/ early # Accepted /\ service[i] = "done" /\ answer[i] = early
           \/ /\ early = Accepted
              /\ service[i] = "done" =>
                   \E sent \in ForwardedBy(i, message) : answer[i] = StsAnswer(sent)

Decided == \A i \in Impl : DecidedBy(i)

(* A grant is a token of the servers' configuration, issued when it says.  *)
GrantsOwn ==
  \A i \in Impl :
    granted[i] # NoGrant =>
      /\ granted[i].at \in Times
      /\ \E who \in Callers : granted[i].token = IssueCredential(server, i, who, granted[i].at)

(* What was said about a presented token is what is decided on it now.     *)
VerdictSaid ==
  verdict # NoAnswer =>
    /\ verdict.presented \in Presented
    /\ verdict.answer = [i \in Impl |-> VerifyBy(i, verdict.presented, now)]

History == Posted /\ Decided /\ GrantsOwn /\ VerdictSaid

LEMMA HistoryInit == Init => History
BY DEF Init, History, Posted, Decided, DecidedBy, GrantsOwn, VerdictSaid, Impl

(* As long as no client has posted, no server has looked at anything.      *)
LEMMA NothingPosted ==
  ASSUME TypeOK, Decided, client = "none"
  PROVE  \A i \in Impl : service[i] = "idle"
BY DEF TypeOK, Decided, DecidedBy

LEMMA HistoryRun ==
  ASSUME TypeOK, History, NEW i \in Impl, NEW in \in Inputs, Run(i, in)
  PROVE  History'
<1>1. Posted'
  <2>1. client' \in Impl /\ client' # "other"
    BY DEF Run, Impl
  <2>2. now \in Times
    BY DEF TypeOK
  <2>3. client' = "python" => PyBuilds(cfg')
    BY DEF Run
  <2>4. cfg' = ParseBy(client', in) /\ message' = Post(client', cfg', now)
    BY DEF Run
  <2> QED BY <2>1, <2>2, <2>3, <2>4 DEF Posted
<1>2. Decided'
  BY NothingPosted DEF Run, Decided, DecidedBy, History, authVars
<1>3. (GrantsOwn /\ VerdictSaid)'
  BY DEF Run, GrantsOwn, VerdictSaid, Presented, VerifyBy, History, authVars
<1> QED BY <1>1, <1>2, <1>3 DEF History

LEMMA HistoryPostForeign ==
  ASSUME TypeOK, History, NEW m \in Foreign, PostForeign(m)
  PROVE  History'
<1>1. Posted'
  BY DEF PostForeign, Posted, Impl
<1>2. Decided'
  BY NothingPosted DEF PostForeign, Decided, DecidedBy, History, authVars
<1>3. (GrantsOwn /\ VerdictSaid)'
  BY DEF PostForeign, GrantsOwn, VerdictSaid, Presented, VerifyBy, History, authVars
<1> QED BY <1>1, <1>2, <1>3 DEF History

(* What a decision was made of does not change any more.                   *)
LEMMA DecidedKept ==
  ASSUME NEW i \in Impl, DecidedBy(i), UNCHANGED <<server, cfg, message>>,
         service'[i] = service[i], checkedOn'[i] = checkedOn[i], answer'[i] = answer[i]
  PROVE  DecidedBy(i)'
<1>1. EarlyAnswer(i, message, checkedOn[i])' = EarlyAnswer(i, message, checkedOn[i])
  BY DEF EarlyAnswer
<1>2. \A sent : StsAnswer(sent)' = StsAnswer(sent)
  BY DEF StsAnswer, StsRecognises
<1> QED BY <1>1, <1>2 DEF DecidedBy

LEMMA HistoryCheck ==
  ASSUME TypeOK, History, NEW i \in Impl, Check(i)
  PROVE  History'
<1>1. UNCHANGED <<now, server, client, cfg, message, granted, verdict>>
  BY DEF Check, clientVars
<1>2. Posted'
  BY <1>1 DEF Posted, History
<1>3. Decided'
  <2> DEFINE early == EarlyAnswer(i, message, now)
  <2>1. /\ message # NoMessage /\ checkedOn' = [checkedOn EXCEPT ![i] = now]
        /\ \/ /\ early # Accepted
              /\ service' = [service EXCEPT ![i] = "done"]
              /\ answer' = [answer EXCEPT ![i] = early]
           \/ /\ early = Accepted
              /\ service' = [service EXCEPT ![i] = "delegated"] /\ answer' = answer
    BY DEF Check
  <2>2. DecidedBy(i)'
    <3>1. checkedOn'[i] = now
      BY <2>1 DEF TypeOK
    <3>2. EarlyAnswer(i, message, checkedOn[i])' = early
      BY <1>1, <3>1 DEF EarlyAnswer
    <3>3. \/ early # Accepted /\ service'[i] = "done" /\ answer'[i] = early
          \/ early = Accepted /\ service'[i] = "delegated"
      BY <2>1 DEF TypeOK
    <3> HIDE DEF early
    <3> QED BY <1>1, <2>1, <3>2, <3>3 DEF DecidedBy
  <2>3. ASSUME NEW j \in Impl, j # i PROVE DecidedBy(j)'
    BY <1>1, <2>1, <2>3, DecidedKept DEF TypeOK, Decided, History
  <2> QED BY <2>2, <2>3 DEF Decided
<1>4. (GrantsOwn /\ VerdictSaid)'
  BY <1>1 DEF GrantsOwn, VerdictSaid, Presented, VerifyBy, History
<1> QED BY <1>2, <1>3, <1>4 DEF History

LEMMA HistoryFederate ==
  ASSUME TypeOK, History, NEW i \in Impl, Federate(i)
  PROVE  History'
<1>1. /\ UNCHANGED <<now, server, client, cfg, message, checkedOn, verdict>>
      /\ service[i] = "delegated" /\ service' = [service EXCEPT ![i] = "done"]
  BY DEF Federate, clientVars
<1>2. PICK sent \in ForwardedBy(i, message) :
        LET signer == message.env.signed.signer
            token  == IssueCredential(server, i, signer, now)
        IN  /\ answer' = [answer EXCEPT ![i] = StsAnswer(sent)]
            /\ \/ granted' = granted
               \/ /\ signer \in Callers
                  /\ granted' = [granted EXCEPT ![i] = [token |-> token, at |-> now]]
  BY DEF Federate, StsAnswer, StsRecognises
<1>3. Posted'
  BY <1>1 DEF Posted, History
<1>4. Decided'
  <2>1. EarlyAnswer(i, message, checkedOn[i])' = EarlyAnswer(i, message, checkedOn[i])
    BY <1>1 DEF EarlyAnswer
  <2>2. \A h : StsAnswer(h)' = StsAnswer(h)
    BY <1>1 DEF StsAnswer, StsRecognises
  <2>3. message # NoMessage /\ EarlyAnswer(i, message, checkedOn[i]) = Accepted
    BY <1>1 DEF DecidedBy, Decided, History
  <2>4. answer'[i] = StsAnswer(sent)
    BY <1>2 DEF TypeOK
  <2>5. DecidedBy(i)'
    BY <1>1, <2>1, <2>2, <2>3, <2>4 DEF DecidedBy
  <2>6. ASSUME NEW j \in Impl, j # i PROVE DecidedBy(j)'
    BY <1>1, <1>2, <2>6, DecidedKept DEF TypeOK, Decided, History
  <2> QED BY <2>5, <2>6 DEF Decided
<1>5. GrantsOwn'
  BY <1>1, <1>2 DEF GrantsOwn, TypeOK, History
<1>6. VerdictSaid'
  <2>1. granted[i] = NoGrant
    BY <1>1, RefusalsDistinct DEF TypeOK
  <2>2. \A j \in Impl : granted[j] # NoGrant => granted'[j] = granted[j]
    BY <1>2, <2>1 DEF TypeOK
  <2>3. Presented \subseteq Presented'
    BY <2>2 DEF Presented
  <2>4. \A j, p, t : VerifyBy(j, p, t)' = VerifyBy(j, p, t')
    BY <1>1 DEF VerifyBy
  <2> QED BY <1>1, <2>3, <2>4 DEF VerdictSaid, History
<1> QED BY <1>3, <1>4, <1>5, <1>6 DEF History

LEMMA HistoryFailFederation ==
  ASSUME TypeOK, History, NEW i \in Impl, FailFederation(i)
  PROVE  History'
<1>1. /\ UNCHANGED <<now, server, client, cfg, message, checkedOn, granted, verdict>>
      /\ service[i] = "delegated" /\ service' = [service EXCEPT ![i] = "failed"]
      /\ answer' = [answer EXCEPT ![i] = WriteAuthError("infra")]
  BY DEF FailFederation, clientVars
<1>2. (Posted /\ GrantsOwn /\ VerdictSaid)'
  BY <1>1 DEF Posted, GrantsOwn, VerdictSaid, Presented, VerifyBy, History
<1>3. DecidedBy(i)'
  <2>1. EarlyAnswer(i, message, checkedOn[i])' = EarlyAnswer(i, message, checkedOn[i])
    BY <1>1 DEF EarlyAnswer
  <2>2. message # NoMessage /\ EarlyAnswer(i, message, checkedOn[i]) = Accepted
    BY <1>1 DEF DecidedBy, Decided, History
  <2> QED BY <1>1, <2>1, <2>2 DEF DecidedBy, TypeOK
<1>4. ASSUME NEW j \in Impl, j # i PROVE DecidedBy(j)'
  BY <1>1, <1>4, DecidedKept DEF TypeOK, Decided, History
<1> QED BY <1>2, <1>3, <1>4 DEF Decided, History

LEMMA HistoryStep == TypeOK /\ History /\ [Next]_vars => History'
<1> SUFFICES ASSUME TypeOK, History, [Next]_vars PROVE History'
  OBVIOUS
<1>1. ASSUME NEW i \in Impl, NEW in \in Inputs, Run(i, in) PROVE History'
  BY <1>1, HistoryRun
<1>2. ASSUME NEW m \in Foreign, PostForeign(m) PROVE History'
  BY <1>2, HistoryPostForeign
<1>3. ASSUME NEW i \in Impl, Check(i) \/ Federate(i) \/ FailFederation(i) PROVE History'
  BY <1>3, HistoryCheck, HistoryFederate, HistoryFailFederation
<1>4. ASSUME UNCHANGED <<server, client, cfg, message, service, checkedOn, answer, granted>>
      PROVE  (Posted /\ Decided /\ GrantsOwn)' /\ Presented' = Presented
  <2>1. Decided'
    BY <1>4, DecidedKept DEF Decided, History
  <2> QED BY <1>4, <2>1 DEF Posted, GrantsOwn, Presented, History
<1>5. ASSUME NEW p \in Presented, Verify(p) PROVE History'
  <2>1. UNCHANGED <<now, server, client, cfg, message, service, checkedOn, answer, granted>>
    BY <1>5 DEF Verify, clientVars, authVars
  <2>2. VerdictSaid'
    BY <1>4, <1>5, <2>1 DEF Verify, VerdictSaid, VerifyBy
  <2> QED BY <1>4, <2>1, <2>2 DEF History
<1>6. CASE Tick
  BY <1>4, <1>6 DEF Tick, VerdictSaid, History, clientVars, authVars
<1>7. CASE UNCHANGED vars
  BY <1>4, <1>7 DEF vars, VerdictSaid, VerifyBy, History
<1> QED BY <1>1, <1>2, <1>3, <1>5, <1>6, <1>7 DEF Next

(* The history variables tell how every answer came about.                 *)
THEOREM HistoryCorrect == Spec => []History
<1>1. Init => TypeOK /\ History
  BY TypeInit, HistoryInit
<1>2. TypeOK /\ History /\ [Next]_vars => (TypeOK /\ History)'
  BY TypeStep, HistoryStep
<1> QED BY <1>1, <1>2, PTL DEF Spec

---------------------------------------------------------------------------
LEMMA TimesAreIntegers == Times \subseteq Int
<1>1. \A t \in Starts : t \in Int /\ Horizon \in Int
  BY InteropAssumption
<1> QED BY <1>1 DEF Times

LEMMA PresentedTokens ==
  ASSUME NEW p \in Presented
  PROVE  \E j \in Impl :
           /\ granted[j] # NoGrant
           /\ \/ p = [token |-> granted[j].token, ascii |-> TRUE]
              \/ \E a \in BOOLEAN : p = [token |-> Forged(granted[j].token), ascii |-> a]
<1> DEFINE tokens == {granted[i].token : i \in {j \in Impl : granted[j] # NoGrant}}
<1>1. \E t \in tokens : \/ p = [token |-> t, ascii |-> TRUE]
                        \/ \E a \in BOOLEAN : p = [token |-> Forged(t), ascii |-> a]
  <2>1. Presented = {[token |-> t, ascii |-> TRUE] : t \in tokens}
                    \cup {[token |-> Forged(t), ascii |-> a] : t \in tokens, a \in BOOLEAN}
    BY DEF Presented
  <2> HIDE DEF tokens
  <2> QED BY <2>1
<1>2. \A t \in tokens : \E j \in Impl : granted[j] # NoGrant /\ t = granted[j].token
  OBVIOUS
<1> HIDE DEF tokens
<1> QED BY <1>1, <1>2, Zenon

LEMMA ForgedKey ==
  ASSUME NEW c, NEW k, NEW who, NEW t
  PROVE  Forged(IssueCredential(c, k, who, t)).key = "other"
BY DEF Forged, IssueCredential

LEMMA TokensCrossLemma == TypeOK /\ GrantsOwn /\ VerdictSaid => TokensCross
<1> SUFFICES ASSUME TypeOK, GrantsOwn, VerdictSaid, verdict # NoAnswer
             PROVE  LET p  == verdict.presented
                        go == verdict.answer["go"]
                        py == verdict.answer["python"]
                    IN  /\ go.status = 200 <=>
                             /\ p.ascii
                             /\ \E i \in Impl : /\ granted[i] # NoGrant
                                                /\ granted[i].token = p.token
                                                /\ now < Instant(Seconds(granted[i].at + server.ttl))
                        /\ go # py => ~p.ascii /\ py.error = "internal_error"
  BY DEF TokensCross
<1> DEFINE p == verdict.presented
           outcome == VerifyToken(server, p.token, now)
           good == \E i \in Impl : /\ granted[i] # NoGrant
                                   /\ granted[i].token = p.token
                                   /\ now < Instant(Seconds(granted[i].at + server.ttl))
<1>1. /\ p \in Presented
      /\ verdict.answer["go"] = VerifyBy("go", p, now)
      /\ verdict.answer["python"] = VerifyBy("python", p, now)
  BY DEF VerdictSaid, Impl
<1>2. VerifyBy("go", p, now) = WriteVerifyAnswer(outcome)
  BY DEF VerifyBy
<1>3. \/ VerifyBy("python", p, now) = WriteVerifyAnswer(outcome)
      \/ VerifyBy("python", p, now) = Refusal(500, "internal_error") /\ ~p.ascii
  BY Zenon DEF VerifyBy
<1>4. WriteVerifyAnswer(outcome).status = 200 <=> outcome = "valid"
  BY VerdictStatus DEF Refusal
<1>5. PICK j \in Impl : /\ granted[j] # NoGrant
                        /\ \/ p = [token |-> granted[j].token, ascii |-> TRUE]
                           \/ \E a \in BOOLEAN : p = [token |-> Forged(granted[j].token), ascii |-> a]
  BY <1>1, PresentedTokens
<1>6. /\ now \in Int /\ server.ttl \in Int /\ server.secret # "other"
      /\ \A i \in Impl : granted[i] # NoGrant =>
           /\ granted[i].at \in Int
           /\ granted[i].token.key = server.secret /\ granted[i].token.claims.jti = i
           /\ \E who : granted[i].token = IssueCredential(server, i, who, granted[i].at)
  <2>1. now \in Times /\ server \in Servers
    BY DEF TypeOK
  <2>2. server.ttl \in Int /\ server.secret # "other"
    BY <2>1, InteropAssumption
  <2>3. \A i, who, t : LET tok == IssueCredential(server, i, who, t)
                      IN  tok.key = server.secret /\ tok.claims.jti = i
    BY DEF IssueCredential, Claims
  <2>4. ASSUME NEW i \in Impl, granted[i] # NoGrant
        PROVE  /\ granted[i].at \in Int
               /\ granted[i].token.key = server.secret /\ granted[i].token.claims.jti = i
               /\ \E who : granted[i].token = IssueCredential(server, i, who, granted[i].at)
    <3>1. PICK who \in Callers : granted[i].token = IssueCredential(server, i, who, granted[i].at)
      BY <2>4 DEF GrantsOwn
    <3>2. granted[i].at \in Int
      BY <2>4, TimesAreIntegers DEF GrantsOwn
    <3> QED BY <2>3, <3>1, <3>2
  <2> QED BY <2>1, <2>2, <2>4, TimesAreIntegers
<1>7. CASE p = [token |-> granted[j].token, ascii |-> TRUE]
  <2>1. p.ascii /\ p.token = granted[j].token
    BY <1>7
  <2>2. Instant(Seconds(granted[j].at + server.ttl)) \in Int
    BY <1>5, <1>6, Truncation
  <2>3. outcome = "valid" <=> now < Instant(Seconds(granted[j].at + server.ttl))
    BY <1>5, <1>6, <2>1, <2>2, OwnToken
  <2>4. \A i \in Impl : granted[i] # NoGrant /\ granted[i].token = p.token => i = j
    BY <1>5, <1>6, <2>1
  <2>5. outcome = "valid" <=> good
    BY <1>5, <2>1, <2>3, <2>4
  <2> HIDE DEF outcome, good
  <2> QED BY <1>1, <1>2, <1>3, <1>4, <2>1, <2>5 DEF good
<1>8. CASE \E a \in BOOLEAN : p = [token |-> Forged(granted[j].token), ascii |-> a]
  <2>1. p.token.key = "other"
    <3>1. PICK a : p = [token |-> Forged(granted[j].token), ascii |-> a]
      BY <1>8
    <3>2. p.token = Forged(granted[j].token)
      BY <3>1
    <3> QED BY <1>5, <1>6, <3>2, ForgedKey
  <2>2. outcome = "rejected"
    BY <1>6, <2>1, Zenon DEF VerifyToken, Inspect
  <2>3. ~good
    BY <1>6, <2>1
  <2>4. ~(WriteVerifyAnswer(outcome).status = 200)
    BY <1>4, <2>2
  <2>5. Refusal(500, "internal_error").error = "internal_error"
    BY DEF Refusal
  <2> HIDE DEF outcome, good
  <2> QED BY <1>1, <1>2, <1>3, <2>3, <2>4, <2>5 DEF good
<1> QED BY <1>5, <1>7, <1>8

(* What one server granted passes at both until the second its lifetime    *)
(* ends in, nothing else does, and both servers give one answer.           *)
THEOREM TokensCrossCorrect == Spec => []TokensCross
BY TypeCorrect, HistoryCorrect, TokensCrossLemma, PTL DEF History


---------------------------------------------------------------------------
(* What is read differently of a URL, and what is not.                     *)
LowerHost(host) == IF host \in DOMAIN Lowered THEN Lowered[host] ELSE host

LEMMA UrlFields ==
  ASSUME NEW u, IsUrl(u)
  PROVE  /\ LET v == Taken(u)
            IN  /\ IsUrl(v) /\ (v.parses <=> u.parses \/ u \in LaxUrls) /\ (v.padded <=> u.padded)
                /\ v.scheme = u.scheme /\ v.host = u.host /\ v.port = u.port
         /\ LET v == Split(u)
            IN  /\ IsUrl(v) /\ (v.parses <=> u.parses \/ u \in LaxUrls) /\ ~v.padded
                /\ v.scheme = u.scheme /\ v.host = u.host /\ v.port = u.port
         /\ LET v == Numbered(u)
            IN  /\ IsUrl(v) /\ (v.parses <=> u.parses) /\ (v.padded <=> u.padded)
                /\ v.scheme = u.scheme /\ v.host = u.host
                /\ v.port = IF u.port \in DOMAIN LeadingZeros THEN LeadingZeros[u.port] ELSE u.port
         /\ LET v == Unpadded(u)
            IN  /\ IsUrl(v) /\ (v.parses <=> u.parses) /\ ~v.padded
                /\ v.scheme = u.scheme /\ v.host = u.host /\ v.port = u.port
         /\ LET v == Lower(u)
            IN  /\ IsUrl(v) /\ (v.parses <=> u.parses) /\ (v.padded <=> u.padded)
                /\ v.scheme = u.scheme /\ v.host = LowerHost(u.host) /\ v.port = u.port
<1>1. DOMAIN u = {"parses", "padded", "scheme", "host", "port"} /\ u.parses \in BOOLEAN /\ u.padded \in BOOLEAN
  BY DEF IsUrl
<1>2. LET v == Taken(u)
      IN  /\ IsUrl(v) /\ (v.parses <=> u.parses \/ u \in LaxUrls) /\ (v.padded <=> u.padded)
          /\ v.scheme = u.scheme /\ v.host = u.host /\ v.port = u.port
  BY <1>1 DEF Taken, IsUrl
<1>3. LET v == Split(u)
      IN  /\ IsUrl(v) /\ (v.parses <=> u.parses \/ u \in LaxUrls) /\ ~v.padded
          /\ v.scheme = u.scheme /\ v.host = u.host /\ v.port = u.port
  BY <1>2 DEF Split, Unpadded, IsUrl
<1>4. LET v == Numbered(u)
      IN  /\ IsUrl(v) /\ (v.parses <=> u.parses) /\ (v.padded <=> u.padded)
          /\ v.scheme = u.scheme /\ v.host = u.host
          /\ v.port = IF u.port \in DOMAIN LeadingZeros THEN LeadingZeros[u.port] ELSE u.port
  BY <1>1 DEF Numbered, IsUrl
<1>5. LET v == Unpadded(u)
      IN  /\ IsUrl(v) /\ (v.parses <=> u.parses) /\ ~v.padded
          /\ v.scheme = u.scheme /\ v.host = u.host /\ v.port = u.port
  BY <1>1 DEF Unpadded, IsUrl
<1>6. LET v == Lower(u)
      IN  /\ IsUrl(v) /\ (v.parses <=> u.parses) /\ (v.padded <=> u.padded)
          /\ v.scheme = u.scheme /\ v.host = LowerHost(u.host) /\ v.port = u.port
  BY <1>1 DEF Lower, LowerHost, IsUrl
<1> QED BY <1>2, <1>3, <1>4, <1>5, <1>6

(* What a client of kind k loads from an input.                            *)
LEMMA Loaded ==
  ASSUME NEW k \in Impl, NEW in \in Inputs
  PROVE  LET c == ParseBy(k, in)
             d == PySigned(c)
         IN  /\ c.endpoint = ChosenEndpoint(in)
             /\ {"region", "endpoint", "expiry", "form"} \subseteq DOMAIN c
             /\ IsUrl(c.endpoint) /\ LowerHost(c.endpoint.host) \in Seq(STRING)
             /\ c.expiry \in Int \cup {Unparsable}
             /\ d.caller = c.caller /\ d.binding = c.binding /\ d.expiry = c.expiry
             /\ d.form = c.form /\ d.endpoint = Numbered(Lower(c.endpoint))
<1> DEFINE c == ParseBy(k, in)
<1>1. /\ DOMAIN in = { "serverAddr", "binding", "region", "endpoint", "form", "expiry",
                       "verify", "timeout", "credentials", "caller" }
      /\ in.expiry \in Int \cup {Unparsable}
      /\ IsUrl(ChosenEndpoint(in)) /\ ChosenEndpoint(in).host \in Seq(STRING)
  BY InteropAssumption
<1>2. PICK q : c = [Parse(in) EXCEPT !.region = q]
  BY Zenon DEF ParseBy
<1> HIDE DEF c
<1>3. /\ DOMAIN c = DOMAIN in
      /\ c.endpoint = ChosenEndpoint(in) /\ c.expiry = in.expiry
  BY <1>1, <1>2 DEF Parse
<1>4. PySigned(c) = [c EXCEPT !.endpoint = Numbered(Lower(c.endpoint))]
  BY DEF PySigned
<1>5. LowerHost(c.endpoint.host) \in Seq(STRING)
  <2>1. \A host \in DOMAIN Lowered : Lowered[host] \in Seq(STRING)
    BY InteropAssumption
  <2> QED BY <1>1, <1>3, <2>1 DEF LowerHost
<1> QED BY <1>1, <1>3, <1>4, <1>5 DEF c

(* Under which configuration it signs, and the Host it writes down.        *)
SignsAs(k, c) == IF k = "go" THEN c ELSE PySigned(c)

WrittenHost(k, c) ==
  IF k = "go" /\ c.form = "header" THEN SignedHost(c.endpoint) ELSE HostPort(c.endpoint)

SignedBy(k, c, t) ==
  IF c.form = "presigned" THEN PresignHTTP(SignsAs(k, c), t) ELSE SignHTTP(SignsAs(k, c), t)

LEMMA PyEnvelopes ==
  ASSUME NEW c, NEW d, NEW t, c.binding = d.binding
  PROVE  /\ \E value : /\ Carried(PyEnvelopeFromRequest(c, SignHTTP(d, t)), SignHTTP(d, t), value)
                       /\ value[Host] = HostPort(c.endpoint)
         /\ \E value : /\ Carried(PyPresignedEnvelope(c, PresignHTTP(d, t)), PresignHTTP(d, t), value)
                       /\ value[Host] = HostPort(c.endpoint)
         /\ PyEnvelopeFromRequest(c, SignHTTP(d, t)).url = c.endpoint
         /\ PyPresignedEnvelope(c, PresignHTTP(d, t)).url = Unpadded(c.endpoint)
<1> USE DEF Host, ContentType, AmzDate, Binding, Authorization
<1>1. \E value : /\ Carried(PyEnvelopeFromRequest(c, SignHTTP(d, t)), SignHTTP(d, t), value)
                 /\ value[Host] = HostPort(c.endpoint)
  <2> DEFINE s == SignHTTP(d, t)
             b == EnvelopeFromRequest(c, s)
             e == PyEnvelopeFromRequest(c, s)
             names == s.names \cup {Authorization}
             old == [n \in names |-> IF n = Authorization THEN s.names ELSE s.header[n]]
             value == [n \in names |-> IF n = Host THEN HostPort(c.endpoint) ELSE old[n]]
  <2>1. /\ s.names = {Host, ContentType, AmzDate, Binding} /\ s.form = "header"
    BY DEF SignHTTP
  <2> HIDE DEF s
  <2>2. /\ e.json = "ok" /\ e.base64 = TRUE /\ e.signed = s
        /\ e.method = s.method /\ e.form = s.action /\ e.query = s.query
        /\ e.header = [Headers(names, old) EXCEPT ![<<Host, 1>>] = <<HostPort(c.endpoint)>>]
    BY DEF PyEnvelopeFromRequest, EnvelopeFromRequest, s
  <2>3. IsHeaderMap(e.header, names, value)
    <3>1. IsHeaderMap(Headers(names, old), names, old)
      BY HeadersWritten
    <3>2. Host \in names
      BY <2>1
    <3> HIDE DEF old, names, e
    <3>3. DOMAIN e.header = {<<n, 1>> : n \in names}
      BY <2>2, <3>1 DEF IsHeaderMap
    <3>4. ASSUME NEW n \in names PROVE e.header[<<n, 1>>] = <<value[n]>>
      <4>1. <<n, 1>> = <<Host, 1>> <=> n = Host
        OBVIOUS
      <4>2. /\ <<n, 1>> \in DOMAIN Headers(names, old)
            /\ Headers(names, old)[<<n, 1>>] = <<old[n]>>
        BY <3>1 DEF IsHeaderMap
      <4> QED BY <2>2, <4>1, <4>2
    <3> QED BY <3>3, <3>4 DEF IsHeaderMap
  <2>4. /\ value[Authorization] = s.names
        /\ \A n \in s.names \ {Host} : value[n] = s.header[n]
        /\ value[Host] = HostPort(c.endpoint)
    BY <2>1
  <2>5. Carried(e, s, value) /\ value[Host] = HostPort(c.endpoint)
    <3> HIDE DEF value, e
    <3> QED BY <2>1, <2>2, <2>3, <2>4 DEF Carried
  <2> QED BY <2>5 DEF s
<1>2. \E value : /\ Carried(PyPresignedEnvelope(c, PresignHTTP(d, t)), PresignHTTP(d, t), value)
                 /\ value[Host] = HostPort(c.endpoint)
  <2> DEFINE s == PresignHTTP(d, t)
             e == PyPresignedEnvelope(c, s)
             names == {Host, Binding}
             value == [n \in names |-> IF n = Host THEN HostPort(c.endpoint) ELSE c.binding]
  <2>1. s.names = names /\ s.form = "presigned" /\ s.header[Binding] = c.binding
    BY DEF PresignHTTP, PresignedNames
  <2> HIDE DEF s
  <2>2. /\ e.json = "ok" /\ e.base64 = TRUE /\ e.signed = s
        /\ e.method = s.method /\ e.form = s.action /\ e.query = s.query
        /\ e.header = Headers(names, value)
    BY DEF PyPresignedEnvelope, PresignedEnvelope, s
  <2>3. IsHeaderMap(e.header, names, value)
    BY <2>2, HeadersWritten
  <2>4. /\ \A n \in s.names \ {Host} : value[n] = s.header[n]
        /\ value[Host] = HostPort(c.endpoint)
    BY <2>1
  <2>5. s.names \cup (IF s.form = "header" THEN {Authorization} ELSE {}) = names
    BY <2>1
  <2>6. Carried(e, s, value) /\ value[Host] = HostPort(c.endpoint)
    <3> HIDE DEF value, e, names
    <3> QED BY <2>1, <2>2, <2>3, <2>4, <2>5 DEF Carried
  <2> QED BY <2>6 DEF s
<1>3. /\ PyEnvelopeFromRequest(c, SignHTTP(d, t)).url = c.endpoint
      /\ PyPresignedEnvelope(c, PresignHTTP(d, t)).url = Unpadded(c.endpoint)
  BY DEF PyEnvelopeFromRequest, EnvelopeFromRequest, PyPresignedEnvelope, PresignedEnvelope
<1> QED BY <1>1, <1>2, <1>3

(* What its load has made sure of.                                         *)
LEMMA LoadedValid ==
  ASSUME NEW k \in Impl, NEW in \in Inputs, ValidatesBy(k, ParseBy(k, in))
  PROVE  LET c == ParseBy(k, in)
         IN  /\ c.form \in {"header", "presigned"} /\ c.expiry \in Int
             /\ c.form = "presigned" => ExpiryFits(c.expiry)
             /\ RegionForSTSHost(LowerHost(c.endpoint.host)) \in {NoRegion, c.region}
             /\ k = "go" => ParsesUntrimmed(c.endpoint)
             /\ c.endpoint.parses \/ c.endpoint \in LaxUrls
<1> DEFINE c == ParseBy(k, in)
           u == ReadUrl(k, c.endpoint)
           d == [c EXCEPT !.endpoint = u]
<1>1. /\ {"region", "endpoint", "expiry", "form"} \subseteq DOMAIN c
      /\ IsUrl(c.endpoint) /\ c.expiry \in Int \cup {Unparsable}
  BY Loaded
<1>2. Validates(d)
  BY DEF ValidatesBy
<1> HIDE DEF c
<1>3. /\ u.host = LowerHost(c.endpoint.host)
      /\ u.parses => c.endpoint.parses \/ c.endpoint \in LaxUrls
      /\ k = "go" /\ ParsesUntrimmed(u) => ParsesUntrimmed(c.endpoint)
  <2>1. LET v == Lower(Split(c.endpoint))
        IN  v.host = LowerHost(c.endpoint.host) /\ (v.parses <=> c.endpoint.parses \/ c.endpoint \in LaxUrls)
    BY <1>1, UrlFields
  <2>2. LET v == Lower(c.endpoint)
        IN  /\ v.host = LowerHost(c.endpoint.host)
            /\ (v.parses <=> c.endpoint.parses) /\ (v.padded <=> c.endpoint.padded)
    BY <1>1, UrlFields
  <2>3. u = IF k = "go" THEN Lower(c.endpoint) ELSE Lower(Split(c.endpoint))
    BY DEF ReadUrl
  <2> HIDE DEF u
  <2> QED BY <2>1, <2>2, <2>3 DEF ParsesUntrimmed
<1> HIDE DEF u
<1>4. /\ d.region = c.region /\ d.endpoint = u /\ d.expiry = c.expiry /\ d.form = c.form
  BY <1>1
<1> HIDE DEF d
<1>5. /\ ParsesUntrimmed(u) /\ RegionForSTSHost(u.host) \in {NoRegion, c.region}
      /\ c.form \in {"header", "presigned"} /\ c.expiry # Unparsable
      /\ c.form = "presigned" => ExpiryFits(c.expiry)
  BY <1>2, <1>4, Zenon DEF Validates, RegionAgrees
<1> QED BY <1>1, <1>3, <1>5 DEF ParsesUntrimmed, c

LEMMA EnvelopesWritten ==
  ASSUME NEW c, NEW s
  PROVE  LET fields == {"json", "base64", "method", "header", "form", "url", "query", "signed"}
         IN  /\ DOMAIN EnvelopeFromRequest(c, s) = fields
             /\ DOMAIN PresignedEnvelope(c, s) = fields
             /\ DOMAIN PyEnvelopeFromRequest(c, s) = fields
             /\ DOMAIN PyPresignedEnvelope(c, s) = fields
<1>1. /\ DOMAIN EnvelopeFromRequest(c, s) =
           {"json", "base64", "method", "header", "form", "url", "query", "signed"}
      /\ DOMAIN PresignedEnvelope(c, s) =
           {"json", "base64", "method", "header", "form", "url", "query", "signed"}
  BY DEF EnvelopeFromRequest, PresignedEnvelope
<1>2. /\ DOMAIN PyEnvelopeFromRequest(c, s) = DOMAIN EnvelopeFromRequest(c, s)
      /\ DOMAIN PyPresignedEnvelope(c, s) = DOMAIN PresignedEnvelope(c, s)
  BY DEF PyEnvelopeFromRequest, PyPresignedEnvelope
<1> QED BY <1>1, <1>2

(* A message that was built from configuration c, at time t.               *)
IsPost(k, c, m, t, value) ==
  /\ m.quirks = QuirksOf(c) /\ t \in Int
  /\ DOMAIN m.env = {"json", "base64", "method", "header", "form", "url", "query", "signed"}
  /\ Carried(m.env, SignedBy(k, c, t), value) /\ value[Host] = WrittenHost(k, c)
  /\ m.env.url = IF k = "python" /\ c.form = "presigned"
                 THEN Unpadded(c.endpoint) ELSE c.endpoint

LEMMA PostedIsPost ==
  ASSUME NEW k \in Impl, NEW in \in Inputs, NEW t \in Int, ValidatesBy(k, ParseBy(k, in))
  PROVE  LET c == ParseBy(k, in)
         IN  \E value : IsPost(k, c, Post(k, c, t), t, value)
<1> DEFINE c == ParseBy(k, in)
           e == BuildBy(k, c, t)
           d == PySigned(c)
<1>1. c.form \in {"header", "presigned"} /\ d.binding = c.binding /\ d.form = c.form
  BY Loaded, LoadedValid
<1> HIDE DEF c, d
<1>2. SUFFICES \E value : /\ Carried(e, SignedBy(k, c, t), value) /\ value[Host] = WrittenHost(k, c)
                          /\ e.url = IF k = "python" /\ c.form = "presigned"
                                     THEN Unpadded(c.endpoint) ELSE c.endpoint
  <2>1. DOMAIN e = {"json", "base64", "method", "header", "form", "url", "query", "signed"}
    <3>1. \/ e = EnvelopeFromRequest(c, SignHTTP(c, t)) \/ e = PresignedEnvelope(c, PresignHTTP(c, t))
          \/ e = PyEnvelopeFromRequest(c, SignHTTP(d, t)) \/ e = PyPresignedEnvelope(c, PresignHTTP(d, t))
      BY Zenon DEF BuildBy, Build, BuildProof, BuildPresignedProof, PyBuild, d
    <3> HIDE DEF e
    <3> QED BY <3>1, EnvelopesWritten
  <2>2. Post(k, c, t).env = e /\ Post(k, c, t).quirks = QuirksOf(c)
    BY DEF Post
  <2> HIDE DEF e
  <2>3. \E value : IsPost(k, c, Post(k, c, t), t, value)
    BY <2>1, <2>2 DEF IsPost
  <2> QED BY <2>3 DEF e, c
<1>3. CASE k = "go"
  <2>1. e = Build(c, t) /\ e.url = c.endpoint
    BY <1>3, EnvelopeFields DEF BuildBy
  <2>2. CASE c.form = "presigned"
    BY <1>3, <2>1, <2>2, BuiltCarries DEF Build, SignedBy, SignsAs, WrittenHost
  <2>3. CASE c.form = "header"
    BY <1>3, <2>1, <2>3, BuiltCarries DEF Build, SignedBy, SignsAs, WrittenHost
  <2> QED BY <1>1, <2>2, <2>3
<1>4. CASE k = "python"
  <2>1. c.binding = d.binding
    BY <1>1
  <2>2. CASE c.form = "presigned"
    <3>1. e = PyPresignedEnvelope(c, PresignHTTP(d, t)) /\ SignedBy(k, c, t) = PresignHTTP(d, t)
      BY <1>4, <2>2 DEF BuildBy, PyBuild, SignedBy, SignsAs, d
    <3>2. WrittenHost(k, c) = HostPort(c.endpoint)
      BY <1>4 DEF WrittenHost
    <3>3. /\ \E value : /\ Carried(PyPresignedEnvelope(c, PresignHTTP(d, t)), PresignHTTP(d, t), value)
                       /\ value[Host] = HostPort(c.endpoint)
          /\ PyPresignedEnvelope(c, PresignHTTP(d, t)).url = Unpadded(c.endpoint)
      BY <2>1, PyEnvelopes
    <3>4. k = "python" /\ c.form = "presigned"
      BY <1>4, <2>2
    <3>5. PICK value : Carried(e, SignedBy(k, c, t), value) /\ value[Host] = WrittenHost(k, c)
      <4> HIDE DEF e
      <4> QED BY <3>1, <3>2, <3>3
    <3>6. e.url = IF k = "python" /\ c.form = "presigned"
                  THEN Unpadded(c.endpoint) ELSE c.endpoint
      <4> HIDE DEF e
      <4> QED BY <3>1, <3>3, <3>4
    <3> QED BY <3>5, <3>6
  <2>3. CASE c.form = "header"
    <3>1. e = PyEnvelopeFromRequest(c, SignHTTP(d, t)) /\ SignedBy(k, c, t) = SignHTTP(d, t)
      BY <1>4, <2>3 DEF BuildBy, PyBuild, SignedBy, SignsAs, d
    <3>2. WrittenHost(k, c) = HostPort(c.endpoint)
      BY <1>4 DEF WrittenHost
    <3>3. /\ \E value : /\ Carried(PyEnvelopeFromRequest(c, SignHTTP(d, t)), SignHTTP(d, t), value)
                       /\ value[Host] = HostPort(c.endpoint)
          /\ PyEnvelopeFromRequest(c, SignHTTP(d, t)).url = c.endpoint
      BY <2>1, PyEnvelopes
    <3>4. c.form # "presigned"
      BY <1>4, <2>3
    <3>5. PICK value : Carried(e, SignedBy(k, c, t), value) /\ value[Host] = WrittenHost(k, c)
      <4> HIDE DEF e
      <4> QED BY <3>1, <3>2, <3>3
    <3>6. e.url = IF k = "python" /\ c.form = "presigned"
                  THEN Unpadded(c.endpoint) ELSE c.endpoint
      <4> HIDE DEF e
      <4> QED BY <3>1, <3>3, <3>4
    <3> QED BY <3>5, <3>6
  <2> QED BY <1>1, <2>2, <2>3
<1> QED BY <1>3, <1>4 DEF Impl

(* A configuration that a client of kind k has loaded.                     *)
IsConfig(k, c) ==
  /\ IsUrl(c.endpoint) /\ LowerHost(c.endpoint.host) \in Seq(STRING)
  /\ c.form \in {"header", "presigned"} /\ c.expiry \in Int
  /\ c.form = "presigned" => ExpiryFits(c.expiry)
  /\ RegionForSTSHost(LowerHost(c.endpoint.host)) \in {NoRegion, c.region}
  /\ k = "go" => ParsesUntrimmed(c.endpoint)
  /\ c.endpoint.parses \/ c.endpoint \in LaxUrls
  /\ k = "python" => c.endpoint.port \notin BadPorts
  /\ LET d == SignsAs(k, c)
     IN  /\ d.caller = c.caller /\ d.binding = c.binding /\ d.expiry = c.expiry
         /\ d.endpoint = IF k = "go" THEN c.endpoint ELSE Numbered(Lower(c.endpoint))

LEMMA PostedFacts ==
  ASSUME TypeOK, Posted, client \in Impl
  PROVE  /\ IsConfig(client, cfg)
         /\ \E t, value : IsPost(client, cfg, message, t, value)
<1>1. PICK in \in Inputs, t \in Times :
        /\ cfg = ParseBy(client, in)
        /\ client = "python" => PyBuilds(cfg)
        /\ message = Post(client, cfg, t)
  BY DEF Posted
<1>2. t \in Int /\ ValidatesBy(client, ParseBy(client, in))
  BY <1>1, TimesAreIntegers DEF TypeOK
<1>3. \E value : IsPost(client, cfg, message, t, value)
  BY <1>1, <1>2, PostedIsPost
<1>4. LET d == SignsAs(client, cfg)
      IN  /\ d.caller = cfg.caller /\ d.binding = cfg.binding /\ d.expiry = cfg.expiry
          /\ d.endpoint = IF client = "go" THEN cfg.endpoint ELSE Numbered(Lower(cfg.endpoint))
  BY <1>1, Loaded DEF SignsAs
<1>5. IsConfig(client, cfg)
  BY <1>1, <1>2, <1>4, Loaded, LoadedValid DEF IsConfig, PyBuilds
<1> QED BY <1>3, <1>5

(* The query of what a client signs has every field, its headers are few.  *)
LEMMA PostShape ==
  ASSUME NEW k \in Impl, NEW c, NEW t \in Int, IsConfig(k, c)
  PROVE  LET s == SignedBy(k, c, t)
         IN  /\ DOMAIN s.query = {"algorithm", "credential", "signature", "names", "date", "expires", "action"}
             /\ {s.query.algorithm, s.query.credential, s.query.signature} \subseteq Nat
             /\ {s.query.date, s.query.expires} \subseteq Seq(Int \cup {Unparsable})
             /\ s.names \subseteq {Host, ContentType, AmzDate, Binding}
<1> DEFINE s == SignedBy(k, c, t)
           d == SignsAs(k, c)
<1>1. Seconds(t) \in Int /\ Seconds(c.expiry) \in Int
  BY Truncation DEF IsConfig
<1>2. CASE c.form = "header"
  <2>1. s = SignHTTP(d, t)
    BY <1>2 DEF SignedBy
  <2> HIDE DEF s, d
  <2>2. s.query = NoQuery /\ s.names = {Host, ContentType, AmzDate, Binding}
    BY <2>1 DEF SignHTTP
  <2>3. /\ {NoQuery.date, NoQuery.expires} \subseteq Seq(Int \cup {Unparsable})
        /\ {NoQuery.algorithm, NoQuery.credential, NoQuery.signature} \subseteq Nat
    BY DEF NoQuery
  <2>4. DOMAIN NoQuery = {"algorithm", "credential", "signature", "names", "date", "expires", "action"}
    BY DEF NoQuery
  <2>5. s.names \subseteq {Host, ContentType, AmzDate, Binding}
    BY <2>2
  <2> QED BY <2>2, <2>3, <2>4, <2>5 DEF s
<1>3. CASE c.form = "presigned"
  <2>1. s = PresignHTTP(d, t) /\ d.expiry = c.expiry
    BY <1>3 DEF SignedBy, IsConfig
  <2> HIDE DEF s, d
  <2>2. /\ s.query.date = <<Seconds(t)>> /\ s.query.expires = <<Seconds(c.expiry)>>
        /\ s.query.algorithm = 1 /\ s.query.credential = 1 /\ s.query.signature = 1
        /\ s.names = {Host, Binding}
        /\ DOMAIN s.query = {"algorithm", "credential", "signature", "names", "date", "expires", "action"}
    BY <2>1 DEF PresignHTTP, PresignedNames
  <2>3. s.names \subseteq {Host, ContentType, AmzDate, Binding}
    BY <2>2
  <2>4. ASSUME NEW n \in Int PROVE <<n>> \in Seq(Int \cup {Unparsable})
    OBVIOUS
  <2> QED BY <1>1, <2>2, <2>3, <2>4 DEF s
<1> QED BY <1>2, <1>3 DEF IsConfig

LEMMA PostQuery ==
  ASSUME NEW k, NEW c, NEW t
  PROVE  LET q == SignedBy(k, c, t).query IN q = [f \in DOMAIN q |-> q[f]]
<1> DEFINE s == SignedBy(k, c, t)
           d == SignsAs(k, c)
<1>1. s = PresignHTTP(d, t) \/ s = SignHTTP(d, t)
  BY DEF SignedBy
<1> HIDE DEF s, d
<1>2. NoQuery = [f \in DOMAIN NoQuery |-> NoQuery[f]]
  BY DEF NoQuery
<1>3. CASE s = PresignHTTP(d, t)
  <2>1. LET q == s.query IN q = [f \in DOMAIN q |-> q[f]]
    BY <1>3 DEF PresignHTTP, PresignedNames
  <2> QED BY <2>1 DEF s
<1>4. CASE s = SignHTTP(d, t)
  <2>1. s.query = NoQuery
    BY <1>4 DEF SignHTTP
  <2> QED BY <1>2, <2>1 DEF s
<1> QED BY <1>1, <1>3, <1>4

(* Either server reads it as it was written, but for the URL.              *)
LEMMA PostRead ==
  ASSUME NEW k \in Impl, NEW i \in Impl, NEW c, NEW m, NEW t, NEW value,
         IsConfig(k, c), IsPost(k, c, m, t, value)
  PROVE  /\ Carried(Reads(i, m), SignedBy(k, c, t), value)
         /\ Reads(i, m).url = IF i = "go" THEN m.env.url ELSE Split(m.env.url)
<1> DEFINE s == SignedBy(k, c, t)
           fields == {"algorithm", "credential", "signature", "names", "date", "expires", "action"}
           e == Reads(i, m)
<1>1. /\ m.quirks \subseteq {"unsendable"} /\ t \in Int
      /\ DOMAIN m.env = {"json", "base64", "method", "header", "form", "url", "query", "signed"}
      /\ Carried(m.env, s, value) /\ m.env.query = s.query /\ m.env.base64 = TRUE
  BY DEF IsPost, QuirksOf, Carried
<1>2. DOMAIN s.query = fields /\ s.query = [f \in DOMAIN s.query |-> s.query[f]]
  BY <1>1, PostShape, PostQuery
<1> HIDE DEF s
<1>3. CASE i = "go"
  <2>1. GoQuery(m.env.query, m.quirks) = m.env.query
    <3>1. \A f \in fields : f \notin m.quirks
      BY <1>1
    <3> DEFINE q == m.env.query
    <3>2. q = [f \in DOMAIN q |-> q[f]] /\ \A f \in DOMAIN q : f \notin m.quirks
      BY <1>1, <1>2, <3>1
    <3> HIDE DEF q, fields
    <3>3. GoQuery(q, m.quirks) = [f \in DOMAIN q |-> q[f]]
      BY <3>2 DEF GoQuery
    <3> QED BY <3>2, <3>3 DEF q
  <2>2. e = [m.env EXCEPT !.json = m.env.json, !.form = m.env.form,
                          !.header = m.env.header, !.query = m.env.query]
    BY <1>1, <1>3, <2>1, Zenon DEF Reads, GoReads
  <2> HIDE DEF e
  <2>3. /\ e.json = m.env.json /\ e.base64 = m.env.base64 /\ e.method = m.env.method
        /\ e.header = m.env.header /\ e.form = m.env.form /\ e.query = m.env.query
        /\ e.signed = m.env.signed /\ e.url = m.env.url
    BY <1>1, <2>2
  <2>4. Carried(e, s, value)
    BY <1>1, <2>3 DEF Carried
  <2> QED BY <1>3, <2>3, <2>4 DEF s, e
<1>4. CASE i = "python"
  <2>1. e = [m.env EXCEPT !.json = m.env.json, !.base64 = m.env.base64, !.url = Split(m.env.url),
                          !.form = m.env.form, !.header = m.env.header,
                          !.query.date = m.env.query.date]
    <3>1. "goJson" \notin m.quirks /\ "binary" \notin m.quirks /\ "fraction" \notin m.quirks
      BY <1>1
    <3>2. (m.env.base64 /\ "wrapped" \notin m.quirks) = m.env.base64
      BY <1>1
    <3> QED BY <1>4, <3>1, <3>2 DEF Reads, PyReads
  <2>2. [m.env.query EXCEPT !.date = m.env.query.date] = m.env.query
    BY <1>1, <1>2
  <2> HIDE DEF e
  <2>3. /\ e.json = m.env.json /\ e.base64 = m.env.base64 /\ e.method = m.env.method
        /\ e.header = m.env.header /\ e.form = m.env.form /\ e.query = m.env.query
        /\ e.signed = m.env.signed /\ e.url = Split(m.env.url)
    BY <1>1, <2>1, <2>2
  <2>4. Carried(e, s, value)
    BY <1>1, <2>3 DEF Carried
  <2> QED BY <1>4, <2>3, <2>4 DEF s, e
<1> QED BY <1>3, <1>4 DEF Impl

(* ... and accepts it, except that Go does not read every escape.          *)
LEMMA PostExtracted ==
  ASSUME NEW k \in Impl, NEW i \in Impl, NEW c, NEW m, NEW t, NEW value,
         IsConfig(k, c), IsPost(k, c, m, t, value)
  PROVE  LET e == Reads(i, m)
         IN  \/ ExtractCheck(e) = Accepted /\ ExtractProof(e) = Meaning(SignedBy(k, c, t))
             \/ /\ ExtractCheck(e) = Refusal(400, "invalid_signature")
                /\ k = "python" /\ i = "go" /\ c.form = "presigned" /\ c.endpoint \in LaxUrls
<1> DEFINE e == Reads(i, m)
           d == SignsAs(k, c)
           s == SignedBy(k, c, t)
<1>1. /\ Carried(e, s, value) /\ t \in Int
      /\ e.url = IF i = "go" THEN m.env.url ELSE Split(m.env.url)
  BY PostRead DEF IsPost
<1>2. e.signed = s
  BY <1>1 DEF Carried
<1> HIDE DEF e
<1>3. CASE c.form = "header"
  <2>1. s = SignHTTP(d, t)
    BY <1>3 DEF SignedBy
  <2> HIDE DEF s, d
  <2>2. ExtractCheck(e) = Accepted /\ AsSigned(e)
    BY <1>1, <2>1, HeaderFormReadable
  <2> QED BY <1>2, <2>2, FaithfulExtraction DEF e, s
<1>4. CASE c.form = "presigned"
  <2>1. s = PresignHTTP(d, t)
    BY <1>4 DEF SignedBy
  <2>2. d.expiry \in Int /\ ExpiryFits(d.expiry)
    BY <1>4 DEF IsConfig
  <2> HIDE DEF s, d
  <2>3. /\ ParsesUntrimmed(e.url) => ExtractCheck(e) = Accepted
        /\ ~ParsesUntrimmed(e.url) => ExtractCheck(e) = Refusal(400, "invalid_signature")
        /\ AsSigned(e)
    BY <1>1, <2>1, <2>2, PresignedFormReadable
  <2>4. ParsesUntrimmed(e.url) \/ (k = "python" /\ i = "go" /\ c.endpoint \in LaxUrls)
    <3>1. /\ m.env.url = IF k = "python" THEN Unpadded(c.endpoint) ELSE c.endpoint
      BY <1>4 DEF IsPost
    <3>2. /\ IsUrl(c.endpoint) /\ (c.endpoint.parses \/ c.endpoint \in LaxUrls)
          /\ k = "go" => c.endpoint.parses /\ ~c.endpoint.padded
      BY DEF IsConfig, ParsesUntrimmed
    <3>3. /\ IsUrl(m.env.url) /\ ~m.env.url.padded
          /\ m.env.url.parses <=> c.endpoint.parses
      BY <3>1, <3>2, UrlFields DEF Impl
    <3>4. ASSUME i = "python" PROVE ParsesUntrimmed(e.url)
      <4>1. m.env.url.parses \/ m.env.url \in LaxUrls
        <5>1. c.endpoint \in LaxUrls => Unpadded(c.endpoint) \in LaxUrls
          BY InteropAssumption, Zenon
        <5> QED BY <3>1, <3>2, <3>3, <5>1
      <4>2. e.url = Split(m.env.url)
        BY <1>1, <3>4
      <4> QED BY <3>3, <4>1, <4>2, UrlFields DEF ParsesUntrimmed
    <3>5. i = "go" => e.url = m.env.url
      BY <1>1
    <3> QED BY <3>2, <3>3, <3>4, <3>5 DEF ParsesUntrimmed, Impl
  <2>5. ExtractCheck(e) = Accepted => ExtractProof(e) = Meaning(s)
    BY <1>2, <2>3, FaithfulExtraction
  <2> QED BY <1>4, <2>3, <2>4, <2>5 DEF e, s
<1> QED BY <1>3, <1>4 DEF IsConfig

---------------------------------------------------------------------------
(* Delegation.  What the Go server's allow list has, the port's has.       *)
LEMMA KeyParts ==
  ASSUME NEW u, NormalizeEndpoint(u) # NoEndpoint
  PROVE  /\ u.parses /\ u.scheme = "https" /\ TrimDot(u.host) # <<"">>
         /\ NormalizeEndpoint(u) = <<TrimDot(u.host), IF u.port = "" THEN "443" ELSE u.port>>
BY Zenon DEF NormalizeEndpoint

LEMMA AsFields ==
  ASSUME NEW u, IsUrl(u)
  PROVE  /\ LET v == AsGo(u)
            IN  /\ IsUrl(v) /\ (v.parses <=> u.parses) /\ (v.padded <=> u.padded)
                /\ v.scheme = u.scheme /\ v.host = LowerHost(u.host) /\ v.port = u.port
         /\ LET v == AsPy(u)
            IN  /\ IsUrl(v) /\ (v.parses <=> u.parses \/ u \in LaxUrls) /\ (v.padded <=> u.padded)
                /\ v.scheme = u.scheme /\ v.host = LowerHost(u.host)
                /\ v.port = IF u.port \in DOMAIN LeadingZeros THEN LeadingZeros[u.port] ELSE u.port
BY UrlFields DEF AsGo, AsPy

LEMMA KeyByNumber ==
  ASSUME NEW u, IsUrl(u), NormalizeEndpoint(AsGo(u)) # NoEndpoint
  PROVE  LET port == AsPy(u).port
         IN  NormalizeEndpoint(AsPy(u)) = <<TrimDot(LowerHost(u.host)), IF port = "" THEN "443" ELSE port>>
<1> DEFINE v == AsGo(u)
           w == AsPy(u)
<1>1. /\ v.parses <=> u.parses
      /\ w.parses <=> u.parses \/ u \in LaxUrls
      /\ v.scheme = u.scheme /\ w.scheme = u.scheme
      /\ v.host = LowerHost(u.host) /\ w.host = LowerHost(u.host)
  BY AsFields
<1>2. v.parses /\ v.scheme = "https" /\ TrimDot(v.host) # <<"">>
  BY KeyParts
<1>3. w.parses /\ w.scheme = "https" /\ TrimDot(w.host) # <<"">>
  <2> HIDE DEF v, w
  <2> QED BY <1>1, <1>2
<1> QED BY <1>1, <1>3, Zenon DEF NormalizeEndpoint

LEMMA SameNumber ==
  ASSUME NEW u, NEW v, IsUrl(u), IsUrl(v),
         NormalizeEndpoint(AsGo(u)) = NormalizeEndpoint(AsGo(v)),
         NormalizeEndpoint(AsGo(u)) # NoEndpoint
  PROVE  NormalizeEndpoint(AsPy(u)) = NormalizeEndpoint(AsPy(v))
<1>1. /\ <<TrimDot(LowerHost(u.host)), IF u.port = "" THEN "443" ELSE u.port>>
           = <<TrimDot(LowerHost(v.host)), IF v.port = "" THEN "443" ELSE v.port>>
      /\ NormalizeEndpoint(AsGo(v)) # NoEndpoint
  <2>1. ASSUME NEW w, IsUrl(w), NormalizeEndpoint(AsGo(w)) # NoEndpoint
        PROVE  NormalizeEndpoint(AsGo(w))
                 = <<TrimDot(LowerHost(w.host)), IF w.port = "" THEN "443" ELSE w.port>>
    <3>1. AsGo(w).host = LowerHost(w.host) /\ AsGo(w).port = w.port
      BY <2>1, AsFields
    <3>2. NormalizeEndpoint(AsGo(w))
            = <<TrimDot(AsGo(w).host), IF AsGo(w).port = "" THEN "443" ELSE AsGo(w).port>>
      BY <2>1, KeyParts
    <3> QED BY <3>1, <3>2
  <2> QED BY <2>1
<1>2. TrimDot(LowerHost(u.host)) = TrimDot(LowerHost(v.host))
  BY <1>1
<1>3. u.port = v.port \/ {u.port, v.port} \subseteq {"", "443"}
  <2>1. (IF u.port = "" THEN "443" ELSE u.port) = IF v.port = "" THEN "443" ELSE v.port
    BY <1>1
  <2> QED BY <2>1
<1>4. "" \notin DOMAIN LeadingZeros /\ "443" \notin DOMAIN LeadingZeros
  BY InteropAssumption
<1>5. LET p == AsPy(u).port
          q == AsPy(v).port
      IN  (IF p = "" THEN "443" ELSE p) = IF q = "" THEN "443" ELSE q
  BY <1>3, <1>4, AsFields
<1> QED BY <1>1, <1>2, <1>5, KeyByNumber

(* The allow list as either server looks at it.                            *)
GoList == AllowedEndpoints({AsGo(u) : u \in server.endpoints})
PyList == AllowedEndpoints({AsPy(u) : u \in server.endpoints})

LEMMA PortAllows ==
  ASSUME server \in Servers, NEW v, IsUrl(v), NormalizeEndpoint(AsGo(v)) \in GoList
  PROVE  NormalizeEndpoint(AsPy(v)) \in PyList
<1>1. PICK u \in server.endpoints : /\ NormalizeEndpoint(AsGo(u)) = NormalizeEndpoint(AsGo(v))
                                    /\ NormalizeEndpoint(AsGo(u)) # NoEndpoint
  BY DEF GoList, AllowedEndpoints
<1>2. /\ IsUrl(u)
      /\ \A port \in {"443", Numbered(u).port} : NoEndpoint # <<TrimDot(Lower(u).host), port>>
  BY InteropAssumption, Zenon
<1>3. AsPy(u).port = Numbered(u).port /\ Lower(u).host = LowerHost(u.host)
  BY <1>2, UrlFields, AsFields
<1>4. NormalizeEndpoint(AsPy(u)) # NoEndpoint
  BY <1>1, <1>2, <1>3, KeyByNumber
<1>5. NormalizeEndpoint(AsPy(u)) = NormalizeEndpoint(AsPy(v))
  BY <1>1, <1>2, SameNumber
<1> QED BY <1>4, <1>5 DEF PyList, AllowedEndpoints

(* How the delegation of a server may end before STS is asked.             *)
LEMMA Delegation ==
  ASSUME NEW urls, NEW e
  PROVE  LET err == DelegationError(urls, e)
         IN  /\ err = "rejected" <=> NormalizeEndpoint(e.url) \notin AllowedEndpoints(urls)
             /\ err \in {"rejected", "infra", "none"}
             /\ err = "infra" => e.url.padded
             /\ err = "none" => ~e.url.padded
BY DEF DelegationError

LEMMA GoDelegation ==
  ASSUME NEW m, IsEnvelope(m.env)
  PROVE  LET err == GoDelegationError(server.endpoints, m)
         IN  /\ err = "rejected" <=> NormalizeEndpoint(AsGo(m.env.url)) \notin GoList
             /\ err \in {"rejected", "infra", "none"}
             /\ err = "infra" => m.env.url.padded
             /\ err = "none" => ~m.env.url.padded
<1> DEFINE d == [m.env EXCEPT !.url = AsGo(@)]
           urls == {AsGo(u) : u \in server.endpoints}
<1>1. d.url = AsGo(m.env.url) /\ (d.url.padded <=> m.env.url.padded)
  BY AsFields DEF IsEnvelope
<1>2. GoDelegationError(server.endpoints, m) = DelegationError(urls, d) /\ GoList = AllowedEndpoints(urls)
  BY DEF GoDelegationError, GoList
<1> HIDE DEF d, urls
<1> QED BY <1>1, <1>2, Delegation

LEMMA PyDelegation ==
  ASSUME NEW m, IsEnvelope(m.env)
  PROVE  LET err     == PyDelegationError(server.endpoints, m)
             allowed == NormalizeEndpoint(AsPy(m.env.url)) \in PyList
         IN  /\ err = "rejected" => ~allowed
             /\ err \in {"rejected", "infra", "none"}
             /\ err = "infra" => \/ NormalizeRaises(m.env.url)
                                 \/ "unsendable" \in m.quirks
                                 \/ m.env.url.padded /\ allowed
             /\ err = "none" => ~m.env.url.padded /\ allowed
<1> DEFINE d == [m.env EXCEPT !.url = AsPy(@)]
           urls == {AsPy(u) : u \in server.endpoints}
           err == DelegationError(urls, d)
<1>1. d.url = AsPy(m.env.url) /\ (d.url.padded <=> m.env.url.padded)
  BY AsFields DEF IsEnvelope
<1>2. /\ PyDelegationError(server.endpoints, m)
           = IF NormalizeRaises(m.env.url) \/ (err = "none" /\ "unsendable" \in m.quirks)
             THEN "infra" ELSE err
      /\ PyList = AllowedEndpoints(urls)
  BY DEF PyDelegationError, PyList
<1> HIDE DEF d, urls
<1>3. /\ err = "rejected" <=> NormalizeEndpoint(d.url) \notin PyList
      /\ err \in {"rejected", "infra", "none"}
      /\ err = "infra" => d.url.padded
      /\ err = "none" => ~d.url.padded
  BY <1>2, Delegation
<1> HIDE DEF err
<1> QED BY <1>1, <1>2, <1>3

---------------------------------------------------------------------------
(* One Host, in one spelling, is forwarded as it is.                       *)
LEMMA PyHostForwarded ==
  ASSUME NEW e, NEW names, NEW value, IsHeaderMap(e.header, names, value), Host \in names
  PROVE  PyForwardedHosts(e) = {value[Host]}
<1> DEFINE h == e.header
           keys == {k \in DOMAIN h : k[1] = Host /\ h[k] # << >>}
           last == {x \in keys : \A y \in keys : y[2] <= x[2]}
<1>1. DOMAIN h = {<<n, 1>> : n \in names} /\ h[<<Host, 1>>] = <<value[Host]>>
  BY DEF IsHeaderMap
<1> HIDE DEF h
<1>2. keys = {<<Host, 1>>}
  BY <1>1
<1> HIDE DEF keys
<1>3. last = {<<Host, 1>>}
  BY <1>2
<1>4. PyForwardedHosts(e) = {h[k][1] : k \in last}
  BY <1>2, Zenon DEF PyForwardedHosts, last, keys, h
<1> HIDE DEF last
<1> QED BY <1>1, <1>3, <1>4

(* What is sent of it: one of the Hosts, and the further headers as they   *)
(* were signed, unless the message has one of the quirks of Intact.        *)
LEMMA SentFields ==
  ASSUME NEW i \in Impl, NEW m, NEW sent \in ForwardedBy(i, m)
  PROVE  /\ sent.host \in IF i = "go" THEN ForwardedHosts(m.env) ELSE PyForwardedHosts(m.env)
         /\ sent.intact \in BOOLEAN
         /\ ~sent.intact => {IF i = "go" THEN "joined" ELSE "repeated", "spelled"} \cap m.quirks # {}
<1> DEFINE hosts == IF i = "go" THEN ForwardedHosts(m.env) ELSE PyForwardedHosts(m.env)
<1>1. sent \in [host : hosts, intact : Intact(i, m.quirks)]
  BY DEF ForwardedBy
<1> HIDE DEF hosts
<1>2. sent.host \in hosts /\ sent.intact \in Intact(i, m.quirks)
  BY <1>1
<1> QED BY <1>2 DEF hosts, Intact

LEMMA PostForwarded ==
  ASSUME NEW k \in Impl, NEW i \in Impl, NEW c, NEW m, NEW t, NEW value, IsPost(k, c, m, t, value),
         NEW sent \in ForwardedBy(i, m)
  PROVE  sent.host = WrittenHost(k, c) /\ sent.intact
<1> DEFINE s == SignedBy(k, c, t)
           names == s.names \cup (IF s.form = "header" THEN {Authorization} ELSE {})
<1>1. Host \in names
  <2>1. Host \in s.names
    BY DEF SignedBy, SignHTTP, PresignHTTP, PresignedNames
  <2> HIDE DEF s
  <2> QED BY <2>1
<1>2. IsHeaderMap(m.env.header, names, value) /\ value[Host] = WrittenHost(k, c)
  BY DEF IsPost, Carried
<1> HIDE DEF names
<1>3. ForwardedHosts(m.env) = {WrittenHost(k, c)} /\ PyForwardedHosts(m.env) = {WrittenHost(k, c)}
  BY <1>1, <1>2, HostForwarded, PyHostForwarded
<1>4. m.quirks \subseteq {"unsendable"}
  BY DEF IsPost, QuirksOf
<1> QED BY <1>3, <1>4, SentFields

(* A client's message is an envelope.                                      *)
LEMMA PostEnvelope ==
  ASSUME NEW k \in Impl, NEW c, NEW m, NEW t, NEW value, IsConfig(k, c), IsPost(k, c, m, t, value)
  PROVE  IsEnvelope(m.env)
<1> DEFINE s == SignedBy(k, c, t)
           names == s.names \cup (IF s.form = "header" THEN {Authorization} ELSE {})
<1>1. /\ m.env.base64 = TRUE /\ m.env.query = s.query
      /\ DOMAIN m.env.header = {<<n, 1>> : n \in names}
      /\ DOMAIN m.env = {"json", "base64", "method", "header", "form", "url", "query", "signed"}
  BY DEF IsPost, Carried, IsHeaderMap
<1>2. IsUrl(m.env.url)
  BY UrlFields DEF IsPost, IsConfig
<1>3. /\ DOMAIN s.query = {"algorithm", "credential", "signature", "names", "date", "expires", "action"}
      /\ {s.query.algorithm, s.query.credential, s.query.signature} \subseteq Nat
      /\ {s.query.date, s.query.expires} \subseteq Seq(Int \cup {Unparsable})
      /\ names \subseteq {Host, ContentType, AmzDate, Binding, Authorization}
  <2>1. t \in Int
    BY DEF IsPost
  <2>2. /\ s.names \subseteq {Host, ContentType, AmzDate, Binding}
        /\ DOMAIN s.query = {"algorithm", "credential", "signature", "names", "date", "expires", "action"}
        /\ {s.query.algorithm, s.query.credential, s.query.signature} \subseteq Nat
        /\ {s.query.date, s.query.expires} \subseteq Seq(Int \cup {Unparsable})
    BY <2>1, PostShape
  <2>3. names \subseteq {Host, ContentType, AmzDate, Binding, Authorization}
    <3> HIDE DEF s
    <3> QED BY <2>2
  <2> HIDE DEF s, names
  <2> QED BY <2>2, <2>3
<1> HIDE DEF s, names
<1>4. IsFiniteSet(DOMAIN m.env.header) /\ \A key \in DOMAIN m.env.header : key[2] \in Int
  <2> DEFINE all == {<<Host, 1>>, <<ContentType, 1>>, <<AmzDate, 1>>, <<Binding, 1>>, <<Authorization, 1>>}
  <2>1. IsFiniteSet(all)
    <3>1. \A x : IsFiniteSet({x})
      BY FS_Singleton
    <3>2. \A S, T : IsFiniteSet(S) /\ IsFiniteSet(T) => IsFiniteSet(S \cup T)
      BY FS_Union
    <3>3. all = ({<<Host, 1>>} \cup ({<<ContentType, 1>>} \cup {<<AmzDate, 1>>}))
                  \cup ({<<Binding, 1>>} \cup {<<Authorization, 1>>})
      OBVIOUS
    <3> HIDE DEF all
    <3> QED BY <3>1, <3>2, <3>3, Zenon
  <2>2. DOMAIN m.env.header \subseteq all
    BY <1>1, <1>3
  <2>3. \A key \in all : key[2] \in Int
    OBVIOUS
  <2> HIDE DEF all
  <2> QED BY <2>1, <2>2, <2>3, FS_Subset
<1> QED BY <1>1, <1>2, <1>3, <1>4 DEF IsEnvelope

---------------------------------------------------------------------------
(* The way of a client's message through a server.                         *)
LEMMA PostChecked ==
  ASSUME NEW k \in Impl, NEW c, NEW t, NEW now2, IsConfig(k, c)
  PROVE  LET reason == LocalCheck(server, Meaning(SignedBy(k, c, t)), now2)
         IN  \/ reason \in {"none", "stale"}
             \/ reason = "binding_mismatch" /\ c.binding # server.binding
<1> DEFINE s == SignedBy(k, c, t)
           d == SignsAs(k, c)
           p == Meaning(s)
<1>1. s \in {SignHTTP(d, t), PresignHTTP(d, t)} /\ d.binding = c.binding
  BY DEF SignedBy, IsConfig
<1> HIDE DEF s, d
<1>2. p.binding = c.binding /\ p.method = ExpectedMethod(p) /\ p.action = GetCallerIdentity
  BY <1>1, SignedShape
<1> HIDE DEF p
<1>3. LET reason == LocalCheck(server, p, now2)
      IN  \/ reason \in {"none", "stale"}
          \/ reason = "binding_mismatch" /\ c.binding # server.binding
  BY <1>2, Zenon DEF LocalCheck
<1> QED BY <1>3 DEF p, s

LEMMA PostDelegated ==
  ASSUME server \in Servers, NEW k \in Impl, NEW i \in Impl, NEW c, NEW m, NEW t, NEW value,
         IsConfig(k, c), IsPost(k, c, m, t, value)
  PROVE  LET err == DelegationErrorBy(i, server.endpoints, m)
         IN  \/ err = "none"
             \/ /\ err = "rejected"
                /\ NormalizeEndpoint(Lower(c.endpoint)) \notin GoList
             \/ /\ err = "infra"
                /\ \/ k = "python" /\ c.form = "header" /\ c.endpoint.padded
                   \/ k = "go" /\ i = "python" /\ c.endpoint.port \in BadPorts
                   \/ i = "python" /\ c.binding \in Unsendable
<1> DEFINE u == m.env.url
           err == DelegationErrorBy(i, server.endpoints, m)
<1>1. /\ IsUrl(c.endpoint) /\ IsUrl(u) /\ IsEnvelope(m.env)
      /\ u.port = c.endpoint.port /\ u.host = c.endpoint.host /\ u.scheme = c.endpoint.scheme
      /\ u.parses <=> c.endpoint.parses
      /\ u.padded => k = "python" /\ c.form = "header" /\ c.endpoint.padded
  <2>1. u = IF k = "python" /\ c.form = "presigned" THEN Unpadded(c.endpoint) ELSE c.endpoint
    BY DEF IsPost
  <2>2. /\ IsUrl(c.endpoint) /\ c.form \in {"header", "presigned"}
        /\ k = "go" => ~c.endpoint.padded
    BY DEF IsConfig, ParsesUntrimmed
  <2> HIDE DEF u
  <2>3. IsEnvelope(m.env)
    BY PostEnvelope
  <2> QED BY <2>1, <2>2, <2>3, UrlFields DEF Impl
<1>2. NormalizeEndpoint(AsGo(u)) = NormalizeEndpoint(Lower(c.endpoint))
  <2> DEFINE v == AsGo(u)
             w == Lower(c.endpoint)
  <2>1. /\ v.host = w.host /\ v.scheme = w.scheme /\ v.port = w.port
        /\ v.parses <=> w.parses
    BY <1>1, AsFields, UrlFields
  <2> HIDE DEF v, w
  <2>2. NormalizeEndpoint(v) = NormalizeEndpoint(w)
    BY <2>1, Zenon DEF NormalizeEndpoint
  <2> QED BY <2>2 DEF v, w
<1>3. CASE i = "go"
  <2>1. err = GoDelegationError(server.endpoints, m)
    BY <1>3 DEF DelegationErrorBy
  <2>2. /\ err = "rejected" => NormalizeEndpoint(AsGo(u)) \notin GoList
        /\ err \in {"rejected", "infra", "none"}
        /\ err = "infra" => u.padded
    BY <1>1, <2>1, GoDelegation
  <2> HIDE DEF err, u
  <2> QED BY <1>1, <1>2, <2>2 DEF err
<1>4. CASE i = "python"
  <2>1. err = PyDelegationError(server.endpoints, m)
    BY <1>4 DEF DelegationErrorBy
  <2>2. /\ err = "rejected" => NormalizeEndpoint(AsPy(u)) \notin PyList
        /\ err \in {"rejected", "infra", "none"}
        /\ err = "infra" => NormalizeRaises(u) \/ "unsendable" \in m.quirks \/ u.padded
    BY <1>1, <2>1, PyDelegation
  <2>3. err = "rejected" => NormalizeEndpoint(AsGo(u)) \notin GoList
    BY <1>1, <2>2, PortAllows
  <2>4. NormalizeRaises(u) => k = "go" /\ c.endpoint.port \in BadPorts
    BY <1>1 DEF NormalizeRaises, IsConfig, Impl
  <2>5. "unsendable" \in m.quirks => c.binding \in Unsendable
    BY DEF IsPost, QuirksOf
  <2> HIDE DEF err, u
  <2> QED BY <1>1, <1>2, <1>4, <2>2, <2>3, <2>4, <2>5 DEF err
<1> QED BY <1>3, <1>4 DEF Impl

LEMMA PostRecognised ==
  ASSUME NEW k \in Impl, NEW i \in Impl, NEW t, NEW value, NEW sent \in ForwardedBy(i, message),
         IsConfig(k, cfg), IsPost(k, cfg, message, t, value), ~StsRecognises(message, sent)
  PROVE  \/ RegionForSTSHost(Lower(cfg.endpoint).host) = NoRegion
         \/ cfg.caller \notin Callers
         \/ /\ k = "go" /\ cfg.form = "presigned"
            /\ SignedHost(cfg.endpoint) # HostPort(cfg.endpoint)
         \/ /\ k = "python"
            /\ SignedHost(Numbered(Lower(cfg.endpoint))) # HostPort(cfg.endpoint)
<1> DEFINE s == SignedBy(k, cfg, t)
           d == SignsAs(k, cfg)
           e == message.env
           host == LowerHost(cfg.endpoint.host)
<1>1. /\ {"loose", "fraction"} \cap message.quirks = {} /\ t \in Int
      /\ Carried(e, s, value) /\ e.signed = s
      /\ cfg.form \in {"header", "presigned"}
      /\ s = IF cfg.form = "presigned" THEN PresignHTTP(d, t) ELSE SignHTTP(d, t)
      /\ d.expiry = cfg.expiry /\ cfg.expiry \in Int /\ d.caller = cfg.caller
      /\ cfg.form = "presigned" => ExpiryFits(cfg.expiry)
  BY DEF IsPost, IsConfig, Carried, SignedBy, QuirksOf
<1>2. sent.host = WrittenHost(k, cfg) /\ sent.intact
  BY PostForwarded
<1>3. Lower(e.url).host = host /\ Lower(cfg.endpoint).host = host
  BY UrlFields DEF IsPost, IsConfig
<1>4. d.endpoint = IF k = "go" THEN cfg.endpoint ELSE Numbered(Lower(cfg.endpoint))
  BY DEF IsConfig
<1> HIDE DEF s, d, e, host
<1>5. AsSigned(e)
  BY <1>1, HeaderFormReadable, PresignedFormReadable
<1>6. s.signer = cfg.caller /\ s.header[Host] = SignedHost(d.endpoint)
  BY <1>1, SignedShape
<1>7. \/ sent.host # s.header[Host] \/ s.signer \notin Callers
      \/ RegionForSTSHost(TrimDot(host)) \notin {NoRegion, cfg.region}
  BY <1>1, <1>2, <1>3, <1>5 DEF StsRecognises, e
<1>8. CASE sent.host # s.header[Host]
  BY <1>1, <1>2, <1>4, <1>6, <1>8 DEF WrittenHost, Impl
<1>9. CASE RegionForSTSHost(TrimDot(host)) \notin {NoRegion, cfg.region}
  <2>1. host \in Seq(STRING) /\ RegionForSTSHost(host) \in {NoRegion, cfg.region}
    BY DEF IsConfig, host
  <2> QED BY <1>3, <1>9, <2>1, StandardHostsUndotted
<1> QED BY <1>6, <1>7, <1>8, <1>9

(* The stages at which a server may answer without STS.                    *)
LEMMA EarlyCases ==
  ASSUME NEW i, NEW m, NEW t
  PROVE  LET e      == Reads(i, m)
             reason == LocalCheck(server, ExtractProof(e), t)
             err    == DelegationErrorBy(i, server.endpoints, m)
             early  == EarlyAnswer(i, m, t)
         IN  \/ ExtractCheck(e) # Accepted /\ early = ExtractCheck(e)
             \/ /\ ExtractCheck(e) = Accepted /\ reason # "none"
                /\ early = Refusal(RejectionStatus(reason), reason)
             \/ /\ ExtractCheck(e) = Accepted /\ reason = "none" /\ err # "none"
                /\ early = WriteAuthError(err)
             \/ ExtractCheck(e) = Accepted /\ reason = "none" /\ err = "none" /\ early = Accepted
BY Zenon DEF EarlyAnswer

LEMMA ErrorsOf ==
  /\ \A n, x : Refusal(n, x).error = x
  /\ WriteAuthError("rejected").error = "verification_failed"
  /\ WriteAuthError("infra").error = "upstream_error"
BY DEF Refusal, WriteAuthError

LEMMA ProofsCrossLemma == TypeOK /\ Posted /\ Decided => ProofsCross
<1> SUFFICES ASSUME TypeOK, Posted, Decided,
                    NEW i \in Impl, client \in Impl, service[i] = "done"
             PROVE  \/ answer[i].error \in {"none", "stale"}
                    \/ answer[i].error = "binding_mismatch" /\ cfg.binding # server.binding
                    \/ answer[i].error = "arn_not_allowed" /\ cfg.caller \notin server.arns
                    \/ /\ answer[i].error = "verification_failed"
                       /\ \/ NormalizeEndpoint(Lower(cfg.endpoint)) \notin GoList
                          \/ RegionForSTSHost(Lower(cfg.endpoint).host) = NoRegion
                          \/ cfg.caller \notin Callers
                          \/ /\ client = "go" /\ cfg.form = "presigned"
                             /\ SignedHost(cfg.endpoint) # HostPort(cfg.endpoint)
                          \/ /\ client = "python"
                             /\ SignedHost(Numbered(Lower(cfg.endpoint))) # HostPort(cfg.endpoint)
                    \/ /\ answer[i].error = "upstream_error"
                       /\ \/ client = "python" /\ cfg.form = "header" /\ cfg.endpoint.padded
                          \/ client = "go" /\ i = "python" /\ cfg.endpoint.port \in BadPorts
                          \/ i = "python" /\ cfg.binding \in Unsendable
                    \/ /\ answer[i].error = "invalid_signature"
                       /\ client = "python" /\ i = "go" /\ cfg.form = "presigned" /\ cfg.endpoint \in LaxUrls
  <2>1. GoList = AllowedEndpoints({Lower(u) : u \in server.endpoints})
    BY DEF GoList, AsGo
  <2> QED BY <2>1 DEF ProofsCross
<1> DEFINE early == EarlyAnswer(i, message, checkedOn[i])
           e == Reads(i, message)
           x == ExtractCheck(e)
           reason == LocalCheck(server, ExtractProof(e), checkedOn[i])
           err == DelegationErrorBy(i, server.endpoints, message)
<1>1. IsConfig(client, cfg)
  BY PostedFacts
<1>2. PICK t, value : IsPost(client, cfg, message, t, value)
  BY PostedFacts
<1>3. \/ early # Accepted /\ answer[i] = early
      \/ \E sent \in ForwardedBy(i, message) : answer[i] = StsAnswer(sent)
  BY DEF Decided, DecidedBy
<1>4. CASE early # Accepted /\ answer[i] = early
  <2>1. \/ x # Accepted /\ early = x
        \/ x = Accepted /\ reason # "none" /\ early = Refusal(RejectionStatus(reason), reason)
        \/ err # "none" /\ early = WriteAuthError(err)
    <3>1. early # Accepted
      BY <1>4
    <3> HIDE DEF early, x, reason, err
    <3> QED BY <3>1, EarlyCases, Zenon DEF early, x, e, reason, err
  <2>2. CASE x # Accepted /\ early = x
    <3>1. /\ x = Refusal(400, "invalid_signature")
          /\ client = "python" /\ i = "go" /\ cfg.form = "presigned" /\ cfg.endpoint \in LaxUrls
      BY <1>1, <1>2, <2>2, PostExtracted
    <3> HIDE DEF early, x
    <3> QED BY <1>4, <2>2, <3>1, ErrorsOf
  <2>3. CASE x = Accepted /\ reason # "none" /\ early = Refusal(RejectionStatus(reason), reason)
    <3>1. ExtractProof(e) = Meaning(SignedBy(client, cfg, t))
      BY <1>1, <1>2, <2>3, PostExtracted DEF Accepted, Refusal
    <3>2. reason = "stale" \/ (reason = "binding_mismatch" /\ cfg.binding # server.binding)
      BY <1>1, <2>3, <3>1, PostChecked
    <3>3. early.error = reason
      <4> HIDE DEF early, reason
      <4> QED BY <2>3, ErrorsOf
    <3> HIDE DEF early, reason
    <3> QED BY <1>4, <3>2, <3>3
  <2>4. CASE err # "none" /\ early = WriteAuthError(err)
    <3>1. server \in Servers
      BY DEF TypeOK
    <3>2. \/ /\ err = "rejected"
             /\ NormalizeEndpoint(Lower(cfg.endpoint)) \notin GoList
          \/ /\ err = "infra"
             /\ \/ client = "python" /\ cfg.form = "header" /\ cfg.endpoint.padded
                \/ client = "go" /\ i = "python" /\ cfg.endpoint.port \in BadPorts
                \/ i = "python" /\ cfg.binding \in Unsendable
      BY <1>1, <1>2, <2>4, <3>1, PostDelegated
    <3> HIDE DEF early, err
    <3> QED BY <1>4, <2>4, <3>2, ErrorsOf
  <2> HIDE DEF early, x, reason, err
  <2> QED BY <2>1, <2>2, <2>3, <2>4, Zenon
<1>5. ASSUME NEW sent \in ForwardedBy(i, message), answer[i] = StsAnswer(sent)
      PROVE  \/ answer[i].error = "none"
             \/ answer[i].error = "arn_not_allowed" /\ cfg.caller \notin server.arns
             \/ answer[i].error = "verification_failed" /\ ~StsRecognises(message, sent)
  <2>1. message.env.signed.signer = cfg.caller
    <3> DEFINE d == SignsAs(client, cfg)
               s == SignedBy(client, cfg, t)
    <3>1. message.env.signed = s /\ d.caller = cfg.caller /\ s \in {SignHTTP(d, t), PresignHTTP(d, t)}
      BY <1>1, <1>2 DEF IsPost, Carried, IsConfig, SignedBy
    <3> HIDE DEF d, s
    <3> QED BY <3>1, SignedShape
  <2>2. \/ answer[i] = WriteAuthError("rejected") /\ ~StsRecognises(message, sent)
        \/ answer[i] = Refusal(RejectionStatus("arn_not_allowed"), "arn_not_allowed") /\ cfg.caller \notin server.arns
        \/ answer[i] = Refusal(200, "none")
    BY <1>5, <2>1, Zenon DEF StsAnswer
  <2> QED BY <2>2, ErrorsOf
<1>6. ASSUME NEW sent \in ForwardedBy(i, message), ~StsRecognises(message, sent)
      PROVE  \/ RegionForSTSHost(Lower(cfg.endpoint).host) = NoRegion
             \/ cfg.caller \notin Callers
             \/ /\ client = "go" /\ cfg.form = "presigned"
                /\ SignedHost(cfg.endpoint) # HostPort(cfg.endpoint)
             \/ /\ client = "python"
                /\ SignedHost(Numbered(Lower(cfg.endpoint))) # HostPort(cfg.endpoint)
  BY <1>1, <1>2, <1>6, PostRecognised
<1>7. CASE \E sent \in ForwardedBy(i, message) : answer[i] = StsAnswer(sent)
  BY <1>5, <1>6, <1>7
<1> QED BY <1>3, <1>4, <1>7

(* The proof of either client passes either server, or the refusal is one  *)
(* the configurations or the way the endpoint is written account for.      *)
THEOREM ProofsCrossCorrect == Spec => []ProofsCross
BY TypeCorrect, HistoryCorrect, ProofsCrossLemma, PTL DEF History

---------------------------------------------------------------------------
(* Two servers at one message: an envelope, in which a field of the query  *)
(* has a value when its last one is in a pair Go drops.                    *)
IsMessage(m) ==
  /\ IsEnvelope(m.env)
  /\ \A f \in m.quirks \cap {"names", "date", "expires"} :
       \E S : m.env.query[f] \in Seq(S) /\ m.env.query[f] # << >>

(* What the servers' adapters find in it.                                  *)
LEMMA PyFields ==
  ASSUME NEW m, IsEnvelope(m.env)
  PROVE  LET e == PyReads(m)
         IN  /\ e.method = m.env.method /\ e.url = Split(m.env.url)
             /\ e.form = IF "binary" \in m.quirks THEN << >> ELSE m.env.form
             /\ e.json = IF m.env.json = "ok" /\ "goJson" \in m.quirks THEN "malformed" ELSE m.env.json
             /\ e.base64 <=> m.env.base64 /\ "wrapped" \notin m.quirks
             /\ e.header = IF "fraction" \in m.quirks THEN UnreadDates(m.env.header) ELSE m.env.header
             /\ e.query.date = IF "fraction" \in m.quirks THEN Unreadable(m.env.query.date) ELSE m.env.query.date
             /\ \A f \in DOMAIN m.env.query \ {"date"} : e.query[f] = m.env.query[f]
<1> DEFINE json == IF m.env.json = "ok" /\ "goJson" \in m.quirks THEN "malformed" ELSE m.env.json
           base64 == m.env.base64 /\ "wrapped" \notin m.quirks
           form == IF "binary" \in m.quirks THEN << >> ELSE m.env.form
           header == IF "fraction" \in m.quirks THEN UnreadDates(m.env.header) ELSE m.env.header
           date == IF "fraction" \in m.quirks THEN Unreadable(m.env.query.date) ELSE m.env.query.date
<1>1. /\ DOMAIN m.env = {"json", "base64", "method", "header", "form", "url", "query", "signed"}
      /\ DOMAIN m.env.query = {"algorithm", "credential", "signature", "names", "date", "expires", "action"}
  BY DEF IsEnvelope
<1>2. PyReads(m) = [m.env EXCEPT !.json = json, !.base64 = base64, !.url = Split(m.env.url),
                                 !.form = form, !.header = header, !.query.date = date]
  BY <1>1 DEF PyReads
<1>3. base64 <=> m.env.base64 /\ "wrapped" \notin m.quirks
  OBVIOUS
<1> HIDE DEF json, base64, form, header, date
<1>4. LET e == PyReads(m)
      IN  /\ e.method = m.env.method /\ e.url = Split(m.env.url) /\ e.form = form /\ e.json = json
          /\ e.base64 = base64 /\ e.header = header /\ e.query.date = date
          /\ \A f \in DOMAIN m.env.query \ {"date"} : e.query[f] = m.env.query[f]
  BY <1>1, <1>2
<1> QED BY <1>3, <1>4 DEF json, form, header, date

LEMMA GoFields ==
  ASSUME NEW m, IsEnvelope(m.env)
  PROVE  LET d == GoReads(m)
             q == GoQuery(m.env.query, m.quirks)
         IN  /\ d.method = m.env.method /\ d.url = m.env.url /\ d.base64 = m.env.base64
             /\ d.form = IF "escaped" \in m.quirks THEN << >> ELSE m.env.form
             /\ d.json = IF m.env.json = "ok" /\ "pyJson" \in m.quirks THEN "malformed" ELSE m.env.json
             /\ d.header = IF "loose" \in m.quirks THEN UnreadDates(m.env.header) ELSE m.env.header
             /\ "loose" \in m.quirks => d.query.date = Unreadable(q.date)
             /\ "loose" \notin m.quirks => d.query = q
<1> DEFINE q == GoQuery(m.env.query, m.quirks)
           json == IF m.env.json = "ok" /\ "pyJson" \in m.quirks THEN "malformed" ELSE m.env.json
           form == IF "escaped" \in m.quirks THEN << >> ELSE m.env.form
           header == IF "loose" \in m.quirks THEN UnreadDates(m.env.header) ELSE m.env.header
           query == IF "loose" \in m.quirks
                    THEN [q EXCEPT !.date = Unreadable(q.date), !.expires = Unreadable(q.expires)]
                    ELSE q
<1>1. /\ DOMAIN m.env = {"json", "base64", "method", "header", "form", "url", "query", "signed"}
      /\ DOMAIN q = {"algorithm", "credential", "signature", "names", "date", "expires", "action"}
  BY DEF IsEnvelope, GoQuery
<1>2. GoReads(m) = [m.env EXCEPT !.json = json, !.form = form, !.header = header, !.query = query]
  BY <1>1 DEF GoReads
<1> HIDE DEF q
<1>3. /\ "loose" \in m.quirks => query.date = Unreadable(q.date)
      /\ "loose" \notin m.quirks => query = q
  BY <1>1
<1> HIDE DEF json, form, header, query
<1>4. LET d == GoReads(m)
      IN  /\ d.method = m.env.method /\ d.url = m.env.url /\ d.base64 = m.env.base64
          /\ d.form = form /\ d.json = json /\ d.header = header /\ d.query = query
  BY <1>1, <1>2
<1> QED BY <1>3, <1>4 DEF json, form, header, q

(* No date that is not read is accepted.                                   *)
LEMMA UnreadHeader ==
  ASSUME NEW e, NEW old, e.header = UnreadDates(old)
  PROVE  HeaderFormCheck(e) = Refusal(400, "invalid_signature")
<1> DEFINE h == e.header
<1>1. \A k \in DOMAIN h : k[1] = AmzDate => h[k] = Unreadable(old[k])
  BY DEF UnreadDates
<1> HIDE DEF h
<1>2. ASSUME Single(HeaderValues(h, AmzDate)) PROVE HeaderValue(h, AmzDate) = Unparsable
  <2>1. PICK o : HeaderValues(h, AmzDate) = {o}
    BY <1>2 DEF Single
  <2>2. PICK k \in DOMAIN h : k[1] = AmzDate /\ \E j \in DOMAIN h[k] : o = <<k, j>>
    BY <2>1 DEF HeaderValues
  <2>3. PICK j \in DOMAIN h[k] : o = <<k, j>>
    BY <2>2
  <2>4. The(HeaderValues(h, AmzDate)) = o
    BY <2>1 DEF The
  <2>5. HeaderValue(h, AmzDate) = h[o[1]][o[2]]
    BY <2>4 DEF HeaderValue
  <2>6. h[k][j] = Unparsable
    BY <1>1, <2>2, <2>3 DEF Unreadable
  <2> QED BY <2>3, <2>5, <2>6
<1>3. \A signed : ~SingleSignedValue(h, signed, AmzDate) \/ HeaderValue(h, AmzDate) = Unparsable
  BY <1>2 DEF SingleSignedValue
<1> QED BY <1>3, Zenon DEF HeaderFormCheck, h

LEMMA UnreadPresigned ==
  ASSUME NEW e, NEW S, NEW old \in Seq(S), e.query.date = Unreadable(old)
  PROVE  PresignedFormCheck(e) = Refusal(400, "invalid_signature")
<1>1. Len(e.query.date) # 1 \/ e.query.date[1] = Unparsable
  BY DEF Unreadable
<1> QED BY <1>1, Zenon DEF PresignedFormCheck

(* So one of them refuses what only the other reads a date of.             *)
LEMMA UnreadRefused ==
  ASSUME NEW m, IsEnvelope(m.env)
  PROVE  /\ "loose" \in m.quirks =>
              /\ HeaderFormCheck(GoReads(m)) = Refusal(400, "invalid_signature")
              /\ PresignedFormCheck(GoReads(m)) = Refusal(400, "invalid_signature")
         /\ "fraction" \in m.quirks =>
              /\ HeaderFormCheck(PyReads(m)) = Refusal(400, "invalid_signature")
              /\ PresignedFormCheck(PyReads(m)) = Refusal(400, "invalid_signature")
<1> DEFINE date == m.env.query.date
           cut == SubSeq(date, 1, Len(date) - 1)
<1>1. date \in Seq(Int \cup {Unparsable}) /\ "date" \in DOMAIN m.env.query
  BY DEF IsEnvelope
<1>2. cut \in Seq(Int \cup {Unparsable})
  <2> HIDE DEF date
  <2> QED BY <1>1
<1>3. LET q == GoQuery(m.env.query, m.quirks) IN q.date \in {date, cut}
  BY <1>1 DEF GoQuery
<1> HIDE DEF date, cut
<1>4. ASSUME "loose" \in m.quirks
      PROVE  /\ HeaderFormCheck(GoReads(m)) = Refusal(400, "invalid_signature")
             /\ PresignedFormCheck(GoReads(m)) = Refusal(400, "invalid_signature")
  <2> DEFINE q == GoQuery(m.env.query, m.quirks)
  <2>1. GoReads(m).header = UnreadDates(m.env.header) /\ GoReads(m).query.date = Unreadable(q.date)
    BY <1>4, GoFields
  <2>2. q.date \in Seq(Int \cup {Unparsable})
    BY <1>1, <1>2, <1>3
  <2> HIDE DEF q
  <2> QED BY <2>1, <2>2, UnreadHeader, UnreadPresigned
<1>5. ASSUME "fraction" \in m.quirks
      PROVE  /\ HeaderFormCheck(PyReads(m)) = Refusal(400, "invalid_signature")
             /\ PresignedFormCheck(PyReads(m)) = Refusal(400, "invalid_signature")
  <2>1. PyReads(m).header = UnreadDates(m.env.header) /\ PyReads(m).query.date = Unreadable(date)
    BY <1>5, PyFields DEF date
  <2> QED BY <1>1, <2>1, UnreadHeader, UnreadPresigned
<1> QED BY <1>4, <1>5

(* The claims of two proofs that differ in nothing but the action.         *)
SameButAction(p, q) ==
  /\ p.form = q.form /\ p.method = q.method /\ p.binding = q.binding
  /\ p.signedAt = q.signedAt /\ p.expiry = q.expiry

LEMMA OnlyActionDiffers ==
  ASSUME NEW c, NEW p, NEW q, NEW t, SameButAction(p, q)
  PROVE  LET x == LocalCheck(c, p, t)
             y == LocalCheck(c, q, t)
         IN  \/ x = y
             \/ p.action # GetCallerIdentity /\ q.action = GetCallerIdentity /\ x = "invalid_shape"
             \/ q.action # GetCallerIdentity /\ p.action = GetCallerIdentity /\ y = "invalid_shape"
<1>1. ExpectedMethod(p) = ExpectedMethod(q) /\ Fresh(c, p, t) = Fresh(c, q, t)
  BY DEF SameButAction, ExpectedMethod, Fresh, Window
<1>2. p.binding = q.binding /\ p.method = q.method
  BY DEF SameButAction
<1>3. CASE p.action = GetCallerIdentity <=> q.action = GetCallerIdentity
  BY <1>1, <1>2, <1>3 DEF LocalCheck
<1>4. CASE ~(p.action = GetCallerIdentity <=> q.action = GetCallerIdentity)
  BY <1>1, <1>2, <1>4 DEF LocalCheck
<1> QED BY <1>3, <1>4

(* The header form: the action alone is read differently, from the form.   *)
LEMMA HeaderFormsAgree ==
  ASSUME NEW d, NEW e, d.header = e.header, d.method = e.method
  PROVE  /\ IsHeaderForm(d) <=> IsHeaderForm(e)
         /\ HeaderFormCheck(d) = HeaderFormCheck(e)
         /\ SameButAction(HeaderFormProof(d), HeaderFormProof(e))
         /\ HeaderFormProof(d).action = SoleAction(d.form)
         /\ HeaderFormProof(e).action = SoleAction(e.form)
BY DEF IsHeaderForm, HeaderFormCheck, HeaderFormProof, SameButAction

(* The presigned form, with all fields of the query but one read alike.    *)
LEMMA PresignedFormsAgree ==
  ASSUME NEW d, NEW e, d.header = e.header, d.method = e.method,
         d.query.algorithm = e.query.algorithm, d.query.credential = e.query.credential,
         d.query.signature = e.query.signature, d.query.names = e.query.names,
         d.query.date = e.query.date, d.query.expires = e.query.expires
  PROVE  /\ (d.url.parses <=> e.url.parses) /\ (d.url.padded <=> e.url.padded) =>
              PresignedFormCheck(d) = PresignedFormCheck(e)
         /\ SameButAction(PresignedFormProof(d), PresignedFormProof(e))
         /\ d.query.action = e.query.action =>
              PresignedFormProof(d).action = PresignedFormProof(e).action
<1>1. ASSUME d.url.parses <=> e.url.parses, d.url.padded <=> e.url.padded
      PROVE  PresignedFormCheck(d) = PresignedFormCheck(e)
  BY <1>1, Zenon DEF PresignedFormCheck
<1>2. /\ SameButAction(PresignedFormProof(d), PresignedFormProof(e))
      /\ d.query.action = e.query.action =>
           PresignedFormProof(d).action = PresignedFormProof(e).action
  BY DEF PresignedFormProof, SameButAction
<1> QED BY <1>1, <1>2

(* What passes the check has one value of each field.                      *)
LEMMA PresignedParts ==
  ASSUME NEW e, PresignedFormCheck(e) # Refusal(400, "invalid_signature")
  PROVE  /\ ParsesUntrimmed(e.url)
         /\ e.query.algorithm = 1 /\ e.query.credential = 1 /\ e.query.signature = 1
         /\ Len(e.query.names) = 1 /\ Len(e.query.date) = 1 /\ Len(e.query.expires) = 1
BY Zenon DEF PresignedFormCheck, ParsesUntrimmed

LEMMA DroppedOnce ==
  ASSUME NEW m, IsMessage(m),
         m.quirks \cap {"algorithm", "credential", "signature", "names", "date", "expires"} # {},
         "loose" \notin m.quirks, "fraction" \notin m.quirks
  PROVE  Refusal(400, "invalid_signature") \in
           {PresignedFormCheck(GoReads(m)), PresignedFormCheck(PyReads(m))}
<1> DEFINE q == m.env.query
           g == GoQuery(q, m.quirks)
           numbers == {"algorithm", "credential", "signature"}
           lists == {"names", "date", "expires"}
<1>1. /\ GoReads(m).query = g
      /\ PyReads(m).query.date = q.date
      /\ \A f \in DOMAIN q \ {"date"} : PyReads(m).query[f] = q[f]
      /\ DOMAIN q = numbers \cup lists \cup {"action"}
  BY GoFields, PyFields DEF IsMessage, IsEnvelope
<1>2. SUFFICES ASSUME PresignedFormCheck(GoReads(m)) # Refusal(400, "invalid_signature"),
                      PresignedFormCheck(PyReads(m)) # Refusal(400, "invalid_signature")
               PROVE  FALSE
  OBVIOUS
<1>3. /\ g.algorithm = 1 /\ g.credential = 1 /\ g.signature = 1
      /\ Len(g.names) = 1 /\ Len(g.date) = 1 /\ Len(g.expires) = 1
  BY <1>1, <1>2, PresignedParts
<1>4. /\ q.algorithm = 1 /\ q.credential = 1 /\ q.signature = 1
      /\ Len(q.names) = 1 /\ Len(q.date) = 1 /\ Len(q.expires) = 1
  <2> DEFINE e == PyReads(m)
  <2>1. /\ e.query.algorithm = 1 /\ e.query.credential = 1 /\ e.query.signature = 1
        /\ Len(e.query.names) = 1 /\ Len(e.query.date) = 1 /\ Len(e.query.expires) = 1
    BY <1>2, PresignedParts
  <2>2. /\ e.query.algorithm = q.algorithm /\ e.query.credential = q.credential
        /\ e.query.signature = q.signature /\ e.query.names = q.names
        /\ e.query.date = q.date /\ e.query.expires = q.expires
    <3>1. {"algorithm", "credential", "signature", "names", "expires"} \subseteq DOMAIN q \ {"date"}
      BY <1>1
    <3> HIDE DEF e, q
    <3> QED BY <1>1, <3>1 DEF e
  <2> HIDE DEF e, q
  <2> QED BY <2>1, <2>2
<1>5. /\ \A f \in numbers \cap m.quirks : g[f] = q[f] - 1
      /\ \A f \in lists \cap m.quirks : g[f] = SubSeq(q[f], 1, Len(q[f]) - 1)
  BY <1>1 DEF GoQuery
<1> HIDE DEF g
<1>6. CASE numbers \cap m.quirks # {}
  BY <1>3, <1>4, <1>5, <1>6
<1>7. CASE lists \cap m.quirks # {}
  <2>1. PICK f \in lists \cap m.quirks : TRUE
    BY <1>7
  <2>2. PICK S : q[f] \in Seq(S) /\ q[f] # << >>
    BY <2>1 DEF IsMessage
  <2>3. Len(q[f]) = 1 /\ Len(g[f]) = 1
    BY <1>3, <1>4, <2>1
  <2>4. g[f] = SubSeq(q[f], 1, Len(q[f]) - 1)
    BY <1>5, <2>1
  <2> QED BY <2>2, <2>3, <2>4
<1> QED BY <1>6, <1>7

LEMMA Unreadables ==
  ASSUME NEW e
  PROVE  /\ BindJSONBody(e.json) # Accepted => ExtractCheck(e) = BindJSONBody(e.json)
         /\ BindJSONBody(e.json) = Accepted /\ ~e.base64 => ExtractCheck(e) = Refusal(400, "invalid_body")
         /\ BindJSONBody(e.json) = Accepted /\ e.base64 =>
              ExtractCheck(e) = IF IsHeaderForm(e) THEN HeaderFormCheck(e) ELSE PresignedFormCheck(e)
         /\ e.json = "malformed" => ExtractCheck(e) = Refusal(400, "invalid_body")
<1>1. e.json = "malformed" => BindJSONBody(e.json) = Refusal(400, "invalid_body")
  BY Zenon DEF BindJSONBody
<1>2. Refusal(400, "invalid_body") # Accepted
  BY DEF Refusal, Accepted
<1>3. /\ BindJSONBody(e.json) # Accepted => ExtractCheck(e) = BindJSONBody(e.json)
      /\ BindJSONBody(e.json) = Accepted /\ ~e.base64 => ExtractCheck(e) = Refusal(400, "invalid_body")
      /\ BindJSONBody(e.json) = Accepted /\ e.base64 =>
           ExtractCheck(e) = IF IsHeaderForm(e) THEN HeaderFormCheck(e) ELSE PresignedFormCheck(e)
  BY Zenon DEF ExtractCheck
<1> QED BY <1>1, <1>2, <1>3

(* Both adapters find the same, or one refuses what only the other reads.  *)
LEMMA ExtractAgrees ==
  ASSUME NEW m, IsMessage(m)
  PROVE  LET x   == ExtractCheck(GoReads(m))
             y   == ExtractCheck(PyReads(m))
             p   == ExtractProof(GoReads(m))
             q   == ExtractProof(PyReads(m))
             url == m.env.url
         IN  \/ x = y /\ x # Accepted
             \/ /\ x = Accepted /\ y = Accepted /\ SameButAction(p, q)
                /\ \/ p.action = q.action
                   \/ /\ IsHeaderForm(m.env)
                      /\ p.action = "" => "escaped" \in m.quirks \/ q.action = ""
                      /\ q.action = "" => "binary" \in m.quirks \/ p.action = ""
                      /\ p.action = "" \/ q.action = ""
                   \/ ~IsHeaderForm(m.env) /\ DOMAIN m.env.query \cap m.quirks # {}
             \/ y = Refusal(400, "invalid_body") /\ {"goJson", "wrapped"} \cap m.quirks # {}
             \/ x = Refusal(400, "invalid_body") /\ "pyJson" \in m.quirks
             \/ x = Refusal(400, "invalid_signature") /\ "loose" \in m.quirks
             \/ y = Refusal(400, "invalid_signature") /\ "fraction" \in m.quirks
             \/ /\ ~IsHeaderForm(m.env)
                /\ \/ x = Refusal(400, "invalid_signature") /\ (url.padded \/ url \in LaxUrls)
                   \/ /\ DOMAIN m.env.query \cap m.quirks # {}
                      /\ Refusal(400, "invalid_signature") \in {x, y}
<1> DEFINE d == GoReads(m)
           e == PyReads(m)
           x == ExtractCheck(d)
           y == ExtractCheck(e)
           p == ExtractProof(d)
           q == ExtractProof(e)
           url == m.env.url
           Alike == /\ x = Accepted /\ y = Accepted /\ SameButAction(p, q)
                    /\ \/ p.action = q.action
                       \/ /\ IsHeaderForm(m.env)
                          /\ p.action = "" => "escaped" \in m.quirks \/ q.action = ""
                          /\ q.action = "" => "binary" \in m.quirks \/ p.action = ""
                          /\ p.action = "" \/ q.action = ""
                       \/ ~IsHeaderForm(m.env) /\ DOMAIN m.env.query \cap m.quirks # {}
           Goal == \/ x = y /\ x # Accepted
                   \/ Alike
                   \/ y = Refusal(400, "invalid_body") /\ {"goJson", "wrapped"} \cap m.quirks # {}
                   \/ x = Refusal(400, "invalid_body") /\ "pyJson" \in m.quirks
                   \/ x = Refusal(400, "invalid_signature") /\ "loose" \in m.quirks
                   \/ y = Refusal(400, "invalid_signature") /\ "fraction" \in m.quirks
                   \/ /\ ~IsHeaderForm(m.env)
                      /\ \/ x = Refusal(400, "invalid_signature") /\ (url.padded \/ url \in LaxUrls)
                         \/ /\ DOMAIN m.env.query \cap m.quirks # {}
                            /\ Refusal(400, "invalid_signature") \in {x, y}
<1> SUFFICES Goal
  BY DEF Goal, Alike, x, y, p, q, d, e, url
<1> USE DEF IsMessage
<1>1. /\ IsUrl(url) /\ m.env.base64 \in BOOLEAN
      /\ d.method = m.env.method /\ d.url = url /\ d.base64 = m.env.base64
      /\ d.form = IF "escaped" \in m.quirks THEN << >> ELSE m.env.form
      /\ d.json = IF m.env.json = "ok" /\ "pyJson" \in m.quirks THEN "malformed" ELSE m.env.json
      /\ e.method = m.env.method /\ e.url = Split(url)
      /\ e.form = IF "binary" \in m.quirks THEN << >> ELSE m.env.form
      /\ e.json = IF m.env.json = "ok" /\ "goJson" \in m.quirks THEN "malformed" ELSE m.env.json
      /\ e.base64 <=> m.env.base64 /\ "wrapped" \notin m.quirks
  BY GoFields, PyFields DEF IsEnvelope
<1>2. /\ "loose" \in m.quirks =>
           /\ HeaderFormCheck(d) = Refusal(400, "invalid_signature")
           /\ PresignedFormCheck(d) = Refusal(400, "invalid_signature")
      /\ "fraction" \in m.quirks =>
           /\ HeaderFormCheck(e) = Refusal(400, "invalid_signature")
           /\ PresignedFormCheck(e) = Refusal(400, "invalid_signature")
  BY UnreadRefused
<1>3. ASSUME "loose" \notin m.quirks, "fraction" \notin m.quirks
      PROVE  /\ d.header = m.env.header /\ e.header = m.env.header
             /\ d.query = GoQuery(m.env.query, m.quirks)
             /\ e.query.date = m.env.query.date
             /\ \A f \in DOMAIN m.env.query \ {"date"} : e.query[f] = m.env.query[f]
  BY <1>3, GoFields, PyFields
<1> HIDE DEF d, e, IsMessage
<1>4. CASE m.env.json = "ok" /\ {"goJson", "pyJson"} \cap m.quirks # {}
  <2>1. CASE "pyJson" \in m.quirks
    <3>1. x = Refusal(400, "invalid_body")
      BY <1>1, <1>4, <2>1, Unreadables
    <3> HIDE DEF x, y, Alike
    <3> QED BY <2>1, <3>1
  <2>2. CASE "goJson" \in m.quirks
    <3>1. y = Refusal(400, "invalid_body")
      BY <1>1, <1>4, <2>2, Unreadables
    <3> HIDE DEF x, y, Alike
    <3> QED BY <2>2, <3>1
  <2> QED BY <1>4, <2>1, <2>2
<1>5. CASE ~(m.env.json = "ok" /\ {"goJson", "pyJson"} \cap m.quirks # {})
  <2>0. d.json = m.env.json /\ e.json = m.env.json
    BY <1>1, <1>5
  <2>1. CASE BindJSONBody(m.env.json) # Accepted
    <3>1. x = BindJSONBody(m.env.json) /\ y = BindJSONBody(m.env.json)
      BY <2>0, <2>1, Unreadables
    <3> HIDE DEF x, y, Alike
    <3> QED BY <2>1, <3>1
  <2>2. CASE BindJSONBody(m.env.json) = Accepted /\ ~e.base64
    <3>1. y = Refusal(400, "invalid_body") /\ y # Accepted
      BY <2>0, <2>2, Unreadables DEF Refusal, Accepted
    <3>2. m.env.base64 \/ x = y
      BY <1>1, <2>0, <2>2, <3>1, Unreadables
    <3>3. m.env.base64 => "wrapped" \in m.quirks
      BY <1>1, <2>2
    <3> HIDE DEF x, y, Alike
    <3> QED BY <3>1, <3>2, <3>3
  <2>3. CASE BindJSONBody(m.env.json) = Accepted /\ e.base64
    <3>1. /\ x = IF IsHeaderForm(d) THEN HeaderFormCheck(d) ELSE PresignedFormCheck(d)
          /\ y = IF IsHeaderForm(e) THEN HeaderFormCheck(e) ELSE PresignedFormCheck(e)
      BY <1>1, <2>0, <2>3, Unreadables
    <3>2. CASE "loose" \in m.quirks
      <4>1. x = Refusal(400, "invalid_signature")
        BY <1>2, <3>1, <3>2
      <4> HIDE DEF x, y, Alike
      <4> QED BY <3>2, <4>1
    <3>3. CASE "fraction" \in m.quirks
      <4>1. y = Refusal(400, "invalid_signature")
        BY <1>2, <3>1, <3>3
      <4> HIDE DEF x, y, Alike
      <4> QED BY <3>3, <4>1
    <3>4. CASE "loose" \notin m.quirks /\ "fraction" \notin m.quirks
      <4>1. /\ d.header = e.header /\ d.method = e.method /\ m.env.header = d.header
            /\ IsHeaderForm(d) <=> IsHeaderForm(m.env)
            /\ IsHeaderForm(d) <=> IsHeaderForm(e)
        BY <1>1, <1>3, <3>4 DEF IsHeaderForm
      <4>2. CASE IsHeaderForm(m.env)
        <5>1. x = y /\ p = HeaderFormProof(d) /\ q = HeaderFormProof(e)
          BY <3>1, <4>1, <4>2, HeaderFormsAgree DEF ExtractProof
        <5>2. /\ SameButAction(p, q)
              /\ p.action = SoleAction(d.form) /\ q.action = SoleAction(e.form)
          <6> HIDE DEF p, q
          <6> QED BY <4>1, <5>1, HeaderFormsAgree
        <5>3. SoleAction(<< >>) = ""
          BY DEF SoleAction
        <5> DEFINE own == SoleAction(m.env.form)
        <5>4. /\ p.action = IF "escaped" \in m.quirks THEN "" ELSE own
              /\ q.action = IF "binary" \in m.quirks THEN "" ELSE own
          <6> HIDE DEF p, q
          <6> QED BY <1>1, <5>2, <5>3
        <5> HIDE DEF x, y, p, q, own
        <5> QED BY <4>2, <5>1, <5>2, <5>4
      <4>3. CASE ~IsHeaderForm(m.env)
        <5> DEFINE others == {"algorithm", "credential", "signature", "names", "date", "expires"}
        <5>1. /\ x = PresignedFormCheck(d) /\ y = PresignedFormCheck(e)
              /\ p = PresignedFormProof(d) /\ q = PresignedFormProof(e)
          BY <3>1, <4>1, <4>3 DEF ExtractProof
        <5>2. DOMAIN m.env.query = others \cup {"action"}
          BY DEF IsMessage, IsEnvelope
        <5>3. CASE others \cap m.quirks # {}
          <6>1. Refusal(400, "invalid_signature") \in {x, y}
            BY <3>4, <5>1, <5>3, DroppedOnce DEF d, e
          <6>2. DOMAIN m.env.query \cap m.quirks # {}
            BY <5>2, <5>3
          <6> HIDE DEF x, y, Alike, others
          <6> QED BY <4>3, <6>1, <6>2
        <5>4. CASE others \cap m.quirks = {}
          <6>1. /\ d.query.algorithm = e.query.algorithm /\ d.query.credential = e.query.credential
                /\ d.query.signature = e.query.signature /\ d.query.names = e.query.names
                /\ d.query.date = e.query.date /\ d.query.expires = e.query.expires
                /\ d.query.action = e.query.action \/ "action" \in m.quirks
            <7> DEFINE own == m.env.query
                       g == GoQuery(own, m.quirks)
            <7>1. \A f \in DOMAIN own \ m.quirks : g[f] = own[f]
              BY DEF GoQuery
            <7>2. DOMAIN own = others \cup {"action"} /\ d.query = g
              BY <1>3, <3>4, <5>2
            <7>3. e.query.date = own.date /\ \A f \in DOMAIN own \ {"date"} : e.query[f] = own[f]
              BY <1>3, <3>4
            <7> HIDE DEF own, g
            <7>4. \A f \in others \cup ({"action"} \ m.quirks) : d.query[f] = own[f] /\ e.query[f] = own[f]
              <8>1. \A f \in others \cup ({"action"} \ m.quirks) : f \in DOMAIN own \ m.quirks
                BY <5>4, <7>2
              <8> QED BY <7>1, <7>2, <7>3, <8>1
            <7> QED BY <7>4
          <6>2. /\ (d.url.parses <=> e.url.parses) /\ (d.url.padded <=> e.url.padded) => x = y
                /\ SameButAction(p, q)
                /\ p.action = q.action \/ "action" \in m.quirks
            <7> HIDE DEF p, q, x, y
            <7> QED BY <4>1, <5>1, <6>1, PresignedFormsAgree
          <6>3. /\ e.url.parses <=> url.parses \/ url \in LaxUrls
                /\ ~e.url.padded
            BY <1>1, UrlFields
          <6>4. x = Refusal(400, "invalid_signature") \/ ParsesUntrimmed(url)
            BY <1>1, <5>1, PresignedParts
          <6>5. ParsesUntrimmed(url) => x = y
            BY <1>1, <6>2, <6>3 DEF ParsesUntrimmed
          <6>6. x = y \/ url.padded \/ url \in LaxUrls
            BY <1>1, <6>2, <6>3
          <6>7. "action" \in m.quirks => DOMAIN m.env.query \cap m.quirks # {}
            BY <5>2
          <6> HIDE DEF x, y, p, q, others
          <6> QED BY <4>3, <6>2, <6>4, <6>5, <6>6, <6>7
        <5> QED BY <5>3, <5>4
      <4> QED BY <4>2, <4>3
    <3> QED BY <3>2, <3>3, <3>4
  <2> HIDE DEF x, y, Goal
  <2> QED BY <1>1, <2>1, <2>2, <2>3
<1> QED BY <1>4, <1>5

(* What the port allows and Go does not is an endpoint whose port or whose *)
(* escapes they read differently.                                          *)
Excuses(v) ==
  \E u \in server.endpoints \cup {v} :
    /\ TrimDot(Lower(u).host) = TrimDot(Lower(v).host)
    /\ u \in LaxUrls \/ u.port \in DOMAIN LeadingZeros

LEMMA OnlyPortAllows ==
  ASSUME server \in Servers, NEW v, IsUrl(v),
         NormalizeEndpoint(AsPy(v)) \in PyList, NormalizeEndpoint(AsGo(v)) \notin GoList
  PROVE  Excuses(v)
<1>1. PICK u \in server.endpoints : /\ NormalizeEndpoint(AsPy(u)) = NormalizeEndpoint(AsPy(v))
                                    /\ NormalizeEndpoint(AsPy(u)) # NoEndpoint
  BY DEF PyList, AllowedEndpoints
<1>2. IsUrl(u)
  BY InteropAssumption, Zenon
<1>3. TrimDot(Lower(u).host) = TrimDot(Lower(v).host)
  <2>1. <<TrimDot(AsPy(u).host), IF AsPy(u).port = "" THEN "443" ELSE AsPy(u).port>>
          = <<TrimDot(AsPy(v).host), IF AsPy(v).port = "" THEN "443" ELSE AsPy(v).port>>
    BY <1>1, KeyParts
  <2>2. TrimDot(AsPy(u).host) = TrimDot(AsPy(v).host)
    BY <2>1
  <2>3. AsPy(u).host = Lower(u).host /\ AsPy(v).host = Lower(v).host
    BY <1>2, AsFields, UrlFields
  <2> QED BY <2>2, <2>3
<1>4. ASSUME NEW w, IsUrl(w), w \notin LaxUrls, w.port \notin DOMAIN LeadingZeros
      PROVE  NormalizeEndpoint(AsPy(w)) = NormalizeEndpoint(AsGo(w))
  <2> DEFINE x == AsPy(w)
             y == AsGo(w)
  <2>1. (x.parses <=> y.parses) /\ x.scheme = y.scheme /\ x.host = y.host /\ x.port = y.port
    BY <1>4, AsFields
  <2> HIDE DEF x, y
  <2>2. NormalizeEndpoint(x) = NormalizeEndpoint(y)
    BY <2>1, Zenon DEF NormalizeEndpoint
  <2> QED BY <2>2 DEF x, y
<1>5. \/ u \in LaxUrls \/ u.port \in DOMAIN LeadingZeros
      \/ v \in LaxUrls \/ v.port \in DOMAIN LeadingZeros
  <2> SUFFICES ASSUME u \notin LaxUrls, u.port \notin DOMAIN LeadingZeros,
                      v \notin LaxUrls, v.port \notin DOMAIN LeadingZeros
               PROVE  FALSE
    OBVIOUS
  <2>1. /\ NormalizeEndpoint(AsGo(u)) = NormalizeEndpoint(AsGo(v))
        /\ NormalizeEndpoint(AsGo(u)) # NoEndpoint
    BY <1>1, <1>2, <1>4
  <2> QED BY <2>1 DEF GoList, AllowedEndpoints
<1> QED BY <1>3, <1>5 DEF Excuses

(* An endpoint on Go's allow list does not make _normalize_endpoint raise. *)
LEMMA ListedNotRaising ==
  ASSUME server \in Servers, NEW v, IsUrl(v), NormalizeEndpoint(AsGo(v)) \in GoList
  PROVE  ~NormalizeRaises(v)
<1>1. PICK u \in server.endpoints : /\ NormalizeEndpoint(AsGo(u)) = NormalizeEndpoint(AsGo(v))
                                    /\ NormalizeEndpoint(AsGo(u)) # NoEndpoint
  BY DEF GoList, AllowedEndpoints
<1>2. IsUrl(u) /\ ~NormalizeRaises(u)
  BY InteropAssumption, Zenon
<1>3. /\ u.parses /\ u.scheme = "https" /\ TrimDot(LowerHost(u.host)) # <<"">>
      /\ (IF u.port = "" THEN "443" ELSE u.port) = IF v.port = "" THEN "443" ELSE v.port
  <2> DEFINE x == AsGo(u)
             y == AsGo(v)
  <2>1. /\ x.parses <=> u.parses
        /\ x.scheme = u.scheme /\ x.host = LowerHost(u.host) /\ x.port = u.port /\ y.port = v.port
    BY <1>2, AsFields
  <2>2. /\ x.parses /\ x.scheme = "https" /\ TrimDot(x.host) # <<"">>
        /\ <<TrimDot(x.host), IF x.port = "" THEN "443" ELSE x.port>>
             = <<TrimDot(y.host), IF y.port = "" THEN "443" ELSE y.port>>
    BY <1>1, KeyParts
  <2> HIDE DEF x, y
  <2>3. (IF x.port = "" THEN "443" ELSE x.port) = IF y.port = "" THEN "443" ELSE y.port
    BY <2>2
  <2> QED BY <2>1, <2>2, <2>3
<1>4. TrimDot(u.host) # <<"">>
  <2>1. \A host \in DOMAIN Lowered : TrimDot(host) # <<"">>
    BY InteropAssumption
  <2> QED BY <1>3, <2>1 DEF LowerHost
<1>5. u.port \notin BadPorts
  BY <1>2, <1>3, <1>4, UrlFields DEF NormalizeRaises
<1>6. "" \notin BadPorts /\ "443" \notin BadPorts
  BY InteropAssumption
<1>7. v.port \notin BadPorts
  BY <1>3, <1>5, <1>6
<1> QED BY <1>7 DEF NormalizeRaises

LEMMA DelegationAgrees ==
  ASSUME server \in Servers, NEW m, IsEnvelope(m.env)
  PROVE  LET x == GoDelegationError(server.endpoints, m)
             y == PyDelegationError(server.endpoints, m)
         IN  /\ {x, y} \subseteq {"none", "rejected", "infra"}
             /\ \/ x = y
                \/ y = "infra" /\ "unsendable" \in m.quirks
                \/ /\ x = "rejected"
                   /\ (y = "infra" /\ m.env.url.port \in BadPorts) \/ Excuses(m.env.url)
<1> DEFINE x == GoDelegationError(server.endpoints, m)
           y == PyDelegationError(server.endpoints, m)
           url == m.env.url
           go == NormalizeEndpoint(AsGo(url)) \in GoList
           py == NormalizeEndpoint(AsPy(url)) \in PyList
           unsendable == "unsendable" \in m.quirks
           excused == Excuses(url)
<1>1. IsUrl(url)
  BY DEF IsEnvelope
<1>2. /\ x \in {"rejected", "infra", "none"} /\ (x = "rejected" <=> ~go)
      /\ (x = "infra" => url.padded) /\ (x = "none" => ~url.padded)
  BY GoDelegation
<1>3. /\ y \in {"rejected", "infra", "none"} /\ (y = "rejected" => ~py)
      /\ y = "infra" => NormalizeRaises(url) \/ unsendable \/ (url.padded /\ py)
      /\ y = "none" => ~url.padded /\ py
  BY PyDelegation
<1>4. go => py /\ ~NormalizeRaises(url)
  BY <1>1, PortAllows, ListedNotRaising
<1>5. py /\ ~go => excused
  BY <1>1, OnlyPortAllows
<1>6. NormalizeRaises(url) => url.port \in BadPorts
  BY DEF NormalizeRaises
<1> HIDE DEF x, y, go, py, unsendable, excused
<1>7. \/ x = y
      \/ y = "infra" /\ unsendable
      \/ x = "rejected" /\ ((y = "infra" /\ url.port \in BadPorts) \/ excused)
  BY <1>2, <1>3, <1>4, <1>5, <1>6
<1> QED BY <1>2, <1>3, <1>7 DEF x, y, unsendable, excused

(* Either forwards the same Host, unless there are several or none.        *)
LEMMA ForwardAgrees ==
  ASSUME NEW e, IsEnvelope(e),
         LET hosts == {k \in DOMAIN e.header : k[1] = Host}
         IN  /\ ~(Cardinality(hosts) > 1)
             /\ \/ \E k \in hosts : e.header[k] # << >>
                \/ SignedHost(Numbered(Lower(e.url))) = HostPort(e.url)
  PROVE  \E host : ForwardedHosts(e) = {host} /\ PyForwardedHosts(e) = {host}
<1> DEFINE h == e.header
           all == {k \in DOMAIN h : k[1] = Host}
           keys == {k \in DOMAIN h : k[1] = Host /\ h[k] # << >>}
           last == {x \in keys : \A y \in keys : y[2] <= x[2]}
<1>1. IsFiniteSet(all)
  BY FS_Subset DEF IsEnvelope
<1>2. Cardinality(all) \in Nat /\ Cardinality(all) <= 1
  BY <1>1, FS_CardinalityType
<1>3. all = {} \/ \E k : all = {k}
  <2> HIDE DEF all
  <2>1. Cardinality(all) = 0 \/ Cardinality(all) = 1
    BY <1>2
  <2> QED BY <1>1, <2>1, FS_EmptySet, FS_Singleton
<1>4. keys \subseteq all /\ \A k \in keys : k[2] \in Int
  BY DEF IsEnvelope
<1>5. /\ ForwardedHosts(e) = IF keys = {} THEN {HostPort(e.url)} ELSE {h[k][1] : k \in keys}
      /\ PyForwardedHosts(e) = IF keys = {} THEN {SignedHost(Numbered(Lower(e.url)))}
                               ELSE {h[k][1] : k \in last}
  BY Zenon DEF ForwardedHosts, PyForwardedHosts
<1>6. keys = {} => SignedHost(Numbered(Lower(e.url))) = HostPort(e.url)
  OBVIOUS
<1> HIDE DEF h, all, keys
<1>7. CASE keys = {}
  <2>1. ForwardedHosts(e) = {HostPort(e.url)} /\ PyForwardedHosts(e) = {HostPort(e.url)}
    BY <1>5, <1>6, <1>7, Zenon
  <2> QED BY <2>1
<1>8. CASE keys # {}
  <2>1. PICK k : keys = {k} /\ k[2] \in Int
    BY <1>3, <1>4, <1>8
  <2>2. last = {k}
    BY <2>1
  <2> HIDE DEF last
  <2>3. {h[x][1] : x \in keys} = {h[k][1]} /\ {h[x][1] : x \in last} = {h[k][1]}
    BY <2>1, <2>2
  <2>4. ForwardedHosts(e) = {h[k][1]} /\ PyForwardedHosts(e) = {h[k][1]}
    BY <1>5, <1>8, <2>3, Zenon
  <2> QED BY <2>4
<1> QED BY <1>7, <1>8

(* What has been posted is a message in the above sense.                   *)
LEMMA MessageRead ==
  ASSUME TypeOK, Posted, message # NoMessage
  PROVE  IsMessage(message)
<1>1. client \in Impl \/ client = "other"
  BY DEF TypeOK
<1>2. CASE client \in Impl
  <2>1. IsConfig(client, cfg)
    BY <1>2, PostedFacts
  <2>2. PICK t, value : IsPost(client, cfg, message, t, value)
    BY <1>2, PostedFacts
  <2>3. message.quirks \cap {"names", "date", "expires"} = {}
    BY <2>2 DEF IsPost, QuirksOf
  <2> QED BY <1>2, <2>1, <2>2, <2>3, PostEnvelope DEF IsMessage
<1>3. CASE client = "other"
  <2>1. message \in Foreign
    BY <1>3 DEF Posted
  <2>2. /\ IsEnvelope(message.env)
        /\ message.env.query.names \in Seq(SUBSET STRING)
        /\ \A f \in message.quirks \cap {"names", "date", "expires", "action"} :
             message.env.query[f] # << >>
    BY <2>1, InteropAssumption, Zenon
  <2>3. ASSUME NEW f \in message.quirks \cap {"names", "date", "expires"}
        PROVE  \E S : message.env.query[f] \in Seq(S) /\ message.env.query[f] # << >>
    <3>1. message.env.query[f] # << >>
      BY <2>2
    <3>2. message.env.query[f] \in Seq(SUBSET STRING) \/ message.env.query[f] \in Seq(Int \cup {Unparsable})
      BY <2>2 DEF IsEnvelope
    <3> QED BY <3>1, <3>2
  <2> QED BY <2>2, <2>3 DEF IsMessage
<1> QED BY <1>1, <1>2, <1>3

(* What tells a server to ask STS is no answer of its own.                 *)
LEMMA AcceptedRefusesNobody ==
  /\ Accepted \notin Refusals
  /\ \A err : WriteAuthError(err) # Accepted
  /\ \A c, p, t : LocalCheck(c, p, t) # "none" =>
       Refusal(RejectionStatus(LocalCheck(c, p, t)), LocalCheck(c, p, t)) # Accepted
<1>1. Accepted \notin Refusals
  BY DEF Accepted, Refusal, Refusals, Answers
<1>2. ASSUME NEW c, NEW p, NEW t, LocalCheck(c, p, t) # "none"
      PROVE  Refusal(RejectionStatus(LocalCheck(c, p, t)), LocalCheck(c, p, t)) # Accepted
  <2> DEFINE reason == LocalCheck(c, p, t)
  <2>1. reason \in {"binding_mismatch", "invalid_shape", "stale"}
    BY <1>2, LocalResults
  <2> HIDE DEF reason
  <2>2. Refusal(RejectionStatus(reason), reason) \in Refusals
    BY <2>1, Rejections
  <2> QED BY <1>1, <2>2 DEF reason
<1> QED BY <1>1, <1>2, AuthErrors

(* STS gives two requests one answer unless it does not know one of them;  *)
(* it knows none whose further headers are not as they were signed.        *)
LEMMA StsAnswersDiffer ==
  ASSUME NEW g, NEW h, StsAnswer(g) # StsAnswer(h)
  PROVE  /\ "verification_failed" \in {StsAnswer(g).error, StsAnswer(h).error}
         /\ \A sent \in {g, h} : ~sent.intact => StsAnswer(sent).error = "verification_failed"
         /\ g.host # h.host \/ ~(g.intact <=> h.intact)
<1>1. \/ StsAnswer(g) = WriteAuthError("rejected")
      \/ StsAnswer(h) = WriteAuthError("rejected")
  BY Zenon DEF StsAnswer
<1>2. \A sent : ~sent.intact => StsAnswer(sent) = WriteAuthError("rejected")
  BY Zenon DEF StsAnswer, StsRecognises
<1>3. ASSUME g.host = h.host, g.intact <=> h.intact PROVE FALSE
  <2>1. StsRecognises(message, g) <=> StsRecognises(message, h)
    BY <1>3 DEF StsRecognises
  <2> QED BY <2>1, Zenon DEF StsAnswer
<1> QED BY <1>1, <1>2, <1>3, ErrorsOf

(* Claims that differ in nothing but the action pass both local checks or  *)
(* neither, unless one server finds no action of that name.                *)
LEMMA LocalChecksAgree ==
  ASSUME NEW m, NEW t, NEW p, NEW q, SameButAction(p, q),
         \/ p.action = q.action
         \/ /\ IsHeaderForm(m.env)
            /\ p.action = "" => "escaped" \in m.quirks \/ q.action = ""
            /\ q.action = "" => "binary" \in m.quirks \/ p.action = ""
            /\ p.action = "" \/ q.action = ""
         \/ ~IsHeaderForm(m.env) /\ DOMAIN m.env.query \cap m.quirks # {}
  PROVE  LET x == LocalCheck(server, p, t)
             y == LocalCheck(server, q, t)
         IN  \/ x = y
             \/ /\ IsHeaderForm(m.env)
                /\ \/ x = "invalid_shape" /\ "escaped" \in m.quirks
                   \/ y = "invalid_shape" /\ "binary" \in m.quirks
             \/ /\ ~IsHeaderForm(m.env) /\ DOMAIN m.env.query \cap m.quirks # {}
                /\ x = "invalid_shape" \/ y = "invalid_shape"
<1> DEFINE x == LocalCheck(server, p, t)
           y == LocalCheck(server, q, t)
<1>1. \/ x = y
      \/ p.action # GetCallerIdentity /\ q.action = GetCallerIdentity /\ x = "invalid_shape"
      \/ q.action # GetCallerIdentity /\ p.action = GetCallerIdentity /\ y = "invalid_shape"
  BY OnlyActionDiffers
<1>2. GetCallerIdentity # ""
  BY DEF GetCallerIdentity
<1> HIDE DEF x, y
<1> QED BY <1>1, <1>2 DEF x, y

(* What the two servers answer once both have asked STS.                   *)
LEMMA FederationsAgree ==
  ASSUME NEW m, IsMessage(m), m = message,
         NEW g \in ForwardedBy("go", m), NEW h \in ForwardedBy("python", m),
         StsAnswer(g) # StsAnswer(h)
  PROVE  LET hosts == {k \in DOMAIN m.env.header : k[1] = Host}
         IN  \/ /\ StsAnswer(g).error = "verification_failed"
                /\ {"joined", "spelled"} \cap m.quirks # {}
             \/ /\ StsAnswer(h).error = "verification_failed"
                /\ {"repeated", "spelled"} \cap m.quirks # {}
             \/ /\ "verification_failed" \in {StsAnswer(g).error, StsAnswer(h).error}
                /\ \/ Cardinality(hosts) > 1
                   \/ /\ \A k \in hosts : m.env.header[k] = << >>
                      /\ SignedHost(Numbered(Lower(m.env.url))) # HostPort(m.env.url)
<1> DEFINE hosts == {k \in DOMAIN m.env.header : k[1] = Host}
           several == Cardinality(hosts) > 1
           computed == /\ \A k \in hosts : m.env.header[k] = << >>
                       /\ SignedHost(Numbered(Lower(m.env.url))) # HostPort(m.env.url)
           x == StsAnswer(g)
           y == StsAnswer(h)
<1>1. /\ "verification_failed" \in {x.error, y.error}
      /\ ~g.intact => x.error = "verification_failed"
      /\ ~h.intact => y.error = "verification_failed"
      /\ g.host # h.host \/ ~(g.intact <=> h.intact)
  BY StsAnswersDiffer
<1>2. /\ g.host \in ForwardedHosts(m.env) /\ h.host \in PyForwardedHosts(m.env)
      /\ g.intact \in BOOLEAN /\ h.intact \in BOOLEAN
      /\ ~g.intact => {"joined", "spelled"} \cap m.quirks # {}
      /\ ~h.intact => {"repeated", "spelled"} \cap m.quirks # {}
  <2>1. "go" \in Impl /\ "python" \in Impl /\ "go" # "python"
    BY DEF Impl
  <2> QED BY <2>1, SentFields
<1>3. ~several /\ ~computed => g.host = h.host
  <2> SUFFICES ASSUME ~several, ~computed PROVE g.host = h.host
    OBVIOUS
  <2>1. PICK host : ForwardedHosts(m.env) = {host} /\ PyForwardedHosts(m.env) = {host}
    BY ForwardAgrees DEF IsMessage
  <2> QED BY <1>2, <2>1
<1> HIDE DEF several, computed, x, y
<1>4. \/ x.error = "verification_failed" /\ {"joined", "spelled"} \cap m.quirks # {}
      \/ y.error = "verification_failed" /\ {"repeated", "spelled"} \cap m.quirks # {}
      \/ "verification_failed" \in {x.error, y.error} /\ (several \/ computed)
  BY <1>1, <1>2, <1>3
<1> QED BY <1>4 DEF several, computed, x, y

LEMMA ServersAgreeLemma == TypeOK /\ Posted /\ Decided => ServersAgree
<1> DEFINE go == answer["go"]
           py == answer["python"]
           env == message.env
           quirks == message.quirks
           hosts == {k \in DOMAIN env.header : k[1] = Host}
           Read == \/ py.error = "invalid_body" /\ {"goJson", "wrapped"} \cap quirks # {}
                   \/ go.error = "invalid_body" /\ "pyJson" \in quirks
                   \/ go.error = "invalid_signature" /\ "loose" \in quirks
                   \/ py.error = "invalid_signature" /\ "fraction" \in quirks
                   \/ /\ ~IsHeaderForm(env)
                      /\ \/ go.error = "invalid_signature" /\ (env.url.padded \/ env.url \in LaxUrls)
                         \/ /\ DOMAIN env.query \cap quirks # {}
                            /\ {go.error, py.error} \cap {"invalid_signature", "invalid_shape"} # {}
                   \/ /\ IsHeaderForm(env)
                      /\ \/ go.error = "invalid_shape" /\ "escaped" \in quirks
                         \/ py.error = "invalid_shape" /\ "binary" \in quirks
           Delegated == \/ py.error = "upstream_error" /\ "unsendable" \in quirks
                        \/ /\ go.error = "verification_failed"
                           /\ (py.error = "upstream_error" /\ env.url.port \in BadPorts) \/ Excuses(env.url)
           Recognised == \/ go.error = "verification_failed" /\ {"joined", "spelled"} \cap quirks # {}
                         \/ py.error = "verification_failed" /\ {"repeated", "spelled"} \cap quirks # {}
                         \/ /\ "verification_failed" \in {go.error, py.error}
                            /\ \/ Cardinality(hosts) > 1
                               \/ /\ \A k \in hosts : env.header[k] = << >>
                                  /\ SignedHost(Numbered(Lower(env.url))) # HostPort(env.url)
<1> SUFFICES ASSUME TypeOK, Posted, Decided, service["go"] = "done", service["python"] = "done",
                    checkedOn["go"] = checkedOn["python"]
             PROVE  go = py \/ Read \/ Delegated \/ Recognised
  BY DEF ServersAgree, Impl, Excuses
<1> DEFINE t == checkedOn["go"]
           early(i) == EarlyAnswer(i, message, t)
           x == ExtractCheck(GoReads(message))
           y == ExtractCheck(PyReads(message))
           p == ExtractProof(GoReads(message))
           q == ExtractProof(PyReads(message))
           xreason == LocalCheck(server, p, t)
           yreason == LocalCheck(server, q, t)
           xerr == GoDelegationError(server.endpoints, message)
           yerr == PyDelegationError(server.endpoints, message)
<1>1. /\ message # NoMessage
      /\ \A i \in {"go", "python"} :
           \/ early(i) # Accepted /\ answer[i] = early(i)
           \/ early(i) = Accepted /\ \E sent \in ForwardedBy(i, message) : answer[i] = StsAnswer(sent)
  <2>1. ASSUME NEW i \in {"go", "python"}
        PROVE  /\ message # NoMessage
               /\ \/ early(i) # Accepted /\ answer[i] = early(i)
                  \/ /\ early(i) = Accepted
                     /\ \E sent \in ForwardedBy(i, message) : answer[i] = StsAnswer(sent)
    <3>1. DecidedBy(i) /\ service[i] = "done" /\ checkedOn[i] = t
      BY DEF Decided, Impl
    <3> HIDE DEF t
    <3> QED BY <3>1 DEF DecidedBy
  <2> HIDE DEF early
  <2> QED BY <2>1
<1>2. IsMessage(message) /\ server \in Servers
  BY <1>1, MessageRead DEF TypeOK
<1>3. /\ Reads("go", message) = GoReads(message) /\ Reads("python", message) = PyReads(message)
      /\ DelegationErrorBy("go", server.endpoints, message) = xerr
      /\ DelegationErrorBy("python", server.endpoints, message) = yerr
  BY DEF Reads, DelegationErrorBy
<1>4. \/ x # Accepted /\ early("go") = x
      \/ /\ x = Accepted /\ xreason # "none"
         /\ early("go") = Refusal(RejectionStatus(xreason), xreason)
      \/ x = Accepted /\ xreason = "none" /\ xerr # "none" /\ early("go") = WriteAuthError(xerr)
      \/ x = Accepted /\ xreason = "none" /\ xerr = "none" /\ early("go") = Accepted
  BY <1>3, EarlyCases, Zenon
<1>5. \/ y # Accepted /\ early("python") = y
      \/ /\ y = Accepted /\ yreason # "none"
         /\ early("python") = Refusal(RejectionStatus(yreason), yreason)
      \/ y = Accepted /\ yreason = "none" /\ yerr # "none" /\ early("python") = WriteAuthError(yerr)
      \/ y = Accepted /\ yreason = "none" /\ yerr = "none" /\ early("python") = Accepted
  BY <1>3, EarlyCases, Zenon
<1>6. /\ x # Accepted => go = x
      /\ y # Accepted => py = y
      /\ x = Accepted /\ xreason # "none" => go = Refusal(RejectionStatus(xreason), xreason)
      /\ y = Accepted /\ yreason # "none" => py = Refusal(RejectionStatus(yreason), yreason)
      /\ x = Accepted /\ xreason = "none" /\ xerr # "none" => go = WriteAuthError(xerr)
      /\ y = Accepted /\ yreason = "none" /\ yerr # "none" => py = WriteAuthError(yerr)
      /\ x = Accepted /\ xreason = "none" /\ xerr = "none" =>
           \E sent \in ForwardedBy("go", message) : go = StsAnswer(sent)
      /\ y = Accepted /\ yreason = "none" /\ yerr = "none" =>
           \E sent \in ForwardedBy("python", message) : py = StsAnswer(sent)
  <2>1. /\ xreason # "none" => Refusal(RejectionStatus(xreason), xreason) # Accepted
        /\ yreason # "none" => Refusal(RejectionStatus(yreason), yreason) # Accepted
        /\ WriteAuthError(xerr) # Accepted /\ WriteAuthError(yerr) # Accepted
    BY AcceptedRefusesNobody
  <2>2. /\ \/ early("go") # Accepted /\ go = early("go")
           \/ early("go") = Accepted /\ \E sent \in ForwardedBy("go", message) : go = StsAnswer(sent)
        /\ \/ early("python") # Accepted /\ py = early("python")
           \/ early("python") = Accepted /\ \E sent \in ForwardedBy("python", message) : py = StsAnswer(sent)
    BY <1>1
  <2> HIDE DEF early, x, y, xreason, yreason, xerr, yerr, go, py
  <2> QED BY <1>4, <1>5, <2>1, <2>2
<1>7. Refusal(400, "invalid_body") # Accepted /\ Refusal(400, "invalid_signature") # Accepted
  BY DEF Accepted, Refusal
<1> DEFINE named == DOMAIN env.query \cap quirks # {}
           header == IsHeaderForm(env)
           lax == env.url.padded \/ env.url \in LaxUrls
           Alike == /\ x = Accepted /\ y = Accepted /\ SameButAction(p, q)
                    /\ \/ p.action = q.action
                       \/ /\ header
                          /\ p.action = "" => "escaped" \in quirks \/ q.action = ""
                          /\ q.action = "" => "binary" \in quirks \/ p.action = ""
                          /\ p.action = "" \/ q.action = ""
                       \/ ~header /\ named
<1>8. \/ x = y /\ x # Accepted
      \/ Alike
      \/ y = Refusal(400, "invalid_body") /\ {"goJson", "wrapped"} \cap quirks # {}
      \/ x = Refusal(400, "invalid_body") /\ "pyJson" \in quirks
      \/ x = Refusal(400, "invalid_signature") /\ "loose" \in quirks
      \/ y = Refusal(400, "invalid_signature") /\ "fraction" \in quirks
      \/ /\ ~header
         /\ \/ x = Refusal(400, "invalid_signature") /\ lax
            \/ named /\ Refusal(400, "invalid_signature") \in {x, y}
  BY <1>2, ExtractAgrees
<1>9. CASE ~Alike
  <2> HIDE DEF Alike, x, y, named, header, lax, go, py, quirks
  <2>1. go = py \/ \/ py.error = "invalid_body" /\ {"goJson", "wrapped"} \cap quirks # {}
                   \/ go.error = "invalid_body" /\ "pyJson" \in quirks
                   \/ go.error = "invalid_signature" /\ "loose" \in quirks
                   \/ py.error = "invalid_signature" /\ "fraction" \in quirks
                   \/ /\ ~header
                      /\ \/ go.error = "invalid_signature" /\ lax
                         \/ named /\ "invalid_signature" \in {go.error, py.error}
    BY <1>6, <1>7, <1>8, <1>9, ErrorsOf
  <2> USE DEF header, lax, named, quirks
  <2> QED BY <2>1
<1>10. CASE Alike /\ xreason # yreason
  <2>1. \/ /\ header
           /\ \/ xreason = "invalid_shape" /\ "escaped" \in quirks
              \/ yreason = "invalid_shape" /\ "binary" \in quirks
        \/ ~header /\ named /\ (xreason = "invalid_shape" \/ yreason = "invalid_shape")
    <3>1. \/ p.action = q.action
          \/ /\ IsHeaderForm(message.env)
             /\ p.action = "" => "escaped" \in message.quirks \/ q.action = ""
             /\ q.action = "" => "binary" \in message.quirks \/ p.action = ""
             /\ p.action = "" \/ q.action = ""
          \/ ~IsHeaderForm(message.env) /\ DOMAIN message.env.query \cap message.quirks # {}
      BY <1>10
    <3>2. SameButAction(p, q) /\ xreason # yreason
      BY <1>10
    <3> HIDE DEF p, q
    <3> QED BY <3>1, <3>2, LocalChecksAgree
  <2>2. /\ xreason = "invalid_shape" => go.error = "invalid_shape"
        /\ yreason = "invalid_shape" => py.error = "invalid_shape"
    <3>1. x = Accepted /\ y = Accepted
      BY <1>10
    <3> HIDE DEF x, y, xreason, yreason, go, py
    <3> QED BY <1>6, <3>1, ErrorsOf
  <2> HIDE DEF xreason, yreason, go, py
  <2> QED BY <2>1, <2>2
<1>11. CASE Alike /\ xreason = yreason
  <2>1. x = Accepted /\ y = Accepted
    BY <1>11
  <2>2. CASE xreason # "none"
    <3> HIDE DEF x, y, xreason, yreason, go, py, Alike
    <3> QED BY <1>6, <1>11, <2>1, <2>2
  <2>3. CASE xreason = "none"
    <3>1. /\ {xerr, yerr} \subseteq {"none", "rejected", "infra"}
          /\ \/ xerr = yerr
             \/ yerr = "infra" /\ "unsendable" \in quirks
             \/ /\ xerr = "rejected"
                /\ (yerr = "infra" /\ env.url.port \in BadPorts) \/ Excuses(env.url)
      BY <1>2, DelegationAgrees DEF IsMessage
    <3>2. /\ xerr # "none" => go = WriteAuthError(xerr)
          /\ yerr # "none" => py = WriteAuthError(yerr)
          /\ xerr = "none" => \E g \in ForwardedBy("go", message) : go = StsAnswer(g)
          /\ yerr = "none" => \E h \in ForwardedBy("python", message) : py = StsAnswer(h)
      <4> HIDE DEF x, y, xreason, yreason, xerr, yerr, go, py, Alike
      <4> QED BY <1>6, <1>11, <2>1, <2>3
    <3>3. CASE xerr # yerr
      <4> DEFINE bad == env.url.port \in BadPorts
                 excused == Excuses(env.url)
                 unsendable == "unsendable" \in quirks
      <4>1. \/ yerr = "infra" /\ unsendable
            \/ xerr = "rejected" /\ ((yerr = "infra" /\ bad) \/ excused)
        BY <3>1, <3>3
      <4>2. /\ xerr = "rejected" => go.error = "verification_failed"
            /\ yerr = "infra" => py.error = "upstream_error"
        <5> HIDE DEF xerr, yerr, go, py
        <5> QED BY <3>2, ErrorsOf
      <4>3. Delegated
        <5> HIDE DEF xerr, yerr, go, py, bad, excused, unsendable
        <5>1. \/ py.error = "upstream_error" /\ unsendable
              \/ go.error = "verification_failed" /\ ((py.error = "upstream_error" /\ bad) \/ excused)
          BY <4>1, <4>2
        <5> QED BY <5>1 DEF bad, excused, unsendable
      <4> QED BY <4>3
    <3>4. CASE xerr = yerr /\ xerr # "none"
      <4> HIDE DEF xerr, yerr, go, py
      <4> QED BY <3>2, <3>4
    <3>5. CASE xerr = "none" /\ yerr = "none"
      <4>1. PICK g \in ForwardedBy("go", message), h \in ForwardedBy("python", message) :
              go = StsAnswer(g) /\ py = StsAnswer(h)
        <5> HIDE DEF xerr, yerr, go, py
        <5> QED BY <3>2, <3>5
      <4>2. StsAnswer(g) # StsAnswer(h) => Recognised
        BY <1>2, <4>1, FederationsAgree
      <4> HIDE DEF Recognised
      <4> QED BY <4>1, <4>2
    <3> HIDE DEF xerr, yerr
    <3> QED BY <3>3, <3>4, <3>5
  <2> QED BY <2>2, <2>3
<1> HIDE DEF Alike, Read, Delegated, Recognised, xreason, yreason
<1> QED BY <1>9, <1>10, <1>11

(* Two servers that both answered, of one message at one time, gave one    *)
(* answer, or one of the answers their libraries lead them to, which       *)
(* ServersAgree names.                                                     *)
THEOREM ServersAgreeCorrect == Spec => []ServersAgree
BY TypeCorrect, HistoryCorrect, ServersAgreeLemma, PTL DEF History
===========================================================================
