-------------------------- MODULE AuthServerProofs -------------------------
(***************************************************************************)
(* What POST /auth guarantees for any number of requests, any envelopes,   *)
(* configurations, answers of STS and bounds.                              *)
(***************************************************************************)
EXTENDS AuthServer, OperatorProofs

---------------------------------------------------------------------------
(* Extraction refuses with one of the answers the API knows.               *)
LEMMA ExtractAnswers ==
  ASSUME NEW e, ExtractCheck(e) # Accepted
  PROVE  ExtractCheck(e) \in Answers
<1>1. /\ Refusal(413, "body_too_large") \in Answers
      /\ Refusal(400, "invalid_body") \in Answers
      /\ Refusal(400, "invalid_signature") \in Answers
      /\ Refusal(403, "binding_not_signed") \in Answers
  BY DEF Answers, Refusal
<1> QED BY <1>1, ExtractResults

(* So does the core.                                                       *)
LEMMA CoreAnswers ==
  ASSUME NEW c, NEW p, NEW t, LocalCheck(c, p, t) # "none"
  PROVE  Refusal(RejectionStatus(LocalCheck(c, p, t)), LocalCheck(c, p, t)) \in Answers
BY DEF LocalCheck, Answers, Refusal, RejectionStatus

(* And so do the errors of the adapters, a refused ARN and a success.      *)
LEMMA OtherAnswers ==
  /\ \A err : WriteAuthError(err) \in Answers
  /\ Refusal(RejectionStatus("arn_not_allowed"), "arn_not_allowed") \in Answers
  /\ Refusal(200, "none") \in Answers
BY DEF Answers, Refusal, RejectionStatus, WriteAuthError

---------------------------------------------------------------------------
(* Type correctness.  The steps that write an answer use the lemmas above. *)
LEMMA TypeInit == Init => TypeOK
BY AuthServerAssumption DEF Init, TypeOK, Stages, InFlight

LEMMA TypeEnvironment ==
  ASSUME TypeOK, Environment
  PROVE  TypeOK'
<1> USE DEF TypeOK
<1>1. ASSUME NEW c \in Configs, Boot(c) PROVE TypeOK'
  BY <1>1, AuthServerAssumption DEF Boot
<1>2. CASE Crash
  <2>1. \A r \in Requests : pc'[r] \in Stages \ InFlight /\ (pc'[r] = "idle" <=> pc[r] = "idle")
    BY <1>2 DEF Crash, Stages, InFlight
  <2> QED BY <1>2, <2>1, AuthServerAssumption DEF Crash
<1>3. CASE Tick
  BY <1>3, AuthServerAssumption DEF Tick
<1>4. ASSUME NEW r \in Requests, NEW e \in Envelopes, Arrive(r, e) PROVE TypeOK'
  BY <1>4 DEF Arrive, Proceed, Stages, InFlight
<1>5. ASSUME NEW r \in Requests, Disconnect(r) PROVE TypeOK'
  BY <1>5 DEF Disconnect
<1>6. ASSUME NEW r \in Requests, StsVouches(r) PROVE TypeOK'
  <2>1. env[r] \in {f \in Envelopes : f.signed # NoSignature}
    BY <1>6 DEF StsVouches, Authentic, AsSigned
  <2>2. Vouching(env[r].signed.signer) \in StsReplies
    BY <2>1 DEF StsReplies
  <2> QED BY <1>6, <2>2 DEF StsVouches
<1>7. ASSUME NEW r \in Requests, NEW rep \in StsAnswers, StsDeclines(r, rep) PROVE TypeOK'
  BY <1>7 DEF StsDeclines, StsReplies
<1> QED
  BY <1>1, <1>2, <1>3, <1>4, <1>5, <1>6, <1>7 DEF Environment

LEMMA TypeHandle ==
  ASSUME TypeOK, NEW r \in Requests, Handle(r)
  PROVE  TypeOK'
<1> USE DEF TypeOK
<1> DEFINE Answered == \E a \in Answers : Respond(r, a)
<1>1. CASE Extract(r)
  <2>1. Answered \/ Proceed(r, "extracted")
    BY <1>1, ExtractAnswers DEF Extract
  <2> QED BY <1>1, <2>1 DEF Extract, Respond, Proceed, Stages, InFlight
<1>2. CASE Admit(r)
  <2>1. \/ Answered /\ UNCHANGED admission
        \/ /\ Proceed(r, "admitted")
           /\ admission' = [admission EXCEPT ![r] = [at |-> now, conf |-> conf]]
    BY <1>2, CoreAnswers DEF Admit
  <2> QED BY <1>2, <2>1 DEF Admit, Respond, Proceed, Stages, InFlight
<1>3. CASE Delegate(r)
  <2>1. \/ Answered /\ UNCHANGED delegated
        \/ Proceed(r, "delegating") /\ delegated' = delegated \cup {r}
    BY <1>3, OtherAnswers DEF Delegate
  <2> QED BY <1>3, <2>1 DEF Delegate, Respond, Proceed, Stages, InFlight
<1>4. CASE Receive(r)
  <2>1. Answered \/ Proceed(r, "identified")
    BY <1>4, OtherAnswers DEF Receive
  <2>2. CASE Answered
    BY <1>4, <2>2, AuthServerAssumption DEF Receive, Respond, StopTimer, Stages, InFlight
  <2>3. CASE Proceed(r, "identified")
    BY <1>4, <2>3, AuthServerAssumption DEF Receive, Proceed, StopTimer, Stages, InFlight
  <2> QED BY <2>1, <2>2, <2>3
<1>5. CASE Abort(r)
  <2>1. Answered BY <1>5, OtherAnswers DEF Abort
  <2> QED BY <1>5, <2>1, AuthServerAssumption DEF Abort, Respond, StopTimer, Stages, InFlight
<1>6. CASE RefuseArn(r)
  <2>1. Answered BY <1>6, OtherAnswers DEF RefuseArn
  <2> QED BY <1>6, <2>1 DEF RefuseArn, Respond, Stages, InFlight
<1>7. CASE Issue(r)
  <2>1. Answered BY <1>7, OtherAnswers DEF Issue
  <2> QED BY <1>7, <2>1 DEF Issue, Grant, Respond, Stages, InFlight
<1>8. CASE IssueFails(r)
  <2>1. Answered BY <1>8, OtherAnswers DEF IssueFails
  <2> QED BY <1>8, <2>1 DEF IssueFails, Respond, Stages, InFlight
<1> QED
  BY <1>1, <1>2, <1>3, <1>4, <1>5, <1>6, <1>7, <1>8 DEF Handle

(* Every answer is one of the API, every variable of its type, in every    *)
(* reachable state.                                                        *)
THEOREM TypeCorrect == Spec => []TypeOK
<1>1. Init => TypeOK BY TypeInit
<1>2. TypeOK /\ [Next]_vars => TypeOK'
  <2>1. CASE UNCHANGED vars
    BY <2>1 DEF vars, TypeOK
  <2> QED BY <2>1, TypeEnvironment, TypeHandle DEF Next
<1> QED BY <1>1, <1>2, PTL DEF Spec

---------------------------------------------------------------------------
(* The inductive invariant.                                                *)
Kept(r) == StageInv(r) /\ HistoryInv(r)

(* What a step has to leave alone for the invariant of q to survive it.    *)
Untouched(q) ==
  /\ pc'[q] = pc[q]
  /\ env'[q] = env[q]
  /\ reply'[q] = reply[q]
  /\ admission'[q] = admission[q]
  /\ minted'[q] = minted[q]
  /\ q \in delegated' <=> q \in delegated
  /\ pc[q] \in InFlight => conf' = conf

LEMMA Frame ==
  ASSUME TypeOK, TypeOK', now <= now',
         NEW q \in Requests, Kept(q), Untouched(q)
  PROVE  Kept(q)'
<1>1. StageInv(q)'
  BY DEF Kept, Untouched, StageInv, InFlight
<1>2. admission[q] # NoAdmission => admission[q].at <= now'
  BY DEF Kept, HistoryInv, TypeOK
<1>3. minted[q] # NoGrant => Justified(q)'
  BY DEF Kept, Untouched, HistoryInv, Justified
<1>4. HistoryInv(q)'
  BY <1>2, <1>3 DEF Kept, Untouched, HistoryInv, Proof
<1> QED BY <1>1, <1>4 DEF Kept

LEMMA BookkeepingEnvironment ==
  ASSUME TypeOK, TypeOK', Bookkeeping, Environment
  PROVE  Bookkeeping'
<1> SUFFICES ASSUME NEW q \in Requests PROVE Kept(q)'
  BY DEF Bookkeeping, Kept
<1>0. Kept(q) BY DEF Bookkeeping, Kept
<1>1. ASSUME NEW c \in Configs, Boot(c) PROVE Kept(q)'
  <2>1. Untouched(q) /\ now <= now'
    BY <1>1, AuthServerAssumption DEF Boot, Untouched, TypeOK
  <2> QED BY <1>0, <2>1, Frame
<1>2. CASE Crash
  <2>1. CASE pc[q] \in InFlight
    <3>1. pc'[q] = "lost" BY <1>2, <2>1 DEF Crash
    <3>2. minted[q] = NoGrant BY <1>0, <2>1 DEF Kept, HistoryInv, InFlight
    <3> QED BY <1>0, <1>2, <3>1, <3>2 DEF Crash, Kept, StageInv, HistoryInv, InFlight, Proof
  <2>2. CASE pc[q] \notin InFlight
    <3>1. Untouched(q) /\ now <= now'
      BY <1>2, <2>2 DEF Crash, Untouched, TypeOK
    <3> QED BY <1>0, <3>1, Frame
  <2> QED BY <2>1, <2>2
<1>3. CASE Tick
  <2>1. Untouched(q) /\ now <= now'
    BY <1>3 DEF Tick, Untouched, TypeOK
  <2> QED BY <1>0, <2>1, Frame
<1>4. ASSUME NEW r \in Requests, NEW e \in Envelopes, Arrive(r, e) PROVE Kept(q)'
  <2>1. CASE q = r
    BY <1>0, <1>4, <2>1 DEF Arrive, Proceed, Kept, StageInv, HistoryInv, InFlight, TypeOK
  <2>2. CASE q # r
    <3>1. Untouched(q) /\ now <= now'
      BY <1>4, <2>2 DEF Arrive, Proceed, Untouched, TypeOK
    <3> QED BY <1>0, <3>1, Frame
  <2> QED BY <2>1, <2>2
<1>5. ASSUME NEW r \in Requests, Disconnect(r) PROVE Kept(q)'
  <2>1. Untouched(q) /\ now <= now'
    BY <1>5 DEF Disconnect, Untouched, TypeOK
  <2> QED BY <1>0, <2>1, Frame
<1>6. ASSUME NEW r \in Requests, StsVouches(r) PROVE Kept(q)'
  <2>1. CASE q = r
    BY <1>0, <1>6, <2>1 DEF StsVouches, Kept, StageInv, HistoryInv, Proof, TypeOK
  <2>2. CASE q # r
    <3>1. Untouched(q) /\ now <= now'
      BY <1>6, <2>2 DEF StsVouches, Untouched, TypeOK
    <3> QED BY <1>0, <3>1, Frame
  <2> QED BY <2>1, <2>2
<1>7. ASSUME NEW r \in Requests, NEW a \in StsAnswers, StsDeclines(r, a) PROVE Kept(q)'
  <2>1. CASE q = r
    BY <1>0, <1>7, <2>1 DEF StsDeclines, Kept, StageInv, HistoryInv, Proof, TypeOK
  <2>2. CASE q # r
    <3>1. Untouched(q) /\ now <= now'
      BY <1>7, <2>2 DEF StsDeclines, Untouched, TypeOK
    <3> QED BY <1>0, <3>1, Frame
  <2> QED BY <2>1, <2>2
<1> QED
  BY <1>1, <1>2, <1>3, <1>4, <1>5, <1>6, <1>7 DEF Environment

(* A handler touches no request but its own.                               *)
LEMMA HandleFrame ==
  ASSUME TypeOK, NEW r \in Requests, NEW q \in Requests \ {r}, Handle(r)
  PROVE  Untouched(q) /\ now <= now'
<1> USE DEF Untouched, TypeOK, Respond, Proceed, StopTimer
<1>1. CASE Extract(r) BY <1>1 DEF Extract
<1>2. CASE Admit(r) BY <1>2 DEF Admit
<1>3. CASE Delegate(r) BY <1>3 DEF Delegate
<1>4. CASE Receive(r) BY <1>4 DEF Receive
<1>5. CASE Abort(r) BY <1>5 DEF Abort
<1>6. CASE RefuseArn(r) BY <1>6 DEF RefuseArn
<1>7. CASE Issue(r) BY <1>7 DEF Issue
<1>8. CASE IssueFails(r) BY <1>8 DEF IssueFails
<1> QED
  BY <1>1, <1>2, <1>3, <1>4, <1>5, <1>6, <1>7, <1>8 DEF Handle

(* What a handler establishes for its own request: one step per action.    *)
LEMMA HandleKeeps ==
  ASSUME TypeOK, TypeOK', NEW r \in Requests, Kept(r), Handle(r)
  PROVE  Kept(r)'
<1> USE DEF Kept, TypeOK, InFlight
<1>1. CASE Extract(r)
  BY <1>1 DEF Extract, Respond, Proceed, StageInv, HistoryInv, Proof
<1>2. CASE Admit(r)
  <2>1. CASE LocalCheck(conf, Proof(r), now) # "none"
    BY <1>2, <2>1 DEF Admit, Respond, StageInv, HistoryInv, Proof
  <2>2. CASE LocalCheck(conf, Proof(r), now) = "none"
    <3>1. /\ Proceed(r, "admitted")
          /\ admission' = [admission EXCEPT ![r] = [at |-> now, conf |-> conf]]
          /\ UNCHANGED <<now, conf, env, reply, delegated, minted>>
          /\ pc[r] = "extracted"
      BY <1>2, <2>2 DEF Admit
    <3>2. conf \in Configs /\ [at |-> now, conf |-> conf] # NoAdmission
      BY <3>1, AuthServerAssumption
    <3> QED BY <2>2, <3>1, <3>2 DEF Proceed, StageInv, HistoryInv, Proof
  <2> QED BY <2>1, <2>2
<1>3. CASE Delegate(r)
  <2>1. DelegationError(conf.endpoints, env[r]) = "none" =>
          NormalizeEndpoint(env[r].url) \in AllowedEndpoints(conf.endpoints)
    BY DEF DelegationError
  <2> QED BY <1>3, <2>1 DEF Delegate, Respond, Proceed, StageInv, HistoryInv, Proof
<1>4. CASE Receive(r)
  BY <1>4 DEF Receive, Respond, Proceed, StageInv, HistoryInv, Proof
<1>5. CASE Abort(r)
  BY <1>5 DEF Abort, Respond, StageInv, HistoryInv, Proof
<1>6. CASE RefuseArn(r)
  BY <1>6 DEF RefuseArn, Respond, StageInv, HistoryInv, Proof
<1>7. CASE Issue(r)
  <2>1. /\ Authentic(env[r])
        /\ reply[r].arn = env[r].signed.signer
    BY <1>7, AuthServerAssumption DEF Issue, StageInv, HistoryInv, Vouching
  <2>2. Proof(r) = Meaning(env[r].signed)
    BY <1>7, <2>1, FaithfulExtraction DEF Authentic, Issue, StageInv, HistoryInv, Proof
  <2>3. /\ minted'[r].token.claims.sub = reply[r].arn
        /\ minted'[r].conf = conf
        /\ minted'[r].at = now
    BY <1>7 DEF Issue, Grant, IssueCredential, Claims
  <2>4. Justified(r)'
    BY <1>7, <2>1, <2>2, <2>3 DEF Issue, IsAllowedARN, StageInv, HistoryInv, Justified
  <2> QED BY <1>7, <2>4 DEF Issue, Respond, StageInv, HistoryInv, Proof
<1>8. CASE IssueFails(r)
  BY <1>8 DEF IssueFails, Respond, StageInv, HistoryInv, Proof
<1> QED
  BY <1>1, <1>2, <1>3, <1>4, <1>5, <1>6, <1>7, <1>8 DEF Handle

(* The inductive invariant holds in every reachable state.                 *)
THEOREM BookkeepingHolds == Spec => []Bookkeeping
<1>1. Init => Bookkeeping
  BY DEF Init, Bookkeeping, StageInv, HistoryInv
<1>2. TypeOK /\ TypeOK' /\ Bookkeeping /\ [Next]_vars => Bookkeeping'
  <2> SUFFICES ASSUME TypeOK, TypeOK', Bookkeeping, [Next]_vars PROVE Bookkeeping'
    OBVIOUS
  <2>1. CASE UNCHANGED vars
    BY <2>1 DEF vars, Bookkeeping, StageInv, HistoryInv, Justified, Proof
  <2>2. CASE Environment
    BY <2>2, BookkeepingEnvironment
  <2>3. ASSUME NEW r \in Requests, Handle(r) PROVE Bookkeeping'
    <3> SUFFICES ASSUME NEW q \in Requests PROVE Kept(q)'
      BY DEF Bookkeeping, Kept
    <3>1. Kept(q) BY DEF Bookkeeping, Kept
    <3>2. CASE q = r BY <2>3, <3>1, <3>2, HandleKeeps
    <3>3. CASE q # r BY <2>3, <3>1, <3>3, HandleFrame, Frame
    <3> QED BY <3>2, <3>3
  <2> QED BY <2>1, <2>2, <2>3 DEF Next
<1> QED BY <1>1, <1>2, TypeCorrect, PTL DEF Spec

---------------------------------------------------------------------------
(* Every token was earned: STS recognised its caller's signature, and what *)
(* that caller signed passed every check of the process that issued it.    *)
THEOREM TokensJustified == Spec => []GrantJustified
<1>1. Bookkeeping => GrantJustified
  BY DEF Bookkeeping, HistoryInv, GrantJustified
<1> QED BY <1>1, BookkeepingHolds, PTL

(* No request reaches STS unless all local checks passed, and then only at *)
(* an endpoint on the allow list.                                          *)
THEOREM DelegationsGated == Spec => []DelegationGated
<1>1. TypeOK /\ Bookkeeping => DelegationGated
  BY DEF TypeOK, Bookkeeping, HistoryInv, DelegationGated
<1> QED BY <1>1, TypeCorrect, BookkeepingHolds, PTL

(* The core decides on exactly what the caller signed, whenever STS would  *)
(* recognise the signature.                                                *)
THEOREM DecisionsFaithful == Spec => []ExtractionFaithful
<1>1. Bookkeeping => ExtractionFaithful
  BY FaithfulExtraction DEF Authentic, Bookkeeping, StageInv, ExtractionFaithful, Proof
<1> QED BY <1>1, BookkeepingHolds, PTL

(* A captured proof is good for one window, however often and to however   *)
(* many goroutines it is replayed.                                         *)
THEOREM ReplaysBounded == Spec => []ReplayBounded
<1>1. TypeOK /\ Bookkeeping => ReplayBounded
  <2> SUFFICES ASSUME TypeOK, Bookkeeping,
                      NEW q \in Requests, NEW r \in Requests,
                      admission[q] # NoAdmission, admission[r] # NoAdmission,
                      admission[q].conf = admission[r].conf, env[q] = env[r]
               PROVE  admission[r].at - admission[q].at <= Window(admission[q].conf, Proof(q))
    BY DEF ReplayBounded
  <2> DEFINE c == admission[q].conf
             p == Proof(q)
  <2>1. /\ LocalCheck(c, p, admission[q].at) = "none"
        /\ LocalCheck(c, p, admission[r].at) = "none"
    BY DEF Bookkeeping, HistoryInv, Proof
  <2>2. Fresh(c, p, admission[q].at) /\ Fresh(c, p, admission[r].at)
    BY <2>1 DEF LocalCheck
  <2>3. /\ admission[q].at \in Int /\ admission[r].at \in Int
        /\ c \in Configs
    BY DEF TypeOK
  <2>4. pc[q] # "idle" /\ env[q] \in Envelopes /\ ExtractCheck(env[q]) = Accepted
    BY DEF TypeOK, Bookkeeping, HistoryInv
  <2>5. p.signedAt \in Int /\ p.expiry \in Int /\ c.maxAge \in Int
    BY <2>3, <2>4, AuthServerAssumption DEF Proof
  <2>6. Window(c, p) \in Int
    BY <2>5 DEF Window
  <2> QED BY <2>2, <2>3, <2>5, <2>6 DEF Fresh
<1> QED BY <1>1, TypeCorrect, BookkeepingHolds, PTL

---------------------------------------------------------------------------
(* What an answer says about STS.                                          *)
BadProof == WriteAuthError("rejected")
Outage   == WriteAuthError("infra")

LEMMA Verdicts ==
  /\ BadProof # Outage
  /\ \A err : WriteAuthError(err) = IF err = "rejected" THEN BadProof ELSE Outage
  /\ {BadProof, Outage} \cap {NoAnswer, Refusal(200, "none")} = {}
  /\ \A status, x : Refusal(status, x) \in {BadProof, Outage} =>
                      x \in {"verification_failed", "upstream_error"}
<1>1. BadProof = Refusal(401, "verification_failed") /\ Outage = Refusal(502, "upstream_error")
  BY DEF BadProof, Outage, WriteAuthError
<1>2. BadProof \in Answers /\ Outage \in Answers
  BY OtherAnswers DEF BadProof, Outage
<1>3. NoAnswer \notin Answers
  BY AuthServerAssumption
<1>4. \A err : WriteAuthError(err) = IF err = "rejected" THEN BadProof ELSE Outage
  BY Zenon DEF WriteAuthError, BadProof, Outage
<1>5. /\ \A status, x : Refusal(status, x) \in {BadProof, Outage} =>
                          x \in {"verification_failed", "upstream_error"}
      /\ Refusal(200, "none") \notin {BadProof, Outage}
      /\ BadProof # Outage
  BY <1>1 DEF Refusal
<1> QED BY <1>2, <1>3, <1>4, <1>5

(* An answer of STS is classified by what STS means.                       *)
LEMMA Classified ==
  ASSUME NEW a \in StsAnswers
  PROVE  /\ ReplyOutcome(a) \in {"rejected", "infra"}
         /\ ReplyOutcome(a) = "rejected" <=> a.final
<1>1. MeansWhatItSays(a) /\ ReplyOutcome(a) # "identity"
  BY AuthServerAssumption
<1>2. IsTransientCode(a.code) <=> a.code # {}
  BY <1>1 DEF IsTransientCode, MeansWhatItSays
<1>3. /\ ClassifyErrorResponse(a) \in {"rejected", "infra"}
      /\ ClassifyErrorResponse(a) = "rejected" <=>
           a.status \in 400..499 /\ a.status # 429 /\ a.code = {}
  BY <1>2 DEF ClassifyErrorResponse
<1>4. \/ /\ ReplyOutcome(a) = "infra"
         /\ a.status = NoResponse \/ a.body = "unreadable" \/ a.status \in 300..399 \/ a.status = 200
      \/ a.status # 200 /\ a.body # "unreadable" /\ ReplyOutcome(a) = ClassifyErrorResponse(a)
  BY <1>1, Zenon DEF ReplyOutcome
<1> QED BY <1>1, <1>3, <1>4 DEF MeansWhatItSays, NoResponse

(* The inductive part: nobody is answered before its time, and an answer   *)
(* that blames the caller or the upstream has the word of STS it needs.    *)
AnswerInv(r) ==
  /\ pc[r] # "answered" => answer[r] = NoAnswer
  /\ answer[r] = BadProof => r \notin delegated \/ (reply[r] # NoReply /\ reply[r].final)
  /\ answer[r] = Outage => reply[r] = NoReply \/ ~reply[r].final

AnswersKept == \A r \in Requests : AnswerInv(r)

(* A step that leaves an answered request alone, and answers no other.     *)
NotAnswered(q) ==
  /\ answer'[q] = answer[q]
  /\ pc[q] = "answered" <=> pc'[q] = "answered"
  /\ pc[q] = "answered" => reply'[q] = reply[q] /\ (q \in delegated' <=> q \in delegated)

LEMMA AnswerFrame ==
  ASSUME NEW q \in Requests, AnswerInv(q), NotAnswered(q)
  PROVE  AnswerInv(q)'
<1>1. answer[q] = NoAnswer => answer[q] # BadProof /\ answer[q] # Outage
  BY Verdicts
<1> QED BY <1>1 DEF AnswerInv, NotAnswered, BadProof, Outage

LEMMA AnswersEnvironment ==
  ASSUME TypeOK, Environment, NEW q \in Requests
  PROVE  NotAnswered(q)
<1> USE DEF TypeOK, NotAnswered
<1>1. ASSUME NEW c \in Configs, Boot(c) PROVE NotAnswered(q)
  BY <1>1 DEF Boot
<1>2. CASE Crash
  BY <1>2 DEF Crash, InFlight
<1>3. CASE Tick
  BY <1>3 DEF Tick
<1>4. ASSUME NEW r \in Requests, NEW e \in Envelopes, Arrive(r, e) PROVE NotAnswered(q)
  BY <1>4 DEF Arrive, Proceed
<1>5. ASSUME NEW r \in Requests, Disconnect(r) PROVE NotAnswered(q)
  BY <1>5 DEF Disconnect
<1>6. ASSUME NEW r \in Requests, StsVouches(r) PROVE NotAnswered(q)
  BY <1>6 DEF StsVouches
<1>7. ASSUME NEW r \in Requests, NEW rep \in StsAnswers, StsDeclines(r, rep) PROVE NotAnswered(q)
  BY <1>7 DEF StsDeclines
<1> QED
  BY <1>1, <1>2, <1>3, <1>4, <1>5, <1>6, <1>7 DEF Environment

(* A handler answers no request but its own.                               *)
LEMMA OthersNotAnswered ==
  ASSUME TypeOK, NEW r \in Requests, NEW q \in Requests \ {r}, Handle(r)
  PROVE  NotAnswered(q)
<1>1. Untouched(q)
  BY HandleFrame
<1>2. answer'[q] = answer[q]
  BY DEF Handle, Extract, Admit, Delegate, Receive, Abort, RefuseArn, Issue, IssueFails,
         Respond, Proceed, TypeOK
<1> QED BY <1>1, <1>2 DEF Untouched, NotAnswered

(* What a handler answers to its own request: one step per action.         *)
LEMMA AnswerHandle ==
  ASSUME TypeOK, NEW r \in Requests, Kept(r), AnswerInv(r), Handle(r)
  PROVE  AnswerInv(r)'
<1> DEFINE Neither(a) == a # BadProof /\ a # Outage
<1> USE DEF TypeOK
<1>1. ASSUME NEW a, Respond(r, a)
      PROVE  /\ answer'[r] = a /\ pc'[r] = "answered"
             /\ Neither(a) => AnswerInv(r)'
  BY <1>1 DEF Respond, AnswerInv, BadProof, Outage
<1>2. ASSUME NEW stage \in Stages \ {"answered"}, Proceed(r, stage), pc[r] # "answered"
      PROVE  AnswerInv(r)'
  BY <1>2, Verdicts DEF Proceed, AnswerInv, BadProof, Outage
<1> HIDE DEF TypeOK
<1>3. CASE Extract(r)
  <2>1. ExtractCheck(env[r]) # Accepted => Neither(ExtractCheck(env[r]))
    BY ExtractResults, Verdicts
  <2>2. Respond(r, ExtractCheck(env[r])) \/ Proceed(r, "extracted")
    BY <1>3 DEF Extract
  <2>3. pc[r] # "answered" /\ (ExtractCheck(env[r]) = Accepted \/ Neither(ExtractCheck(env[r])))
    BY <1>3, <2>1 DEF Extract
  <2>4. CASE ExtractCheck(env[r]) = Accepted
    BY <1>2, <1>3, <2>4 DEF Extract, Stages
  <2>5. CASE ExtractCheck(env[r]) # Accepted
    BY <1>1, <1>3, <2>1, <2>5 DEF Extract
  <2> QED BY <2>4, <2>5
<1>4. CASE Admit(r)
  <2> DEFINE reason == LocalCheck(conf, Proof(r), now)
  <2>1. reason \in {"none", "binding_mismatch", "invalid_shape", "stale"}
    BY LocalResults
  <2>2. Neither(Refusal(RejectionStatus(reason), reason))
    <3> HIDE DEF reason
    <3> QED BY <2>1, Verdicts
  <2>3. CASE reason = "none"
    BY <1>2, <1>4, <2>3 DEF Admit, Stages
  <2>4. CASE reason # "none"
    BY <1>1, <1>4, <2>2, <2>4 DEF Admit
  <2> QED BY <2>3, <2>4
<1>5. CASE Delegate(r)
  <2>1. /\ r \notin delegated /\ reply[r] = NoReply /\ reply' = reply /\ pc[r] # "answered"
        /\ \/ delegated' = delegated /\ \E err : Respond(r, WriteAuthError(err))
           \/ Proceed(r, "delegating")
    BY <1>5 DEF Delegate, Kept, HistoryInv
  <2>2. CASE delegated' = delegated /\ \E err : Respond(r, WriteAuthError(err))
    BY <1>1, <2>1, <2>2, Verdicts DEF AnswerInv, BadProof, Outage
  <2>3. CASE Proceed(r, "delegating")
    BY <1>2, <2>1, <2>3 DEF Stages
  <2> QED BY <2>1, <2>2, <2>3
<1>6. CASE Receive(r)
  <2> DEFINE outcome == ReplyOutcome(reply[r])
  <2>1. /\ reply[r] # NoReply /\ reply' = reply /\ pc[r] # "answered"
        /\ \/ outcome # "identity" /\ Respond(r, WriteAuthError(outcome))
           \/ outcome = "identity" /\ Proceed(r, "identified")
    BY <1>6 DEF Receive
  <2>2. CASE outcome # "identity" /\ Respond(r, WriteAuthError(outcome))
    <3>1. reply[r] \in StsAnswers
      <4>1. ReplyOutcome(Vouching(env[r].signed.signer)) = "identity"
        BY DEF Vouching, ReplyOutcome, NoResponse
      <4> QED BY <2>1, <2>2, <4>1 DEF Kept, HistoryInv
    <3>2. outcome \in {"rejected", "infra"} /\ (outcome = "rejected" <=> reply[r].final)
      BY <3>1, Classified
    <3> HIDE DEF outcome
    <3>3. /\ WriteAuthError(outcome) = BadProof => reply[r].final
          /\ WriteAuthError(outcome) = Outage => ~reply[r].final
      BY <3>2, Verdicts
    <3> QED BY <1>1, <2>1, <2>2, <3>3 DEF AnswerInv, BadProof, Outage
  <2>3. CASE outcome = "identity" /\ Proceed(r, "identified")
    BY <1>2, <2>1, <2>3 DEF Stages
  <2> QED BY <2>1, <2>2, <2>3
<1>7. CASE Abort(r)
  <2>1. Respond(r, Outage) /\ reply'[r] = NoReply
    BY <1>7 DEF Abort, Outage, TypeOK
  <2> QED BY <1>1, <2>1, Verdicts DEF AnswerInv, BadProof, Outage
<1>8. CASE RefuseArn(r)
  <2>1. Neither(Refusal(RejectionStatus("arn_not_allowed"), "arn_not_allowed"))
    BY Verdicts
  <2> QED BY <1>1, <1>8, <2>1 DEF RefuseArn
<1>9. CASE Issue(r)
  <2>1. Neither(Refusal(200, "none"))
    BY Verdicts
  <2> QED BY <1>1, <1>9, <2>1 DEF Issue
<1>10. CASE IssueFails(r)
  <2>1. Respond(r, Outage) /\ reply' = reply
    BY <1>10 DEF IssueFails, Outage
  <2>2. reply[r] = Vouching(env[r].signed.signer)
    <3>1. /\ reply[r] # NoReply /\ ReplyOutcome(reply[r]) = "identity"
          /\ reply[r] \in StsAnswers \/ reply[r] = Vouching(env[r].signed.signer)
      BY <1>10 DEF IssueFails, Kept, StageInv, HistoryInv
    <3>2. reply[r] \notin StsAnswers
      BY <3>1, Classified
    <3> QED BY <3>1, <3>2
  <2>3. ~reply[r].final
    BY <2>2 DEF Vouching
  <2> QED BY <1>1, <2>1, <2>3, Verdicts DEF AnswerInv, BadProof, Outage
<1> QED
  BY <1>3, <1>4, <1>5, <1>6, <1>7, <1>8, <1>9, <1>10 DEF Handle

(* The caller is blamed only on the word of STS or for an endpoint that is *)
(* not trusted, and what STS refused for good is not called an outage, if  *)
(* STS means what it says.                                                 *)
THEOREM AnswersExplained == Spec => []AnswerExplained
<1>1. Init => AnswersKept
  BY Verdicts DEF Init, AnswersKept, AnswerInv, BadProof, Outage
<1>2. TypeOK /\ Bookkeeping /\ AnswersKept /\ [Next]_vars => AnswersKept'
  <2> SUFFICES ASSUME TypeOK, Bookkeeping, AnswersKept, [Next]_vars, NEW q \in Requests
               PROVE  AnswerInv(q)'
    BY DEF AnswersKept
  <2>1. AnswerInv(q) /\ Kept(q)
    BY DEF AnswersKept, Bookkeeping, Kept
  <2>2. CASE UNCHANGED vars
    BY <2>1, <2>2, AnswerFrame DEF vars, NotAnswered
  <2>3. CASE Environment
    BY <2>1, <2>3, AnswersEnvironment, AnswerFrame
  <2>4. ASSUME NEW r \in Requests, Handle(r) PROVE AnswerInv(q)'
    <3>1. CASE q = r
      BY <2>1, <2>4, <3>1, AnswerHandle
    <3>2. CASE q # r
      BY <2>1, <2>4, <3>2, OthersNotAnswered, AnswerFrame
    <3> QED BY <3>1, <3>2
  <2> QED BY <2>2, <2>3, <2>4 DEF Next
<1>3. AnswersKept => AnswerExplained
  BY DEF AnswersKept, AnswerInv, AnswerExplained, BadProof, Outage
<1> QED BY <1>1, <1>2, <1>3, TypeCorrect, BookkeepingHolds, PTL DEF Spec

---------------------------------------------------------------------------
(* AuthServer implements Federation: every step of the server is a step of *)
(* the abstract specification, or changes nothing a relying party sees.    *)
Sessions == [r \in Requests |-> AbstractSession(r)]

(* The checks of both specifications are the same operators.               *)
LEMMA SameCheck ==
  \A c, p, t : Abstract!LocalCheck(c, p, t) = LocalCheck(c, p, t)
BY Zenon DEF LocalCheck, Fresh, Window, ExpectedMethod, GetCallerIdentity,
  Abstract!LocalCheck, Abstract!Fresh, Abstract!Window, Abstract!ExpectedMethod,
  Abstract!GetCallerIdentity

(* The refinement mapping, stage by stage.                                 *)
LEMMA Mapping ==
  ASSUME NEW r \in Requests
  PROVE  /\ minted[r] # NoGrant =>
              AbstractSession(r) = Abstract!Granted(minted[r].token.claims.sub, minted[r].conf)
         /\ minted[r] = NoGrant =>
              /\ pc[r] \in {"idle", "received", "extracted"} =>
                   AbstractSession(r) = Abstract!Unseen
              /\ pc[r] \in {"admitted", "delegating"} =>
                   AbstractSession(r) = Abstract!Admitted(Proof(r))
              /\ pc[r] = "identified" => AbstractSession(r) = Abstract!Attested(reply[r].arn)
              /\ pc[r] \in {"answered", "lost"} => AbstractSession(r) = Abstract!Dropped
BY Zenon DEF AbstractSession, Abstract!Granted, Abstract!Unseen, Abstract!Admitted,
  Abstract!Attested, Abstract!Dropped

LEMMA MappingNext ==
  ASSUME NEW r \in Requests
  PROVE  /\ (minted[r])' # NoGrant =>
              AbstractSession(r)' =
                Abstract!Granted((minted[r])'.token.claims.sub, (minted[r])'.conf)
         /\ (minted[r])' = NoGrant =>
              /\ (pc[r])' \in {"idle", "received", "extracted"} =>
                   AbstractSession(r)' = Abstract!Unseen
              /\ (pc[r])' \in {"admitted", "delegating"} =>
                   AbstractSession(r)' = Abstract!Admitted(Proof(r)')
              /\ (pc[r])' = "identified" =>
                   AbstractSession(r)' = Abstract!Attested((reply[r])'.arn)
              /\ (pc[r])' \in {"answered", "lost"} => AbstractSession(r)' = Abstract!Dropped
BY Zenon DEF AbstractSession, Abstract!Granted, Abstract!Unseen, Abstract!Admitted,
  Abstract!Attested, Abstract!Dropped

(* A request a step does not touch keeps its abstract session.             *)
LEMMA UntouchedSession ==
  ASSUME NEW q \in Requests, Untouched(q)
  PROVE  AbstractSession(q)' = AbstractSession(q)
BY Zenon DEF Untouched, AbstractSession, Proof

(* A step that concerns one request changes the abstract state there only. *)
LEMMA OneSession ==
  ASSUME NEW r \in Requests, \A q \in Requests \ {r} : Untouched(q)
  PROVE  Sessions' = [Sessions EXCEPT ![r] = AbstractSession(r)']
<1>1. \A q \in Requests \ {r} : AbstractSession(q)' = AbstractSession(q)
  BY UntouchedSession
<1> QED BY <1>1 DEF Sessions

LEMMA Moves ==
  ASSUME NEW r \in Requests, \A q \in Requests \ {r} : Untouched(q), UNCHANGED <<now, conf>>
  PROVE  /\ Abstract!Become(r, AbstractSession(r)')
         /\ AbstractSession(r)' = AbstractSession(r) => UNCHANGED Abstract!vars
<1>1. Sessions' = [Sessions EXCEPT ![r] = AbstractSession(r)']
  BY OneSession
<1>2. AbstractSession(r)' = AbstractSession(r) => Sessions' = Sessions
  BY <1>1 DEF Sessions
<1> QED BY <1>1, <1>2 DEF Sessions, Abstract!Become, Abstract!vars

LEMMA Stays ==
  ASSUME \A q \in Requests : Untouched(q)
  PROVE  Sessions' = Sessions
BY UntouchedSession DEF Sessions

---------------------------------------------------------------------------
(* The steps of the environment: a start opens the service, a crash closes *)
(* it, the others are invisible.                                           *)
LEMMA EnvironmentRefined ==
  ASSUME TypeOK, Bookkeeping, Environment
  PROVE  Abstract!Next \/ UNCHANGED Abstract!vars
<1>1. ASSUME NEW c \in Configs, Boot(c) PROVE Abstract!Next
  <2>1. \A q \in Requests : Untouched(q)
    BY <1>1, AuthServerAssumption DEF Boot, Untouched, TypeOK
  <2>2. Sessions' = Sessions BY <2>1, Stays
  <2>3. Abstract!Open(c)
    BY <1>1, <2>2 DEF Boot, Abstract!Open, Sessions
  <2> QED BY <2>3 DEF Abstract!Next
<1>2. CASE Crash
  <2> DEFINE early == {q \in Requests : pc[q] \in {"received", "extracted"}}
             open(q) == AbstractSession(q).stage \in {"admitted", "attested"}
  <2>1. \A q \in early : AbstractSession(q) = Abstract!Unseen
    BY Mapping DEF Bookkeeping, HistoryInv
  <2>2. ASSUME NEW q \in Requests
        PROVE  AbstractSession(q)' =
                 IF q \in early \/ open(q) THEN Abstract!Dropped ELSE AbstractSession(q)
    <3>1. CASE pc[q] \in InFlight
      <4>1. minted[q] = NoGrant BY <3>1 DEF Bookkeeping, HistoryInv, InFlight
      <4>2. AbstractSession(q)' = Abstract!Dropped
        BY <1>2, <3>1, <4>1, MappingNext DEF Crash
      <4>3. q \in early \/ open(q)
        BY <3>1, <4>1, Mapping DEF InFlight, Abstract!Admitted, Abstract!Attested
      <4> QED BY <4>2, <4>3
    <3>2. CASE pc[q] \notin InFlight
      <4>1. Untouched(q) BY <1>2, <3>2 DEF Crash, Untouched, TypeOK
      <4>2. AbstractSession(q)' = AbstractSession(q) BY <4>1, UntouchedSession
      <4>3. q \notin early BY <3>2 DEF InFlight
      <4>4. pc[q] \in {"idle", "answered", "lost"} BY <3>2 DEF InFlight, TypeOK, Stages
      <4>5. ~open(q)
        BY <4>4, Mapping DEF Abstract!Granted, Abstract!Unseen, Abstract!Dropped
      <4> QED BY <4>2, <4>3, <4>5
    <3> QED BY <3>1, <3>2
  <2>3. Sessions' = [q \in Requests |->
                       IF q \in early \/ Sessions[q].stage \in {"admitted", "attested"}
                       THEN Abstract!Dropped ELSE Sessions[q]]
    BY <2>2 DEF Sessions
  <2>4. early \in SUBSET {q \in Requests : Sessions[q] = Abstract!Unseen}
    BY <2>1 DEF Sessions
  <2>5. Abstract!Close
    BY <1>2, <2>3, <2>4 DEF Crash, Abstract!Close, Sessions
  <2> QED BY <2>5 DEF Abstract!Next
<1>3. CASE Tick
  <2>1. \A q \in Requests : Untouched(q)
    BY <1>3 DEF Tick, Untouched, TypeOK
  <2>2. Sessions' = Sessions BY <2>1, Stays
  <2>3. Abstract!Advance \/ UNCHANGED Abstract!vars
    BY <1>3, <2>2 DEF Tick, Abstract!Advance, Abstract!vars, Sessions
  <2> QED BY <2>3 DEF Abstract!Next
<1>4. ASSUME NEW r \in Requests, NEW e \in Envelopes, Arrive(r, e)
      PROVE  UNCHANGED Abstract!vars
  <2>1. /\ \A q \in Requests \ {r} : Untouched(q)
        /\ UNCHANGED <<now, conf, minted>>
        /\ pc[r] = "idle" /\ (pc[r])' = "received"
    BY <1>4 DEF Arrive, Proceed, Untouched, TypeOK
  <2>2. minted[r] = NoGrant BY <2>1 DEF Bookkeeping, HistoryInv
  <2>3. AbstractSession(r) = Abstract!Unseen BY <2>1, <2>2, Mapping
  <2>4. AbstractSession(r)' = Abstract!Unseen BY <2>1, <2>2, MappingNext
  <2> QED BY <2>1, <2>3, <2>4, Moves
<1>5. ASSUME NEW r \in Requests, Disconnect(r) PROVE UNCHANGED Abstract!vars
  <2>1. \A q \in Requests : Untouched(q)
    BY <1>5 DEF Disconnect, Untouched, TypeOK
  <2> QED BY <1>5, <2>1, Stays DEF Disconnect, Abstract!vars, Sessions
<1>6. ASSUME NEW r \in Requests,
             StsVouches(r) \/ \E a \in StsAnswers : StsDeclines(r, a)
      PROVE  UNCHANGED Abstract!vars
  <2>1. /\ \A q \in Requests \ {r} : Untouched(q)
        /\ UNCHANGED <<now, conf, minted, pc, env>>
        /\ pc[r] = "delegating"
    BY <1>6 DEF StsVouches, StsDeclines, Untouched, TypeOK
  <2>2. minted[r] = NoGrant BY <2>1 DEF Bookkeeping, HistoryInv
  <2>3. AbstractSession(r) = Abstract!Admitted(Proof(r)) BY <2>1, <2>2, Mapping
  <2>4. AbstractSession(r)' = Abstract!Admitted(Proof(r)') BY <2>1, <2>2, MappingNext
  <2>5. Proof(r)' = Proof(r) BY <2>1 DEF Proof
  <2> QED BY <2>1, <2>3, <2>4, <2>5, Moves
<1> QED
  BY <1>1, <1>2, <1>3, <1>4, <1>5, <1>6 DEF Environment

---------------------------------------------------------------------------
(* The steps of a handler.  A refusal drops the session.                   *)
LEMMA RefusalDrops ==
  ASSUME Bookkeeping, NEW r \in Requests, pc[r] \in InFlight,
         \A q \in Requests \ {r} : Untouched(q), UNCHANGED <<now, conf, minted>>,
         (pc[r])' = "answered"
  PROVE  Abstract!Drop(r)
<1>1. minted[r] = NoGrant BY DEF Bookkeeping, HistoryInv, InFlight
<1>2. AbstractSession(r)' = Abstract!Dropped BY <1>1, MappingNext
<1>3. AbstractSession(r).stage \in {"unseen", "admitted", "attested"}
  BY <1>1, Mapping DEF InFlight, Abstract!Unseen, Abstract!Admitted, Abstract!Attested
<1>4. Abstract!Become(r, Abstract!Dropped) BY <1>2, Moves
<1> QED BY <1>3, <1>4 DEF Abstract!Drop

LEMMA HandleRefined ==
  ASSUME TypeOK, Bookkeeping, NEW r \in Requests, Handle(r)
  PROVE  Abstract!Next \/ UNCHANGED Abstract!vars
<1> DEFINE Refused == /\ pc[r] \in InFlight
                      /\ UNCHANGED <<now, conf, minted>>
                      /\ (pc[r])' = "answered"
<1>a. \A q \in Requests \ {r} : Untouched(q)
  BY HandleFrame
<1>b. ASSUME Refused PROVE Abstract!Next
  BY <1>a, <1>b, RefusalDrops DEF Abstract!Next
<1>c. /\ UNCHANGED <<now, conf>>
      /\ pc[r] \in InFlight
      /\ minted[r] = NoGrant
  BY DEF Handle, Extract, Admit, Delegate, Receive, Abort, RefuseArn, Issue, IssueFails,
    InFlight, Bookkeeping, HistoryInv
<1>1. CASE Extract(r)
  <2>1. \/ Refused
        \/ (pc[r])' = "extracted" /\ pc[r] = "received" /\ UNCHANGED minted
    BY <1>1, <1>c DEF Extract, Respond, Proceed, TypeOK
  <2>2. ASSUME (pc[r])' = "extracted", pc[r] = "received", UNCHANGED minted
        PROVE  UNCHANGED Abstract!vars
    <3>1. AbstractSession(r) = Abstract!Unseen BY <1>c, <2>2, Mapping
    <3>2. AbstractSession(r)' = Abstract!Unseen BY <1>c, <2>2, MappingNext
    <3> QED BY <1>a, <1>c, <3>1, <3>2, Moves
  <2> QED BY <1>b, <2>1, <2>2
<1>2. CASE Admit(r)
  <2>1. CASE LocalCheck(conf, Proof(r), now) # "none"
    <3>1. Refused BY <1>2, <1>c, <2>1 DEF Admit, Respond, TypeOK
    <3> QED BY <1>b, <3>1
  <2>2. CASE LocalCheck(conf, Proof(r), now) = "none"
    <3>1. pc[r] = "extracted" /\ (pc[r])' = "admitted" /\ UNCHANGED <<env, minted>>
      BY <1>2, <2>2 DEF Admit, Proceed, TypeOK
    <3>2. Proof(r)' = Proof(r) BY <3>1 DEF Proof
    <3>3. AbstractSession(r) = Abstract!Unseen BY <1>c, <3>1, Mapping
    <3>4. AbstractSession(r)' = Abstract!Admitted(Proof(r)) BY <1>c, <3>1, <3>2, MappingNext
    <3>5. Abstract!Become(r, Abstract!Admitted(Proof(r))) BY <1>a, <1>c, <3>4, Moves
    <3>6. conf # Down BY <3>1, AuthServerAssumption DEF TypeOK, InFlight
    <3>7. Proof(r) \in {ExtractProof(e) : e \in {f \in Envelopes : ExtractCheck(f) = Accepted}}
      BY <3>1 DEF Proof, TypeOK, Bookkeeping, StageInv
    <3>8. Abstract!LocalCheck(conf, Proof(r), now) = "none" BY <2>2, SameCheck
    <3>9. Abstract!Admit(r)
      BY <3>3, <3>5, <3>6, <3>7, <3>8 DEF Abstract!Admit
    <3> QED BY <3>9 DEF Abstract!Next
  <2> QED BY <2>1, <2>2
<1>3. CASE Delegate(r)
  <2>1. \/ Refused
        \/ (pc[r])' = "delegating" /\ pc[r] = "admitted" /\ UNCHANGED <<env, minted>>
    BY <1>3, <1>c DEF Delegate, Respond, Proceed, TypeOK
  <2>2. ASSUME (pc[r])' = "delegating", pc[r] = "admitted", UNCHANGED <<env, minted>>
        PROVE  UNCHANGED Abstract!vars
    <3>1. Proof(r)' = Proof(r) BY <2>2 DEF Proof
    <3>2. AbstractSession(r) = Abstract!Admitted(Proof(r)) BY <1>c, <2>2, Mapping
    <3>3. AbstractSession(r)' = Abstract!Admitted(Proof(r)) BY <1>c, <2>2, <3>1, MappingNext
    <3> QED BY <1>a, <1>c, <3>2, <3>3, Moves
  <2> QED BY <1>b, <2>1, <2>2
<1>4. CASE Receive(r)
  <2>1. CASE ReplyOutcome(reply[r]) # "identity"
    <3>1. Refused BY <1>4, <1>c, <2>1 DEF Receive, Respond, TypeOK
    <3> QED BY <1>b, <3>1
  <2>2. CASE ReplyOutcome(reply[r]) = "identity"
    <3>1. /\ pc[r] = "delegating" /\ (pc[r])' = "identified" /\ reply[r] # NoReply
          /\ UNCHANGED <<reply, minted>>
      BY <1>4, <2>2 DEF Receive, Proceed, TypeOK
    <3>2. Authentic(env[r]) /\ reply[r].arn = env[r].signed.signer
      <4>1. reply[r] \notin StsAnswers
        BY <2>2, AuthServerAssumption
      <4>2. Authentic(env[r]) /\ reply[r] = Vouching(env[r].signed.signer)
        BY <3>1, <4>1 DEF Bookkeeping, HistoryInv
      <4> QED BY <4>2 DEF Vouching
    <3>3. ExtractCheck(env[r]) = Accepted /\ env[r] \in Envelopes
      BY <3>1 DEF Bookkeeping, StageInv, HistoryInv, TypeOK
    <3>4. Proof(r) = Meaning(env[r].signed)
      BY <3>2, <3>3, FaithfulExtraction DEF Authentic, Proof
    <3> DEFINE st == [signer |-> env[r].signed.signer, claim |-> Meaning(env[r].signed)]
    <3>5. st \in {[signer |-> e.signed.signer, claim |-> Meaning(e.signed)] :
                    e \in {f \in Envelopes : f.signed # NoSignature}}
      <4>1. env[r].signed # NoSignature BY <3>2, SignedBySomeone
      <4> QED BY <3>3, <4>1
    <3>6. AbstractSession(r) = Abstract!Admitted(Proof(r)) BY <1>c, <3>1, Mapping
    <3>7. AbstractSession(r)' = Abstract!Attested(st.signer)
      BY <1>c, <3>1, <3>2, MappingNext
    <3>8. Abstract!Become(r, Abstract!Attested(st.signer)) BY <1>a, <1>c, <3>7, Moves
    <3>9. AbstractSession(r).stage = "admitted" /\ AbstractSession(r).claim = st.claim
      BY <3>4, <3>6 DEF Abstract!Admitted
    <3>10. Abstract!Attest(r)
      BY <3>5, <3>8, <3>9 DEF Abstract!Attest
    <3> QED BY <3>10 DEF Abstract!Next
  <2> QED BY <2>1, <2>2
<1>5. CASE Abort(r) \/ RefuseArn(r) \/ IssueFails(r)
  <2>1. Refused BY <1>5, <1>c DEF Abort, RefuseArn, IssueFails, Respond, TypeOK
  <2> QED BY <1>b, <2>1
<1>6. CASE Issue(r)
  <2>1. /\ pc[r] = "identified"
        /\ reply[r].arn \in conf.arns
        /\ (minted[r])'.token.claims.sub = reply[r].arn
        /\ (minted[r])'.conf = conf
    BY <1>6 DEF Issue, IsAllowedARN, Grant, IssueCredential, Claims, TypeOK
  <2>2. (minted[r])' # NoGrant
    <3>1. /\ Authentic(env[r])
          /\ reply[r].arn = env[r].signed.signer
          /\ env[r] \in Envelopes /\ conf \in Configs /\ now \in 0..MaxTime
      BY <2>1, AuthServerAssumption
      DEF Bookkeeping, StageInv, HistoryInv, Vouching, TypeOK, InFlight
    <3>2. (minted[r])' = Grant(conf, r, env[r].signed.signer, now)
      BY <1>6, <3>1 DEF Issue, TypeOK
    <3>3. env[r].signed # NoSignature BY <3>1, SignedBySomeone
    <3> QED BY <3>1, <3>2, <3>3, AuthServerAssumption
  <2>3. AbstractSession(r) = Abstract!Attested(reply[r].arn) BY <1>c, <2>1, Mapping
  <2>4. AbstractSession(r)' = Abstract!Granted(reply[r].arn, conf)
    BY <2>1, <2>2, MappingNext
  <2>5. Abstract!Become(r, Abstract!Granted(reply[r].arn, conf)) BY <1>a, <1>c, <2>4, Moves
  <2>6. conf # Down BY <2>1, AuthServerAssumption DEF TypeOK, InFlight
  <2>7. Abstract!Grant(r)
    BY <2>1, <2>3, <2>5, <2>6 DEF Abstract!Grant, Abstract!Attested
  <2> QED BY <2>7 DEF Abstract!Next
<1> QED
  BY <1>1, <1>2, <1>3, <1>4, <1>5, <1>6 DEF Handle

(* The server keeps the promise of Federation, for any number of requests. *)
THEOREM Refinement == Spec => ImplementsFederation
<1>1. Init => Abstract!Init
  <2>1. ASSUME Init, NEW r \in Requests PROVE AbstractSession(r) = Abstract!Unseen
    BY <2>1, Mapping DEF Init
  <2> QED BY <2>1 DEF Init, Abstract!Init
<1>2. TypeOK /\ Bookkeeping /\ [Next]_vars => [Abstract!Next]_(Abstract!vars)
  <2> SUFFICES ASSUME TypeOK, Bookkeeping, [Next]_vars
               PROVE  Abstract!Next \/ UNCHANGED Abstract!vars
    OBVIOUS
  <2>1. CASE UNCHANGED vars
    <3>1. \A q \in Requests : Untouched(q) BY <2>1 DEF vars, Untouched
    <3> QED BY <2>1, <3>1, Stays DEF vars, Abstract!vars, Sessions
  <2>2. CASE Environment BY <2>2, EnvironmentRefined
  <2>3. ASSUME NEW r \in Requests, Handle(r) PROVE Abstract!Next \/ UNCHANGED Abstract!vars
    BY <2>3, HandleRefined
  <2> QED BY <2>1, <2>2, <2>3 DEF Next
<1> QED
  BY <1>1, <1>2, TypeCorrect, BookkeepingHolds, PTL DEF Spec, ImplementsFederation, Abstract!Spec
===========================================================================
