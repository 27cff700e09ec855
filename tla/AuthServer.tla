---------------------------- MODULE AuthServer -----------------------------
(***************************************************************************)
(* The server handling concurrent POST /auth requests: the receiving       *)
(* adapter, the domain core, the delegation to STS and the issuer,         *)
(* composed as main.go composes them.                                      *)
(*                                                                         *)
(* Each request is served by a goroutine of its own; an action is one run  *)
(* of that goroutine between two points where another actor can intervene: *)
(* a reading of the clock, the network, the timer of the HTTP client.  All *)
(* state is in memory: a crash loses every request in flight and nothing   *)
(* else.  The policy never changes while a process runs.                   *)
(***************************************************************************)
EXTENDS StsAdapter, Core, Credential, FiniteSets

CONSTANTS
  Requests,      (* identities of the HTTP requests, and of their tokens   *)
  Envelopes,     (* bodies clients post                                    *)
  Configs,       (* configurations an operator may start the server with   *)
  StsAnswers,    (* answers of STS that vouch for nobody                   *)
  StsTimeout,    (* stsRequestTimeout, in ticks                            *)
  MaxTime,       (* bound: the clock is not followed beyond this tick      *)
  Down, NoAdmission, NoReply, NoAnswer, NoGrant, NoEnvelope

(* A token issued to who for request r under configuration c at time t.    *)
Grant(c, r, who, t) ==
  [token |-> IssueCredential(c, r, who, t), conf |-> c, at |-> t]

(* The answers of /auth.                                                   *)
Answers ==
  [ status : {200}, error : {"none"} ] \cup
  [ status : {400}, error : {"invalid_body", "invalid_signature", "invalid_shape"} ] \cup
  [ status : {401}, error : {"stale", "verification_failed"} ] \cup
  [ status : {403}, error : {"binding_not_signed", "binding_mismatch", "arn_not_allowed"} ] \cup
  [ status : {413}, error : {"body_too_large"} ] \cup
  [ status : {502}, error : {"upstream_error"} ]

(* What STS means: it refuses a caller for good by a 4xx, and says so when *)
(* a limit was in its way, by 429 or in the error code (sts.go:43-60).     *)
MeansWhatItSays(a) ==
  /\ a.code \subseteq {"throttl", "limitexceeded", "toomanyrequests"}
  /\ a.final \in BOOLEAN
  /\ a.final <=> a.status \in 400..499 \ {429} /\ a.code = {} /\ a.body # "unreadable"

ASSUME AuthServerAssumption ==
  /\ StsTimeout \in Nat \ {0}
  /\ MaxTime \in Nat
  /\ Down \notin Configs
  /\ NoEnvelope \notin Envelopes
  /\ NoReply \notin StsAnswers
  /\ NoAdmission \notin [at : 0..MaxTime, conf : Configs]
  /\ NoAnswer \notin Answers
  /\ \A a \in StsAnswers : ReplyOutcome(a) # "identity" /\ MeansWhatItSays(a)
  /\ \A c \in Configs, e \in Envelopes, r \in Requests, t \in 0..MaxTime :
       e.signed # NoSignature => Grant(c, r, e.signed.signer, t) # NoGrant
  /\ \A c \in Configs : c.maxAge \in Int
  /\ \A e \in Envelopes : ExtractCheck(e) = Accepted =>
       ExtractProof(e).signedAt \in Int /\ ExtractProof(e).expiry \in Int

VARIABLES
  now,           (* the wall clock, in ticks                               *)
  conf,          (* configuration of the running process, or Down          *)
  pc,            (* stage of each request                                  *)
  env,           (* envelope of each request                               *)
  waited,        (* ticks the STS call of each request has been under way  *)
  reply,         (* answer of STS on its way to, or read by, each request  *)
  answer,        (* HTTP answer of each request                            *)
  gone,          (* requests whose client closed the connection            *)
  admission,     (* history: when, and under which configuration, the core *)
                 (* found the request fresh                                *)
  delegated,     (* history: requests that were sent to STS                *)
  minted         (* tokens: per request [token, conf, at], or NoGrant      *)

vars == <<now, conf, pc, env, waited, reply, answer, gone, admission, delegated, minted>>

Stages == { "idle", "received", "extracted", "admitted", "delegating",
            "identified", "answered", "lost" }
InFlight == { "received", "extracted", "admitted", "delegating", "identified" }

Proof(r) == ExtractProof(env[r])

---------------------------------------------------------------------------
(* Boot: buildServices refuses a configuration one of the adapters rejects.*)
Boots(c) ==
  /\ PolicyLoads(c)
  /\ IssuerLoads(c)
  /\ AllowedEndpoints(c.endpoints) # {}

Boot(c) ==
  /\ conf = Down
  /\ Boots(c)
  /\ conf' = c
  /\ UNCHANGED <<now, pc, env, waited, reply, answer, gone, admission, delegated, minted>>

(* The process dies: requests in flight are lost, tokens are with clients. *)
Crash ==
  /\ conf # Down
  /\ conf' = Down
  /\ pc' = [r \in Requests |-> IF pc[r] \in InFlight THEN "lost" ELSE pc[r]]
  /\ waited' = [r \in Requests |-> 0]
  /\ UNCHANGED <<now, env, reply, answer, gone, admission, delegated, minted>>

(* The clock moves. The timer of an STS call fires within the tick it is   *)
(* due in. Beyond MaxTime the clock stands still and timers go on.         *)
Tick ==
  /\ \A r \in Requests : pc[r] = "delegating" => waited[r] < StsTimeout
  /\ now' = IF now < MaxTime THEN now + 1 ELSE now
  /\ waited' = [r \in Requests |->
                  IF pc[r] = "delegating" THEN waited[r] + 1 ELSE waited[r]]
  /\ UNCHANGED <<conf, pc, env, reply, answer, gone, admission, delegated, minted>>

---------------------------------------------------------------------------
(* Answering ends the request.                                             *)
Respond(r, a) ==
  /\ pc' = [pc EXCEPT ![r] = "answered"]
  /\ answer' = [answer EXCEPT ![r] = a]

Proceed(r, stage) ==
  /\ pc' = [pc EXCEPT ![r] = stage]
  /\ UNCHANGED answer

StopTimer(r) == waited' = [waited EXCEPT ![r] = 0]

(* A request reaches the running server.                                   *)
Arrive(r, e) ==
  /\ conf # Down
  /\ pc[r] = "idle"
  /\ Proceed(r, "received")
  /\ env' = [env EXCEPT ![r] = e]
  /\ UNCHANGED <<now, conf, waited, reply, gone, admission, delegated, minted>>

(* The client closes its connection: the request's context is cancelled.   *)
Disconnect(r) ==
  /\ pc[r] \in InFlight
  /\ r \notin gone
  /\ gone' = gone \cup {r}
  /\ UNCHANGED <<now, conf, pc, env, waited, reply, answer, admission, delegated, minted>>

(* Handler.Authenticate up to the call of the core.                        *)
Extract(r) ==
  /\ pc[r] = "received"
  /\ \/ /\ ExtractCheck(env[r]) # Accepted
        /\ Respond(r, ExtractCheck(env[r]))
     \/ /\ ExtractCheck(env[r]) = Accepted
        /\ Proceed(r, "extracted")
  /\ UNCHANGED <<now, conf, env, waited, reply, gone, admission, delegated, minted>>

(* Steps 2 to 4 of Service.Authenticate: the core reads its clock.         *)
Admit(r) ==
  /\ pc[r] = "extracted"
  /\ LET reason == LocalCheck(conf, Proof(r), now)
     IN  \/ /\ reason # "none"
            /\ Respond(r, Refusal(RejectionStatus(reason), reason))
            /\ UNCHANGED admission
         \/ /\ reason = "none"
            /\ Proceed(r, "admitted")
            /\ admission' = [admission EXCEPT ![r] = [at |-> now, conf |-> conf]]
  /\ UNCHANGED <<now, conf, env, waited, reply, gone, delegated, minted>>

(* Verifier.VerifyIdentity up to client.Do. A cancelled context fails the  *)
(* call before anything is sent.                                           *)
Delegate(r) ==
  /\ pc[r] = "admitted"
  /\ LET err == DelegationError(conf.endpoints, env[r])
     IN  \/ /\ err # "none"
            /\ Respond(r, WriteAuthError(err))
            /\ UNCHANGED delegated
         \/ /\ err = "none" /\ r \in gone
            /\ Respond(r, WriteAuthError("infra"))
            /\ UNCHANGED delegated
         \/ /\ err = "none" /\ r \notin gone
            /\ Proceed(r, "delegating")
            /\ delegated' = delegated \cup {r}
  /\ UNCHANGED <<now, conf, env, waited, reply, gone, admission, minted>>

(* What STS says when it knows the caller.                                 *)
Vouching(arn) ==
  [status |-> 200, code |-> {}, body |-> "identity", arn |-> arn, final |-> FALSE]

StsReplies == StsAnswers \cup {Vouching(e.signed.signer) : e \in {f \in Envelopes : f.signed # NoSignature}}

(* STS answers, or the network fails. Only what a caller really signed is  *)
(* vouched for; STS may refuse anything.                                   *)
StsVouches(r) ==
  /\ pc[r] = "delegating"
  /\ reply[r] = NoReply
  /\ Authentic(env[r])
  /\ reply' = [reply EXCEPT ![r] = Vouching(env[r].signed.signer)]
  /\ UNCHANGED <<now, conf, pc, env, waited, answer, gone, admission, delegated, minted>>

StsDeclines(r, rep) ==
  /\ pc[r] = "delegating"
  /\ reply[r] = NoReply
  /\ reply' = [reply EXCEPT ![r] = rep]
  /\ UNCHANGED <<now, conf, pc, env, waited, answer, gone, admission, delegated, minted>>

(* The rest of VerifyIdentity: the answer is read and classified.          *)
Receive(r) ==
  /\ pc[r] = "delegating"
  /\ reply[r] # NoReply
  /\ LET outcome == ReplyOutcome(reply[r])
     IN  \/ /\ outcome # "identity"
            /\ Respond(r, WriteAuthError(outcome))
         \/ /\ outcome = "identity"
            /\ Proceed(r, "identified")
  /\ StopTimer(r)
  /\ UNCHANGED <<now, conf, env, reply, gone, admission, delegated, minted>>

(* Mutant: the HTTP client is built without a timeout.                     *)
NeverDue(r) == FALSE

TimerDue(r) == waited[r] >= StsTimeout

(* The timer of the HTTP client, or the cancelled context, ends the call;  *)
(* an answer that is on its way is dropped.                                *)
Abort(r) ==
  /\ pc[r] = "delegating"
  /\ TimerDue(r) \/ r \in gone
  /\ Respond(r, WriteAuthError("infra"))
  /\ reply' = [reply EXCEPT ![r] = NoReply]
  /\ StopTimer(r)
  /\ UNCHANGED <<now, conf, env, gone, admission, delegated, minted>>

(* Mutant: STS having named somebody is enough.                            *)
AnyArn(r) == TRUE

IsAllowedARN(r) == reply[r].arn \in conf.arns

(* Step 7: the identity STS returned is not on the allow list.             *)
RefuseArn(r) ==
  /\ pc[r] = "identified"
  /\ ~IsAllowedARN(r)
  /\ Respond(r, Refusal(RejectionStatus("arn_not_allowed"), "arn_not_allowed"))
  /\ UNCHANGED <<now, conf, env, waited, reply, gone, admission, delegated, minted>>

(* Step 8: the issuer reads its own clock. It ignores the context, so a    *)
(* client that has gone does not stop it.                                  *)
Issue(r) ==
  /\ pc[r] = "identified"
  /\ IsAllowedARN(r)
  /\ minted' = [minted EXCEPT ![r] = Grant(conf, r, reply[r].arn, now)]
  /\ Respond(r, Refusal(200, "none"))
  /\ UNCHANGED <<now, conf, env, waited, reply, gone, admission, delegated>>

(* No randomness for the jti, or the claims do not serialise.              *)
IssueFails(r) ==
  /\ pc[r] = "identified"
  /\ IsAllowedARN(r)
  /\ Respond(r, WriteAuthError("infra"))
  /\ UNCHANGED <<now, conf, env, waited, reply, gone, admission, delegated, minted>>

---------------------------------------------------------------------------
Init ==
  /\ now = 0
  /\ conf = Down
  /\ pc = [r \in Requests |-> "idle"]
  /\ env = [r \in Requests |-> NoEnvelope]
  /\ waited = [r \in Requests |-> 0]
  /\ reply = [r \in Requests |-> NoReply]
  /\ answer = [r \in Requests |-> NoAnswer]
  /\ gone = {}
  /\ admission = [r \in Requests |-> NoAdmission]
  /\ delegated = {}
  /\ minted = [r \in Requests |-> NoGrant]

(* What the goroutine of a request does once its input is there.           *)
Handle(r) ==
  \/ Extract(r)
  \/ Admit(r)
  \/ Delegate(r)
  \/ Receive(r)
  \/ Abort(r)
  \/ RefuseArn(r)
  \/ Issue(r)
  \/ IssueFails(r)

Environment ==
  \/ \E c \in Configs : Boot(c)
  \/ Crash
  \/ Tick
  \/ \E r \in Requests :
       \/ \E e \in Envelopes : Arrive(r, e)
       \/ Disconnect(r)
       \/ StsVouches(r)
       \/ \E rep \in StsAnswers : StsDeclines(r, rep)

Next == Environment \/ \E r \in Requests : Handle(r)

Spec == Init /\ [][Next]_vars

(* The Go scheduler runs every runnable goroutine, and time passes. Neither*)
(* STS nor the clients nor the operator owe the server anything.           *)
Fairness == WF_vars(Tick) /\ \A r \in Requests : WF_vars(Handle(r))

FairSpec == Spec /\ Fairness

---------------------------------------------------------------------------
(* Every variable has its type, a request is in flight only while a process*)
(* runs, and one that is answered has been written one of the answers the  *)
(* API knows (auth.go, writeError).                                        *)
TypeOK ==
  /\ now \in 0..MaxTime
  /\ conf \in Configs \cup {Down}
  /\ pc \in [Requests -> Stages]
  /\ env \in [Requests -> Envelopes \cup {NoEnvelope}]
  /\ \A r \in Requests : /\ pc[r] # "idle" => env[r] \in Envelopes
                         /\ pc[r] \in InFlight => conf \in Configs
  /\ waited \in [Requests -> 0..StsTimeout]
  /\ reply \in [Requests -> StsReplies \cup {NoReply}]
  /\ answer \in [Requests -> Answers \cup {NoAnswer}]
  /\ gone \subseteq Requests
  /\ admission \in [Requests -> [at : 0..MaxTime, conf : Configs] \cup {NoAdmission}]
  /\ delegated \subseteq Requests
  /\ DOMAIN minted = Requests
  /\ \A r \in Requests : minted[r] # NoGrant => minted[r].at \in 0..MaxTime

(* The caller of r, and its claim as it signed it, were entitled to the    *)
(* token r got.                                                            *)
Justified(r) ==
  LET g == minted[r]
      s == env[r].signed
  IN  /\ Authentic(env[r])
      /\ g.token.claims.sub = s.signer
      /\ s.signer \in g.conf.arns
      /\ NormalizeEndpoint(env[r].url) \in AllowedEndpoints(g.conf.endpoints)
      /\ admission[r] # NoAdmission
      /\ admission[r].conf = g.conf
      /\ admission[r].at <= g.at
      /\ LocalCheck(g.conf, Meaning(s), admission[r].at) = "none"

(* A token is justified by what its caller signed, not by what the server  *)
(* happened to read: STS recognised the forwarded request, the token names *)
(* its signer, that signer is on the allow list of the process that minted *)
(* the token, the request went to an endpoint that process trusts, and at  *)
(* a moment of that same process no later than the minting the signed      *)
(* content was bound to this server, asked for the caller's identity and   *)
(* was inside its window (service.go, steps 2 to 8).                       *)
GrantJustified ==
  \A r \in Requests : minted[r] # NoGrant => Justified(r)

(* Nothing leaves the server for STS before every local check has passed,  *)
(* and only towards an endpoint on the allow list (service.go:39-73,       *)
(* sts.go:206-214).                                                        *)
DelegationGated ==
  \A r \in delegated :
    /\ admission[r] # NoAdmission
    /\ ExtractCheck(env[r]) = Accepted
    /\ LocalCheck(admission[r].conf, Proof(r), admission[r].at) = "none"
    /\ NormalizeEndpoint(env[r].url) \in AllowedEndpoints(admission[r].conf.endpoints)

(* A caller is told that its proof is bad only on the word of STS or for   *)
(* an endpoint the server does not trust, never because STS was busy, slow *)
(* or out of reach; and what STS refused for good is not reported as a     *)
(* failure to retry (sts.go:43-60, 228-316, auth.go:328-352).              *)
AnswerExplained ==
  \A r \in Requests :
    /\ answer[r] = WriteAuthError("rejected") =>
          \/ r \notin delegated
          \/ reply[r] # NoReply /\ reply[r].final
    /\ answer[r] = WriteAuthError("infra") =>
          reply[r] = NoReply \/ ~reply[r].final

(* The same posted envelope, replayed any number of times to one server    *)
(* configuration, is admitted only within one window: two admissions are   *)
(* never further apart than the maximum age, nor than the expiry the       *)
(* caller chose (service.go:59-71).                                        *)
ReplayBounded ==
  \A q, r \in Requests :
    /\ admission[q] # NoAdmission
    /\ admission[r] # NoAdmission
    /\ admission[q].conf = admission[r].conf
    /\ env[q] = env[r]
    => admission[r].at - admission[q].at <= Window(admission[q].conf, Proof(q))

(* Whenever STS would recognise a request, what the server read off it is  *)
(* what its caller signed: no second spelling or unsigned copy of a header,*)
(* no other value of the query, reaches a decision (auth.go:170-326). The  *)
(* decisions themselves are made before anybody asks STS.                  *)
ExtractionFaithful ==
  \A r \in Requests :
    pc[r] = "extracted" /\ Authentic(env[r]) => Proof(r) = Meaning(env[r].signed)

(* The inductive invariant behind the safety properties: what each stage   *)
(* of a request has already established (StageInv), and what the history   *)
(* variables record of it (HistoryInv). It holds because the handler has no*)
(* path to STS or to the issuer around a check (service.go:36-94).         *)
StageInv(r) ==
  /\ pc[r] = "extracted" => ExtractCheck(env[r]) = Accepted
  /\ pc[r] \in {"admitted", "delegating", "identified"} =>
        admission[r] # NoAdmission /\ admission[r].conf = conf
  /\ pc[r] \in {"delegating", "identified"} => r \in delegated
  /\ pc[r] = "identified" =>
        reply[r] # NoReply /\ ReplyOutcome(reply[r]) = "identity"

HistoryInv(r) ==
  /\ pc[r] \in {"idle", "received", "extracted"} => admission[r] = NoAdmission
  /\ admission[r] # NoAdmission =>
       /\ ExtractCheck(env[r]) = Accepted
       /\ admission[r].at <= now
       /\ LocalCheck(admission[r].conf, Proof(r), admission[r].at) = "none"
  /\ pc[r] \in {"idle", "received", "extracted", "admitted"} =>
       r \notin delegated /\ reply[r] = NoReply
  /\ r \in delegated =>
       /\ admission[r] # NoAdmission
       /\ NormalizeEndpoint(env[r].url) \in AllowedEndpoints(admission[r].conf.endpoints)
  /\ reply[r] # NoReply =>
       \/ reply[r] \in StsAnswers
       \/ Authentic(env[r]) /\ reply[r] = Vouching(env[r].signed.signer)
  /\ pc[r] # "answered" => minted[r] = NoGrant
  /\ minted[r] # NoGrant => Justified(r)

Bookkeeping == \A r \in Requests : StageInv(r) /\ HistoryInv(r)

(* Every request a server takes up is answered, whatever STS does, unless  *)
(* the process dies under it (main.go:39, the timeout of the HTTP client). *)
EventuallyAnswered ==
  \A r \in Requests : pc[r] = "received" ~> pc[r] \in {"answered", "lost"}

---------------------------------------------------------------------------
(* The abstract view: each request is a session.                           *)
AbstractSession(r) ==
  CASE minted[r] # NoGrant ->
         [stage |-> "granted", by |-> minted[r].token.claims.sub, under |-> minted[r].conf]
    [] minted[r] = NoGrant /\ pc[r] \in {"idle", "received", "extracted"} ->
         [stage |-> "unseen"]
    [] minted[r] = NoGrant /\ pc[r] \in {"admitted", "delegating"} ->
         [stage |-> "admitted", claim |-> Proof(r)]
    [] minted[r] = NoGrant /\ pc[r] = "identified" ->
         [stage |-> "attested", by |-> reply[r].arn]
    [] OTHER -> [stage |-> "dropped"]

Abstract == INSTANCE Federation WITH
  Sessions   <- Requests,
  Claimable  <- {ExtractProof(e) : e \in {f \in Envelopes : ExtractCheck(f) = Accepted}},
  Statements <- {[signer |-> e.signed.signer, claim |-> Meaning(e.signed)] :
                   e \in {f \in Envelopes : f.signed # NoSignature}},
  Policies   <- Configs,
  Closed     <- Down,
  policy     <- conf,
  session    <- [r \in Requests |-> AbstractSession(r)]

(* The server keeps the promise of Federation: whoever is granted a token  *)
(* passed, in this order and under one and the same policy, admission on   *)
(* its claim, attestation of that claim and the allow list                 *)
(* (service.go:36-94, main.go:115-182).                                    *)
ImplementsFederation == Abstract!Spec
===========================================================================
