------------------------------- MODULE Client ------------------------------
(***************************************************************************)
(* One run of the client against one server: load the configuration, get   *)
(* credentials, sign, POST /auth, optionally POST /verify (client/main.go, *)
(* client/internal/transport).  One deadline covers everything after the   *)
(* configuration.                                                          *)
(*                                                                         *)
(* The server takes its decisions with the operators of the server's       *)
(* modules; what may happen to it meanwhile is the matter of AuthServer.   *)
(* now is the server's clock; the client's differs from it by skew.        *)
(***************************************************************************)
EXTENDS ClientProof, Credential

CONSTANTS
  Inputs,       (* command lines and environments, see ClientConfig        *)
  Servers,      (* configurations of the server                            *)
  Callers,      (* identities STS knows                                    *)
  Starts,       (* readings of the clock at the start                      *)
  Skews,        (* how far the client's clock may be ahead                 *)
  NoInput, NoConfig, NoEnvelope, NoAnswer, NoGrant

ASSUME ClientAssumption ==
  /\ Starts \subseteq Int
  /\ Skews \subseteq Int
  /\ NoConfig \notin {Parse(in) : in \in Inputs}
  /\ NoEndpoint \notin {DefaultEndpoint} \cup {StandardEndpoint(in.region.flag) : in \in Inputs}
  /\ \A in \in Inputs :
       /\ DOMAIN in = { "serverAddr", "binding", "region", "endpoint", "form", "expiry",
                        "verify", "timeout", "credentials", "caller" }
       /\ {in.timeout, in.expiry} \subseteq Int \cup {Unparsable}
       /\ Parse(in).endpoint.host \in Seq(STRING)
  /\ \A s \in Servers : s.maxAge \in Int /\ PolicyLoads(s) /\ s.ttl \in Int /\ IssuerLoads(s)

VARIABLES
  now, skew, server,
  stage,        (* how far the run of the client has come                  *)
  input,        (* history: what the client was started with               *)
  cfg,          (* what Load returned                                      *)
  started,      (* when the deadline began to run                          *)
  env, signedOn,      (* the envelope, and when it was signed              *)
  service,      (* how far the server has come with it                     *)
  checkedOn,    (* history: when the server made its local checks          *)
  answer,       (* answer of /auth                                         *)
  granted,      (* [token, at], or NoGrant                                 *)
  verdict       (* answer of /verify with its time, or NoAnswer            *)

vars == <<now, skew, server, stage, input, cfg, started, env, signedOn,
          service, checkedOn, answer, granted, verdict>>

clientVars == <<input, cfg, started, env, signedOn>>
serverVars == <<service, checkedOn, answer, granted, verdict>>
settingVars == <<skew, server>>

Underway == {"loaded", "ready", "posting", "verifying"}

---------------------------------------------------------------------------
(* Mutant: the configuration is not validated.                             *)
LoadUnchecked(in) ==
  /\ stage = "start"
  /\ stage' = "loaded"
  /\ input' = in
  /\ cfg' = Parse(in)
  /\ started' = now
  /\ UNCHANGED <<now, env, signedOn, serverVars, settingVars>>

Load(in) ==
  /\ stage = "start"
  /\ input' = in
  /\ started' = now
  /\ \/ ~Validates(Parse(in)) /\ stage' = "failed" /\ UNCHANGED cfg
     \/ Validates(Parse(in)) /\ stage' = "loaded" /\ cfg' = Parse(in)
  /\ UNCHANGED <<now, env, signedOn, serverVars, settingVars>>

(* loadCredentials, from the chain or the static values.                   *)
Retrieve ==
  /\ stage = "loaded"
  /\ stage' = "ready"
  /\ UNCHANGED <<now, clientVars, serverVars, settingVars>>

(* Mutant: the clock was read before the credentials were there.           *)
PostAuthDatedEarly ==
  /\ stage = "ready"
  /\ stage' = "posting"
  /\ env' = Build(cfg, started + skew)
  /\ signedOn' = now
  /\ UNCHANGED <<now, input, cfg, started, serverVars, settingVars>>

(* The client reads its clock, signs and posts the envelope.               *)
PostAuth ==
  /\ stage = "ready"
  /\ stage' = "posting"
  /\ env' = Build(cfg, now + skew)
  /\ signedOn' = now
  /\ UNCHANGED <<now, input, cfg, started, serverVars, settingVars>>

(* postJSON: anything but a 200 is an error.                               *)
ReceiveToken ==
  /\ stage = "posting"
  /\ answer # NoAnswer
  /\ stage' = IF answer.status # 200 THEN "failed"
              ELSE IF cfg.verify THEN "verifying" ELSE "succeeded"
  /\ UNCHANGED <<now, clientVars, serverVars, settingVars>>

ReceiveClaims ==
  /\ stage = "verifying"
  /\ verdict # NoAnswer
  /\ stage' = IF verdict.answer.status = 200 THEN "succeeded" ELSE "failed"
  /\ UNCHANGED <<now, clientVars, serverVars, settingVars>>

(* Mutant: the context has no deadline.                                    *)
NoDeadline(c, since) == FALSE

DeadlinePassed(c, since) == now - since >= c.timeout

(* What blocks, the credential chain or a request, ends with the context.  *)
Expire ==
  /\ stage \in {"loaded", "posting", "verifying"}
  /\ DeadlinePassed(cfg, started)
  /\ stage' = "failed"
  /\ UNCHANGED <<now, clientVars, serverVars, settingVars>>

(* Any step may return an error of its own: no credentials, no connection, *)
(* an answer that cannot be read.                                          *)
Fail ==
  /\ stage \in Underway
  /\ stage' = "failed"
  /\ UNCHANGED <<now, clientVars, serverVars, settingVars>>

(* Deadlines fire within the tick they are due in; the run is not followed *)
(* beyond its end.                                                         *)
Tick ==
  /\ stage \in Underway
  /\ now - started < cfg.timeout
  /\ now' = now + 1
  /\ UNCHANGED <<stage, clientVars, serverVars, settingVars>>

---------------------------------------------------------------------------
(* The answer to an envelope the server does not send on to STS.           *)
EarlyAnswer(e, t) ==
  LET reason == LocalCheck(server, ExtractProof(e), t)
      err    == DelegationError(server.endpoints, e)
  IN  IF ExtractCheck(e) # Accepted THEN ExtractCheck(e)
      ELSE IF reason # "none" THEN Refusal(RejectionStatus(reason), reason)
      ELSE IF err # "none" THEN WriteAuthError(err)
      ELSE Accepted

(* The envelope reaches the server, even if the client has given up.       *)
Check ==
  /\ service = "idle"
  /\ env # NoEnvelope
  /\ checkedOn' = now
  /\ LET early == EarlyAnswer(env, now)
     IN  \/ early # Accepted /\ service' = "done" /\ answer' = early
         \/ early = Accepted /\ service' = "delegated" /\ UNCHANGED answer
  /\ UNCHANGED <<now, stage, clientVars, settingVars, granted, verdict>>

(* STS: a standard endpoint knows signatures for its own region only.      *)
StsRecognises(e) ==
  /\ Authentic(e)
  /\ e.signed.signer \in Callers
  /\ RegionForSTSHost(TrimDot(e.url.host)) \in {NoRegion, cfg.region}

(* STS answers, or fails; the server refuses or issues.                    *)
Federate ==
  /\ service = "delegated"
  /\ service' = "done"
  /\ \/ /\ ~StsRecognises(env)
        /\ answer' = WriteAuthError("rejected")
        /\ UNCHANGED granted
     \/ /\ answer' = WriteAuthError("infra")
        /\ UNCHANGED granted
     \/ /\ StsRecognises(env)
        /\ env.signed.signer \notin server.arns
        /\ answer' = Refusal(RejectionStatus("arn_not_allowed"), "arn_not_allowed")
        /\ UNCHANGED granted
     \/ /\ StsRecognises(env)
        /\ env.signed.signer \in server.arns
        /\ answer' = Refusal(200, "none")
        /\ granted' = [token |-> IssueCredential(server, "jti", env.signed.signer, now), at |-> now]
  /\ UNCHANGED <<now, stage, clientVars, settingVars, checkedOn, verdict>>

(* POST /verify with the token that was granted.                           *)
AnswerVerify ==
  /\ stage = "verifying"
  /\ verdict = NoAnswer
  /\ verdict' = [answer |-> WriteVerifyAnswer(VerifyToken(server, granted.token, now)), at |-> now]
  /\ UNCHANGED <<now, stage, clientVars, settingVars, service, checkedOn, answer, granted>>

---------------------------------------------------------------------------
Init ==
  /\ now \in Starts
  /\ skew \in Skews
  /\ server \in Servers
  /\ stage = "start"
  /\ input = NoInput
  /\ cfg = NoConfig
  /\ started = now
  /\ env = NoEnvelope
  /\ signedOn = now
  /\ service = "idle"
  /\ checkedOn = now
  /\ answer = NoAnswer
  /\ granted = NoGrant
  /\ verdict = NoAnswer

Run == Retrieve \/ PostAuth \/ ReceiveToken \/ ReceiveClaims \/ Expire

Next ==
  \/ \E in \in Inputs : Load(in)
  \/ Run
  \/ Fail
  \/ Tick
  \/ Check
  \/ Federate
  \/ AnswerVerify

Spec == Init /\ [][Next]_vars

(* The client goes on as far as it can, and time passes. The server, STS   *)
(* and the credential chain owe it nothing.                                *)
FairSpec == Spec /\ WF_vars(Tick) /\ WF_vars(PostAuth \/ ReceiveToken \/ ReceiveClaims \/ Expire)

---------------------------------------------------------------------------
(* Every variable has its type, the client runs only with a configuration  *)
(* that validate accepts, and it posts what it built from that.            *)
TypeOK ==
  /\ {now, skew, started, signedOn, checkedOn} \subseteq Int
  /\ server \in Servers
  /\ stage \in {"start", "succeeded", "failed"} \cup Underway
  /\ input \in Inputs \cup {NoInput}
  /\ cfg # NoConfig => input \in Inputs /\ cfg = Parse(input) /\ Validates(cfg)
  /\ stage \in Underway => cfg # NoConfig
  /\ env # NoEnvelope => cfg # NoConfig /\ env = Build(cfg, signedOn + skew)
  /\ service \in {"idle", "delegated", "done"}
  /\ service # "idle" => env # NoEnvelope

(* A configuration the client accepts never leads to an envelope the       *)
(* server cannot read: whatever the form, the expiry, the endpoint, it     *)
(* passes the extraction, and what is extracted is what was signed         *)
(* (config.go:41-47 and 246-258, proof.go:90-169, auth.go:105-326).        *)
WellReceived ==
  env # NoEnvelope =>
    /\ ExtractCheck(env) = Accepted
    /\ ExtractProof(env) = Meaning(env.signed)

(* A refusal of the client's request has a cause outside the client: the   *)
(* two sides were configured for different bindings or endpoints, the      *)
(* caller is not known or not allowed, the host is not one whose region    *)
(* can be told, or time (StaleExplained); or else the endpoint of a        *)
(* presigned proof names the default port (config.go:207-268).             *)
RefusalExplained ==
  answer # NoAnswer =>
    \/ answer.error \in {"none", "upstream_error", "stale"}
    \/ answer.error = "binding_mismatch" /\ cfg.binding # server.binding
    \/ answer.error = "arn_not_allowed" /\ cfg.caller \notin server.arns
    \/ /\ answer.error = "verification_failed"
       /\ \/ NormalizeEndpoint(cfg.endpoint) \notin AllowedEndpoints(server.endpoints)
          \/ RegionForSTSHost(cfg.endpoint.host) = NoRegion
          \/ cfg.caller \notin Callers
          \/ cfg.form = "presigned" /\ SignedHost(cfg.endpoint) # HostPort(cfg.endpoint)

(* The Host of the envelope is the value that was signed ("Host(서명에 쓴  *)
(* 값)", envelope.go:11 and 39-41).                                        *)
HostIsSigned == env # NoEnvelope => HostAsSigned(env)

(* The client's proof is called stale only if its clock was ahead by more  *)
(* than the way to the server took, or if the way, the lag of its clock and*)
(* less than a second (X-Amz-Date has whole seconds) were longer than the  *)
(* window (service.go:56-71, client/main.go:59).                           *)
StaleExplained ==
  answer # NoAnswer /\ answer.error = "stale" =>
    \/ skew > checkedOn - signedOn
    \/ checkedOn - signedOn - skew + TicksPerSecond > Window(server, ExtractProof(env))

(* What the command line says about one of region and endpoint decides     *)
(* about both, whatever the environment says: it is kept, and the other is *)
(* made to agree (config.go:138-184). China's endpoints must be given, and *)
(* hosts that are not standard tell no region.                             *)
CommandLineDecides ==
  input # NoInput =>
    LET c == Parse(input)
    IN  /\ /\ input.region.flag \notin {Unset} \cup ChinaRegions
           /\ input.endpoint.flag = Unset
           => c.region = input.region.flag /\ RegionAgrees(c)
        /\ /\ input.endpoint.flag # Unset
           /\ input.region.flag = Unset
           /\ ParsesUntrimmed(input.endpoint.flag)
           => c.endpoint = input.endpoint.flag /\ RegionAgrees(c)

(* The token that was just granted passes /verify, unless it was presented *)
(* less than a second before its ttl ran out, or later (client/main.go:92).*)
RoundTrip ==
  verdict # NoAnswer =>
    \/ verdict.answer.status = 200
    \/ verdict.at - granted.at + TicksPerSecond > server.ttl

(* The client ends, whatever its server, its credential chain and STS do   *)
(* (client/main.go:42-46).                                                 *)
EventuallyExits == stage = "loaded" ~> stage \in {"succeeded", "failed"}
===========================================================================
