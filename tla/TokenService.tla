--------------------------- MODULE TokenService ----------------------------
(***************************************************************************)
(* The life of a token: issued by one process, presented to POST /verify   *)
(* of that process or of a later one (adapter/inbound/verify.go), possibly *)
(* started with another secret, issuer, audience or ttl.  Nothing but the  *)
(* token itself connects the two ends; both read the wall clock, which an  *)
(* operator or NTP may set back.                                           *)
(***************************************************************************)
EXTENDS Credential, HttpApi

CONSTANTS
  Tokens,       (* identities (jti) of the tokens this service issues      *)
  Strangers,    (* tokens somebody else made                               *)
  Settings,     (* jwt sections an operator may start the server with      *)
  MaxTime,      (* bound: the clock stays in 0..MaxTime                    *)
  Down, NoGrant, NoVerdict

ASSUME TokenServiceAssumption ==
  /\ MaxTime \in Nat
  /\ Down \notin Settings
  /\ \A c \in Settings : c.ttl \in Int

VARIABLES
  now,          (* the wall clock, in ticks                                *)
  conf,         (* jwt section of the running process, or Down             *)
  granted,      (* per token [token, conf, at], or NoGrant                 *)
  verdict       (* history: the last answer of /verify                     *)

vars == <<now, conf, granted, verdict>>

---------------------------------------------------------------------------
(* Mutant: the error of issuer.Load is ignored.                            *)
BootUnchecked(c) ==
  /\ conf = Down
  /\ conf' = c
  /\ verdict' = NoVerdict
  /\ UNCHANGED <<now, granted>>

(* buildServices hands one set of parameters to the issuer, the inspector  *)
(* and the verify policy.                                                  *)
Boot(c) ==
  /\ conf = Down
  /\ IssuerLoads(c)
  /\ conf' = c
  /\ verdict' = NoVerdict
  /\ UNCHANGED <<now, granted>>

Stop ==
  /\ conf # Down
  /\ conf' = Down
  /\ verdict' = NoVerdict
  /\ UNCHANGED <<now, granted>>

Tick ==
  /\ now < MaxTime
  /\ now' = now + 1
  /\ verdict' = NoVerdict
  /\ UNCHANGED <<conf, granted>>

SetBack(t) ==
  /\ t < now
  /\ now' = t
  /\ verdict' = NoVerdict
  /\ UNCHANGED <<conf, granted>>

Issue(k) ==
  /\ conf # Down
  /\ granted[k] = NoGrant
  /\ granted' = [granted EXCEPT ![k] =
                   [token |-> IssueCredential(conf, k, "arn", now), conf |-> conf, at |-> now]]
  /\ verdict' = NoVerdict
  /\ UNCHANGED <<now, conf>>

Bodies == {"ok", "malformed", "oversized"}

(* Handler.Verify for a posted body that carries the token tok.            *)
VerifyAnswer(json, tok) ==
  IF BindJSONBody(json) # Accepted THEN BindJSONBody(json)
  ELSE IF tok.segments = 0 THEN Refusal(400, "invalid_body")
  ELSE WriteVerifyAnswer(VerifyToken(conf, tok, now))

Verify(json, tok) ==
  /\ conf # Down
  /\ verdict' = [token |-> tok, answer |-> VerifyAnswer(json, tok)]
  /\ UNCHANGED <<now, conf, granted>>

Issued == {k \in Tokens : granted[k] # NoGrant}

Presented == Strangers \cup {granted[k].token : k \in Issued}

Init ==
  /\ now = 0
  /\ conf = Down
  /\ granted = [k \in Tokens |-> NoGrant]
  /\ verdict = NoVerdict

Next ==
  \/ \E c \in Settings : Boot(c)
  \/ Stop
  \/ Tick
  \/ \E t \in 0..MaxTime : SetBack(t)
  \/ \E k \in Tokens : Issue(k)
  \/ \E json \in Bodies, tok \in Presented : Verify(json, tok)

Spec == Init /\ [][Next]_vars

---------------------------------------------------------------------------
(* Two jwt sections whose tokens are interchangeable.                      *)
SameIssuer(c, d) == c.secret = d.secret /\ c.iss = d.iss /\ c.aud = d.aud

TypeOK ==
  /\ now \in 0..MaxTime
  /\ conf \in {c \in Settings : IssuerLoads(c)} \cup {Down}
  /\ DOMAIN granted = Tokens
  /\ \A k \in Issued :
       /\ granted[k].conf \in {c \in Settings : IssuerLoads(c)}
       /\ granted[k].at \in 0..MaxTime
       /\ granted[k].token =
            IssueCredential(granted[k].conf, k, "arn", granted[k].at)
  /\ verdict # NoVerdict => conf # Down /\ verdict.token \in Presented

(* The inductive invariant: an answer of /verify is the one the code gives *)
(* to that token here and now; nothing about a token is remembered between *)
(* two calls (verify.go:37-93).                                            *)
VerdictExact ==
  verdict # NoVerdict =>
    /\ conf # Down
    /\ \E json \in Bodies : verdict.answer = VerifyAnswer(json, verdict.token)

(* A token of this service is accepted only by a process that shares the   *)
(* secret, the issuer and the audience of the one that issued it, however  *)
(* many restarts lie between, and only before the ttl in force when it was *)
(* issued has run out (issuer.go:75-103, verify_service.go:29-53).         *)
AcceptedOnlyInLife ==
  \A k \in Issued :
    /\ verdict # NoVerdict
    /\ verdict.token = granted[k].token
    /\ verdict.answer.status = 200
    => /\ SameIssuer(granted[k].conf, conf)
       /\ now < granted[k].at + granted[k].conf.ttl

(* Conversely such a process honours it: the truncation to seconds on both *)
(* ends takes less than one second off the ttl, and a later change of the  *)
(* ttl, or a clock set back behind the issuing, takes nothing off.         *)
HonouredInLife ==
  \A k \in Issued :
    /\ verdict # NoVerdict
    /\ verdict.token = granted[k].token
    /\ verdict.answer.error # "invalid_body" /\ verdict.answer.error # "body_too_large"
    /\ SameIssuer(granted[k].conf, conf)
    /\ now + TicksPerSecond <= granted[k].at + granted[k].conf.ttl
    => verdict.answer.status = 200

(* No configuration the server starts with issues tokens that are expired  *)
(* when the client receives them (issuer/config.go:32-34).                 *)
BornAlive ==
  \A k \in Issued :
    VerifyToken(granted[k].conf, granted[k].token, granted[k].at) = "valid"

(* A token somebody else made is accepted only if it bears the secret, the *)
(* issuer and the audience of the process it is shown to.                  *)
StrangersRefused ==
  /\ verdict # NoVerdict
  /\ verdict.token \in Strangers
  /\ verdict.answer.status = 200
  => /\ verdict.token.key = conf.secret
     /\ verdict.token.claims.iss = conf.iss
     /\ verdict.token.claims.aud = conf.aud
===========================================================================
