------------------------------ MODULE Inbound ------------------------------
(***************************************************************************)
(* The receiving adapter of POST /auth (adapter/inbound/auth.go): from the *)
(* JSON envelope a client posted to the values the core decides on.        *)
(*                                                                         *)
(* An envelope is a record:                                                *)
(*   json    how reading the HTTP body ended: "ok", "malformed" or         *)
(*           "oversized" (more than maxBodyBytes)                          *)
(*   base64  whether the "body" field decodes                              *)
(*   method  method of the request to forward                              *)
(*   header  its header map: a function from keys <<name, spelling>> to    *)
(*           sequences of values.  The name is the lower-cased one; two    *)
(*           JSON keys that differ in case only are two spellings of it    *)
(*   form    the Action values of the decoded form body, in order          *)
(*   url     [parses, padded, scheme, host, port], see StsAdapter          *)
(*   query   of that URL: [algorithm, credential, signature] are numbers   *)
(*           of values; [names, date, expires, action] sequences of values *)
(*   signed  what the caller signed, or NoSignature, see StsAdapter        *)
(*                                                                         *)
(* The value of "authorization" is the set of names its SignedHeaders      *)
(* segment lists, that of "x-amz-date" a number of seconds or Unparsable.  *)
(***************************************************************************)
EXTENDS WallClock, HttpApi, Sequences

CONSTANTS
  Unparsable,               (* a date or a number that does not parse      *)
  MaxPresignExpirySeconds   (* upper bound of X-Amz-Expires                *)

ASSUME InboundAssumption == MaxPresignExpirySeconds \in Nat \ {0} /\ Unparsable \notin Int

Authorization == "authorization"
AmzDate       == "x-amz-date"
Binding       == "x-server-binding"
Host          == "host"

Single(S) == \E x \in S : S = {x}
The(S)    == CHOOSE x \in S : TRUE

---------------------------------------------------------------------------
(* Every occurrence <<key, index>> of a header, whatever its spelling. The *)
(* map is iterated in no defined order, so the result is a set.            *)
HeaderValues(h, name) ==
  UNION {{<<k, i>> : i \in DOMAIN h[k]} : k \in {key \in DOMAIN h : key[1] = name}}

HeaderValue(h, name) ==
  LET o == The(HeaderValues(h, name)) IN h[o[1]][o[2]]

(* Mutant: a header outside the signed scope is believed.                  *)
SingleValue(h, signed, name) == Single(HeaderValues(h, name))

(* The header occurs exactly once and inside the signed scope.             *)
SingleSignedValue(h, signed, name) ==
  Single(HeaderValues(h, name)) /\ name \in signed

SignedBinding(h, signed) ==
  IF SingleSignedValue(h, signed, Binding)
  THEN Accepted
  ELSE Refusal(403, "binding_not_signed")

(* The one Action value; none or several give the empty action.            *)
SoleAction(values) == IF Len(values) = 1 THEN values[1] ELSE ""

---------------------------------------------------------------------------
(* Header form: the signature travels in the Authorization header.         *)
IsHeaderForm(env) == HeaderValues(env.header, Authorization) # {}

HeaderFormCheck(env) ==
  LET h      == env.header
      signed == HeaderValue(h, Authorization)
  IN  IF \/ ~Single(HeaderValues(h, Authorization))
         \/ signed = {}
         \/ ~SingleSignedValue(h, signed, AmzDate)
         \/ HeaderValue(h, AmzDate) = Unparsable
      THEN Refusal(400, "invalid_signature")
      ELSE SignedBinding(h, signed)

HeaderFormProof(env) ==
  [ form     |-> "header",
    method   |-> env.method,
    binding  |-> HeaderValue(env.header, Binding),
    signedAt |-> Instant(HeaderValue(env.header, AmzDate)),
    expiry   |-> 0,
    action   |-> SoleAction(env.form) ]

---------------------------------------------------------------------------
(* Presigned form: the signature, its date and its expiry are in the URL   *)
(* query; the binding stays a real header.                                 *)
ExpiresInRange(v) == v # Unparsable /\ v > 0 /\ v <= MaxPresignExpirySeconds

PresignedFormCheck(env) ==
  LET q == env.query
  IN  IF \/ ~env.url.parses \/ env.url.padded
         \/ q.algorithm # 1 \/ q.credential # 1 \/ q.signature # 1
         \/ Len(q.names) # 1 \/ q.names[1] = {}
         \/ Len(q.date) # 1 \/ q.date[1] = Unparsable
         \/ Len(q.expires) # 1 \/ ~ExpiresInRange(q.expires[1])
      THEN Refusal(400, "invalid_signature")
      ELSE SignedBinding(env.header, q.names[1])

PresignedFormProof(env) ==
  [ form     |-> "presigned",
    method   |-> env.method,
    binding  |-> HeaderValue(env.header, Binding),
    signedAt |-> Instant(env.query.date[1]),
    expiry   |-> Instant(env.query.expires[1]),
    action   |-> SoleAction(env.query.action) ]

---------------------------------------------------------------------------
(* What the handler does before it calls the core.                         *)
ExtractCheck(env) ==
  IF BindJSONBody(env.json) # Accepted THEN BindJSONBody(env.json)
  ELSE IF ~env.base64 THEN Refusal(400, "invalid_body")
  ELSE IF IsHeaderForm(env) THEN HeaderFormCheck(env)
  ELSE PresignedFormCheck(env)

ExtractProof(env) ==
  IF IsHeaderForm(env) THEN HeaderFormProof(env) ELSE PresignedFormProof(env)
===========================================================================
