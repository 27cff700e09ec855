---------------------------- MODULE StsAdapter -----------------------------
(***************************************************************************)
(* Delegation to AWS STS (adapter/outbound/sts/sts.go): which endpoint may *)
(* be called, how an answer is classified, and what STS itself, which is   *)
(* not part of the repository, vouches for.                                *)
(*                                                                         *)
(* A URL is [parses, padded, scheme, host, port]: parses says that it      *)
(* parses once surrounding white space is trimmed, padded that there is    *)
(* white space before it, host is the sequence of the labels of the host   *)
(* name (a trailing dot leaves an empty last label, no host is <<"">>).    *)
(* Scheme and host are already lower-cased.                                *)
(*                                                                         *)
(* An answer of STS is [status, code, body, arn, final]; status NoResponse *)
(* is a transport failure, code the set of the markers its error code      *)
(* contains, and final tells whether STS refused the caller for good (it is*)
(* no part of the message; only properties look at it).                    *)
(***************************************************************************)
EXTENDS Inbound

CONSTANT NoEndpoint   (* what normalizeEndpoint returns for an unusable URL *)

(* The envelope carries no signature STS could check.                      *)
NoSignature == [form |-> "none"]

NoResponse == 0

---------------------------------------------------------------------------
(* One trailing dot of a host name is cut off.                             *)
TrimDot(labels) ==
  IF Len(labels) > 1 /\ labels[Len(labels)] = ""
  THEN SubSeq(labels, 1, Len(labels) - 1)
  ELSE labels

(* The key an endpoint is compared by: https only, the default port filled *)
(* in.                                                                     *)
NormalizeEndpoint(u) ==
  IF \/ ~u.parses
     \/ u.scheme # "https"
     \/ TrimDot(u.host) = <<"">>
  THEN NoEndpoint
  ELSE <<TrimDot(u.host), IF u.port = "" THEN "443" ELSE u.port>>

(* The allow list a Verifier is built with.                                *)
AllowedEndpoints(urls) == {NormalizeEndpoint(u) : u \in urls} \ {NoEndpoint}

(* Mutant: the allow list is not consulted.                                *)
UnlistedDelegationError(urls, env) ==
  IF env.url.padded THEN "infra" ELSE "none"

(* What stops a delegation before anything is sent: "rejected" for an      *)
(* endpoint outside the allow list, "infra" when the request cannot be     *)
(* rebuilt (NewRequest parses the URL untrimmed), "none" otherwise.        *)
DelegationError(urls, env) ==
  IF NormalizeEndpoint(env.url) \notin AllowedEndpoints(urls) THEN "rejected"
  ELSE IF env.url.padded THEN "infra"
  ELSE "none"

(* What a Host header says for a URL.                                      *)
HostPort(u) == <<u.host, u.port>>

(* The Host the rebuilt request carries: the first value of any spelling   *)
(* of the header (the map is iterated in no defined order), the host of    *)
(* the URL when there is none.                                             *)
ForwardedHosts(env) ==
  LET keys == {k \in DOMAIN env.header : k[1] = Host /\ env.header[k] # << >>}
  IN  IF keys = {} THEN {HostPort(env.url)} ELSE {env.header[k][1] : k \in keys}

---------------------------------------------------------------------------
(* Mutant: every 4xx is a refusal.                                         *)
NeverTransient(code) == FALSE

IsTransientCode(code) ==
  code \cap {"throttl", "limitexceeded", "toomanyrequests"} # {}

ClassifyErrorResponse(reply) ==
  IF /\ reply.status \in 400..499
     /\ reply.status # 429
     /\ ~IsTransientCode(reply.code)
  THEN "rejected"
  ELSE "infra"

(* How an answer of STS ends the delegation. The body is read before the   *)
(* status is looked at; its size only matters for a 200.                   *)
ReplyOutcome(reply) ==
  IF reply.status = NoResponse \/ reply.body = "unreadable" THEN "infra"
  ELSE IF reply.status \in 300..399 THEN "infra"
  ELSE IF reply.status # 200 THEN ClassifyErrorResponse(reply)
  ELSE IF reply.body \in {"oversized", "malformed", "no_arn"} THEN "infra"
  ELSE "identity"

---------------------------------------------------------------------------
(* STS. A caller signed [signer, form, method, names, header, action,      *)
(* query]: names are the signed header names, header their values, action  *)
(* and query the body and the query string. STS recognises a forwarded     *)
(* request exactly when it is what was signed; headers outside names are   *)
(* no part of the signature and are ignored.                               *)
Carries(env, name, value) ==
  /\ Single(HeaderValues(env.header, name))
  /\ HeaderValue(env.header, name) = value

(* Everything but the Host is as it was signed.                            *)
AsSigned(env) ==
  LET s == env.signed
  IN  /\ s # NoSignature
      /\ env.base64
      /\ env.method = s.method
      /\ env.form = s.action
      /\ env.query = s.query
      /\ IF s.form = "header"
         THEN Carries(env, Authorization, s.names)
         ELSE ~IsHeaderForm(env) /\ s.query.names = <<s.names>>
      /\ \A n \in s.names \ {Host} : Carries(env, n, s.header[n])

(* The Host the rebuilt request may carry is the one that was signed.      *)
HostAsSigned(env) == env.signed.header[Host] \in ForwardedHosts(env)

Authentic(env) == AsSigned(env) /\ HostAsSigned(env)

(* The claim a signed request makes: what a caller meant by signing it.    *)
Meaning(s) ==
  IF s.form = "header"
  THEN [ form     |-> "header",
         method   |-> s.method,
         binding  |-> s.header[Binding],
         signedAt |-> Instant(s.header[AmzDate]),
         expiry   |-> 0,
         action   |-> SoleAction(s.action) ]
  ELSE [ form     |-> "presigned",
         method   |-> s.method,
         binding  |-> s.header[Binding],
         signedAt |-> Instant(s.query.date[1]),
         expiry   |-> Instant(s.query.expires[1]),
         action   |-> SoleAction(s.query.action) ]
===========================================================================
