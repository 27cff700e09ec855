---------------------------- MODULE ClientProof ----------------------------
(***************************************************************************)
(* What the client signs and posts (client/internal/proof): a request of   *)
(* GetCallerIdentity in either form, and the JSON envelope that carries it.*)
(* The AWS signer, a library, signs every header the request has.          *)
(***************************************************************************)
EXTENDS ClientConfig, Core

ContentType == "content-type"

(* The one value each header has. Keys are spelled in one way only.        *)
Headers(names, value) ==
  [k \in {<<n, 1>> : n \in names} |-> <<value[k[1]]>>]

NoQuery ==
  [ algorithm |-> 0, credential |-> 0, signature |-> 0,
    names |-> << >>, date |-> << >>, expires |-> << >>, action |-> << >> ]

---------------------------------------------------------------------------
(* The Host the signer covers, without the default port of https. SignHTTP *)
(* leaves it in the request, PresignHTTP works on a copy of the request.   *)
SignedHost(u) ==
  IF u.scheme = "https" /\ u.port = "443" THEN <<u.host, "">> ELSE HostPort(u)

(* Header form, signed at time t: what SignHTTP covers.                    *)
SignHTTP(c, t) ==
  [ signer |-> c.caller, form |-> "header", method |-> "POST",
    names  |-> {Host, ContentType, AmzDate, Binding},
    header |-> [ n \in {Host, ContentType, AmzDate, Binding} |->
                   CASE n = Host -> SignedHost(c.endpoint)
                     [] n = AmzDate -> Seconds(t)
                     [] n = Binding -> c.binding
                     [] OTHER -> "form" ],
    action |-> <<GetCallerIdentity>>,
    query  |-> NoQuery ]

(* The header the signature travels in is added to those it covers, Host   *)
(* is copied from the request.                                             *)
EnvelopeFromRequest(c, s) ==
  [ json |-> "ok", base64 |-> TRUE, method |-> s.method,
    header |-> Headers(s.names \cup {Authorization},
                       [n \in s.names \cup {Authorization} |->
                          IF n = Authorization THEN s.names ELSE s.header[n]]),
    form |-> s.action, url |-> c.endpoint, query |-> s.query, signed |-> s ]

BuildProof(c, t) == EnvelopeFromRequest(c, SignHTTP(c, t))

---------------------------------------------------------------------------
(* Mutant: the binding is attached to a request that is signed already.    *)
BoundAfterwards(c, t) == {Host}

(* The headers a presigned request has: X-Server-Binding does not start    *)
(* with X-Amz- and is not moved to the query.                              *)
PresignedNames(c, t) == {Host, Binding}

(* Presigned form, signed at time t: what PresignHTTP covers.              *)
PresignHTTP(c, t) ==
  [ signer |-> c.caller, form |-> "presigned", method |-> "GET",
    names  |-> PresignedNames(c, t),
    header |-> [n \in {Host, Binding} |-> IF n = Host THEN SignedHost(c.endpoint) ELSE c.binding],
    action |-> << >>,
    query  |-> [ algorithm |-> 1, credential |-> 1, signature |-> 1,
                 names |-> <<PresignedNames(c, t)>>, date |-> <<Seconds(t)>>,
                 expires |-> <<Seconds(c.expiry)>>, action |-> <<GetCallerIdentity>> ] ]

(* Binding and the Host of the URL are the headers, whatever was signed.   *)
PresignedEnvelope(c, s) ==
  [ json |-> "ok", base64 |-> TRUE, method |-> s.method,
    header |-> Headers({Binding, Host},
                       [n \in {Host, Binding} |-> IF n = Host THEN HostPort(c.endpoint) ELSE c.binding]),
    form |-> s.action, url |-> c.endpoint, query |-> s.query, signed |-> s ]

BuildPresignedProof(c, t) == PresignedEnvelope(c, PresignHTTP(c, t))

---------------------------------------------------------------------------
(* The envelope the client posts under configuration c at its time t.      *)
Build(c, t) ==
  IF c.form = "presigned" THEN BuildPresignedProof(c, t) ELSE BuildProof(c, t)
===========================================================================
