--------------------------- MODULE MCAuthServer ----------------------------
(***************************************************************************)
(* Instances of AuthServer for TLC: concurrent requests, a clock with half *)
(* second ticks, restarts under another policy.                            *)
(***************************************************************************)
EXTENDS AuthServer, TLC

CONSTANTS r1, r2

Symmetry == Permutations({r1, r2})

AllNames == {Host, AmzDate, Binding}
NoQuery  == [ algorithm |-> 0, credential |-> 0, signature |-> 0,
              names |-> << >>, date |-> << >>, expires |-> << >>, action |-> << >> ]
StsUrl   == [ parses |-> TRUE, padded |-> FALSE, scheme |-> "https",
              host |-> <<"sts", "com">>, port |-> "" ]

(* What the client program signs in each form.                             *)
SignHeader(arn, date, binding) ==
  [ signer |-> arn, form |-> "header", method |-> "POST", names |-> AllNames,
    header |-> (Host :> HostPort(StsUrl)) @@ (AmzDate :> date) @@ (Binding :> binding),
    action |-> <<GetCallerIdentity>>, query |-> NoQuery ]

SignQuery(arn, date, expires, binding) ==
  [ signer |-> arn, form |-> "presigned", method |-> "GET", names |-> {Host, Binding},
    header |-> (Host :> HostPort(StsUrl)) @@ (Binding :> binding),
    action |-> << >>,
    query  |-> [ algorithm |-> 1, credential |-> 1, signature |-> 1,
                 names |-> <<{Host, Binding}>>, date |-> <<date>>,
                 expires |-> <<expires>>, action |-> <<GetCallerIdentity>> ] ]

(* The envelope that carries a signed request unaltered.                   *)
Envelope(s) ==
  [ json |-> "ok", base64 |-> TRUE, method |-> s.method,
    header |-> [k \in {<<n, 1>> : n \in s.names} |-> <<s.header[k[1]]>>]
               @@ (IF s.form = "header" THEN <<Authorization, 1>> :> <<s.names>> ELSE << >>),
    form |-> s.action, url |-> StsUrl, query |-> s.query, signed |-> s ]

Alice     == Envelope(SignHeader("alice", 1, "here"))
Visitor   == Envelope(SignHeader("alice", 1, "there"))
Presigned == Envelope(SignQuery("alice", 0, 1, "here"))

(* Signed without the binding header: the caller meant no server.          *)
WithoutBinding(s) ==
  [s EXCEPT !.names = @ \ {Binding},
            !.header[Binding] = "nobody",
            !.query.names = IF @ = << >> THEN @ ELSE <<@[1] \ {Binding}>>]

(* The header now holds the values v.                                      *)
Put(e, name, spelling, v) == [e EXCEPT !.header = (<<name, spelling>> :> v) @@ @]

(* The binding header is merely attached to what was signed.               *)
Attached == Put(Envelope(WithoutBinding(SignHeader("alice", 1, "here"))), Binding, 1, <<"here">>)

FewEnvelopes == {Alice, Presigned, Attached}

Base == [ binding |-> "here", maxAge |-> 3, arns |-> {"alice"}, endpoints |-> {StsUrl},
          secret |-> "k", secretBytes |-> 2, ttl |-> 3, iss |-> "i", aud |-> "a" ]

TwoConfigs == {Base, [Base EXCEPT !.arns = {"bob"}]}

Declines(status, code, body, final) ==
  [status |-> status, code |-> code, body |-> body, arn |-> "", final |-> final]

Denied == Declines(403, {}, "error", TRUE)
Busy   == Declines(429, {}, "error", FALSE)

FewAnswers == {Denied, Busy}
===========================================================================
