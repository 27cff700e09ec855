--------------------------- MODULE MCAuthInbound ---------------------------
(***************************************************************************)
(* One request at a time, over a wide set of envelopes: what callers may   *)
(* sign, altered in up to two places on the way or by the sender.          *)
(***************************************************************************)
EXTENDS MCAuthServer

Signed ==
  LET posts == {SignHeader(who, 1, b) : who \in {"alice", "bob"}, b \in {"here", "there"}}
      gets  == {SignQuery("alice", 0, x, b) : x \in {1, 2}, b \in {"here", "there"}}
  IN  posts \cup gets \cup {WithoutBinding(s) : s \in {SignHeader("alice", 1, "here"),
                                                         SignQuery("alice", 0, 1, "here")}}

AlteredHeaders(e) ==
  { Put(e, Binding, 1, <<"here">>), Put(e, Binding, 2, <<"here">>),
    Put(e, Binding, 1, << >>), Put(e, Binding, 1, <<"there", "here">>),
    Put(e, AmzDate, 1, <<0>>), Put(e, AmzDate, 2, <<1>>),
    Put(e, AmzDate, 1, <<Unparsable>>), Put(e, AmzDate, 1, << >>),
    Put(e, Authorization, 1, << {} >>), Put(e, Authorization, 2, <<AllNames>>),
    Put(e, Authorization, 1, << >>), Put(e, Authorization, 1, <<{Host, AmzDate}>>),
    Put(e, Host, 2, << <<<<"elsewhere">>, "">> >>) }

AlteredQueries(e) ==
  { [e EXCEPT !.query.algorithm = 1 - @], [e EXCEPT !.query.signature = 2],
    [e EXCEPT !.query.names = <<{Host, Binding}, {Host}>>],
    [e EXCEPT !.query.date = <<0, 1>>], [e EXCEPT !.query.date = <<Unparsable>>],
    [e EXCEPT !.query.expires = <<0>>], [e EXCEPT !.query.expires = <<3>>],
    [e EXCEPT !.query.expires = <<4>>], [e EXCEPT !.query.expires = <<Unparsable>>],
    [e EXCEPT !.query.action = <<GetCallerIdentity, "other">>] }

AlteredUrls(e) ==
  { [e EXCEPT !.url.parses = FALSE], [e EXCEPT !.url.padded = TRUE],
    [e EXCEPT !.url.scheme = "http"], [e EXCEPT !.url.host = <<"elsewhere">>],
    [e EXCEPT !.url.host = <<"">>], [e EXCEPT !.url.host = <<"", "">>],
    [e EXCEPT !.url.host = @ \o <<"">>], [e EXCEPT !.url.host = @ \o <<"", "">>],
    [e EXCEPT !.url.port = "443"], [e EXCEPT !.url.port = "8443"] }

AlteredBodies(e) ==
  { [e EXCEPT !.json = "malformed"], [e EXCEPT !.json = "oversized"],
    [e EXCEPT !.base64 = FALSE], [e EXCEPT !.method = "PUT"],
    [e EXCEPT !.form = @ \o <<"other">>], [e EXCEPT !.signed = NoSignature] }

Altered(e) ==
  {e} \cup AlteredHeaders(e) \cup AlteredQueries(e) \cup AlteredUrls(e) \cup AlteredBodies(e)

Unaltered == {Envelope(s) : s \in Signed}
Unbound   == {e \in Unaltered : Binding \notin e.signed.names}

AllEnvelopes ==
  UNION {Altered(e) : e \in Unaltered}
  \cup UNION {Altered(e) : e \in UNION {AlteredHeaders(f) :
                f \in Unbound \cup {Alice, Visitor, Presigned}}}

(* The last two cannot be booted.                                          *)
AllConfigs ==
  { Base,
    [Base EXCEPT !.maxAge = 0],
    [Base EXCEPT !.endpoints = {[StsUrl EXCEPT !.scheme = "http"]}] }

AllAnswers ==
  { Denied, Busy,
    Declines(NoResponse, {}, "none", FALSE),
    Declines(403, {}, "oversized", TRUE),
    Declines(403, {}, "unreadable", FALSE),
    Declines(400, {"throttl"}, "error", FALSE),
    Declines(302, {}, "none", FALSE),
    Declines(503, {}, "error", FALSE),
    Declines(200, {}, "oversized", FALSE),
    Declines(200, {}, "malformed", FALSE),
    Declines(200, {}, "no_arn", FALSE) }
===========================================================================
