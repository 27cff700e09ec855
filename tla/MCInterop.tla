----------------------------- MODULE MCInterop -----------------------------
(***************************************************************************)
(* An instance of Interop for TLC: every way to write an endpoint that the *)
(* two implementations read differently, and messages no client sends.     *)
(***************************************************************************)
EXTENDS Interop, TLC

Setting(onFlag, onEnv) == [flag |-> onFlag, env |-> onEnv]

Europe == Url(<<"sts", "eu-west-1", "amazonaws", "com">>)
Local  == [Url(<<"localhost">>) EXCEPT !.port = "8443"]
Proxy  == Url(<<"proxy">>)
Zeroed(u) == [u EXCEPT !.port = "0443"]

(* STS.eu-west-1.amazonaws.com, and an endpoint of the allow list.         *)
Capital    == [Europe EXCEPT !.host[1] = "STS"]
LocalTyped == [Local EXCEPT !.host = <<"LocalHost">>]

MCLowered == (Capital.host :> Europe.host) @@ (LocalTyped.host :> Local.host)

Plain ==
  [ serverAddr |-> "server", binding |-> "here", region |-> Setting(Unset, Unset),
    endpoint |-> Setting(Unset, Unset), form |-> "header", expiry |-> 2, verify |-> TRUE,
    timeout |-> 1, credentials |-> "chain", caller |-> "alice" ]

Presigned == [Plain EXCEPT !.form = "presigned"]

Ways ==
  { Europe, Local, [Europe EXCEPT !.port = "443"], [Europe EXCEPT !.padded = TRUE],
    [Europe EXCEPT !.port = "99999"], [Europe EXCEPT !.port = "abc", !.parses = FALSE],
    [Europe EXCEPT !.parses = FALSE], [DefaultEndpoint EXCEPT !.parses = FALSE],
    Zeroed(Europe), Proxy, Zeroed(Proxy), [Europe EXCEPT !.scheme = "http"],
    [Europe EXCEPT !.host = @ \o <<"">>], [Url(<<"">>) EXCEPT !.port = "443"],
    Capital, [Capital EXCEPT !.port = "443"], LocalTyped }

(* Those with a bad escape in the fragment, or a port that is no number.   *)
MCLaxUrls ==
  {u \in Ways : ~u.parses} \ {[Europe EXCEPT !.parses = FALSE]}

MCLeadingZeros == "0443" :> "443"

MCUnsendable == {"accented"}

MCInputs ==
  UNION { {in, [in EXCEPT !.binding = "there"], [in EXCEPT !.binding = "accented"],
           [in EXCEPT !.caller = "bob"], [in EXCEPT !.caller = "nobody"], [in EXCEPT !.expiry = 3],
           [in EXCEPT !.region.flag = "eu-west-1"], [in EXCEPT !.region.env = "eu-west-1"]}
          \cup {[in EXCEPT !.endpoint.flag = u] : u \in Ways}
          \cup {[in EXCEPT !.endpoint.env = u] : u \in Ways} : in \in {Plain, Presigned} }

(* Proofs of a caller who writes requests of his own.                      *)
Written(in, u) == Build(Parse([in EXCEPT !.endpoint.flag = u]), 8)

Some(urls) == {Written(in, u) : in \in {Plain, Presigned}, u \in urls}

Unaltered(e) == [env |-> e, quirks |-> {}]

TwoHosts(e) ==
  {[e EXCEPT !.header = @ @@ (<<Host, k>> :> v)] :
      k \in {0, 2}, v \in {<<HostPort(Local)>>, << >>, <<HostPort(e.url)>>}}

(* No Host, or a spelling of it without a value.                           *)
NoHost(e) ==
  { [e EXCEPT !.header = [k \in DOMAIN @ \ {<<Host, 1>>} |-> @[k]]],
    [e EXCEPT !.header[<<Host, 1>>] = << >>] }

(* Up to two of what may be odd about a form, about a query, about either. *)
FormQuirks  == {"escaped", "binary"}
QueryQuirks == {"algorithm", "credential", "signature", "names", "date", "expires", "action"}
AnyQuirks   == { "goJson", "pyJson", "wrapped", "loose", "fraction", "unsendable",
                 "repeated", "joined", "spelled" }

Odd(e, quirks) == {[env |-> e, quirks |-> {p, q}] : p, q \in quirks}

(* A field of the query occurs twice, and was signed like that; the second *)
(* one is in a pair Go drops.                                              *)
Doubled(e) ==
  { LET value == IF f \in {"algorithm", "credential", "signature"} THEN 2
                 ELSE e.query[f] \o e.query[f]
    IN  [ env |-> [e EXCEPT !.query[f] = value, !.signed.query[f] = value], quirks |-> {f} ] :
    f \in QueryQuirks }

MCForeign ==
  {Unaltered(e) : e \in Some(Ways)}
  \cup {Unaltered(e) : e \in UNION {TwoHosts(w) : w \in Some({Europe, Local, Proxy, Capital})}}
  \cup {Unaltered(e) : e \in UNION {NoHost(w) : w \in Some({Europe, [Europe EXCEPT !.port = "443"], Zeroed(Proxy), LocalTyped})}}
  \cup {Unaltered([e EXCEPT !.json = j]) : e \in Some({Europe}), j \in {"malformed", "oversized"}}
  \cup Odd(Written(Plain, Europe), FormQuirks \cup AnyQuirks)
  \cup Odd(Written(Presigned, Europe), QueryQuirks \cup AnyQuirks)
  \cup Doubled(Written(Presigned, Europe))

Base ==
  [ binding |-> "here", maxAge |-> 4, arns |-> {"alice"},
    endpoints |-> {DefaultEndpoint, Europe, LocalTyped, Zeroed(Proxy)},
    secret |-> "k", secretBytes |-> 2, ttl |-> 3, iss |-> "i", aud |-> "a" ]

MCServers == {Base, [Base EXCEPT !.binding = "accented"]}
===========================================================================
