------------------------------ MODULE MCClient -----------------------------
(***************************************************************************)
(* Instances of Client for TLC: many inputs and no time, or few inputs,    *)
(* clocks that differ and half second ticks.                               *)
(***************************************************************************)
EXTENDS Client

Setting(onFlag, onEnv) == [flag |-> onFlag, env |-> onEnv]

Europe    == Url(<<"sts", "eu-west-1", "amazonaws", "com">>)
Fips      == Url(<<"sts-fips", "eu-west-1", "amazonaws", "com">>)
DualStack == Url(<<"sts", "eu-west-1", "api", "aws">>)
China     == Url(<<"sts", "cn-north-1", "amazonaws", "com", "cn">>)
Local     == [Url(<<"localhost">>) EXCEPT !.port = "8443"]

MCWellFormed == {"us-east-1", "eu-west-1", "cn-north-1"}

Plain ==
  [ serverAddr |-> "server", binding |-> "here", region |-> Setting(Unset, Unset),
    endpoint |-> Setting(Unset, Unset), form |-> "header", expiry |-> 2, verify |-> TRUE,
    timeout |-> 1, credentials |-> "chain", caller |-> "alice" ]

Presigned == [Plain EXCEPT !.form = "presigned"]

Places(in) ==
  { [in EXCEPT !.region = r, !.endpoint = e] :
      r \in {Setting(f, v) : f \in MCWellFormed \cup {Unset, "eu_west_1", ""}, v \in {Unset, "eu-west-1"}},
      e \in {Setting(f, v) : f \in {Unset, DefaultEndpoint, Europe, Fips, DualStack, China, Local},
                            v \in {Unset, Europe, Local}} }

OddEndpoints(in) ==
  { [in EXCEPT !.endpoint.flag = u] :
      u \in { [Europe EXCEPT !.scheme = "http"], [Europe EXCEPT !.padded = TRUE],
              [Europe EXCEPT !.parses = FALSE], [Europe EXCEPT !.port = "443"],
              [Europe EXCEPT !.host = @ \o <<"">>], Url(<<"">>),
              [Url(<<"">>) EXCEPT !.port = "443"], [Url(<<"">>) EXCEPT !.scheme = ""] } }

OddValues(in) ==
  { [in EXCEPT !.serverAddr = ""], [in EXCEPT !.binding = ""], [in EXCEPT !.binding = "there"],
    [in EXCEPT !.form = "other"], [in EXCEPT !.verify = FALSE],
    [in EXCEPT !.timeout = 0], [in EXCEPT !.timeout = Unparsable],
    [in EXCEPT !.expiry = Unparsable], [in EXCEPT !.expiry = 0], [in EXCEPT !.expiry = 1],
    [in EXCEPT !.expiry = 3], [in EXCEPT !.expiry = 6], [in EXCEPT !.expiry = 8],
    [in EXCEPT !.credentials = "static"], [in EXCEPT !.credentials = "incomplete"],
    [in EXCEPT !.caller = "bob"], [in EXCEPT !.caller = "nobody"] }

ManyInputs ==
  UNION {Places(in) \cup OddEndpoints(in) \cup OddValues(in) : in \in {Plain, Presigned}}

Server ==
  [ binding |-> "here", maxAge |-> 4, arns |-> {"alice"},
    endpoints |-> {DefaultEndpoint, Europe, China, Local},
    secret |-> "k", secretBytes |-> 2, ttl |-> 2, iss |-> "i", aud |-> "a" ]

OneServer == {Server}

(* Runs under the clock.                                                   *)
FewInputs  == {[in EXCEPT !.timeout = 5] : in \in {Plain, Presigned}}
TwoServers == {Server, [Server EXCEPT !.maxAge = 3, !.ttl = 3]}
AnySkew    == -3..3
NoSkew     == {0}
===========================================================================
