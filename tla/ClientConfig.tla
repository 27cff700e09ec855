--------------------------- MODULE ClientConfig ----------------------------
(***************************************************************************)
(* The configuration of the client (client/internal/config/config.go):     *)
(* which region it signs for, which endpoint it signs for, and what it     *)
(* refuses to start with.                                                  *)
(*                                                                         *)
(* An input is [serverAddr, binding, region, endpoint, form, expiry,       *)
(* verify, timeout, credentials, caller].  Region and endpoint are given as*)
(* [flag, env], either of which may be Unset; the others as the value that *)
(* wins, durations as ticks or Unparsable.  credentials is "chain",        *)
(* "static" or "incomplete" (static without both keys), caller whose       *)
(* credentials they are.  A configuration has the same fields with one     *)
(* region and one endpoint.  Endpoints are URLs as in StsAdapter.          *)
(***************************************************************************)
EXTENDS StsAdapter

CONSTANTS
  Unset,
  NoRegion,           (* the host does not tell a region                   *)
  WellFormedRegions,  (* what matches awsRegionRe                          *)
  ChinaRegions        (* what starts with "cn-"                            *)

DefaultRegion == "us-east-1"

Url(host) ==
  [parses |-> TRUE, padded |-> FALSE, scheme |-> "https", host |-> host, port |-> ""]

DefaultEndpoint == Url(<<"sts", "amazonaws", "com">>)

---------------------------------------------------------------------------
(* The region a standard STS host signs for. Other hosts tell none.        *)
RegionForSTSHost(host) ==
  LET sts  == host[1] \in {"sts", "sts-fips"}
      rest == SubSeq(host, 3, Len(host))
  IN  IF host = DefaultEndpoint.host THEN DefaultRegion
      ELSE IF sts /\ rest = <<"amazonaws", "com">> THEN host[2]
      ELSE IF sts /\ rest = <<"amazonaws", "com", "cn">> THEN host[2]
      ELSE IF host[1] = "sts" /\ rest = <<"api", "aws">> THEN host[2]
      ELSE NoRegion

StandardEndpoint(region) == Url(<<"sts", region, "amazonaws", "com">>)

(* The endpoint derived from a region; there is none for China.            *)
EndpointForRegion(region) ==
  IF region = DefaultRegion THEN DefaultEndpoint
  ELSE IF region \in ChinaRegions THEN NoEndpoint
  ELSE StandardEndpoint(region)

---------------------------------------------------------------------------
(* Mutant: the environment counts as much as the command line.             *)
FlatStrength(setting) ==
  IF setting.flag # Unset \/ setting.env # Unset THEN 1 ELSE 0

(* How explicitly a setting was given: not at all, ambient, on the command *)
(* line.                                                                   *)
Strength(setting) ==
  IF setting.flag # Unset THEN 2
  ELSE IF setting.env # Unset THEN 1
  ELSE 0

Given(setting, default) ==
  IF setting.flag # Unset THEN setting.flag
  ELSE IF setting.env # Unset THEN setting.env
  ELSE default

(* url.Parse, which does not trim.                                         *)
ParsesUntrimmed(u) == u.parses /\ ~u.padded

(* The endpoint follows a region that was given more explicitly.           *)
ChosenEndpoint(in) ==
  LET region   == Given(in.region, DefaultRegion)
      endpoint == Given(in.endpoint, DefaultEndpoint)
  IN  IF /\ Strength(in.region) > Strength(in.endpoint)
         /\ EndpointForRegion(region) # NoEndpoint
      THEN EndpointForRegion(region)
      ELSE endpoint

(* The region follows an endpoint that was given more explicitly.          *)
ChosenRegion(in) ==
  LET region   == Given(in.region, DefaultRegion)
      endpoint == Given(in.endpoint, DefaultEndpoint)
  IN  IF /\ Strength(in.endpoint) > Strength(in.region)
         /\ ParsesUntrimmed(endpoint)
         /\ RegionForSTSHost(endpoint.host) # NoRegion
      THEN RegionForSTSHost(endpoint.host)
      ELSE region

Parse(in) ==
  [in EXCEPT !.region = ChosenRegion(in), !.endpoint = ChosenEndpoint(in)]

---------------------------------------------------------------------------
(* Mutant: a fraction of a second is not looked at.                        *)
AnyPositiveExpiry(expiry) ==
  /\ expiry # Unparsable
  /\ expiry > 0
  /\ expiry <= Instant(MaxPresignExpirySeconds)

(* X-Amz-Expires takes whole seconds, up to a maximum the server shares.   *)
ExpiryFits(expiry) ==
  /\ expiry # Unparsable
  /\ expiry > 0
  /\ expiry % TicksPerSecond = 0
  /\ expiry <= Instant(MaxPresignExpirySeconds)

(* Mutant: a standard endpoint may be signed for in any region.            *)
AnyRegionAgrees(c) == TRUE

RegionAgrees(c) == RegionForSTSHost(c.endpoint.host) \in {NoRegion, c.region}

(* Load returns the configuration c. The durations must parse in either    *)
(* form; url.Host is empty when neither a name nor a port is there.        *)
Validates(c) ==
  /\ c.timeout # Unparsable /\ c.timeout > 0
  /\ c.expiry # Unparsable
  /\ c.serverAddr # "" /\ c.binding # ""
  /\ ParsesUntrimmed(c.endpoint)
  /\ c.endpoint.scheme = "https"
  /\ c.endpoint.host # <<"">> \/ c.endpoint.port # ""
  /\ c.region \in WellFormedRegions
  /\ RegionAgrees(c)
  /\ c.form \in {"header", "presigned"}
  /\ c.form = "presigned" => ExpiryFits(c.expiry)
  /\ c.credentials # "incomplete"
===========================================================================
