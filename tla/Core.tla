-------------------------------- MODULE Core -------------------------------
(***************************************************************************)
(* The local decisions of the domain core on an extracted proof            *)
(* (domain/service.go, steps 2 to 4) under a server policy                 *)
(* [binding, maxAge, arns, endpoints], and the policy's boot gate          *)
(* (adapter/outbound/config).                                              *)
(***************************************************************************)
EXTENDS Integers

GetCallerIdentity == "GetCallerIdentity"

---------------------------------------------------------------------------
(* config.Load accepts a policy.                                           *)
PolicyLoads(c) == c.binding # "" /\ c.maxAge > 0

---------------------------------------------------------------------------
ExpectedMethod(p) == IF p.form = "presigned" THEN "GET" ELSE "POST"

(* The length of the interval, from the signing time on, in which a proof  *)
(* is fresh: the caller may only shorten the server's maximum.             *)
Window(c, p) ==
  IF p.form = "presigned" /\ p.expiry > 0 /\ p.expiry < c.maxAge
  THEN p.expiry
  ELSE c.maxAge

(* Mutant: a signing time in the future is tolerated.                      *)
FreshOrFuture(c, p, t) == t - p.signedAt <= Window(c, p)

Fresh(c, p, t) ==
  LET age == t - p.signedAt IN age >= 0 /\ age <= Window(c, p)

(* Steps 2 to 4 of Service.Authenticate at time t: the reason of the       *)
(* refusal, or "none".                                                     *)
LocalCheck(c, p, t) ==
  IF p.binding # c.binding THEN "binding_mismatch"
  ELSE IF p.method # ExpectedMethod(p) \/ p.action # GetCallerIdentity THEN "invalid_shape"
  ELSE IF ~Fresh(c, p, t) THEN "stale"
  ELSE "none"
===========================================================================
