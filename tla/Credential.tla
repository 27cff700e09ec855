---------------------------- MODULE Credential -----------------------------
(***************************************************************************)
(* The credential adapter (adapter/outbound/issuer) and the core decision  *)
(* on a presented token (domain/verify_service.go).                        *)
(*                                                                         *)
(* Time is counted in ticks of the wall clock; a token states seconds.     *)
(* An issuer configuration is [secret, secretBytes, ttl, iss, aud].  A     *)
(* token is [segments, header, key, payload, claims]: the number of its    *)
(* segments, whether the header segment is the fixed one, the secret its   *)
(* signature was computed with, whether the payload decodes, the claims.   *)
(***************************************************************************)
EXTENDS WallClock

CONSTANT MinSecretBytes   (* shortest acceptable signing secret *)

ASSUME CredentialAssumption == MinSecretBytes \in Nat \ {0}

---------------------------------------------------------------------------
(* Mutant: any positive ttl is accepted.                                   *)
IssuerLoadsAnyTTL(c) ==
  /\ c.secretBytes >= MinSecretBytes
  /\ c.ttl > 0
  /\ c.iss # "" /\ c.aud # ""

(* issuer.Load accepts a configuration.                                    *)
IssuerLoads(c) ==
  /\ c.secretBytes >= MinSecretBytes
  /\ c.ttl >= TicksPerSecond
  /\ c.iss # "" /\ c.aud # ""

(* Mutant: exp is taken from the truncated iat and the truncated ttl.      *)
TruncatedTwiceClaims(c, jti, sub, t) ==
  [ iss |-> c.iss, sub |-> sub, aud |-> c.aud, jti |-> jti,
    iat |-> Seconds(t),
    exp |-> Seconds(t) + Seconds(c.ttl) ]

(* Both ends are truncated to seconds after the ttl was added.             *)
Claims(c, jti, sub, t) ==
  [ iss |-> c.iss, sub |-> sub, aud |-> c.aud, jti |-> jti,
    iat |-> Seconds(t),
    exp |-> Seconds(t + c.ttl) ]

IssueCredential(c, jti, sub, t) ==
  [ segments |-> 3, header |-> TRUE, key |-> c.secret, payload |-> TRUE,
    claims |-> Claims(c, jti, sub, t) ]

---------------------------------------------------------------------------
(* Mutant: the signature is not compared.                                  *)
InspectUnsigned(c, tok) ==
  IF tok.segments = 3 /\ tok.header /\ tok.payload
  THEN "valid" ELSE "rejected"

(* Inspector.Inspect: structure, fixed header, signature, payload.         *)
Inspect(c, tok) ==
  IF tok.segments = 3 /\ tok.header /\ tok.key = c.secret /\ tok.payload
  THEN "valid" ELSE "rejected"

(* Mutant: a token is still good in the second it expires.                 *)
ExpiredAfter(claims, t) == t > Instant(claims.exp)

(* now is not before exp.                                                  *)
Expired(claims, t) == t >= Instant(claims.exp)

(* VerifyService.VerifyToken under configuration c at time t: "valid",     *)
(* "rejected" or the reason of a refusal.                                  *)
VerifyToken(c, tok, t) ==
  IF Inspect(c, tok) = "rejected" THEN "rejected"
  ELSE IF Expired(tok.claims, t) THEN "token_expired"
  ELSE IF tok.claims.iss # c.iss THEN "issuer_mismatch"
  ELSE IF tok.claims.aud # c.aud THEN "audience_mismatch"
  ELSE "valid"
===========================================================================
