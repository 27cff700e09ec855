-------------------------- MODULE MCTokenService ---------------------------
(***************************************************************************)
(* Half-second ticks, ttls with and without a fraction of a second, and a  *)
(* restart under every change of the jwt section.                          *)
(***************************************************************************)
EXTENDS TokenService

Jwt == [ secret |-> "k", secretBytes |-> 2, ttl |-> 3, iss |-> "i", aud |-> "a" ]

MCSettings ==
  { Jwt,
    [Jwt EXCEPT !.ttl = 2], [Jwt EXCEPT !.ttl = 1],
    [Jwt EXCEPT !.secret = "k2"], [Jwt EXCEPT !.secretBytes = 1],
    [Jwt EXCEPT !.iss = "i2"], [Jwt EXCEPT !.iss = ""],
    [Jwt EXCEPT !.aud = "a2"] }

(* Made elsewhere: with the same secret by another service, or without it. *)
Made == IssueCredential([Jwt EXCEPT !.iss = "i2", !.ttl = 5], "x", "arn", 0)

MCStrangers ==
  { Made,
    [Made EXCEPT !.claims.iss = "i"],
    [Made EXCEPT !.claims.iss = "i", !.claims.aud = "a2"],
    [Made EXCEPT !.key = "guess", !.claims.iss = "i"],
    [Made EXCEPT !.header = FALSE, !.claims.iss = "i"],
    [Made EXCEPT !.payload = FALSE],
    [Made EXCEPT !.segments = 2],
    [Made EXCEPT !.segments = 0] }
===========================================================================
