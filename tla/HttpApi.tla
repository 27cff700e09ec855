------------------------------ MODULE HttpApi ------------------------------
(***************************************************************************)
(* What the HTTP handlers share (adapter/inbound/auth.go): the form of an  *)
(* answer, the reading of a JSON body, the answers to errors of the core.  *)
(***************************************************************************)
EXTENDS Integers

(* A result of a check: a refusal to answer with, or Accepted.             *)
Refusal(status, error) == [status |-> status, error |-> error]
Accepted == Refusal(0, "none")

(* The body is read up to maxBodyBytes and decoded.                        *)
BindJSONBody(json) ==
  CASE json = "oversized" -> Refusal(413, "body_too_large")
    [] json = "malformed" -> Refusal(400, "invalid_body")
    [] OTHER -> Accepted

(* HTTP status of a refusal of /auth by the core.                          *)
RejectionStatus(reason) ==
  CASE reason = "invalid_shape" -> 400
    [] reason = "stale" -> 401
    [] OTHER -> 403

(* Mutant: an error is returned without an answer being written.           *)
SilentAuthError(err) == Accepted

(* HTTP answer of /auth for an error the verifier or the issuer returned:  *)
(* "rejected" is domain.VerificationRejected, anything else is an          *)
(* infrastructure failure.                                                 *)
WriteAuthError(err) ==
  IF err = "rejected"
  THEN Refusal(401, "verification_failed")
  ELSE Refusal(502, "upstream_error")

(* HTTP answer of /verify for the outcome of VerifyToken.                  *)
WriteVerifyAnswer(outcome) ==
  CASE outcome = "valid" -> Refusal(200, "none")
    [] outcome = "rejected" -> Refusal(401, "invalid_token")
    [] OTHER -> Refusal(401, outcome)
===========================================================================
