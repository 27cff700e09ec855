---------------------------- MODULE Federation -----------------------------
(***************************************************************************)
(* What POST /auth promises a relying party, without HTTP, STS or tokens:  *)
(* a session is admitted on a claim the policy in force accepts at that    *)
(* moment, attested by somebody who really made that very claim, and       *)
(* granted to that caller if the same policy lists it.  A session may be   *)
(* dropped at any time before; closing the service drops all that are open.*)
(***************************************************************************)
EXTENDS Core

CONSTANTS
  Sessions,
  Claimable,   (* what a request may claim, see ExtractProof               *)
  Statements,  (* what callers really signed: [signer, claim]              *)
  Policies,
  Closed       (* no policy is in force                                    *)

VARIABLES now, policy, session

vars == <<now, policy, session>>

Unseen  == [stage |-> "unseen"]
Dropped == [stage |-> "dropped"]
Admitted(claim)     == [stage |-> "admitted", claim |-> claim]
Attested(who)       == [stage |-> "attested", by |-> who]
Granted(who, under) == [stage |-> "granted", by |-> who, under |-> under]

Advance == now' = now + 1 /\ UNCHANGED <<policy, session>>

Open(p) == policy = Closed /\ policy' = p /\ UNCHANGED <<now, session>>

(* Every session that was admitted and not granted is dropped; one that was*)
(* not admitted yet may be.                                                *)
Close ==
  /\ policy # Closed
  /\ policy' = Closed
  /\ \E early \in SUBSET {s \in Sessions : session[s] = Unseen} :
       session' = [s \in Sessions |->
                     IF s \in early \/ session[s].stage \in {"admitted", "attested"}
                     THEN Dropped ELSE session[s]]
  /\ UNCHANGED now

Become(s, x) ==
  /\ session' = [session EXCEPT ![s] = x]
  /\ UNCHANGED <<now, policy>>

Admit(s) ==
  /\ session[s] = Unseen
  /\ policy # Closed
  /\ \E c \in Claimable : LocalCheck(policy, c, now) = "none" /\ Become(s, Admitted(c))

Attest(s) ==
  /\ session[s].stage = "admitted"
  /\ \E st \in Statements :
       st.claim = session[s].claim /\ Become(s, Attested(st.signer))

Grant(s) ==
  /\ session[s].stage = "attested"
  /\ policy # Closed
  /\ session[s].by \in policy.arns
  /\ Become(s, Granted(session[s].by, policy))

Drop(s) ==
  /\ session[s].stage \in {"unseen", "admitted", "attested"}
  /\ Become(s, Dropped)

Init == now = 0 /\ policy = Closed /\ session = [s \in Sessions |-> Unseen]

Next ==
  \/ Advance
  \/ \E p \in Policies : Open(p)
  \/ Close
  \/ \E s \in Sessions : Admit(s) \/ Attest(s) \/ Grant(s) \/ Drop(s)

Spec == Init /\ [][Next]_vars
===========================================================================
