-------------------------- MODULE DemoTrustProofs ---------------------------
(***************************************************************************)
(* Trust between servers and demo STSs, for any number of starts, any      *)
(* ports and any life of a certificate.                                    *)
(***************************************************************************)
EXTENDS DemoTrust, TLAPS

(* A start changes its own stage, the file and history, nothing a server   *)
(* has.                                                                    *)
LEMMA StartSteps ==
  ASSUME DemoInv, NEW s \in Starts, DemoSts(s)
  PROVE  DemoInv'
<1> USE DEF DemoInv
<1>1. UNCHANGED <<up, trust, answer, witnessed>>
  BY DEF DemoSts, Generate, Truncate, Fill, Listen, Exit
<1>2. /\ TrustsOneSide'
      /\ overlapped' = overlapped => (~overlapped' /\ Aws \notin trust' => witnessed' \subseteq trust')
  BY <1>1 DEF TrustsOneSide
<1>3. ASSUME NEW p \in Ports, Generate(s, p) PROVE DemoInv'
  <2>1. CASE \E t \in Starts : stage[t] \in Running
    <3>1. overlapped' = TRUE BY <1>3, <2>1 DEF Generate
    <3>2. TypeOK' BY <1>1, <1>3, <3>1 DEF Generate, TypeOK, Running
    <3> QED BY <1>2, <3>1, <3>2
  <2>2. CASE ~\E t \in Starts : stage[t] \in Running
    <3>1. overlapped' = overlapped BY <1>3, <2>2, Zenon DEF Generate, TypeOK
    <3>2. TypeOK' BY <1>1, <1>3, <3>1 DEF Generate, TypeOK, Running
    <3>3. \A t \in Starts : stage'[t] \in Running => t = s /\ stage'[t] = "generated"
      BY <1>3, <2>2 DEF Generate, TypeOK
    <3>4. \A t, u \in Starts : stage'[t] \in Running /\ stage'[u] \in Running => t = u
      BY <3>3
    <3>5. \A t \in Starts : stage'[t] \notin {"written", "listening"}
      BY <3>3 DEF Running
    <3> QED BY <1>1, <1>2, <3>1, <3>2, <3>4, <3>5
  <2> QED BY <2>1, <2>2
<1>4. ASSUME Truncate(s) \/ Fill(s) \/ Listen(s) \/ Exit(s) PROVE DemoInv'
  <2>1. /\ UNCHANGED <<now, port, made, overlapped>>
        /\ stage[s] \in Running
        /\ \E st \in Running \cup {"exited"} : stage' = [stage EXCEPT ![s] = st]
        /\ caFile' \in Starts \cup {Empty, Absent}
    BY <1>4 DEF Truncate, Fill, Listen, Exit, Running, TypeOK
  <2>2. TypeOK' BY <1>1, <2>1 DEF TypeOK
  <2>3. \A t \in Starts : stage'[t] \in Running => stage[t] \in Running
    BY <2>1 DEF TypeOK
  <2>4. ~overlapped => \A t \in Starts : stage'[t] \in {"written", "listening"} => caFile' = t
    <3>1. \A t \in Starts : t # s => stage'[t] = stage[t]
      BY <2>1 DEF TypeOK
    <3>2. ~overlapped => \A t \in Starts : t # s => stage'[t] \notin Running
      BY <2>1, <3>1
    <3>3. stage'[s] \in {"written", "listening"} /\ ~overlapped => caFile' = s
      BY <1>4 DEF Truncate, Fill, Listen, Exit, TypeOK, Running
    <3> QED BY <3>2, <3>3 DEF Running
  <2> QED BY <1>1, <1>2, <2>1, <2>2, <2>3, <2>4
<1> QED BY <1>3, <1>4 DEF DemoSts

---------------------------------------------------------------------------
(* A server boots.                                                         *)
LEMMA Booting ==
  ASSUME DemoInv, NEW environment, NEW file, Boot(environment, file)
  PROVE  DemoInv'
<1> DEFINE path == LoadCAFile(Setting(environment, file))
<1> USE DEF DemoInv
<1>1. /\ UNCHANGED <<now, stage, port, made, caFile, answer, overlapped>>
      /\ witnessed' = {s \in Starts : Listening(s)}
      /\ up' = TRUE /\ ~up
  BY DEF Boot
<1>2. answer = NoAnswer BY <1>1 DEF TypeOK
<1>3. \/ trust' = {Aws}
      \/ caFile \in Starts /\ trust' = {caFile}
  <2>1. CASE path = "" /\ trust' = {Aws}
    BY <2>1
  <2>2. CASE Loads(Content(path)) /\ trust' = LoadCAPool(Content(path))
    <3>1. Content(path) = caFile /\ caFile \in Starts
      BY <2>2 DEF Loads, Content, TypeOK
    <3> HIDE DEF path
    <3>2. trust' = {caFile} \cap Starts BY <2>2, <3>1, Zenon DEF LoadCAPool
    <3> QED BY <3>1, <3>2
  <2> QED BY <2>1, <2>2 DEF Boot
<1>4. TypeOK' /\ TrustsOneSide'
  BY <1>1, <1>2, <1>3 DEF TypeOK, TrustsOneSide
<1>5. ~overlapped' /\ Aws \notin trust' => witnessed' \subseteq trust'
  BY <1>1, <1>3 DEF Listening
<1> QED BY <1>1, <1>4, <1>5

(* A server delegates.                                                     *)
LEMMA Delegating ==
  ASSUME DemoInv, NEW e \in Endpoints, Delegate(e)
  PROVE  DemoInv'
<1> USE DEF DemoInv
<1>1. UNCHANGED <<now, stage, port, made, caFile, up, trust, witnessed, overlapped>> /\ up
  BY DEF Delegate
<1>2. /\ WriteAuthError("rejected").status = 401
      /\ WriteAuthError("infra").status = 502
  BY DEF WriteAuthError, Refusal
<1>3. \/ \E who \in trust \cap (Starts \cup {Aws}) : \E st \in {200, 401, 502} :
           answer' = [at |-> e, by |-> who, status |-> st]
      \/ answer' = [at |-> e, by |-> Nobody, status |-> 502]
  BY <1>2 DEF Delegate, Peers, Trusted, Statuses
<1>4. TypeOK' BY <1>1, <1>3 DEF TypeOK
<1> QED BY <1>1, <1>4 DEF TrustsOneSide

THEOREM DemoInvariant == Spec => []DemoInv
<1>1. Init => DemoInv
  <2> SUFFICES ASSUME Init PROVE DemoInv
    OBVIOUS
  <2>1. TypeOK
    <3>1. 0 \in 0..MaxTime BY DemoTrustAssumption
    <3> QED BY <3>1, Zenon DEF Init, TypeOK
  <2>2. \A s \in Starts : stage[s] = "off" BY DEF Init
  <2> QED
    BY <2>1, <2>2 DEF Init, DemoInv, Running, TrustsOneSide
<1>2. DemoInv /\ [Next]_vars => DemoInv'
  <2> SUFFICES ASSUME DemoInv, [Next]_vars PROVE DemoInv'
    OBVIOUS
  <2>1. CASE UNCHANGED vars
    BY <2>1 DEF vars, DemoInv, TypeOK, TrustsOneSide
  <2>2. CASE \E s \in Starts : DemoSts(s)
    BY <2>2, StartSteps
  <2>3. CASE Stop
    BY <2>3 DEF Stop, DemoInv, TypeOK, TrustsOneSide
  <2>4. CASE Tick \/ \E t \in 0..MaxTime : SetBack(t)
    BY <2>4, DemoTrustAssumption
       DEF Tick, SetBack, DemoInv, TypeOK, TrustsOneSide
  <2> QED BY <2>1, <2>2, <2>3, <2>4, Booting, Delegating DEF Next, Server
<1> QED BY <1>1, <1>2, PTL DEF Spec

(* Every variable keeps its type; a server that is down trusts nobody and  *)
(* has given no answer.                                                    *)
THEOREM TypeCorrect == Spec => []TypeOK
<1>1. DemoInv => TypeOK BY DEF DemoInv
<1> QED BY <1>1, DemoInvariant, PTL

(* A running server trusts AWS or one start of the demo STS, never both    *)
(* and never nobody.                                                       *)
THEOREM ServersTrustOneSide == Spec => []TrustsOneSide
<1>1. DemoInv => TrustsOneSide BY DEF DemoInv
<1> QED BY <1>1, DemoInvariant, PTL

(* As long as starts take turns, a server trusts the one it booted under.  *)
THEOREM OrderlyStartsTrusted == Spec => []OrderlyStartTrusts
<1>1. DemoInv => OrderlyStartTrusts
  BY DEF DemoInv, OrderlyStartTrusts, TrustsWitnessed, Trusted, Reachable
<1> QED BY <1>1, DemoInvariant, PTL
===========================================================================
