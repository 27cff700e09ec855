----------------------------- MODULE DemoTrust ------------------------------
(***************************************************************************)
(* Trust between a server and a demo STS (cmd/mocksts).  The demo STS      *)
(* makes a certificate of its own at every start (democert), writes it to  *)
(* a file and then listens; a server reads the file once, when it boots    *)
(* (sts/config.go, buildServices).  Starts of either, in any order and     *)
(* number, meet in the file, in the port and in the server's trust.        *)
(*                                                                         *)
(* The certificate of a start is named after the start.  All starts use    *)
(* one -ca-out, the default.  TLS and AWS are external.                    *)
(***************************************************************************)
EXTENDS HttpApi

CONSTANTS
  Starts,       (* starts of the demo STS                                  *)
  Ports,        (* ports they are told to listen on                        *)
  Endpoints,    (* [host, port]: where servers are told to delegate        *)
  AwsEndpoint,  (* the one of them AWS answers at                          *)
  Aws,          (* who answers there                                       *)
  San,          (* host names the certificates are made for                *)
  Validity,     (* certValidity, in ticks                                  *)
  BackDate,     (* by how much a certificate begins early                  *)
  MaxTime,      (* bound: the clock is not followed beyond this tick       *)
  Absent, Empty, Nobody, NoAnswer

ASSUME DemoTrustAssumption ==
  /\ {Aws, Absent, Empty, Nobody} \cap Starts = {}
  /\ Absent # Empty
  /\ Aws # Nobody
  /\ AwsEndpoint.port \notin Ports
  /\ Validity \in Nat
  /\ BackDate \in Nat
  /\ MaxTime \in Nat
  /\ NoAnswer \notin
       [at : Endpoints, by : Starts \cup {Aws, Nobody}, status : {200, 401, 502}]

VARIABLES
  now,       (* the clock both processes read                              *)
  stage,     (* stage of each start                                        *)
  port,      (* the port of each start, Nobody before                      *)
  made,      (* when the certificate of each start was made                *)
  caFile,    (* the -ca-out file: Absent, Empty, or a certificate          *)
  up,        (* a server is running                                        *)
  trust,     (* whose certificates it accepts: those the system's roots    *)
             (* lead to, {Aws}, or those in the pool it has loaded         *)
  answer,    (* its last delegation: where to, who was believed, and the   *)
             (* status of the server's own answer                          *)
  witnessed, (* history: the starts that were listening when it booted     *)
  overlapped (* history: two starts have been alive at once                *)

vars == <<now, stage, port, made, caFile, up, trust, answer, witnessed, overlapped>>

Running == {"generated", "writing", "written", "listening"}
Listening(s) == stage[s] = "listening"

---------------------------------------------------------------------------
(* A start makes its certificate.                                          *)
Generate(s, p) ==
  /\ stage[s] = "off"
  /\ stage' = [stage EXCEPT ![s] = "generated"]
  /\ port' = [port EXCEPT ![s] = p]
  /\ made' = [made EXCEPT ![s] = now]
  /\ overlapped' = (overlapped \/ \E t \in Starts : stage[t] \in Running)
  /\ UNCHANGED <<now, caFile, up, trust, answer, witnessed>>

(* os.WriteFile first truncates the file, then fills it.                   *)
Truncate(s) ==
  /\ stage[s] = "generated"
  /\ stage' = [stage EXCEPT ![s] = "writing"]
  /\ caFile' = Empty
  /\ UNCHANGED <<now, port, made, up, trust, answer, witnessed, overlapped>>

Fill(s) ==
  /\ stage[s] = "writing"
  /\ stage' = [stage EXCEPT ![s] = "written"]
  /\ caFile' = s
  /\ UNCHANGED <<now, port, made, up, trust, answer, witnessed, overlapped>>

PortTaken(s) == \E t \in Starts : Listening(t) /\ port[t] = port[s]

(* Mutant: the start listens before it has written the file.               *)
ListenFirst(s) ==
  /\ stage[s] = "generated"
  /\ ~PortTaken(s)
  /\ stage' = [stage EXCEPT ![s] = "listening"]
  /\ UNCHANGED <<now, port, made, caFile, up, trust, answer, witnessed, overlapped>>

(* ListenAndServeTLS listens, or finds the port taken, which ends run.     *)
Listen(s) ==
  /\ stage[s] = "written"
  /\ stage' = [stage EXCEPT ![s] = IF PortTaken(s) THEN "exited" ELSE "listening"]
  /\ UNCHANGED <<now, port, made, caFile, up, trust, answer, witnessed, overlapped>>

(* A start ends: an error, a signal, a kill. The file stays.               *)
Exit(s) ==
  /\ stage[s] \in Running
  /\ stage' = [stage EXCEPT ![s] = "exited"]
  /\ UNCHANGED <<now, port, made, caFile, up, trust, answer, witnessed, overlapped>>

---------------------------------------------------------------------------
(* A setting as viper reads it: the environment wins unless it is empty.   *)
Setting(environment, file) == IF environment # "" THEN environment ELSE file

(* LoadCAFile trims the path; "blank" is one of white space only.          *)
LoadCAFile(setting) == IF setting = "blank" THEN "" ELSE setting

(* Mutant: what AppendCertsFromPEM returns is not looked at.               *)
LoadsUnchecked(content) == content # Absent

(* LoadCAPool needs a file with at least one certificate in it.            *)
Loads(content) == content \notin {Absent, Empty}

(* Mutant: the pool is a copy of the system's roots.                       *)
AddedToRoots(content) == {Aws, content} \ {Absent, Empty}

LoadCAPool(content) == {content} \cap Starts

(* What a path leads to: the file the demo STS writes, or none.            *)
Content(path) == IF path = "ca-out" THEN caFile ELSE Absent

(* buildServices, as far as trust goes.                                    *)
Boot(environment, file) ==
  LET path == LoadCAFile(Setting(environment, file))
  IN  /\ ~up
      /\ up' = TRUE
      /\ \/ path = "" /\ trust' = {Aws}
         \/ /\ path # ""
            /\ Loads(Content(path))
            /\ trust' = LoadCAPool(Content(path))
      /\ witnessed' = {s \in Starts : Listening(s)}
      /\ UNCHANGED <<now, stage, port, made, caFile, answer, overlapped>>

Stop ==
  /\ up
  /\ up' = FALSE
  /\ trust' = {}
  /\ answer' = NoAnswer
  /\ witnessed' = {}
  /\ UNCHANGED <<now, stage, port, made, caFile, overlapped>>

(* Who answers at an endpoint.                                             *)
Peers(e) ==
  IF e = AwsEndpoint THEN {Aws} ELSE {s \in Starts : Listening(s) /\ port[s] = e.port}

Valid(s) == now + BackDate >= made[s] /\ now <= made[s] + Validity

(* The TLS handshake: AWS has a certificate the system's roots lead to; a  *)
(* start has its own, which leads to nothing but itself.                   *)
Trusted(e, who) ==
  /\ who \in trust
  /\ who \in Starts => e.host \in San /\ Valid(who)

(* What the server answers for a peer it trusts: a demo STS vouches for    *)
(* every request, whoever signed it, AWS may do anything.                  *)
Statuses(who) ==
  IF who = Aws THEN {200, WriteAuthError("rejected").status, WriteAuthError("infra").status}
  ELSE {200}

(* A request is delegated; without a peer, or without trust in it, that    *)
(* fails.                                                                  *)
Delegate(e) ==
  /\ up
  /\ \/ \E who \in Peers(e) :
          /\ Trusted(e, who)
          /\ \E st \in Statuses(who) : answer' = [at |-> e, by |-> who, status |-> st]
     \/ /\ \A who \in Peers(e) : ~Trusted(e, who)
        /\ answer' = [at |-> e, by |-> Nobody, status |-> WriteAuthError("infra").status]
  /\ UNCHANGED <<now, stage, port, made, caFile, up, trust, witnessed, overlapped>>

---------------------------------------------------------------------------
Tick ==
  /\ now < MaxTime
  /\ now' = now + 1
  /\ UNCHANGED <<stage, port, made, caFile, up, trust, answer, witnessed, overlapped>>

(* The clock is set back.                                                  *)
SetBack(t) ==
  /\ t < now
  /\ now' = t
  /\ UNCHANGED <<stage, port, made, caFile, up, trust, answer, witnessed, overlapped>>

Init ==
  /\ now = 0
  /\ stage = [s \in Starts |-> "off"]
  /\ port = [s \in Starts |-> Nobody]
  /\ made = [s \in Starts |-> 0]
  /\ caFile = Absent
  /\ up = FALSE
  /\ trust = {}
  /\ answer = NoAnswer
  /\ witnessed = {}
  /\ overlapped = FALSE

DemoSts(s) ==
  \/ \E p \in Ports : Generate(s, p)
  \/ Truncate(s)
  \/ Fill(s)
  \/ Listen(s)
  \/ Exit(s)

Server ==
  \/ \E environment, file \in {"", "blank", "ca-out", "elsewhere"} : Boot(environment, file)
  \/ Stop
  \/ \E e \in Endpoints : Delegate(e)

Next ==
  \/ \E s \in Starts : DemoSts(s)
  \/ Server
  \/ Tick
  \/ \E t \in 0..MaxTime : SetBack(t)

Spec == Init /\ [][Next]_vars

---------------------------------------------------------------------------
(* Every variable has its type; nothing is left of a server that is down.  *)
TypeOK ==
  /\ now \in 0..MaxTime
  /\ stage \in [Starts -> Running \cup {"off", "exited"}]
  /\ port \in [Starts -> Ports \cup {Nobody}]
  /\ made \in [Starts -> 0..MaxTime]
  /\ caFile \in Starts \cup {Absent, Empty}
  /\ up \in BOOLEAN
  /\ trust \subseteq Starts \cup {Aws}
  /\ answer \in
       [at : Endpoints, by : Starts \cup {Aws, Nobody}, status : {200, 401, 502}] \cup {NoAnswer}
  /\ ~up => trust = {} /\ answer = NoAnswer /\ witnessed = {}
  /\ witnessed \subseteq Starts
  /\ overlapped \in BOOLEAN

(* A server that boots trusts somebody: one that would refuse every        *)
(* delegation does not start, not even when it reads the file just while   *)
(* a demo STS is writing it. And it trusts one side only, AWS or one start *)
(* of the demo STS: the pool of the file replaces the system's roots       *)
(* (sts/config.go:54-64, main.go:137-160). That is what config.yaml:48-49  *)
(* and README.md:472 say; CaIsAdded is what other texts say.               *)
TrustsOneSide ==
  up => trust = {Aws} \/ \E s \in Starts : trust = {s}

(* The file's certificate is trusted additionally, so a server that has    *)
(* been given one believes AWS as before. So say sts/config.go:35 and :51, *)
(* config.yaml:44 and README.md:173, 306 and 348. It does not hold: every  *)
(* delegation of such a server to AWS fails, and is answered with 502      *)
(* (main.go:154).                                                          *)
CaIsAdded ==
  answer # NoAnswer /\ answer.at = AwsEndpoint => answer.by = Aws

(* Where a start would be trusted if it is the one the server knows.       *)
Reachable(s) == {e \in Endpoints \ {AwsEndpoint} : e.port = port[s] /\ e.host \in San}

(* A server that booted with the option while a demo STS was listening     *)
(* trusts it as long as it listens and its certificate is valid: that is   *)
(* what the file is written for (mocksts main.go:1-4, 72-74). It does not  *)
(* hold: a start that finds the port taken has replaced the file before.   *)
TrustsWitnessed ==
  \A s \in witnessed : \A e \in Reachable(s) :
    Listening(s) /\ Valid(s) /\ Aws \notin trust => Trusted(e, s)

(* It does hold as long as no two starts have ever been alive at once,     *)
(* through any number of restarts, kills in the middle of a write and      *)
(* corrections of the clock (mocksts main.go:72-110).                      *)
OrderlyStartTrusts == ~overlapped => TrustsWitnessed

(* The inductive invariant behind it: while starts take turns, the file is *)
(* that of the one alive, from the moment it has written it.               *)
DemoInv ==
  /\ TypeOK
  /\ ~overlapped =>
       \A s, t \in Starts : stage[s] \in Running /\ stage[t] \in Running => s = t
  /\ ~overlapped =>
       \A s \in Starts : stage[s] \in {"written", "listening"} => caFile = s
  /\ ~overlapped /\ Aws \notin trust => witnessed \subseteq trust
  /\ TrustsOneSide
===========================================================================
