----------------------------- MODULE Lifecycle ------------------------------
(***************************************************************************)
(* The life of a server process: run of main.go, from the building of the  *)
(* services to the exit status, with the connections an http.Server keeps. *)
(* net/http is not part of the repository: what Serve and Shutdown do to   *)
(* listeners and connections is modelled from how run relies on it.        *)
(*                                                                         *)
(* A connection is "new" until its first request is read and "idle"        *)
(* between two requests; a request is "reading" while its body arrives and *)
(* "calling" while STS is asked for its sake; every other part of a        *)
(* handler is computation and takes no time. So the clock does not pass a  *)
(* moment at which the process has something to do (Urgent).               *)
(***************************************************************************)
EXTENDS Integers

CONSTANTS
  Conns,            (* identities of the connections                       *)
  ShutdownTimeout,  (* shutdownTimeout, in ticks                           *)
  StsTimeout,       (* stsRequestTimeout, in ticks                         *)
  NewGrace          (* how long Shutdown spares a connection not yet used  *)

ASSUME LifecycleAssumption ==
  /\ ShutdownTimeout \in Nat
  /\ StsTimeout \in Nat
  /\ NewGrace \in Nat
  /\ StsTimeout <= ShutdownTimeout

VARIABLES
  main,       (* stage of the goroutine of run                             *)
  serve,      (* stage of the goroutine of ListenAndServe                  *)
  serveErr,   (* the channel between them; it holds one value              *)
  signalled,  (* SIGINT or SIGTERM came: ctx is cancelled                  *)
  cause,      (* why run returned                                          *)
  drained,    (* ticks since Shutdown was called                           *)
  conn,       (* stage of each connection                                  *)
  sent,       (* connections with a request that is not read yet           *)
  waited,     (* ticks a connection has been new or calling                *)
  held        (* history: requests for whose sake STS was being asked, not *)
              (* only since this very moment, when the signal came         *)

vars == <<main, serve, serveErr, signalled, cause, drained, conn, sent, waited, held>>
process == <<main, serve, serveErr, signalled, cause, drained>>
traffic == <<conn, sent, waited, held>>

Alive == main # "exited"
Begun == {"reading", "calling"}
ShuttingDown == main = "draining"

---------------------------------------------------------------------------
(* run returns, and the process exits; connections break off as they are.  *)
Return(why) ==
  /\ main' = "exited"
  /\ cause' = why

(* The exit status main gives to what run returned.                        *)
ExitStatus == IF cause \in {"stopped", "closed"} THEN 0 ELSE 1

(* buildServices, and the start of the serving goroutine.                  *)
Build ==
  /\ main = "building"
  /\ \/ /\ main' = "waiting"
        /\ serve' = "starting"
        /\ UNCHANGED cause
     \/ /\ Return("misconfigured")
        /\ UNCHANGED serve
  /\ UNCHANGED <<serveErr, signalled, drained, traffic>>

(* The signal cancels the context; later ones are absorbed, for stop is    *)
(* deferred to the end of run.                                             *)
Signal ==
  /\ Alive
  /\ ~signalled
  /\ signalled' = TRUE
  /\ held' = {c \in Conns : conn[c] = "calling" /\ waited[c] > 0}
  /\ UNCHANGED <<main, serve, serveErr, cause, drained, conn, sent, waited>>

(* ListenAndServe listens, or returns: the address is taken, or Shutdown   *)
(* was faster.                                                             *)
Listen ==
  /\ Alive
  /\ serve = "starting"
  /\ \/ /\ ~ShuttingDown
        /\ serve' = "accepting"
        /\ UNCHANGED serveErr
     \/ /\ serve' = "returned"
        /\ serveErr' = "error"
     \/ /\ ShuttingDown
        /\ serve' = "returned"
        /\ serveErr' = "nil"
  /\ UNCHANGED <<main, signalled, cause, drained, traffic>>

(* Serve returns: Shutdown closed the listener, or accepting failed.       *)
ServeReturns ==
  /\ Alive
  /\ serve = "accepting"
  /\ serve' = "returned"
  /\ serveErr' = IF ShuttingDown THEN "nil" ELSE "error"
  /\ UNCHANGED <<main, signalled, cause, drained, traffic>>

(* The select of run; when both are ready either branch is taken.          *)
SelectServeErr ==
  /\ main = "waiting"
  /\ serveErr # "empty"
  /\ Return(IF serveErr = "error" THEN "serving" ELSE "closed")
  /\ UNCHANGED <<serve, serveErr, signalled, drained, traffic>>

SelectSignal ==
  /\ main = "waiting"
  /\ signalled
  /\ main' = "draining"
  /\ UNCHANGED <<serve, serveErr, signalled, cause, drained, traffic>>

(* A connection Shutdown may close: between two requests, or accepted long *)
(* ago and never used. A request the client has just sent goes with it.    *)
Closable(c) ==
  \/ conn[c] = "idle"
  \/ conn[c] = "new" /\ waited[c] > NewGrace

Quiescent == \A c \in Conns : conn[c] # "none" => Closable(c)

(* Mutant: run calls Close in place of Shutdown.                           *)
CloseAtOnce ==
  /\ ShuttingDown
  /\ Return("stopped")
  /\ UNCHANGED <<serve, serveErr, signalled, drained, traffic>>

(* One round of Shutdown's polling; it returns when nothing is left.       *)
Poll ==
  /\ ShuttingDown
  /\ conn' = [c \in Conns |-> IF Closable(c) THEN "none" ELSE conn[c]]
  /\ waited' = [c \in Conns |-> IF Closable(c) THEN 0 ELSE waited[c]]
  /\ sent' = {c \in sent : ~Closable(c)}
  /\ IF Quiescent THEN Return("stopped") ELSE UNCHANGED <<main, cause>>
  /\ UNCHANGED <<serve, serveErr, signalled, drained, held>>

(* Mutant: Shutdown is called with a context that never ends.              *)
NoDeadline == FALSE

(* Mutant: the deadline is a tick early.                                   *)
EarlyDeadline == drained + 1 >= ShutdownTimeout

DeadlinePassed == drained >= ShutdownTimeout

(* shutdownCtx expires before a poll has found all connections closed.     *)
DrainFails ==
  /\ ShuttingDown
  /\ DeadlinePassed
  /\ Return("deadline")
  /\ UNCHANGED <<serve, serveErr, signalled, drained, traffic>>

---------------------------------------------------------------------------
Become(c, stage) ==
  /\ conn' = [conn EXCEPT ![c] = stage]
  /\ waited' = [waited EXCEPT ![c] = 0]

(* A client connects.                                                      *)
Accept(c) ==
  /\ Alive
  /\ serve = "accepting"
  /\ ~ShuttingDown
  /\ conn[c] = "none"
  /\ Become(c, "new")
  /\ UNCHANGED <<process, sent, held>>

(* A client sends a request.                                               *)
Send(c) ==
  /\ Alive
  /\ conn[c] \in {"new", "idle"}
  /\ c \notin sent
  /\ sent' = sent \cup {c}
  /\ UNCHANGED <<process, conn, waited, held>>

(* Its header is read and the handler called.                              *)
Read(c) ==
  /\ Alive
  /\ conn[c] \in {"new", "idle"}
  /\ c \in sent
  /\ sent' = sent \ {c}
  /\ Become(c, "reading")
  /\ UNCHANGED <<process, held>>

(* What becomes of a connection whose request is answered.                 *)
AfterAnswer == IF ShuttingDown THEN "none" ELSE "idle"

Answer(c) ==
  /\ Become(c, AfterAnswer)
  /\ held' = held \ {c}
  /\ UNCHANGED <<process, sent>>

(* The body is there: most requests are answered at once, one of /auth     *)
(* that passes the local checks is delegated.                              *)
AnswerAtOnce(c) ==
  /\ Alive
  /\ conn[c] = "reading"
  /\ Answer(c)

Delegate(c) ==
  /\ Alive
  /\ conn[c] = "reading"
  /\ Become(c, "calling")
  /\ UNCHANGED <<process, sent, held>>

(* STS answers.                                                            *)
StsAnswers(c) ==
  /\ Alive
  /\ conn[c] = "calling"
  /\ Answer(c)

(* Mutant: the HTTP client is built without a timeout.                     *)
NeverDue(c) == FALSE

TimerDue(c) == conn[c] = "calling" /\ waited[c] >= StsTimeout

(* It does not: the timer of the HTTP client ends the call.                *)
TimeOut(c) ==
  /\ Alive
  /\ TimerDue(c)
  /\ Answer(c)

(* The client goes away; a handler at work is told by its context.         *)
Disconnect(c) ==
  /\ Alive
  /\ conn[c] # "none"
  /\ Become(c, "none")
  /\ sent' = sent \ {c}
  /\ held' = held \ {c}
  /\ UNCHANGED <<process>>

---------------------------------------------------------------------------
(* The process has something to do that does not wait for anybody.         *)
Urgent ==
  \/ main = "waiting" /\ (signalled \/ serveErr # "empty")
  \/ ShuttingDown /\ (Quiescent \/ DeadlinePassed)
  \/ \E c \in Conns : TimerDue(c)
  \/ \E c \in sent : conn[c] \in {"new", "idle"}

(* Time passes. How long a drain or an unused connection has outlived its  *)
(* limit does not matter.                                                  *)
Tick ==
  /\ Alive
  /\ ~Urgent
  /\ drained' = IF ShuttingDown /\ ~(drained >= ShutdownTimeout)
                THEN drained + 1 ELSE drained
  /\ waited' = [c \in Conns |->
                  IF \/ conn[c] = "calling"
                     \/ conn[c] = "new" /\ waited[c] <= NewGrace
                  THEN waited[c] + 1 ELSE waited[c]]
  /\ UNCHANGED <<main, serve, serveErr, signalled, cause, conn, sent, held>>

Init ==
  /\ main = "building"
  /\ serve = "unstarted"
  /\ serveErr = "empty"
  /\ signalled = FALSE
  /\ cause = "none"
  /\ drained = 0
  /\ conn = [c \in Conns |-> "none"]
  /\ sent = {}
  /\ waited = [c \in Conns |-> 0]
  /\ held = {}

(* The goroutine of run, once it has built the services.                   *)
Run == SelectServeErr \/ SelectSignal \/ Poll \/ DrainFails

Serve == Listen \/ ServeReturns

(* What a connection's goroutine does by itself.                           *)
Work(c) == Read(c) \/ TimeOut(c)

Clients ==
  \E c \in Conns :
    Accept(c) \/ Send(c) \/ AnswerAtOnce(c) \/ Delegate(c) \/ StsAnswers(c) \/ Disconnect(c)

Next == Build \/ Run \/ Serve \/ Signal \/ Clients \/ Tick \/ \E c \in Conns : Work(c)

Spec == Init /\ [][Next]_vars

(* The process runs and time passes. Clients may be silent for ever, in    *)
(* the middle of a body too, and so may STS.                               *)
Fairness ==
  /\ WF_vars(Build)
  /\ WF_vars(Run)
  /\ WF_vars(Tick)
  /\ \A c \in Conns : WF_vars(Work(c))

FairSpec == Spec /\ Fairness

---------------------------------------------------------------------------
ProcessType ==
  /\ main \in {"building", "waiting", "draining", "exited"}
  /\ serve \in {"unstarted", "starting", "accepting", "returned"}
  /\ serveErr \in {"empty", "nil", "error"}
  /\ serveErr # "empty" <=> serve = "returned"
  /\ signalled \in BOOLEAN
  /\ cause \in {"none", "misconfigured", "serving", "closed", "stopped", "deadline"}
  /\ cause # "none" <=> main = "exited"
  /\ drained \in 0..ShutdownTimeout

TrafficType ==
  /\ conn \in [Conns -> {"none", "new", "idle"} \cup Begun]
  /\ sent \subseteq Conns
  /\ waited \in [Conns -> Nat]
  /\ \A c \in Conns : conn[c] = "calling" => waited[c] <= StsTimeout
  /\ held \subseteq Conns

(* Every variable has its type; the drain never outlives shutdownTimeout,  *)
(* no STS call its timer; the serving goroutine speaks once, when it       *)
(* returns; a reason is there exactly when run has returned.               *)
TypeOK == ProcessType /\ TrafficType

(* Exit status 0 is the truth: the process was asked to stop, and every    *)
(* request whose handler had been called is answered or its client gone    *)
(* (main.go:91-107).                                                       *)
CleanExit ==
  ~Alive /\ ExitStatus = 0 =>
    signalled /\ \A c \in Conns : conn[c] \notin Begun

(* A request for whose sake STS was being asked when the signal came is    *)
(* never cut off by the end of the drain: the drain is as long as the      *)
(* longest call (main.go:33-40, 97-99). One that is delegated after the    *)
(* signal, or whose body still arrives, may be.                            *)
PromisesKept == cause = "deadline" => held = {}

(* A signal ends the process, whatever clients and STS do or leave undone  *)
(* (main.go:91-107).                                                       *)
EventuallyStops == signalled ~> ~Alive

(* The inductive invariant behind them. The process: only one that is      *)
(* shutting down, hence was signalled, hears from its serving goroutine    *)
(* without an error. Its connections: there is none before it listens,     *)
(* none is in the middle of a request when it stops in good order, and a   *)
(* held request is still with STS, and has been longer than the drain      *)
(* (main.go:74-107).                                                       *)
ProcessInv ==
  /\ serve = "unstarted" <=> main = "building" \/ cause = "misconfigured"
  /\ main \in {"building", "waiting"} => drained = 0 /\ serveErr # "nil"
  /\ ShuttingDown \/ cause \in {"stopped", "deadline"} => signalled
  /\ cause # "closed"
  /\ cause = "deadline" => drained >= ShutdownTimeout

TrafficInv ==
  /\ main = "building" => \A c \in Conns : conn[c] = "none"
  /\ cause = "stopped" => \A c \in Conns : conn[c] \notin Begun
  /\ \A c \in held : conn[c] = "calling" /\ waited[c] > drained

LifecycleInv == TypeOK /\ ProcessInv /\ TrafficInv
===========================================================================
