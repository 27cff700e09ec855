-------------------------- MODULE LifecycleProofs ---------------------------
(***************************************************************************)
(* What stopping a server guarantees for any number of connections and any *)
(* timeouts, as long as a drain is not shorter than a call of STS.         *)
(***************************************************************************)
EXTENDS Lifecycle, TLAPS

(* The invariant, in the parts that different actions disturb: the process *)
(* itself, and its connections.                                            *)
Process == ProcessType /\ ProcessInv
Traffic == TrafficType /\ TrafficInv

LEMMA Parts == LifecycleInv <=> Process /\ Traffic
BY DEF LifecycleInv, TypeOK, Process, Traffic

---------------------------------------------------------------------------
(* What a connection's goroutine and its client do leaves the process as   *)
(* it is.                                                                  *)
LEMMA ProcessUndisturbed ==
  ASSUME Process, UNCHANGED process
  PROVE  Process'
BY DEF Process, ProcessType, ProcessInv, process, ShuttingDown

(* One connection changes its stage.                                       *)
LEMMA Stage ==
  ASSUME Traffic, UNCHANGED process, NEW c \in Conns,
         NEW s \in {"none", "new", "idle"} \cup Begun, Become(c, s),
         cause # "stopped", main # "building",
         sent' \subseteq sent \cup {c}, held' \subseteq held \ {c}
  PROVE  Traffic'
BY LifecycleAssumption DEF Traffic, TrafficType, TrafficInv, process, Become, Begun

LEMMA Answering ==
  ASSUME Process, Traffic, NEW c \in Conns, conn[c] \in Begun, Alive, Answer(c)
  PROVE  Traffic'
<1>1. main \in {"waiting", "draining"} /\ cause = "none"
  BY DEF Process, ProcessType, ProcessInv, Traffic, TrafficType, TrafficInv, Alive, Begun
<1>2. CASE ShuttingDown
  <2>1. /\ conn' = [conn EXCEPT ![c] = "none"]
        /\ waited' = [waited EXCEPT ![c] = 0]
        /\ held' = held \ {c}
        /\ UNCHANGED <<process, sent>>
    BY <1>1, <1>2 DEF Answer, Become, AfterAnswer, Traffic, TrafficType, TrafficInv
  <2> QED BY <1>1, <1>2, <2>1, LifecycleAssumption DEF Traffic, TrafficType, TrafficInv, process, Begun, ShuttingDown
<1>3. CASE ~ShuttingDown
  <2>1. /\ conn' = [conn EXCEPT ![c] = "idle"]
        /\ waited' = [waited EXCEPT ![c] = 0]
        /\ held' = held \ {c}
        /\ UNCHANGED <<process, sent>>
    BY <1>1, <1>3 DEF Answer, Become, AfterAnswer, Traffic, TrafficType, TrafficInv
  <2> QED BY <1>1, <1>3, <2>1, LifecycleAssumption DEF Traffic, TrafficType, TrafficInv, process, Begun
<1> QED BY <1>2, <1>3

(* The clock: a call that is not due, and a drain that is not over.        *)
LEMMA Ticking ==
  ASSUME LifecycleInv, Tick
  PROVE  LifecycleInv'
<1>1. Process /\ Traffic BY Parts
<1>2. Process'
  BY <1>1, LifecycleAssumption DEF Tick, Process, ProcessType, ProcessInv, ShuttingDown
<1>3. \A c \in Conns : conn[c] = "calling" => waited[c] < StsTimeout
  BY <1>1, LifecycleAssumption DEF Tick, Urgent, TimerDue, Traffic, TrafficType, TrafficInv
<1>4. waited' \in [Conns -> Nat]
  BY <1>1 DEF Tick, Traffic, TrafficType, TrafficInv
<1>5. \A c \in Conns : conn'[c] = "calling" => waited'[c] <= StsTimeout
  BY <1>1, <1>3, LifecycleAssumption DEF Tick, Traffic, TrafficType, TrafficInv
<1>6. \A c \in held' : conn'[c] = "calling" /\ waited'[c] > drained'
  <2>1. drained' \in {drained, drained + 1} /\ drained \in Int
    BY <1>1, LifecycleAssumption DEF Tick, Process, ProcessType, ProcessInv
  <2> QED BY <1>1, <2>1 DEF Tick, Traffic, TrafficType, TrafficInv
<1>7. Traffic'
  BY <1>1, <1>4, <1>5, <1>6 DEF Tick, Traffic, TrafficType, TrafficInv
<1> QED BY <1>2, <1>7 DEF LifecycleInv, TypeOK, Process, Traffic

---------------------------------------------------------------------------
(* A step of the goroutine of run.                                         *)
LEMMA Running ==
  ASSUME LifecycleInv, Run
  PROVE  LifecycleInv'
<1>1. Process /\ Traffic BY Parts
<1>2. CASE SelectServeErr
  BY <1>1, <1>2 DEF SelectServeErr, Return, traffic, ShuttingDown, LifecycleInv, TypeOK,
     Process, ProcessType, ProcessInv, Traffic, TrafficType, TrafficInv
<1>3. CASE SelectSignal
  BY <1>1, <1>3 DEF SelectSignal, traffic, ShuttingDown, LifecycleInv, TypeOK,
     Process, ProcessType, ProcessInv, Traffic, TrafficType, TrafficInv
<1>4. CASE Poll
  <2>1. Process'
    BY <1>1, <1>4 DEF Poll, Return, ShuttingDown, Process, ProcessType, ProcessInv
  <2>2. \A c \in Conns :
          conn'[c] # "none" => ~Closable(c) /\ conn'[c] = conn[c] /\ waited'[c] = waited[c]
    BY <1>4 DEF Poll
  <2>3. cause' = "stopped" => \A c \in Conns : conn'[c] = "none"
    BY <1>1, <1>4, <2>2 DEF Poll, Return, Quiescent, ShuttingDown, Process, ProcessType
  <2>4. \A c \in held' : conn'[c] = "calling" /\ waited'[c] > drained'
    BY <1>1, <1>4 DEF Poll, Closable, Traffic, TrafficType, TrafficInv
  <2>5. TrafficType'
    BY <1>1, <1>4, <2>2 DEF Poll, Traffic, TrafficType
  <2>6. TrafficInv'
    BY <1>1, <1>4, <2>2, <2>3, <2>4 DEF Poll, Return, ShuttingDown, Begun, Traffic, TrafficInv, TrafficType
  <2> QED BY <2>1, <2>5, <2>6 DEF LifecycleInv, TypeOK, Process
<1>5. CASE DrainFails
  BY <1>1, <1>5 DEF DrainFails, DeadlinePassed, Return, traffic, ShuttingDown, LifecycleInv,
     TypeOK, Process, ProcessType, ProcessInv, Traffic, TrafficType, TrafficInv
<1> QED BY <1>2, <1>3, <1>4, <1>5 DEF Run

(* A step of a client, or of the goroutine that serves it.                 *)
LEMMA Serving ==
  ASSUME LifecycleInv, NEW c \in Conns,
         \/ Accept(c) \/ Send(c) \/ AnswerAtOnce(c) \/ Delegate(c)
         \/ StsAnswers(c) \/ Disconnect(c) \/ Read(c) \/ TimeOut(c)
  PROVE  LifecycleInv'
<1>1. Process /\ Traffic BY Parts
<1>2. Alive /\ UNCHANGED process
  BY DEF Accept, Send, AnswerAtOnce, Delegate, StsAnswers, Disconnect, Read, TimeOut, Answer
<1>3. Process' BY <1>1, <1>2, ProcessUndisturbed
<1>4. cause = "none" BY <1>1, <1>2 DEF Alive, Process, ProcessType
<1>5. conn[c] # "none" => main # "building"
  BY <1>1 DEF Traffic, TrafficType, TrafficInv
<1>6. CASE Accept(c)
  <2>1. main # "building"
    BY <1>1, <1>6 DEF Accept, Alive, ShuttingDown, Process, ProcessType, ProcessInv,
       Traffic, TrafficType, TrafficInv
  <2>2. c \notin held BY <1>1, <1>6 DEF Accept, Traffic, TrafficInv
  <2>3. Traffic' BY <1>1, <1>2, <1>4, <1>6, <2>1, <2>2, Stage DEF Accept
  <2> QED BY <1>3, <2>3 DEF LifecycleInv, TypeOK, Process, Traffic
<1>7. CASE Send(c)
  BY <1>1, <1>3, <1>7 DEF Send, process, LifecycleInv, TypeOK, Process, Traffic,
     TrafficType, TrafficInv
<1>8. CASE Read(c) \/ Delegate(c)
  <2>1. c \notin held
    BY <1>1, <1>8 DEF Read, Delegate, Traffic, TrafficInv
  <2>2. PICK s \in Begun : Become(c, s)
    BY <1>8 DEF Read, Delegate, Begun
  <2>3. conn[c] # "none" BY <1>8 DEF Read, Delegate
  <2>4. sent' \subseteq sent /\ held' = held
    BY <1>8 DEF Read, Delegate
  <2>5. Traffic' BY <1>1, <1>2, <1>4, <1>5, <2>1, <2>2, <2>3, <2>4, Stage
  <2> QED BY <1>3, <2>5 DEF LifecycleInv, TypeOK, Process, Traffic
<1>9. CASE AnswerAtOnce(c) \/ StsAnswers(c) \/ TimeOut(c)
  <2>1. Answer(c) /\ conn[c] \in Begun
    BY <1>9 DEF AnswerAtOnce, StsAnswers, TimeOut, TimerDue, Begun
  <2>2. Traffic' BY <1>1, <1>2, <2>1, Answering
  <2> QED BY <1>3, <2>2 DEF LifecycleInv, TypeOK, Process, Traffic
<1>10. CASE Disconnect(c)
  <2>1. conn[c] # "none" /\ sent' \subseteq sent /\ held' = held \ {c}
        /\ Become(c, "none")
    BY <1>10 DEF Disconnect
  <2>2. Traffic' BY <1>1, <1>2, <1>4, <1>5, <2>1, Stage
  <2> QED BY <1>3, <2>2 DEF LifecycleInv, TypeOK, Process, Traffic
<1> QED BY <1>6, <1>7, <1>8, <1>9, <1>10

---------------------------------------------------------------------------
(* The inductive invariant (main.go, run).                                 *)
THEOREM LifecycleInvariant == Spec => []LifecycleInv
<1>1. Init => LifecycleInv
  <2> 0 \in 0..ShutdownTimeout BY LifecycleAssumption
  <2>1. Init => ProcessType /\ ProcessInv
    BY Zenon DEF Init, ProcessType, ProcessInv, ShuttingDown
  <2>2. Init => TrafficType /\ TrafficInv
    BY DEF Init, TrafficType, TrafficInv, Begun
  <2> QED BY <2>1, <2>2 DEF LifecycleInv, TypeOK
<1>2. LifecycleInv /\ [Next]_vars => LifecycleInv'
  <2> SUFFICES ASSUME LifecycleInv, [Next]_vars PROVE LifecycleInv'
    OBVIOUS
  <2> USE DEF LifecycleInv, TypeOK, ProcessType, ProcessInv, TrafficType, TrafficInv
  <2>1. CASE UNCHANGED vars
    BY <2>1 DEF vars, ShuttingDown
  <2>2. CASE Build
    BY <2>2 DEF Build, Return, traffic, ShuttingDown
  <2>3. CASE Run
    BY <2>3, Running
  <2>4. CASE Listen
    BY <2>4 DEF Listen, Alive, traffic, ShuttingDown
  <2>5. CASE ServeReturns
    BY <2>5 DEF ServeReturns, Alive, traffic, ShuttingDown
  <2>6. CASE Signal
    BY <2>6 DEF Signal, Alive, ShuttingDown
  <2>7. CASE Tick
    BY <2>7, Ticking
  <2>8. CASE Clients \/ \E c \in Conns : Work(c)
    BY <2>8, Serving DEF Clients, Work
  <2> QED BY <2>1, <2>2, <2>3, <2>4, <2>5, <2>6, <2>7, <2>8 DEF Next, Serve
<1> QED BY <1>1, <1>2, PTL DEF Spec

(* Types, with the bounds on the drain and on every call (TypeOK).         *)
THEOREM TypeCorrect == Spec => []TypeOK
<1>1. LifecycleInv => TypeOK BY DEF LifecycleInv
<1> QED BY <1>1, LifecycleInvariant, PTL

(* Exit status 0 is the truth (main.go:91-107).                            *)
THEOREM ExitsClean == Spec => []CleanExit
<1>1. LifecycleInv => CleanExit
  BY DEF LifecycleInv, TypeOK, ProcessType, ProcessInv, TrafficInv, CleanExit, ExitStatus, Alive
<1> QED BY <1>1, LifecycleInvariant, PTL

(* A drain at least as long as a call of STS cuts off none that was under  *)
(* way when the signal came (main.go:33-40).                               *)
THEOREM PromisesAreKept == Spec => []PromisesKept
<1>1. LifecycleInv => PromisesKept
  <2> SUFFICES ASSUME LifecycleInv, cause = "deadline", NEW c \in held PROVE FALSE
    BY DEF PromisesKept
  <2>1. drained >= ShutdownTimeout /\ drained \in Int
    BY LifecycleAssumption DEF LifecycleInv, ProcessInv, TypeOK, ProcessType
  <2>2. waited[c] > drained /\ waited[c] <= StsTimeout /\ waited[c] \in Nat
    BY DEF LifecycleInv, TrafficInv, TypeOK, TrafficType
  <2> QED BY <2>1, <2>2, LifecycleAssumption
<1> QED BY <1>1, LifecycleInvariant, PTL
===========================================================================
