----------------------------- MODULE RequestLog -----------------------------
(***************************************************************************)
(* How a request runs through the middlewares of the Go server (router.go, *)
(* middleware.go) and which lines it leaves in the log (internal/logging). *)
(* gin is not part of the repository: the order in which it runs a chain,  *)
(* what Recovery does with a panic and the redirect it gives by itself are *)
(* modelled from how the router relies on them.                            *)
(*                                                                         *)
(* The log attributes of a context are a Go slice, a view of an array in a *)
(* heap that every request of the process shares; so the model has the     *)
(* heap, and a context is an array and a length.                           *)
(***************************************************************************)
EXTENDS Integers, Sequences

CONSTANTS
  Requests,     (* identities of requests                                  *)
  Headers,      (* values of X-Request-Id: [text, length, safe]            *)
  FreshText,    (* for each request, the 32 hex digits newRequestID draws  *)
  Keys,         (* keys of log attributes                                  *)
  Parts,        (* attributes a handler adds to a context or a logger      *)
  Statuses,     (* statuses a handler answers with                         *)
  MaxContexts,  (* bound, for each request: its contexts                   *)
  MaxLines      (* bound, for each request: the lines its handler writes   *)

(* maxRequestIDLen of middleware.go.                                       *)
MaxRequestIDLen == 128

(* An attribute of a log line, slog.Attr.                                  *)
Attr(key, value) == [key |-> key, value |-> value]

(* Mutant: only the length is looked at.                                   *)
ShortEnough(id) == id.length \in 1 .. MaxRequestIDLen

(* isValidRequestID: 1 to 128 bytes, all of them in [A-Za-z0-9_-].         *)
IsValidRequestID(id) == id.length \in 1 .. MaxRequestIDLen /\ id.safe

(* newRequestID: 16 random bytes in hex.                                   *)
NewRequestID(r) == [text |-> FreshText[r], length |-> 32, safe |-> TRUE]

ASSUME RequestLogAssumption ==
  /\ Headers \subseteq [text : STRING, length : Nat, safe : BOOLEAN]
  /\ FreshText \in [Requests -> STRING]
  /\ "request_id" \in Keys
  /\ Parts \subseteq Seq([key : Keys \ {"request_id"}, value : STRING])
  /\ Statuses \subseteq Nat
  /\ MaxContexts \in [Requests -> Nat] /\ MaxLines \in [Requests -> Nat]

VARIABLES
  heap,    (* the arrays of attributes allocated so far                    *)
  stage,   (* arriving, down, handler, up, answered or redirected          *)
  pos,     (* how many middlewares of Chain the request is inside of       *)
  header,  (* the X-Request-Id it came with                                *)
  ctxs,    (* its contexts; the first is that of c.Request                 *)
  meant,   (* history: the attributes each of them was derived to carry    *)
  respId,  (* X-Request-Id of the response, as a set of at most one        *)
  status,  (* c.Writer.Status()                                            *)
  lines,   (* the log lines written on its behalf                          *)
  alive    (* the process runs                                             *)

vars == <<heap, stage, pos, header, ctxs, meant, respId, status, lines, alive>>

---------------------------------------------------------------------------
(* internal/logging                                                        *)

(* A context without attributes.                                           *)
Background == [array |-> 0, len |-> 0]

(* The attributes a context carries: ctx.Value(ctxKey{}).                  *)
Attrs(mem, ctx) == IF ctx.array = 0 THEN <<>> ELSE SubSeq(mem[ctx.array], 1, ctx.len)

(* Mutant: append(existing, attrs...), with room to grow.                  *)
AppendShared(mem, parent, attrs) ==
  LET n == parent.len + Len(attrs)
      merged == Attrs(mem, parent) \o attrs
  IN IF parent.array # 0 /\ n <= Len(mem[parent.array])
     THEN [mem |-> [mem EXCEPT ![parent.array] =
                      merged \o SubSeq(@, n + 1, Len(@))],
           ctx |-> [array |-> parent.array, len |-> n]]
     ELSE [mem |-> Append(mem, merged \o merged),
           ctx |-> [array |-> Len(mem) + 1, len |-> n]]

(* AppendCtx: an array of the exact size, filled before anyone can see it. *)
AppendCtx(mem, parent, attrs) ==
  [mem |-> Append(mem, Attrs(mem, parent) \o attrs),
   ctx |-> [array |-> Len(mem) + 1, len |-> Len(Attrs(mem, parent)) + Len(attrs)]]

(* A handler of slog: what New makes, and what With derives from it. The   *)
(* loggers of the request path open no group (the convention of New).      *)
New == [wrapped |-> TRUE, own |-> <<>>]

(* Mutant: the promoted method of the embedded handler.                    *)
WithAttrsUnwrapped(h, attrs) == [wrapped |-> FALSE, own |-> h.own \o attrs]

WithAttrs(h, attrs) == [h EXCEPT !.own = @ \o attrs]

(* Mutant: the record is in a group, and the attributes of the context too.*)
HandleGrouped(h, mem, ctx) ==
  LET attrs == Attrs(mem, ctx)
  IN  h.own \o [i \in DOMAIN attrs |-> [attrs[i] EXCEPT !.key = "g." \o @]]

(* ContextHandler.Handle: the attributes of the context join the record.   *)
Handle(h, mem, ctx) == h.own \o (IF h.wrapped THEN Attrs(mem, ctx) ELSE <<>>)

Loggers == {New} \cup {WithAttrs(New, part) : part \in Parts}

---------------------------------------------------------------------------
(* router.go and middleware.go                                             *)

(* Mutant: Recovery in front, the order gin.Default has.                   *)
RecoveryFirst == <<"recovery", "requestID", "requestLogger">>

(* engine.Use in NewRouter.                                                *)
Chain == <<"requestID", "requestLogger", "recovery">>

PositionOf(m) == CHOOSE i \in 1 .. Len(Chain) : Chain[i] = m

Init ==
  /\ heap = <<>>
  /\ stage = [r \in Requests |-> "arriving"]
  /\ pos = [r \in Requests |-> 0]
  /\ header \in [Requests -> Headers]
  /\ ctxs = [r \in Requests |-> <<Background>>]
  /\ meant = [r \in Requests |-> << <<>> >>]
  /\ respId = [r \in Requests |-> {}]
  /\ status = [r \in Requests |-> 200]
  /\ lines = [r \in Requests |-> <<>>]
  /\ alive = TRUE

(* A request for a path, or for none: a 404 runs through the chain too.    *)
Arrive(r) ==
  /\ alive
  /\ stage[r] = "arriving"
  /\ stage' = [stage EXCEPT ![r] = "down"]
  /\ UNCHANGED <<heap, pos, header, ctxs, meant, respId, status, lines, alive>>

(* A path with a slash too many: gin redirects it before any middleware.   *)
Redirect(r) ==
  /\ alive
  /\ stage[r] = "arriving"
  /\ stage' = [stage EXCEPT ![r] = "redirected"]
  /\ status' = [status EXCEPT ![r] = 307]
  /\ UNCHANGED <<heap, pos, header, ctxs, meant, respId, lines, alive>>

(* The part of RequestID before c.Next().                                  *)
RequestID(r) ==
  LET id == IF IsValidRequestID(header[r]) THEN header[r] ELSE NewRequestID(r)
      attrs == <<Attr("request_id", id.text)>>
      made == AppendCtx(heap, ctxs[r][1], attrs)
  IN /\ heap' = made.mem
     /\ ctxs' = [ctxs EXCEPT ![r][1] = made.ctx]
     /\ meant' = [meant EXCEPT ![r][1] = meant[r][1] \o attrs]
     /\ respId' = [respId EXCEPT ![r] = {id}]

(* The next middleware begins; behind the last one is the handler.         *)
Enter(r) ==
  /\ alive
  /\ stage[r] = "down"
  /\ pos' = [pos EXCEPT ![r] = @ + 1]
  /\ stage' = [stage EXCEPT ![r] = IF pos[r] + 1 = Len(Chain) THEN "handler" ELSE "down"]
  /\ IF Chain[pos[r] + 1] = "requestID"
     THEN RequestID(r)
     ELSE UNCHANGED <<heap, ctxs, meant, respId>>
  /\ UNCHANGED <<header, status, lines, alive>>

(* A goroutine of the handler derives a context from one it has.           *)
Derive(r, k, part) ==
  LET made == AppendCtx(heap, ctxs[r][k], part)
  IN /\ alive
     /\ stage[r] = "handler"
     /\ Len(ctxs[r]) < MaxContexts[r]
     /\ heap' = made.mem
     /\ ctxs' = [ctxs EXCEPT ![r] = Append(@, made.ctx)]
     /\ meant' = [meant EXCEPT ![r] = Append(@, meant[r][k] \o part)]
     /\ UNCHANGED <<stage, pos, header, respId, status, lines, alive>>

(* A line of the log; "status" is there in the access line only.           *)
Line(msg, h, ctx, shown) == [msg |-> msg, attrs |-> Handle(h, heap, ctx), status |-> shown]

(* A handler writes a line with one of its contexts.                       *)
Emit(r, h, k) ==
  /\ alive
  /\ stage[r] = "handler"
  /\ Len(lines[r]) < MaxLines[r]
  /\ lines' = [lines EXCEPT ![r] = Append(@, Line("handler", h, ctxs[r][k], 0))]
  /\ UNCHANGED <<heap, stage, pos, header, ctxs, meant, respId, status, alive>>

(* The handler answers; the body waits in the buffer of net/http.          *)
Finish(r, s) ==
  /\ alive
  /\ stage[r] = "handler"
  /\ stage' = [stage EXCEPT ![r] = "up"]
  /\ status' = [status EXCEPT ![r] = s]
  /\ UNCHANGED <<heap, pos, header, ctxs, meant, respId, lines, alive>>

(* The handler panics: the frames down to Recovery's are gone, the rest of *)
(* their middlewares with them, and the answer is a 500.                   *)
Panic(r) ==
  /\ alive
  /\ stage[r] = "handler"
  /\ stage' = [stage EXCEPT ![r] = "up"]
  /\ pos' = [pos EXCEPT ![r] = PositionOf("recovery") - 1]
  /\ status' = [status EXCEPT ![r] = 500]
  /\ UNCHANGED <<heap, header, ctxs, meant, respId, lines, alive>>

(* The part of a middleware behind c.Next(); requestLogger writes here.    *)
Leave(r) ==
  /\ alive
  /\ stage[r] = "up"
  /\ pos[r] > 0
  /\ pos' = [pos EXCEPT ![r] = @ - 1]
  /\ lines' = IF Chain[pos[r]] = "requestLogger"
              THEN [lines EXCEPT ![r] = Append(@, Line("request", New, ctxs[r][1], status[r]))]
              ELSE lines
  /\ UNCHANGED <<heap, stage, header, ctxs, meant, respId, status, alive>>

(* The chain has returned: net/http sends what is in the buffer.           *)
Flush(r) ==
  /\ alive
  /\ stage[r] = "up"
  /\ pos[r] = 0
  /\ stage' = [stage EXCEPT ![r] = "answered"]
  /\ UNCHANGED <<heap, pos, header, ctxs, meant, respId, status, lines, alive>>

(* The process dies; the lines it has written stay.                        *)
Crash ==
  /\ alive
  /\ alive' = FALSE
  /\ UNCHANGED <<heap, stage, pos, header, ctxs, meant, respId, status, lines>>

Next ==
  \/ Crash
  \/ \E r \in Requests :
       \/ Arrive(r) \/ Redirect(r) \/ Enter(r) \/ Panic(r) \/ Leave(r) \/ Flush(r)
       \/ \E s \in Statuses : Finish(r, s)
       \/ \E k \in 1 .. Len(ctxs[r]) :
            \/ \E part \in Parts : Derive(r, k, part)
            \/ \E h \in Loggers : Emit(r, h, k)

Spec == Init /\ [][Next]_vars

---------------------------------------------------------------------------
(* Properties                                                              *)

Ids == Headers \cup {NewRequestID(r) : r \in Requests}
Attributes == [key : Keys, value : STRING]
Slices == [array : Nat, len : Nat]

(* Every variable holds a value of its kind.                               *)
TypeOK ==
  /\ heap \in Seq(Seq(Attributes))
  /\ stage \in [Requests -> {"arriving", "down", "handler", "up", "answered", "redirected"}]
  /\ pos \in [Requests -> 0 .. Len(Chain)]
  /\ header \in [Requests -> Headers]
  /\ ctxs \in [Requests -> Seq(Slices)]
  /\ meant \in [Requests -> Seq(Seq(Attributes))]
  /\ respId \in [Requests -> SUBSET Ids]
  /\ status \in [Requests -> Nat]
  /\ lines \in [Requests -> Seq([msg : {"handler", "request"}, attrs : Seq(Attributes), status : Nat])]
  /\ alive \in BOOLEAN

(* Deriving contexts, in whatever order goroutines do it and from whatever *)
(* common ancestor, leaves every context with the attributes it was made   *)
(* to have ("파생 context 간 간섭을 막는다", AppendCtx).                   *)
ContextsIntact ==
  \A r \in Requests : \A k \in DOMAIN ctxs[r] : Attrs(heap, ctxs[r][k]) = meant[r][k]

(* Where a list of attributes shows a request id.                          *)
IdPositions(attrs) == {i \in DOMAIN attrs : attrs[i].key = "request_id"}

ShowsJust(attrs, id) ==
  \E i \in DOMAIN attrs : IdPositions(attrs) = {i} /\ attrs[i].value = id.text

(* The client's own id where it can be shown as it is, and never one that  *)
(* cannot.                                                                 *)
Acceptable(id, h) == IsValidRequestID(id) /\ (id = h \/ ~IsValidRequestID(h))

(* A line can be traced: whichever middleware or handler wrote it, with    *)
(* whichever logger and context, it shows one request id, and that is the  *)
(* one the response carries.                                               *)
LinesTraceable ==
  \A r \in Requests : \A n \in DOMAIN lines[r] :
    \E id \in respId[r] :
      ShowsJust(lines[r][n].attrs, id) /\ Acceptable(id, header[r])

AccessLines(r) == {n \in DOMAIN lines[r] : lines[r][n].msg = "request"}

(* The log is never behind the clients: an answer that went through the    *)
(* chain has one access line, the last of the request's lines, with the    *)
(* status it was given, also when the handler panicked, and also when the  *)
(* process dies right after it ("요청당 한 줄", requestLogger).            *)
AnswersLogged ==
  \A r \in Requests :
    stage[r] = "answered" =>
      /\ AccessLines(r) = {Len(lines[r])}
      /\ lines[r][Len(lines[r])].status = status[r]

---------------------------------------------------------------------------
(* The inductive invariant                                                 *)

(* A slice covers the whole of its array, which no one writes to again.    *)
Whole(mem, ctx) ==
  /\ ctx.array \in 0 .. Len(mem)
  /\ ctx.len = IF ctx.array = 0 THEN 0 ELSE Len(mem[ctx.array])

ContextsKept(r) ==
  /\ ctxs[r] # <<>>
  /\ Len(ctxs[r]) = Len(meant[r])
  /\ \A k \in 1 .. Len(ctxs[r]) : Whole(heap, ctxs[r][k]) /\ Attrs(heap, ctxs[r][k]) = meant[r][k]

(* Inside RequestID every context of the request shows the request's id.   *)
Identified(r) ==
  /\ \A id \in respId[r] : Acceptable(id, header[r])
  /\ pos[r] = 0 /\ stage[r] \in {"arriving", "down"} =>
       respId[r] = {} /\ meant[r] = << <<>> >>
  /\ pos[r] > 0 \/ stage[r] \in {"handler", "up"} =>
       \E id \in respId[r] : \A k \in 1 .. Len(meant[r]) : ShowsJust(meant[r][k], id)

InPlace(r) ==
  /\ stage[r] = "down" => pos[r] < Len(Chain)
  /\ stage[r] = "handler" => pos[r] = Len(Chain)
  /\ stage[r] \in {"arriving", "answered", "redirected"} => pos[r] = 0

LoggedOnce(r) ==
  IF stage[r] = "answered" \/ (stage[r] = "up" /\ pos[r] < PositionOf("requestLogger"))
  THEN AccessLines(r) = {Len(lines[r])} /\ lines[r][Len(lines[r])].status = status[r]
  ELSE AccessLines(r) = {}

RequestLogInv ==
  /\ TypeOK
  /\ LinesTraceable
  /\ \A r \in Requests : ContextsKept(r) /\ Identified(r) /\ InPlace(r) /\ LoggedOnce(r)
=============================================================================
