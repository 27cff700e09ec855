-------------------------- MODULE RequestLogProofs --------------------------
(***************************************************************************)
(* What the log of the server shows, for any number of requests, contexts  *)
(* and lines, and any headers, attributes and statuses.                    *)
(***************************************************************************)
EXTENDS RequestLog, TLAPS

(* The order of NewRouter's middlewares.                                   *)
LEMMA Positions ==
  /\ Len(Chain) = 3
  /\ \A i \in 1 .. 3 : /\ Chain[i] = "requestID" <=> i = 1
                       /\ Chain[i] = "requestLogger" <=> i = 2
  /\ PositionOf("requestLogger") = 2
  /\ PositionOf("recovery") = 3
<1>1. /\ Len(Chain) = 3
      /\ Chain[1] = "requestID" /\ Chain[2] = "requestLogger" /\ Chain[3] = "recovery"
  BY DEF Chain
<1>2. /\ \A i \in 1 .. Len(Chain) : Chain[i] = "requestLogger" <=> i = 2
      /\ \A i \in 1 .. Len(Chain) : Chain[i] = "recovery" <=> i = 3
  BY <1>1
<1>3. PositionOf("requestLogger") = 2
  BY <1>1, <1>2 DEF PositionOf
<1>4. PositionOf("recovery") = 3
  BY <1>1, <1>2 DEF PositionOf
<1> QED BY <1>1, <1>3, <1>4

---------------------------------------------------------------------------
(* A new context carries what its parent carries and what was added, and   *)
(* every context there was before is left as it was.                       *)
Derived(mem, parent, attrs, made) ==
  /\ made.mem \in Seq(Seq(Attributes))
  /\ made.ctx \in Slices
  /\ Whole(made.mem, made.ctx)
  /\ Attrs(made.mem, made.ctx) = Attrs(mem, parent) \o attrs
  /\ \A c \in Slices : Whole(mem, c) =>
       Whole(made.mem, c) /\ Attrs(made.mem, c) = Attrs(mem, c)

LEMMA Appended ==
  ASSUME NEW mem \in Seq(Seq(Attributes)), NEW parent \in Slices, Whole(mem, parent),
         NEW attrs \in Seq(Attributes)
  PROVE  Derived(mem, parent, attrs, AppendCtx(mem, parent, attrs))
<1> DEFINE made == AppendCtx(mem, parent, attrs)
           carried == Attrs(mem, parent)
           merged == carried \o attrs
<1>1. \A c \in Slices : Whole(mem, c) =>
        /\ Attrs(mem, c) = IF c.array = 0 THEN <<>> ELSE mem[c.array]
        /\ Attrs(mem, c) \in Seq(Attributes)
  <2> SUFFICES ASSUME NEW c \in Slices, Whole(mem, c)
               PROVE  /\ Attrs(mem, c) = IF c.array = 0 THEN <<>> ELSE mem[c.array]
                      /\ Attrs(mem, c) \in Seq(Attributes)
    OBVIOUS
  <2>1. CASE c.array = 0 BY <2>1 DEF Attrs
  <2>2. CASE c.array # 0
    <3>1. mem[c.array] \in Seq(Attributes) /\ c.len = Len(mem[c.array])
      BY <2>2 DEF Whole, Slices
    <3>2. SubSeq(mem[c.array], 1, Len(mem[c.array])) = mem[c.array]
      BY <3>1
    <3> QED BY <2>2, <3>1, <3>2 DEF Attrs
  <2> QED BY <2>1, <2>2
<1>2. carried \in Seq(Attributes)
  BY <1>1
<1>3. /\ merged \in Seq(Attributes)
      /\ Len(merged) = Len(carried) + Len(attrs)
  BY <1>2
<1>4. made = [mem |-> Append(mem, merged),
              ctx |-> [array |-> Len(mem) + 1, len |-> Len(carried) + Len(attrs)]]
  BY DEF AppendCtx
<1>5. /\ made.mem \in Seq(Seq(Attributes))
      /\ Len(made.mem) = Len(mem) + 1
      /\ made.mem[Len(mem) + 1] = merged
      /\ \A i \in 1 .. Len(mem) : made.mem[i] = mem[i]
  BY <1>3, <1>4
<1>6. /\ made.ctx = [array |-> Len(mem) + 1, len |-> Len(merged)]
      /\ made.ctx.array = Len(mem) + 1 /\ made.ctx.len = Len(merged)
      /\ Len(merged) \in Nat /\ Len(mem) \in Nat /\ Len(made.mem) \in Nat
  BY <1>3, <1>4, <1>5
<1> HIDE DEF carried, merged, made
<1>7. made.ctx \in Slices /\ Whole(made.mem, made.ctx)
  BY <1>5, <1>6 DEF Slices, Whole
<1>8. Attrs(made.mem, made.ctx) = merged
  <2>1. SubSeq(merged, 1, Len(merged)) = merged BY <1>3
  <2>2. made.ctx.array # 0 BY <1>6
  <2> QED BY <1>5, <1>6, <2>1, <2>2 DEF Attrs
<1>9. \A c \in Slices : Whole(mem, c) =>
        Whole(made.mem, c) /\ Attrs(made.mem, c) = Attrs(mem, c)
  <2> SUFFICES ASSUME NEW c \in Slices, Whole(mem, c)
               PROVE  Whole(made.mem, c) /\ Attrs(made.mem, c) = Attrs(mem, c)
    OBVIOUS
  <2>1. c.array \in 0 .. Len(mem) /\ Len(mem) \in Nat
    BY DEF Whole
  <2>2. c.array \in 0 .. Len(made.mem)
    BY <1>5, <2>1
  <2>3. c.array # 0 => made.mem[c.array] = mem[c.array]
    BY <1>5, <2>1
  <2>4. Whole(made.mem, c)
    BY <2>2, <2>3 DEF Whole
  <2>5. Attrs(made.mem, c) = Attrs(mem, c)
    BY <2>3 DEF Attrs
  <2> QED BY <2>4, <2>5
<1> QED BY <1>5, <1>7, <1>8, <1>9 DEF merged, carried, made, Derived

(* Attributes without an id, on either side, leave the id a list shows.    *)
LEMMA Joined ==
  ASSUME NEW a \in Seq(Attributes), NEW b \in Seq(Attributes), NEW id,
         ShowsJust(a, id), IdPositions(b) = {}
  PROVE  ShowsJust(a \o b, id) /\ ShowsJust(b \o a, id)
<1>1. PICK i \in DOMAIN a : IdPositions(a) = {i} /\ a[i].value = id.text
  BY DEF ShowsJust
<1>2. /\ \A j \in DOMAIN a : a[j].key = "request_id" <=> j = i
      /\ \A j \in DOMAIN b : b[j].key # "request_id"
  BY <1>1 DEF IdPositions
<1>3. ShowsJust(a \o b, id)
  <2>1. i \in DOMAIN (a \o b) /\ (a \o b)[i] = a[i]
    OBVIOUS
  <2>2. \A j \in DOMAIN (a \o b) : (a \o b)[j].key = "request_id" <=> j = i
    BY <1>2
  <2> QED BY <1>1, <2>1, <2>2 DEF ShowsJust, IdPositions
<1>4. ShowsJust(b \o a, id)
  <2> DEFINE p == Len(b) + i
  <2>1. p \in DOMAIN (b \o a) /\ (b \o a)[p] = a[i]
    OBVIOUS
  <2>2. \A j \in DOMAIN (b \o a) : (b \o a)[j].key = "request_id" <=> j = p
    BY <1>2
  <2> QED BY <1>1, <2>1, <2>2 DEF ShowsJust, IdPositions
<1> QED BY <1>3, <1>4

---------------------------------------------------------------------------
(* The invariant, request by request.                                      *)
Traced(r) ==
  \A n \in DOMAIN lines[r] :
    \E id \in respId[r] : ShowsJust(lines[r][n].attrs, id) /\ Acceptable(id, header[r])

Good(r) == ContextsKept(r) /\ Identified(r) /\ InPlace(r) /\ LoggedOnce(r) /\ Traced(r)

LEMMA ByRequest == RequestLogInv <=> TypeOK /\ \A r \in Requests : Good(r)
BY DEF RequestLogInv, Good, LinesTraceable, Traced

(* The contexts there are keep what they carry.                            *)
Lasting == \A c \in Slices : Whole(heap, c) => Whole(heap', c) /\ Attrs(heap', c) = Attrs(heap, c)

(* What is done for one request leaves the others as they are.             *)
LEMMA Elsewhere ==
  ASSUME TypeOK, Lasting, NEW r \in Requests, Good(r),
         stage'[r] = stage[r], pos'[r] = pos[r], header'[r] = header[r], ctxs'[r] = ctxs[r],
         meant'[r] = meant[r], respId'[r] = respId[r], status'[r] = status[r], lines'[r] = lines[r]
  PROVE  Good(r)'
<1>1. ContextsKept(r)' BY DEF Good, ContextsKept, Lasting, TypeOK
<1>2. Identified(r)' BY DEF Good, Identified
<1>3. InPlace(r)' BY DEF Good, InPlace
<1>4. LoggedOnce(r)' BY DEF Good, LoggedOnce, AccessLines
<1>5. Traced(r)' BY DEF Good, Traced
<1> QED BY <1>1, <1>2, <1>3, <1>4, <1>5 DEF Good

(* A step that neither derives a context nor writes a line.                *)
LEMMA Moving ==
  ASSUME RequestLogInv, NEW r \in Requests,
         Arrive(r) \/ Redirect(r) \/ Panic(r) \/ Flush(r) \/ \E s \in Statuses : Finish(r, s)
  PROVE  RequestLogInv'
<1>1. TypeOK /\ \A q \in Requests : Good(q)
  BY ByRequest
<1>2. UNCHANGED <<heap, header, ctxs, meant, respId, lines, alive>>
  BY DEF Arrive, Redirect, Panic, Flush, Finish
<1>3. \A q \in Requests \ {r} : stage'[q] = stage[q] /\ pos'[q] = pos[q] /\ status'[q] = status[q]
  BY <1>1 DEF TypeOK, Arrive, Redirect, Panic, Flush, Finish
<1>4. TypeOK'
  <2>1. stage' \in [Requests -> {"arriving", "down", "handler", "up", "answered", "redirected"}]
    <3>1. \E st \in {"down", "redirected", "up", "answered"} : stage' = [stage EXCEPT ![r] = st]
      BY DEF Arrive, Redirect, Panic, Flush, Finish
    <3> QED BY <1>1, <3>1 DEF TypeOK
  <2>2. pos' \in [Requests -> 0 .. Len(Chain)]
    <3>1. 2 \in 0 .. Len(Chain) BY Positions
    <3>2. pos' = pos \/ pos' = [pos EXCEPT ![r] = 2]
      BY Positions DEF Arrive, Redirect, Panic, Flush, Finish
    <3> QED BY <1>1, <3>1, <3>2 DEF TypeOK
  <2>3. status' \in [Requests -> Nat]
    <3>1. \A s \in Statuses : s \in Nat BY RequestLogAssumption
    <3>2. \E s \in Nat : status' = status \/ status' = [status EXCEPT ![r] = s]
      BY <3>1 DEF Arrive, Redirect, Panic, Flush, Finish
    <3> QED BY <1>1, <3>2 DEF TypeOK
  <2> QED BY <1>1, <1>2, <2>1, <2>2, <2>3 DEF TypeOK
<1>5. Good(r)'
  <2>1. ContextsKept(r)' /\ Traced(r)'
    BY <1>1, <1>2 DEF Good, ContextsKept, Traced
  <2>2. Identified(r)'
    BY <1>1, <1>2, Positions DEF Good, Identified, InPlace, TypeOK, Arrive, Redirect, Panic, Flush, Finish
  <2>3. InPlace(r)'
    BY <1>1, <1>2, Positions DEF Good, InPlace, TypeOK, Arrive, Redirect, Panic, Flush, Finish
  <2>4. LoggedOnce(r)'
    BY <1>1, <1>2, Positions
    DEF Good, InPlace, LoggedOnce, AccessLines, TypeOK, Arrive, Redirect, Panic, Flush, Finish
  <2> QED BY <2>1, <2>2, <2>3, <2>4 DEF Good
<1>6. \A q \in Requests \ {r} : Good(q)'
  BY <1>1, <1>2, <1>3, Elsewhere DEF Lasting
<1> QED BY <1>4, <1>5, <1>6 DEF RequestLogInv, Good, LinesTraceable, Traced

(* What a handler adds is no request id.                                   *)
LEMMA PartsPlain ==
  ASSUME NEW part \in Parts
  PROVE  part \in Seq(Attributes) /\ IdPositions(part) = {}
<1> DEFINE others == [key : Keys \ {"request_id"}, value : STRING]
<1>1. part \in Seq(others)
  BY RequestLogAssumption
<1>2. \A a \in others : a \in Attributes /\ a.key # "request_id"
  BY DEF Attributes
<1> HIDE DEF others
<1>3. \A i \in DOMAIN part : part[i] \in others
  BY <1>1
<1>4. part \in Seq(Attributes)
  BY <1>1, <1>2, <1>3
<1> QED BY <1>2, <1>3, <1>4 DEF IdPositions

(* A handler derives one more context.                                     *)
LEMMA Deriving ==
  ASSUME RequestLogInv, NEW r \in Requests, NEW k \in 1 .. Len(ctxs[r]),
         NEW part \in Parts, Derive(r, k, part)
  PROVE  RequestLogInv'
<1>1. TypeOK /\ \A q \in Requests : Good(q)
  BY ByRequest
<1> DEFINE made == AppendCtx(heap, ctxs[r][k], part)
<1>2. part \in Seq(Attributes) /\ IdPositions(part) = {}
  BY PartsPlain
<1>3. ctxs[r][k] \in Slices /\ Whole(heap, ctxs[r][k]) /\ Attrs(heap, ctxs[r][k]) = meant[r][k]
  BY <1>1 DEF TypeOK, Good, ContextsKept
<1>4. /\ made.mem \in Seq(Seq(Attributes))
      /\ made.ctx \in Slices
      /\ Whole(made.mem, made.ctx)
      /\ Attrs(made.mem, made.ctx) = meant[r][k] \o part
      /\ \A c \in Slices : Whole(heap, c) =>
           Whole(made.mem, c) /\ Attrs(made.mem, c) = Attrs(heap, c)
  <2>1. heap \in Seq(Seq(Attributes))
    BY <1>1 DEF TypeOK
  <2>2. Derived(heap, ctxs[r][k], part, made)
    BY <1>2, <1>3, <2>1, Appended
  <2> HIDE DEF made
  <2> QED BY <1>3, <2>2 DEF Derived
<1>5. /\ stage[r] = "handler"
      /\ heap' = made.mem
      /\ ctxs' = [ctxs EXCEPT ![r] = Append(@, made.ctx)]
      /\ meant' = [meant EXCEPT ![r] = Append(@, meant[r][k] \o part)]
      /\ UNCHANGED <<stage, pos, header, respId, status, lines, alive>>
  BY DEF Derive
<1> HIDE DEF made
<1>6. Lasting
  BY <1>4, <1>5 DEF Lasting
<1>7. k \in 1 .. Len(meant[r]) /\ meant[r][k] \in Seq(Attributes) /\ meant[r][k] \o part \in Seq(Attributes)
  BY <1>1, <1>2 DEF TypeOK, Good, ContextsKept
<1>8. TypeOK'
  <2>1. ctxs' \in [Requests -> Seq(Slices)]
    BY <1>1, <1>4, <1>5 DEF TypeOK
  <2>2. meant' \in [Requests -> Seq(Seq(Attributes))]
    BY <1>1, <1>5, <1>7 DEF TypeOK
  <2> QED BY <1>1, <1>4, <1>5, <2>1, <2>2 DEF TypeOK
<1>9. Good(r)'
  <2>1. /\ ctxs'[r] = Append(ctxs[r], made.ctx) /\ ctxs[r] \in Seq(Slices)
        /\ meant'[r] = Append(meant[r], meant[r][k] \o part) /\ meant[r] \in Seq(Seq(Attributes))
    BY <1>1, <1>5 DEF TypeOK
  <2>2. ContextsKept(r)'
    <3>1. \A j \in 1 .. Len(ctxs[r]) : ctxs'[r][j] = ctxs[r][j] /\ meant'[r][j] = meant[r][j]
      BY <1>1, <2>1 DEF Good, ContextsKept
    <3>2. /\ Len(ctxs'[r]) = Len(ctxs[r]) + 1 /\ Len(meant'[r]) = Len(ctxs[r]) + 1
          /\ Len(ctxs[r]) \in Nat
          /\ ctxs'[r][Len(ctxs[r]) + 1] = made.ctx
          /\ meant'[r][Len(ctxs[r]) + 1] = meant[r][k] \o part
      BY <1>1, <2>1 DEF Good, ContextsKept
    <3>3. \A j \in 1 .. Len(ctxs[r]) : Whole(heap', ctxs'[r][j]) /\ Attrs(heap', ctxs'[r][j]) = meant'[r][j]
      <4> SUFFICES ASSUME NEW j \in 1 .. Len(ctxs[r])
                   PROVE  Whole(heap', ctxs'[r][j]) /\ Attrs(heap', ctxs'[r][j]) = meant'[r][j]
        OBVIOUS
      <4>1. ctxs[r][j] \in Slices BY <2>1
      <4>2. Whole(heap, ctxs[r][j]) /\ Attrs(heap, ctxs[r][j]) = meant[r][j]
        BY <1>1 DEF Good, ContextsKept
      <4>3. Whole(heap', ctxs[r][j]) /\ Attrs(heap', ctxs[r][j]) = Attrs(heap, ctxs[r][j])
        BY <1>6, <4>1, <4>2 DEF Lasting
      <4> QED BY <3>1, <4>2, <4>3
    <3>4. Whole(heap', made.ctx) /\ Attrs(heap', made.ctx) = meant[r][k] \o part
      BY <1>4, <1>5
    <3>5. \A j \in 1 .. Len(ctxs'[r]) : Whole(heap', ctxs'[r][j]) /\ Attrs(heap', ctxs'[r][j]) = meant'[r][j]
      <4>1. \A j \in 1 .. Len(ctxs'[r]) : j \in 1 .. Len(ctxs[r]) \/ j = Len(ctxs[r]) + 1
        BY <3>2
      <4> QED BY <3>2, <3>3, <3>4, <4>1
    <3>6. ctxs'[r] # <<>>
      <4>1. Len(ctxs'[r]) > 0 BY <3>2
      <4>2. Len(<< >>) = 0 OBVIOUS
      <4> QED BY <4>1, <4>2
    <3> QED BY <3>2, <3>5, <3>6 DEF ContextsKept
  <2>3. Identified(r)'
    <3>1. PICK id \in respId[r] : \A j \in 1 .. Len(meant[r]) : ShowsJust(meant[r][j], id)
      BY <1>1, <1>5 DEF Good, Identified
    <3>2. ShowsJust(meant[r][k] \o part, id)
      BY <1>2, <1>7, <3>1, Joined
    <3>3. \A j \in 1 .. Len(meant'[r]) : ShowsJust(meant'[r][j], id)
      BY <2>1, <3>1, <3>2
    <3> QED BY <1>1, <1>5, <3>3 DEF Good, Identified, InPlace, TypeOK
  <2>4. InPlace(r)' /\ LoggedOnce(r)' /\ Traced(r)'
    BY <1>1, <1>5 DEF Good, InPlace, LoggedOnce, AccessLines, Traced
  <2> QED BY <2>2, <2>3, <2>4 DEF Good
<1>10. \A q \in Requests \ {r} : Good(q)'
  BY <1>1, <1>5, <1>6, Elsewhere DEF TypeOK
<1> QED BY <1>8, <1>9, <1>10 DEF RequestLogInv, Good, LinesTraceable, Traced

(* RequestID, and the other middlewares on the way down.                   *)
LEMMA Entering ==
  ASSUME RequestLogInv, NEW r \in Requests, Enter(r)
  PROVE  RequestLogInv'
<1>1. TypeOK /\ \A q \in Requests : Good(q)
  BY ByRequest
<1>2. /\ stage[r] = "down" /\ pos[r] \in 0 .. 2
      /\ pos' = [pos EXCEPT ![r] = pos[r] + 1]
      /\ stage' = [stage EXCEPT ![r] = IF pos[r] = 2 THEN "handler" ELSE "down"]
      /\ UNCHANGED <<header, status, lines, alive>>
  <2>1. stage[r] = "down" /\ pos[r] \in 0 .. 3 /\ pos[r] < 3
    BY <1>1, Positions DEF Enter, Good, InPlace, TypeOK
  <2>2. pos[r] + 1 = Len(Chain) <=> pos[r] = 2
    BY <2>1, Positions
  <2>3. /\ pos' = [pos EXCEPT ![r] = pos[r] + 1]
        /\ UNCHANGED <<header, status, lines, alive>>
    BY DEF Enter
  <2>4. stage' = [stage EXCEPT ![r] = IF pos[r] = 2 THEN "handler" ELSE "down"]
    BY <2>2 DEF Enter
  <2> QED BY <2>1, <2>3, <2>4
<1>3. /\ stage' \in [Requests -> {"arriving", "down", "handler", "up", "answered", "redirected"}]
      /\ pos' \in [Requests -> 0 .. Len(Chain)]
  <2>1. pos[r] + 1 \in 0 .. Len(Chain) BY <1>2, Positions
  <2> QED BY <1>1, <1>2, <2>1 DEF TypeOK
<1>4. InPlace(r)' /\ LoggedOnce(r)'
  <2>1. pos'[r] = pos[r] + 1 /\ stage'[r] = IF pos[r] = 2 THEN "handler" ELSE "down"
    BY <1>1, <1>2 DEF TypeOK
  <2>2. InPlace(r)' BY <1>2, <2>1, Positions DEF InPlace
  <2>3. LoggedOnce(r)' BY <1>1, <1>2, <2>1 DEF Good, LoggedOnce, AccessLines
  <2> QED BY <2>2, <2>3
<1>5. CASE pos[r] # 0
  <2>1. UNCHANGED <<heap, ctxs, meant, respId>>
    BY <1>2, <1>5, Positions DEF Enter
  <2>2. TypeOK'
    BY <1>1, <1>2, <1>3, <2>1 DEF TypeOK
  <2>3. Good(r)'
    <3>1. ContextsKept(r)' /\ Traced(r)' BY <1>1, <1>2, <2>1 DEF Good, ContextsKept, Traced
    <3>2. Identified(r)'
      <4>1. pos[r] > 0 /\ pos'[r] > 0 BY <1>1, <1>2, <1>5 DEF TypeOK
      <4> QED BY <1>1, <1>2, <2>1, <4>1 DEF Good, Identified
    <3> QED BY <1>4, <3>1, <3>2 DEF Good
  <2>4. \A q \in Requests \ {r} : Good(q)'
    BY <1>1, <1>2, <2>1, Elsewhere DEF TypeOK, Lasting
  <2> QED BY <2>2, <2>3, <2>4 DEF RequestLogInv, Good, LinesTraceable, Traced
<1>6. CASE pos[r] = 0
  <2> DEFINE id == IF IsValidRequestID(header[r]) THEN header[r] ELSE NewRequestID(r)
             attrs == <<Attr("request_id", id.text)>>
             made == AppendCtx(heap, ctxs[r][1], attrs)
  <2>1. RequestID(r)
    BY <1>6, Positions DEF Enter
  <2>2. id \in Ids /\ id.text \in STRING /\ Acceptable(id, header[r])
    <3>1. header[r] \in Headers BY <1>1 DEF TypeOK
    <3>2. header[r] \in [text : STRING, length : Nat, safe : BOOLEAN] BY <3>1, RequestLogAssumption
    <3>3. FreshText[r] \in STRING BY RequestLogAssumption
    <3>4. CASE IsValidRequestID(header[r])
      BY <3>1, <3>2, <3>4 DEF Ids, Acceptable
    <3>5. CASE ~IsValidRequestID(header[r])
      <4>1. id = NewRequestID(r) BY <3>5
      <4>2. NewRequestID(r).text \in STRING /\ IsValidRequestID(NewRequestID(r))
        BY <3>3 DEF NewRequestID, IsValidRequestID, MaxRequestIDLen
      <4> QED BY <3>5, <4>1, <4>2 DEF Ids, Acceptable
    <3> QED BY <3>4, <3>5
  <2> HIDE DEF id
  <2>3. attrs \in Seq(Attributes) /\ ShowsJust(attrs, id)
    <3>1. attrs = <<[key |-> "request_id", value |-> id.text]>> BY DEF Attr
    <3>2. attrs \in Seq(Attributes)
      <4>1. "request_id" \in Keys
        BY RequestLogAssumption
      <4>2. [key |-> "request_id", value |-> id.text] \in Attributes
        BY <2>2, <4>1 DEF Attributes
      <4> QED BY <3>1, <4>2
    <3>3. DOMAIN attrs = {1} /\ attrs[1].key = "request_id" /\ attrs[1].value = id.text BY <3>1
    <3> HIDE DEF attrs
    <3>4. IdPositions(attrs) = {1} BY <3>3 DEF IdPositions
    <3> QED BY <3>2, <3>3, <3>4 DEF ShowsJust
  <2>4. /\ meant[r] = << <<>> >> /\ Len(ctxs[r]) = 1 /\ ctxs[r][1] \in Slices
        /\ Whole(heap, ctxs[r][1]) /\ Attrs(heap, ctxs[r][1]) = <<>>
    <3>1. meant[r] = << <<>> >> /\ ContextsKept(r)
      BY <1>1, <1>2, <1>6 DEF Good, Identified
    <3>2. Len(meant[r]) = 1 /\ meant[r][1] = <<>>
      BY <3>1
    <3> QED BY <1>1, <3>1, <3>2 DEF ContextsKept, TypeOK
  <2>5. /\ heap' = made.mem
        /\ ctxs' = [ctxs EXCEPT ![r][1] = made.ctx]
        /\ meant' = [meant EXCEPT ![r][1] = meant[r][1] \o attrs]
        /\ respId' = [respId EXCEPT ![r] = {id}]
    BY <2>1 DEF RequestID, id
  <2> HIDE DEF attrs
  <2>6. /\ made.mem \in Seq(Seq(Attributes))
        /\ made.ctx \in Slices
        /\ Whole(made.mem, made.ctx)
        /\ Attrs(made.mem, made.ctx) = <<>> \o attrs
        /\ \A c \in Slices : Whole(heap, c) =>
             Whole(made.mem, c) /\ Attrs(made.mem, c) = Attrs(heap, c)
    <3>1. heap \in Seq(Seq(Attributes))
      BY <1>1 DEF TypeOK
    <3>2. Derived(heap, ctxs[r][1], attrs, made)
      BY <2>3, <2>4, <3>1, Appended
    <3> HIDE DEF made
    <3> QED BY <2>4, <3>2 DEF Derived
  <2> HIDE DEF made
  <2>7. <<>> \o attrs = attrs
    BY <2>3
  <2>8. /\ ctxs'[r] = <<made.ctx>> /\ meant'[r] = <<attrs>> /\ respId'[r] = {id}
        /\ \A q \in Requests \ {r} : ctxs'[q] = ctxs[q] /\ meant'[q] = meant[q] /\ respId'[q] = respId[q]
    <3>1. ctxs[r] = <<ctxs[r][1]>>
      BY <1>1, <2>4 DEF TypeOK
    <3>2. ctxs'[r] = [ctxs[r] EXCEPT ![1] = made.ctx]
      BY <1>1, <2>5 DEF TypeOK
    <3>3. meant'[r] = [meant[r] EXCEPT ![1] = attrs]
      BY <1>1, <2>4, <2>5, <2>7 DEF TypeOK
    <3> QED BY <1>1, <2>4, <2>5, <3>1, <3>2, <3>3 DEF TypeOK
  <2>9. TypeOK'
    <3>1. ctxs' \in [Requests -> Seq(Slices)]
      <4>1. <<made.ctx>> \in Seq(Slices) BY <2>6
      <4>2. ctxs' = [ctxs EXCEPT ![r] = <<made.ctx>>] BY <1>1, <2>5, <2>8 DEF TypeOK
      <4> QED BY <1>1, <4>1, <4>2 DEF TypeOK
    <3>2. meant' \in [Requests -> Seq(Seq(Attributes))]
      <4>1. <<attrs>> \in Seq(Seq(Attributes)) BY <2>3
      <4>2. meant' = [meant EXCEPT ![r] = <<attrs>>] BY <1>1, <2>5, <2>8 DEF TypeOK
      <4> QED BY <1>1, <4>1, <4>2 DEF TypeOK
    <3>3. respId' \in [Requests -> SUBSET Ids]
      BY <1>1, <2>2, <2>5 DEF TypeOK
    <3> QED BY <1>1, <1>2, <1>3, <2>5, <2>6, <3>1, <3>2, <3>3 DEF TypeOK
  <2>10. Good(r)'
    <3>1. ContextsKept(r)'
      <4>1. Len(ctxs'[r]) = 1 /\ Len(meant'[r]) = 1 /\ ctxs'[r][1] = made.ctx /\ meant'[r][1] = attrs
        BY <2>8
      <4>2. Whole(heap', made.ctx) /\ Attrs(heap', made.ctx) = attrs
        BY <2>5, <2>6, <2>7
      <4>3. ctxs'[r] # <<>> BY <4>1
      <4> QED BY <4>1, <4>2, <4>3 DEF ContextsKept
    <3>2. Identified(r)'
      BY <1>1, <1>2, <1>6, <2>2, <2>3, <2>8 DEF Identified, TypeOK
    <3>3. Traced(r)'
      <4>1. respId[r] = {} BY <1>1, <1>2, <1>6 DEF Good, Identified
      <4> QED BY <1>1, <1>2, <4>1 DEF Good, Traced
    <3> QED BY <1>4, <3>1, <3>2, <3>3 DEF Good
  <2>11. Lasting
    BY <2>5, <2>6 DEF Lasting
  <2>12. \A q \in Requests \ {r} : Good(q)'
    BY <1>1, <1>2, <2>8, <2>11, Elsewhere DEF TypeOK
  <2> QED BY <2>9, <2>10, <2>12 DEF RequestLogInv, Good, LinesTraceable, Traced
<1> QED BY <1>5, <1>6

(* A line written with one of the request's contexts shows its id.         *)
LEMMA LineShowsId ==
  ASSUME TypeOK, NEW r \in Requests, Good(r), stage[r] \in {"handler", "up"},
         NEW k \in 1 .. Len(ctxs[r]), NEW h \in Loggers
  PROVE  /\ Handle(h, heap, ctxs[r][k]) \in Seq(Attributes)
         /\ \E id \in respId[r] :
              ShowsJust(Handle(h, heap, ctxs[r][k]), id) /\ Acceptable(id, header[r])
<1>1. Attrs(heap, ctxs[r][k]) = meant[r][k] /\ meant[r][k] \in Seq(Attributes) /\ k \in 1 .. Len(meant[r])
  BY DEF Good, ContextsKept, TypeOK
<1>2. PICK id \in respId[r] : ShowsJust(meant[r][k], id) /\ Acceptable(id, header[r])
  BY <1>1 DEF Good, Identified
<1>3. h.wrapped /\ h.own \in Seq(Attributes) /\ IdPositions(h.own) = {}
  <2>1. CASE h = New
    BY <2>1 DEF New, IdPositions
  <2>2. CASE \E part \in Parts : h = WithAttrs(New, part)
    <3>1. PICK part \in Parts : h = WithAttrs(New, part) BY <2>2
    <3>2. part \in Seq(Attributes) /\ IdPositions(part) = {} BY PartsPlain
    <3>3. h.wrapped /\ h.own = <<>> \o part BY <3>1 DEF WithAttrs, New
    <3>4. <<>> \o part = part BY <3>2
    <3> QED BY <3>2, <3>3, <3>4
  <2> QED BY <2>1, <2>2 DEF Loggers
<1>4. Handle(h, heap, ctxs[r][k]) = h.own \o meant[r][k]
  BY <1>1, <1>3 DEF Handle
<1>5. h.own \o meant[r][k] \in Seq(Attributes)
  BY <1>1, <1>3
<1>6. ShowsJust(h.own \o meant[r][k], id)
  BY <1>1, <1>2, <1>3, Joined
<1> QED BY <1>2, <1>4, <1>5, <1>6

(* One more line, written by a handler or as the access line.              *)
LEMMA Writing ==
  ASSUME RequestLogInv, NEW r \in Requests, NEW line,
         line \in [msg : {"handler", "request"}, attrs : Seq(Attributes), status : Nat],
         \E id \in respId[r] : ShowsJust(line.attrs, id) /\ Acceptable(id, header[r]),
         lines' = [lines EXCEPT ![r] = Append(@, line)],
         UNCHANGED <<heap, stage, header, ctxs, meant, respId, status, alive>>,
         pos' \in [Requests -> 0 .. Len(Chain)],
         \A q \in Requests \ {r} : pos'[q] = pos[q],
         pos'[r] > 0 \/ stage[r] = "up",
         Identified(r)', InPlace(r)', LoggedOnce(r)'
  PROVE  RequestLogInv'
<1>1. TypeOK /\ \A q \in Requests : Good(q)
  BY ByRequest
<1>2. lines[r] \in Seq([msg : {"handler", "request"}, attrs : Seq(Attributes), status : Nat])
  BY <1>1 DEF TypeOK
<1> DEFINE Lines == [msg : {"handler", "request"}, attrs : Seq(Attributes), status : Nat]
<1>3. lines \in [Requests -> Seq(Lines)] /\ line \in Lines
  BY <1>1 DEF TypeOK
<1> HIDE DEF Lines
<1>4. lines' \in [Requests -> Seq(Lines)] /\ lines'[r] = Append(lines[r], line)
  BY <1>3
<1>5. TypeOK'
  BY <1>1, <1>4 DEF TypeOK, Lines
<1>6. Good(r)'
  <2>1. ContextsKept(r)' BY <1>1 DEF Good, ContextsKept
  <2>2. Traced(r)'
    <3>1. \A n \in DOMAIN lines'[r] :
            (n \in DOMAIN lines[r] /\ lines'[r][n] = lines[r][n]) \/ lines'[r][n] = line
      BY <1>3, <1>4
    <3> QED BY <1>1, <3>1 DEF Good, Traced
  <2> QED BY <2>1, <2>2 DEF Good
<1>7. \A q \in Requests \ {r} : Good(q)'
  <2>1. \A q \in Requests \ {r} : lines'[q] = lines[q] BY <1>3
  <2> QED BY <1>1, <2>1, Elsewhere DEF Lasting
<1> QED BY <1>5, <1>6, <1>7 DEF RequestLogInv, Good, LinesTraceable, Traced

LEMMA Emitting ==
  ASSUME RequestLogInv, NEW r \in Requests, NEW k \in 1 .. Len(ctxs[r]),
         NEW h \in Loggers, Emit(r, h, k)
  PROVE  RequestLogInv'
<1>1. TypeOK /\ Good(r)
  BY ByRequest
<1> DEFINE line == Line("handler", h, ctxs[r][k], 0)
<1>2. /\ stage[r] = "handler"
      /\ lines' = [lines EXCEPT ![r] = Append(@, line)]
      /\ UNCHANGED <<heap, stage, pos, header, ctxs, meant, respId, status, alive>>
  BY DEF Emit
<1>3. line.msg = "handler" /\ line.attrs = Handle(h, heap, ctxs[r][k])
      /\ (line.attrs \in Seq(Attributes) =>
            line \in [msg : {"handler", "request"}, attrs : Seq(Attributes), status : Nat])
  BY DEF Line
<1> HIDE DEF line
<1>4. /\ line.attrs \in Seq(Attributes)
      /\ \E id \in respId[r] : ShowsJust(line.attrs, id) /\ Acceptable(id, header[r])
  BY <1>1, <1>2, <1>3, LineShowsId
<1>5. /\ pos' \in [Requests -> 0 .. Len(Chain)] /\ pos'[r] > 0
      /\ \A q \in Requests \ {r} : pos'[q] = pos[q]
  BY <1>1, <1>2, Positions DEF TypeOK, Good, InPlace
<1>6. Identified(r)' /\ InPlace(r)'
  BY <1>1, <1>2 DEF Good, Identified, InPlace
<1>7. LoggedOnce(r)'
  <2>1. lines[r] \in Seq([msg : {"handler", "request"}, attrs : Seq(Attributes), status : Nat])
        /\ lines'[r] = Append(lines[r], line)
    BY <1>1, <1>2 DEF TypeOK
  <2>2. AccessLines(r) = {} BY <1>1, <1>2 DEF Good, LoggedOnce
  <2>3. AccessLines(r)' = {} BY <1>3, <2>1, <2>2 DEF AccessLines
  <2> QED BY <1>2, <2>3 DEF LoggedOnce
<1> QED BY <1>2, <1>3, <1>4, <1>5, <1>6, <1>7, Writing

(* The way up, on which requestLogger writes the access line.              *)
LEMMA Leaving ==
  ASSUME RequestLogInv, NEW r \in Requests, Leave(r)
  PROVE  RequestLogInv'
<1>1. TypeOK /\ \A q \in Requests : Good(q)
  BY ByRequest
<1>2. /\ stage[r] = "up" /\ pos[r] \in 1 .. 3
      /\ pos' = [pos EXCEPT ![r] = pos[r] - 1]
      /\ UNCHANGED <<heap, stage, header, ctxs, meant, respId, status, alive>>
  BY <1>1, Positions DEF Leave, TypeOK
<1>3. /\ pos' \in [Requests -> 0 .. Len(Chain)] /\ pos'[r] = pos[r] - 1
      /\ \A q \in Requests \ {r} : pos'[q] = pos[q]
  <2>1. pos[r] - 1 \in 0 .. Len(Chain) BY <1>2, Positions
  <2> QED BY <1>1, <1>2, <2>1 DEF TypeOK
<1>4. Identified(r)' /\ InPlace(r)'
  BY <1>1, <1>2, <1>3 DEF Good, Identified, InPlace
<1>5. CASE pos[r] # 2
  <2>1. lines' = lines
    BY <1>2, <1>5, Positions DEF Leave
  <2>2. TypeOK'
    BY <1>1, <1>2, <1>3, <2>1 DEF TypeOK
  <2>3. LoggedOnce(r)'
    BY <1>1, <1>2, <1>3, <1>5, <2>1, Positions DEF Good, LoggedOnce, AccessLines
  <2>4. Good(r)'
    BY <1>1, <1>2, <1>4, <2>1, <2>3 DEF Good, ContextsKept, Traced
  <2>5. \A q \in Requests \ {r} : Good(q)'
    BY <1>1, <1>2, <1>3, <2>1, Elsewhere DEF Lasting
  <2> QED BY <2>2, <2>4, <2>5 DEF RequestLogInv, Good, LinesTraceable, Traced
<1>6. CASE pos[r] = 2
  <2> DEFINE line == Line("request", New, ctxs[r][1], status[r])
  <2>1. lines' = [lines EXCEPT ![r] = Append(@, line)]
    BY <1>6, Positions DEF Leave
  <2>2. 1 \in 1 .. Len(ctxs[r]) /\ New \in Loggers
    BY <1>1 DEF TypeOK, Good, ContextsKept, Loggers
  <2>3. /\ line.msg = "request" /\ line.status = status[r]
        /\ line.attrs = Handle(New, heap, ctxs[r][1])
        /\ (line.attrs \in Seq(Attributes) =>
              line \in [msg : {"handler", "request"}, attrs : Seq(Attributes), status : Nat])
    BY <1>1 DEF Line, TypeOK
  <2> HIDE DEF line
  <2>4. /\ line.attrs \in Seq(Attributes)
        /\ \E id \in respId[r] : ShowsJust(line.attrs, id) /\ Acceptable(id, header[r])
    BY <1>1, <1>2, <2>2, <2>3, LineShowsId
  <2>5. LoggedOnce(r)'
    <3>1. lines[r] \in Seq([msg : {"handler", "request"}, attrs : Seq(Attributes), status : Nat])
          /\ lines'[r] = Append(lines[r], line)
      BY <1>1, <2>1 DEF TypeOK
    <3>2. AccessLines(r) = {} BY <1>1, <1>2, <1>6, Positions DEF Good, LoggedOnce
    <3>3. AccessLines(r)' = {Len(lines'[r])} /\ lines'[r][Len(lines'[r])] = line
      BY <2>3, <3>1, <3>2 DEF AccessLines
    <3> QED BY <1>2, <1>3, <1>6, <2>3, <3>3, Positions DEF LoggedOnce
  <2> QED BY <1>2, <1>3, <1>4, <2>1, <2>3, <2>4, <2>5, Writing
<1> QED BY <1>5, <1>6

---------------------------------------------------------------------------
LEMMA InitHolds == Init => RequestLogInv
<1> SUFFICES ASSUME Init PROVE RequestLogInv
  OBVIOUS
<1>1. TypeOK
  <2>1. <<Background>> \in Seq(Slices) BY DEF Background, Slices
  <2>2. << <<>> >> \in Seq(Seq(Attributes)) OBVIOUS
  <2>3. 0 \in 0 .. Len(Chain) BY Positions
  <2> QED BY <2>1, <2>2, <2>3 DEF Init, TypeOK
<1>2. \A r \in Requests : Good(r)
  <2> SUFFICES ASSUME NEW r \in Requests PROVE Good(r)
    OBVIOUS
  <2>1. ContextsKept(r)
    <3>1. ctxs[r] = <<Background>> /\ meant[r] = << <<>> >> BY DEF Init
    <3>2. Whole(heap, Background) /\ Attrs(heap, Background) = <<>>
      BY DEF Init, Whole, Attrs, Background
    <3> QED BY <3>1, <3>2 DEF ContextsKept
  <2>2. Identified(r) /\ InPlace(r) /\ LoggedOnce(r) /\ Traced(r)
    BY DEF Init, Identified, InPlace, LoggedOnce, AccessLines, Traced
  <2> QED BY <2>1, <2>2 DEF Good
<1> QED BY <1>1, <1>2, ByRequest

LEMMA NextKeeps == RequestLogInv /\ [Next]_vars => RequestLogInv'
<1> SUFFICES ASSUME RequestLogInv, [Next]_vars PROVE RequestLogInv'
  OBVIOUS
<1>1. CASE Crash \/ UNCHANGED vars
  <2>1. /\ UNCHANGED <<heap, stage, pos, header, ctxs, meant, respId, status, lines>>
        /\ alive' \in {alive, FALSE}
    BY <1>1 DEF Crash, vars
  <2>2. TypeOK' BY <2>1 DEF RequestLogInv, TypeOK
  <2>3. \A r \in Requests : Good(r)' BY <2>1, ByRequest, Elsewhere DEF Lasting
  <2> QED BY <2>2, <2>3 DEF RequestLogInv, Good, LinesTraceable, Traced
<1>2. CASE \E r \in Requests : Enter(r)
  BY <1>2, Entering
<1>3. CASE \E r \in Requests : Leave(r)
  BY <1>3, Leaving
<1>4. CASE \E r \in Requests :
         Arrive(r) \/ Redirect(r) \/ Panic(r) \/ Flush(r) \/ \E s \in Statuses : Finish(r, s)
  BY <1>4, Moving
<1>5. CASE \E r \in Requests : \E k \in 1 .. Len(ctxs[r]) : \E part \in Parts : Derive(r, k, part)
  BY <1>5, Deriving
<1>6. CASE \E r \in Requests : \E k \in 1 .. Len(ctxs[r]) : \E h \in Loggers : Emit(r, h, k)
  BY <1>6, Emitting
<1> QED BY <1>1, <1>2, <1>3, <1>4, <1>5, <1>6 DEF Next

THEOREM Invariance == Spec => []RequestLogInv
BY InitHolds, NextKeeps, PTL DEF Spec

(* Every variable of the model keeps its type.                             *)
THEOREM TypeCorrect == Spec => []TypeOK
<1>1. RequestLogInv => TypeOK BY DEF RequestLogInv
<1> QED BY <1>1, Invariance, PTL

(* Contexts derived from a common ancestor never touch each other's        *)
(* attributes, however many goroutines derive them and in what order.      *)
THEOREM ContextsStayIntact == Spec => []ContextsIntact
<1>1. RequestLogInv => ContextsIntact
  <2>1. TypeOK => \A r \in Requests : DOMAIN ctxs[r] = 1 .. Len(ctxs[r])
    BY DEF TypeOK
  <2> QED BY <2>1 DEF RequestLogInv, ContextsKept, ContextsIntact
<1> QED BY <1>1, Invariance, PTL

(* Every line can be traced to the request by the id its response carries. *)
THEOREM EveryLineTraceable == Spec => []LinesTraceable
<1>1. RequestLogInv => LinesTraceable BY DEF RequestLogInv
<1> QED BY <1>1, Invariance, PTL

(* No client is answered through the chain before its access line is there.*)
THEOREM AnswersAreLogged == Spec => []AnswersLogged
<1>1. RequestLogInv => AnswersLogged
  BY DEF RequestLogInv, LoggedOnce, AnswersLogged
<1> QED BY <1>1, Invariance, PTL
=============================================================================
