--------------------------- MODULE MCRequestLog ---------------------------
(***************************************************************************)
(* Instances of RequestLog: two requests that run side by side, ids of     *)
(* every kind a client may send, a handler that derives contexts.          *)
(***************************************************************************)
EXTENDS RequestLog, TLC

CONSTANTS r1, r2

Absent == [text |-> "", length |-> 0, safe |-> TRUE]
Longest == [text |-> "longest", length |-> 128, safe |-> TRUE]
TooLong == [text |-> "too long", length |-> 129, safe |-> TRUE]
Unsafe == [text |-> "a newline", length |-> 3, safe |-> FALSE]

MCHeaders == {Absent, Longest, TooLong, Unsafe}
MCFreshText == r1 :> "hex 1" @@ r2 :> "hex 2"
MCMaxContexts == r1 :> 3 @@ r2 :> 1
MCMaxLines == r1 :> 1 @@ r2 :> 1
MCKeys == {"request_id", "step"}
MCParts == { <<Attr("step", "left")>>, <<Attr("step", "right")>> }
=============================================================================
