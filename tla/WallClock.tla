----------------------------- MODULE WallClock -----------------------------
(***************************************************************************)
(* The resolution of time.  The server reads a clock that is finer than a  *)
(* second (adapter/outbound/clock) while X-Amz-Date, X-Amz-Expires and the *)
(* times in a token are whole seconds.                                     *)
(***************************************************************************)
EXTENDS Integers

CONSTANT TicksPerSecond

ASSUME WallClockAssumption == TicksPerSecond \in Nat \ {0}

(* time.Time.Unix: whole seconds, the rest is cut off.                     *)
Seconds(t) == t \div TicksPerSecond

(* The instant a number of seconds stands for.                             *)
Instant(s) == TicksPerSecond * s
===========================================================================
