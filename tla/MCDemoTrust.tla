---------------------------- MODULE MCDemoTrust -----------------------------
(***************************************************************************)
(* Two starts of the demo STS on one of two ports, and a server that       *)
(* delegates to either, by a name of the certificate or by another one, or *)
(* to AWS.                                                                 *)
(***************************************************************************)
EXTENDS DemoTrust

MCEndpoints ==
  [host : {"localhost"}, port : {"8443", "9443"}] \cup
  {[host |-> "demo-host", port |-> "8443"], [host |-> "sts.amazonaws.com", port |-> "443"]}

MCAwsEndpoint == [host |-> "sts.amazonaws.com", port |-> "443"]

MCSan == {"localhost", "127.0.0.1", "::1"}

MCPorts == {"8443", "9443"}

(* Both starts are told the same port.                                     *)
MCDefaultPort == {"8443"}
===========================================================================
