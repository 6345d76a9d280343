---------------------------- MODULE MCConntrack -----------------------------
(***************************************************************************)
(* A small connection table for TLC: two sources, one of them spelled in two  *)
(* ways, with three possible flows each, one of them TCP.  Of the flag        *)
(* combinations all without RST are there, and of those with RST, which the   *)
(* switch takes first whatever else is set, the barest and the fullest.       *)
(***************************************************************************)
EXTENDS Conntrack

MCAddrs == {"v4", "mapped", "other"}
MCnormalizeIP == [v4 |-> "v4", mapped |-> "v4", other |-> "other"]
MCProtocols == {"TCP", "UDP", "ICMP"}
MCPorts == {22}
MCFlags == {f \in TCPFlags : f.rst => (f.syn <=> f.ack) /\ (f.ack <=> f.fin)}
MCidleTimeoutFor == [TCP |-> 1, UDP |-> 0, ICMP |-> 0]

=============================================================================
