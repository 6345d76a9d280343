------------------------------ MODULE MCPolicy ------------------------------
(***************************************************************************)
(* Small instances of the policy over the connection table: two sources that *)
(* evict each other's flows, and the segments of a connection that opens,     *)
(* carries data, closes and is reset.                                       *)
(***************************************************************************)
EXTENDS Policy, TLC

CONSTANTS here, there

MCAddrs == {here, there}
MCnormalizeIP == [a \in MCAddrs |-> a]
AddrsAreAlike == Permutations(MCAddrs)
MCProtocols == {"TCP", "UDP"}
MCPorts == {22, 80}
MCBlockedPorts == {22}
MCidleTimeoutFor == [TCP |-> 1, UDP |-> 0]

FlagsOf(S) == {[syn |-> "SYN" \in x, ack |-> "ACK" \in x, rst |-> "RST" \in x,
                fin |-> "FIN" \in x] : x \in S}
MCFlags == FlagsOf({{"SYN"}, {"SYN", "ACK"}, {"ACK"}, {"RST"}})

=============================================================================
