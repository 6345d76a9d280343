---------------------------- MODULE MCPeriphery ----------------------------
(* Constants for Periphery.cfg and PeripheryMarks.cfg. *)
EXTENDS Periphery

\* Two spellings of one address, and another address.
MCAddrs == {"v4", "mapped", "v6"}
MCnormalizeIP == [v4 |-> "v4", mapped |-> "v4", v6 |-> "v6"]

\* Two spellings of one MAC, another MAC, and one without a hex digit.
MCMACs == {"m1", "M1", "m2", "junk"}
MCnormalizeMAC == [m1 |-> "m1", M1 |-> "m1", m2 |-> "m2", junk |-> "none"]

\* Feed lines: an address in two spellings, a network in two spellings, a
\* second network that overlaps neither, something else.
MCHosts == {"h1", "h2", "h3"}
MChostOf == [ip1 |-> "h1", ip1mapped |-> "h1", ip2 |-> "h2"]
MCnetOf == [cidr1 |-> "n1", cidr1host |-> "n1", cidr2 |-> "n2"]
MCnetHosts == [n1 |-> {"h1", "h2"}, n2 |-> {"h3"}]
MCFeeds == <<"spaced", "plain">>

\* The transport header ends before, at and beyond the end of the packet, and
\* an extension header is cut at each of its first bytes.
MCLengths == {19, 20, 24, 40, 41, 42, 44, 48, 49, 52, 56, 60, 68, 76}
MCIHLs == {4, 5, 6, 15}
MCExtLens == {0, 1, 255}

\* The two loaders of the deployed binary, two good policies and a broken one,
\* and the packet goroutine.
MCLoaders == {"etcd", "file"}
MCEvaluators == {"packet"}
MCLoadable == {"A", "B"}
MCPolicies == MCLoadable \cup {"broken", ""}

=============================================================================
