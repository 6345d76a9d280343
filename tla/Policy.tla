------------------------------- MODULE Policy -------------------------------
(***************************************************************************)
(* The rules of the shipped policy, opa-policies/l3.rego, that read what the *)
(* connection table says of a packet, composed with that table along the     *)
(* path of one packet through evaluatePacket (internal/engine/engine.go):   *)
(* look the flow up, record the port, read the new-connection rate, read the *)
(* recent ports, build the input, evaluate.  Each is a critical section of    *)
(* its own, and the maintenance goroutine may expire flows between any two.   *)
(* Delete has no caller in the program and is left to Conntrack.            *)
(*                                                                         *)
(* Also here is what a rate tracker of the table counts (newConnRate): a ring *)
(* of one-second slots for each source.  One unit of the clock is a second.   *)
(*                                                                         *)
(* The rules that read only the packet, the packet rates, the countries or    *)
(* the hour are one choice: some of them matches or none does.               *)
(***************************************************************************)
EXTENDS Conntrack

CONSTANTS
    blocked_ports,                  \* destination ports that rule 6 blocks
    port_scan_threshold,            \* rule 2
    max_new_connections_per_second, \* rule 13
    connRateWindowSecs              \* the slots of a tracker

ASSUME PolicyAssumption ==
    /\ port_scan_threshold \in 1..PortScanMaxPorts
    /\ max_new_connections_per_second \in Nat
    /\ connRateWindowSecs \in Nat \ {0}

VARIABLES
    ring,   \* source -> slot -> the second it holds and its count
    pkt,    \* the packet under evaluation, or the last one
    opened  \* history: source -> second -> connections opened, from the
            \* making of the source's tracker on

policyVars == <<vars, ring, pkt, opened>>

-----------------------------------------------------------------------------
(* The rate tracker.                                                       *)

\* The process runs long after second 0, which marks a slot never written.
Unix == now + 1

NoSlots == [i \in 0..(connRateWindowSecs - 1) |-> [sec |-> 0, count |-> 0]]

\* Mutant: a slot that holds an older second is not emptied.
recordOver(r) ==
    LET i == Unix % connRateWindowSecs
    IN  [r EXCEPT ![i] = [sec |-> Unix, count |-> r[i].count + 1]]

record(r) ==
    LET i == Unix % connRateWindowSecs
    IN  [r EXCEPT ![i] = [sec |-> Unix,
                          count |-> IF r[i].sec = Unix THEN r[i].count + 1 ELSE 1]]

\* The sum that rate divides by the window.
rate(r) ==
    LET live == {i \in DOMAIN r : r[i].sec # 0 /\ r[i].sec > Unix - connRateWindowSecs}
    IN  SumFunctionOnSet([i \in DOMAIN r |-> r[i].count], live)

\* What a step of the table does to the trackers: decrFlowCountLocked deletes
\* those of the sources it prunes, then recordNewConn counts the new flow.
TrackNewConns ==
    LET pruned == prunedBy(DOMAIN flows \ DOMAIN flows')
        opens == {k.src : k \in DOMAIN flows' \ DOMAIN flows}
        kept(f, none) == [s \in Sources |-> IF s \in pruned THEN none ELSE f[s]]
        never == [t \in 0..MaxTime |-> 0]
    IN  /\ ring' = [s \in Sources |->
                       IF s \in opens THEN record(kept(ring, NoSlots)[s])
                       ELSE kept(ring, NoSlots)[s]]
        /\ opened' = [s \in Sources |->
                         IF s \in opens
                         THEN [kept(opened, never)[s] EXCEPT ![now] = @ + 1]
                         ELSE kept(opened, never)[s]]

-----------------------------------------------------------------------------
(* The policy.                                                             *)

NoFlags == [syn |-> FALSE, ack |-> FALSE, rst |-> FALSE, fin |-> FALSE]

GetRecentDestPorts(a) == srcPorts[normalizeIP[a]]

\* The packets_in_flow field is 1 in every input; tcp_state is in the input
\* too, and no rule reads it.
BuildInput(p, recent) ==
    [protocol |-> p.protocol, dst_port |-> p.port, tcp_flags |-> p.flags,
     established |-> p.established, packets_in_flow |-> 1,
     recent_ports |-> recent, new_conns |-> p.newConnRate]

deny_port_scan(in) ==
    /\ in.packets_in_flow = 1
    /\ in.tcp_flags.syn /\ ~in.tcp_flags.ack
    /\ Cardinality(in.recent_ports) >= port_scan_threshold

deny_protocol_anomaly(in) ==
    LET f == in.tcp_flags
    IN  in.protocol = "TCP" /\ ((f.syn /\ f.rst) \/ (f.fin /\ f.rst) \/ (f.syn /\ f.fin))

deny_blocked_port(in) ==
    in.protocol \in {"TCP", "UDP"} /\ in.dst_port \in blocked_ports

deny_state_violation(in) ==
    in.protocol = "TCP" /\ in.tcp_flags.rst /\ ~in.established

deny_new_conn_rate(in) ==
    in.new_conns > max_new_connections_per_second * connRateWindowSecs

\* deny_reasons: every rule that matches adds its reason; allow is false as soon
\* as one does.
deny_reasons(in) ==
    {r \in {"port scan", "protocol anomaly", "blocked port", "state violation",
            "new connection rate"} :
        \/ r = "port scan" /\ deny_port_scan(in)
        \/ r = "protocol anomaly" /\ deny_protocol_anomaly(in)
        \/ r = "blocked port" /\ deny_blocked_port(in)
        \/ r = "state violation" /\ deny_state_violation(in)
        \/ r = "new connection rate" /\ deny_new_conn_rate(in)}

-----------------------------------------------------------------------------
(* One packet through evaluatePacket.                                       *)

\* No packet is under evaluation and the policy did not judge the last one.
NoPacket == [stage |-> "idle"]

Done == pkt.stage \in {"idle", "accept", "drop"}

Packet(a, protocol, p, f) ==
    [stage |-> "tracked", src |-> a, protocol |-> protocol, port |-> p, flags |-> f,
     established |-> FALSE, wasEstablished |-> FALSE, newConnRate |-> 0]

\* The flow pointer is read after the table's lock is released, but only this
\* goroutine writes the flow.  wasEstablished is history.
TrackTCP(a, p, f) ==
    LET k == Key(a, "TCP", p)
    IN  /\ Done
        /\ UpdateTCPState(a, p, f)
        /\ pkt' = [Packet(a, "TCP", p, f) EXCEPT
                     !.established = flows'[k].Established,
                     !.wasEstablished = k \in DOMAIN flows /\ flows[k].Established]
        /\ TrackNewConns

TrackOther(a, protocol, p) ==
    /\ Done
    /\ LookupOrCreate(a, protocol, p)
    /\ pkt' = Packet(a, protocol, p, NoFlags)
    /\ TrackNewConns

\* A nil flow: the packet is dropped before anything else is asked.
DropFlowLimited(a, protocol, p) ==
    /\ Done
    /\ FlowLimited(a, protocol, p)
    /\ pkt' = NoPacket
    /\ UNCHANGED <<ring, opened>>

RecordPort ==
    /\ pkt.stage = "tracked"
    /\ RecordDestPort(pkt.src, pkt.port)
    /\ UNCHANGED <<ring, pkt, opened>>

ReadNewConnRate ==
    /\ pkt.stage = "tracked" /\ pending = {}
    /\ pkt' = [pkt EXCEPT !.stage = "rated", !.newConnRate = rate(ring[normalizeIP[pkt.src]])]
    /\ UNCHANGED <<vars, ring, opened>>

\* The L2 filter and the per-address limits answer before the rate is read, the
\* blocklist after it: each may end the packet.
DropByCheck ==
    /\ pkt.stage \in {"tracked", "rated"} /\ pending = {}
    /\ pkt' = NoPacket
    /\ UNCHANGED <<vars, ring, opened>>

\* GetRecentDestPorts, BuildInput and Evaluate; others says whether one of the
\* rules that are not modelled matches.  The verdict and what the properties ask
\* of the packet stay until the next one.
EvaluatePolicy(others) ==
    LET reasons == deny_reasons(BuildInput(pkt, GetRecentDestPorts(pkt.src)))
    IN  /\ pkt.stage = "rated"
        /\ pkt' = [stage |-> IF reasons # {} \/ others THEN "drop" ELSE "accept",
                   src |-> pkt.src, flags |-> pkt.flags,
                   wasEstablished |-> pkt.wasEstablished, reasons |-> reasons]
        /\ UNCHANGED <<vars, ring, opened>>

PolicyInit ==
    /\ Init
    /\ ring = [s \in Sources |-> NoSlots]
    /\ opened = [s \in Sources |-> [t \in 0..MaxTime |-> 0]]
    /\ pkt = NoPacket

PolicyNext ==
    \/ \E a \in Addrs, p \in Ports, f \in Flags : TrackTCP(a, p, f)
    \/ \E a \in Addrs, protocol \in Protocols, p \in Ports :
          TrackOther(a, protocol, p) \/ DropFlowLimited(a, protocol, p)
    \/ RecordPort
    \/ ReadNewConnRate
    \/ DropByCheck
    \/ \E others \in BOOLEAN : EvaluatePolicy(others)
    \/ Expire /\ TrackNewConns /\ UNCHANGED pkt
    \/ Tick /\ UNCHANGED <<ring, pkt, opened>>

PolicySpec == PolicyInit /\ [][PolicyNext]_policyVars

-----------------------------------------------------------------------------
(* Properties.                                                             *)

\* The destination ports of the live TCP and UDP flows of a source.
LivePorts(s) ==
    {k.dstPort : k \in {j \in FlowsOf(s) : j.protocol \in {"TCP", "UDP"}}}

\* A bare SYN that passes comes from a source whose live TCP and UDP flows reach
\* fewer ports than the threshold of the port-scan rule, whatever was expired or
\* evicted while the packet was under way: the recent ports that the rule counts
\* (RecordDestPort, decrFlowCountLocked) never fall behind the flows.
ScansDenied ==
    pkt.stage = "accept" /\ pkt.flags.syn /\ ~pkt.flags.ack =>
        Cardinality(LivePorts(normalizeIP[pkt.src])) < port_scan_threshold

\* The rate of a source that rate computes from its ring is that of the
\* connections it opened in the last connRateWindowSecs seconds, since its
\* tracker was made: no slot that was reused, is stale or was pruned counts.
RingCountsWindow ==
    \A s \in Sources :
        rate(ring[s]) =
            SumFunctionOnSet(opened[s], {t \in 0..now : t > now - connRateWindowSecs})

\* What test_state_violation_rst_established_ok of opa-policies/l3_test.rego
\* says: a RST of a flow that is established is no state violation.
RstOfFlowPasses ==
    pkt.stage \in {"accept", "drop"} /\ pkt.flags.rst /\ pkt.wasEstablished
        => "state violation" \notin pkt.reasons

=============================================================================
