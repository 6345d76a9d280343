---------------------------- MODULE PolicyProofs -----------------------------
(***************************************************************************)
(* The port-scan rule over the connection table, for every set of addresses, *)
(* ports and protocols and every threshold within the port history's cap, and *)
(* the rate trackers beside it, for every size of the window.                *)
(*                                                                         *)
(* The argument: a live flow's port is in the history of its source, unless   *)
(* the history is full or the flow belongs to the packet that has not yet     *)
(* recorded it (PortsCover).  It holds because every path that prunes a        *)
(* history removes the last flow of the source, for which the counters must   *)
(* agree with the table: that is the table's own invariant, and it carries    *)
(* over because the composition implements the table.                        *)
(*                                                                         *)
(* And the connection rates: a ring of one-second slots sums to the openings  *)
(* of the window, as the slots that are read and the seconds with openings    *)
(* pair off one by one (RingHolds, MatchedSums).                             *)
(***************************************************************************)
EXTENDS Policy, ConntrackProofs

\* The port that the packet under way will record for s, if any.
OfPending(s) == {q[2] : q \in {r \in pending : normalizeIP[r[1]] = s}}

PortsCover ==
    \A s \in Sources :
        \/ LivePorts(s) \ OfPending(s) \subseteq srcPorts[s]
        \/ Cardinality(srcPorts[s]) >= PortScanMaxPorts

FinitePorts == \A s \in Sources : IsFiniteSet(srcPorts[s])

\* Only a packet that has been tracked has a port to record.
PacketInPlace ==
    /\ pkt.stage \in {"idle", "tracked", "rated", "accept", "drop"}
    /\ pkt.stage # "tracked" => pending = {}
    /\ pkt.stage # "idle" => pkt.src \in Addrs

\* ScansDenied, and the finiteness that lets the number of ports be compared
\* when flows are removed.
SynIsNoScan ==
    pkt.stage = "accept" /\ pkt.flags.syn /\ ~pkt.flags.ack =>
        /\ IsFiniteSet(LivePorts(normalizeIP[pkt.src]))
        /\ Cardinality(LivePorts(normalizeIP[pkt.src])) < port_scan_threshold

PolicyInv == IInv /\ PortsCover /\ FinitePorts /\ PacketInPlace /\ SynIsNoScan

-----------------------------------------------------------------------------
(* The composition takes only steps of the table.                           *)

\* A step of the composition is a step of the table or leaves it alone.
LEMMA StepsOfTable == PolicyInv /\ [PolicyNext]_policyVars => [Next]_vars
  <1> SUFFICES ASSUME PolicyInv, [PolicyNext]_policyVars PROVE [Next]_vars
    OBVIOUS
  <1>1. ASSUME NEW a \in Addrs, NEW p \in Ports, NEW f \in Flags, TrackTCP(a, p, f)
        PROVE  Next
    BY <1>1 DEF TrackTCP, Next
  <1>2. ASSUME NEW a \in Addrs, NEW protocol \in Protocols, NEW p \in Ports,
               TrackOther(a, protocol, p) \/ DropFlowLimited(a, protocol, p)
        PROVE  Next
    BY <1>2 DEF TrackOther, DropFlowLimited, Next
  <1>3. CASE RecordPort
    <2>1. pending = {<<pkt.src, pkt.port>>} /\ RecordDestPort(pkt.src, pkt.port)
      BY <1>3 DEF RecordPort, RecordDestPort
    <2>2. pkt.src \in Addrs /\ pkt.port \in Ports
      BY <2>1 DEF PolicyInv, IInv, TypeOK
    <2> QED
      BY <2>1, <2>2 DEF Next
  <1>4. CASE ReadNewConnRate \/ DropByCheck \/ \E others \in BOOLEAN : EvaluatePolicy(others)
    BY <1>4 DEF ReadNewConnRate, DropByCheck, EvaluatePolicy, vars
  <1>5. CASE Expire /\ TrackNewConns /\ UNCHANGED pkt
    BY <1>5 DEF Next
  <1>6. CASE Tick /\ UNCHANGED <<ring, pkt, opened>>
    BY <1>6 DEF Next
  <1>7. CASE UNCHANGED policyVars
    BY <1>7 DEF policyVars, vars
  <1> QED
    BY <1>1, <1>2, <1>3, <1>4, <1>5, <1>6, <1>7 DEF PolicyNext

-----------------------------------------------------------------------------
(* The port history covers the flows.                                       *)

\* A step that opens only flows of the packet under way, and empties only the
\* history of a source that is left with none but those, keeps the cover.
LEMMA CoverKept ==
    ASSUME PortsCover, FinitePorts, NEW K,
           \A s \in Sources :
              \/ srcPorts'[s] = srcPorts[s] /\ FlowsOf(s)' \subseteq FlowsOf(s) \cup K
              \/ srcPorts'[s] = {} /\ FlowsOf(s)' \subseteq K,
           \A s \in Sources : \A k \in K :
              k.src = s /\ k.protocol \in {"TCP", "UDP"} => k.dstPort \in OfPending(s)',
           \A s \in Sources : OfPending(s) \subseteq OfPending(s)'
    PROVE  PortsCover' /\ FinitePorts'
  <1>1. \A s \in Sources : srcPorts'[s] = srcPorts[s] \/ srcPorts'[s] = {}
    OBVIOUS
  <1>2. FinitePorts'
    BY <1>1, FS_EmptySet DEF FinitePorts, Sources
  <1>3. ASSUME NEW s \in Sources
        PROVE  \/ LivePorts(s)' \ OfPending(s)' \subseteq srcPorts'[s]
               \/ Cardinality(srcPorts'[s]) >= PortScanMaxPorts
    <2>1. CASE srcPorts'[s] = srcPorts[s] /\ FlowsOf(s)' \subseteq FlowsOf(s) \cup K
      <3>1. LivePorts(s)' \subseteq LivePorts(s) \cup OfPending(s)'
        BY <2>1 DEF LivePorts, FlowsOf
      <3> QED
        BY <2>1, <3>1 DEF PortsCover
    <2>2. CASE srcPorts'[s] = {} /\ FlowsOf(s)' \subseteq K
      <3>1. LivePorts(s)' \subseteq OfPending(s)'
        BY <2>2 DEF LivePorts, FlowsOf
      <3> QED
        BY <2>2, <3>1
    <2> QED
      BY <2>1, <2>2
  <1> QED
    BY <1>2, <1>3 DEF PortsCover, Sources

\* Removing flows cannot make a scan of a SYN that passed.
LEMMA AcceptKept ==
    ASSUME SynIsNoScan, UNCHANGED pkt, PacketInPlace, ConntrackAssumption,
           \A s \in Sources : FlowsOf(s)' \subseteq FlowsOf(s)
    PROVE  SynIsNoScan'
  <1> SUFFICES ASSUME pkt.stage = "accept", pkt.flags.syn, ~pkt.flags.ack
               PROVE  /\ IsFiniteSet(LivePorts(normalizeIP[pkt.src])')
                      /\ Cardinality(LivePorts(normalizeIP[pkt.src])') < port_scan_threshold
    BY DEF SynIsNoScan
  <1> DEFINE s == normalizeIP[pkt.src]
  <1>1. s \in Sources
    BY DEF PacketInPlace, Sources
  <1>2. LivePorts(s)' \subseteq LivePorts(s)
    BY <1>1 DEF LivePorts, FlowsOf
  <1>3. IsFiniteSet(LivePorts(s)) /\ Cardinality(LivePorts(s)) < port_scan_threshold
    BY DEF SynIsNoScan
  <1>4. /\ IsFiniteSet(LivePorts(s)')
        /\ Cardinality(LivePorts(s)') <= Cardinality(LivePorts(s))
    BY <1>2, <1>3, FS_Subset
  <1>5. /\ Cardinality(LivePorts(s)') \in Nat /\ Cardinality(LivePorts(s)) \in Nat
        /\ port_scan_threshold \in Int
    BY <1>3, <1>4, FS_CardinalityType, PolicyAssumption
  <1> QED
    BY <1>3, <1>4, <1>5

\* The history a removal leaves: that of a source without a remaining flow is
\* emptied, every other is kept.
LEMMA PortsAfterRemoval ==
    ASSUME IInv, NEW D \in SUBSET DOMAIN flows, NEW s \in Sources
    PROVE  \/ portsWithout(prunedBy(D))[s] = srcPorts[s]
           \/ portsWithout(prunedBy(D))[s] = {} /\ Remaining(s, D) = {}
  <1>1. prunedBy(D) = {t \in Sources : FlowsOf(t) # {} /\ Remaining(t, D) = {}}
    BY PrunedSources DEF IInv
  <1> QED
    BY <1>1 DEF portsWithout

\* A lookup of either kind keeps the cover.
LEMMA LookupCovers ==
    ASSUME PolicyInv, pending = {}, NEW a \in Addrs, NEW protocol \in Protocols,
           NEW p \in Ports, NEW f, NEW k, k = Key(a, protocol, p),
           \/ k \in DOMAIN flows /\ Touch(k, f)
           \/ k \notin DOMAIN flows /\ Create(k, f),
           protocol \in {"TCP", "UDP"} => pending' = {<<a, p>>}
    PROVE  PortsCover' /\ FinitePorts'
  <1>1. k.src = normalizeIP[a] /\ k.protocol = protocol /\ k.dstPort = p
    BY DEF Key
  <1>2. \A s \in Sources : OfPending(s) \subseteq OfPending(s)'
    BY DEF OfPending
  <1>3. \A s \in Sources : \A j \in {k} :
            j.src = s /\ j.protocol \in {"TCP", "UDP"} => j.dstPort \in OfPending(s)'
    <2> SUFFICES ASSUME protocol \in {"TCP", "UDP"}
                 PROVE  p \in OfPending(normalizeIP[a])'
      BY <1>1
    <2> QED
      BY DEF OfPending
  <1>4. ASSUME NEW s \in Sources
        PROVE  \/ srcPorts'[s] = srcPorts[s] /\ FlowsOf(s)' \subseteq FlowsOf(s) \cup {k}
               \/ srcPorts'[s] = {} /\ FlowsOf(s)' \subseteq {k}
    <2>1. CASE k \in DOMAIN flows /\ Touch(k, f)
      BY <2>1 DEF Touch, FlowsOf
    <2>2. CASE k \notin DOMAIN flows /\ Create(k, f)
      <3>1. PICK D \in Victims :
                /\ DOMAIN flows' = (DOMAIN flows \ D) \cup {k}
                /\ srcPorts' = portsWithout(prunedBy(D))
        BY <2>2 DEF Create
      <3>2. D \in SUBSET DOMAIN flows
        BY VictimSets
      <3>3. FlowsOf(s)' \subseteq Remaining(s, D) \cup {k}
        BY <3>1 DEF FlowsOf, Remaining
      <3>4. Remaining(s, D) \subseteq FlowsOf(s)
        BY DEF Remaining, FlowsOf
      <3> QED
        BY <3>1, <3>2, <3>3, <3>4, PortsAfterRemoval, SMTT(30) DEF PolicyInv
    <2> QED
      BY <2>1, <2>2
  <1> QED
    BY <1>2, <1>3, <1>4, CoverKept, ZenonT(60) DEF PolicyInv

-----------------------------------------------------------------------------
(* The invariant of the composition.                                        *)

\* With no flow and no packet under way the invariant holds.
LEMMA PolicyStarts == PolicyInit => PolicyInv
  <1> SUFFICES ASSUME PolicyInit PROVE PolicyInv
    OBVIOUS
  <1>1. IInv
    BY InitIInv DEF PolicyInit
  <1>2. /\ DOMAIN flows = {} /\ pending = {}
        /\ \A s \in Sources : srcPorts[s] = {}
    BY DEF PolicyInit, Init
  <1>3. FinitePorts
    BY <1>2, FS_EmptySet DEF FinitePorts
  <1>4. PortsCover
    BY <1>2 DEF PortsCover, LivePorts, FlowsOf
  <1>5. pkt.stage = "idle"
    BY DEF PolicyInit, NoPacket
  <1> QED
    BY <1>1, <1>2, <1>3, <1>4, <1>5 DEF PolicyInv, PacketInPlace, SynIsNoScan

\* A packet that enters the table.
LEMMA TrackCovers ==
    ASSUME PolicyInv,
           \/ \E a \in Addrs, p \in Ports, f \in Flags : TrackTCP(a, p, f)
           \/ \E a \in Addrs, protocol \in Protocols, p \in Ports :
                 TrackOther(a, protocol, p)
    PROVE  PortsCover' /\ FinitePorts' /\ PacketInPlace' /\ SynIsNoScan'
  <1>1. ASSUME NEW a \in Addrs, NEW p \in Ports, NEW f \in Flags, TrackTCP(a, p, f)
        PROVE  PortsCover' /\ FinitePorts' /\ pkt'.stage = "tracked" /\ pkt'.src \in Addrs
    <2>1. UpdateTCPState(a, p, f)
      BY <1>1 DEF TrackTCP
    <2>2. pending = {} /\ pending' = {<<a, p>>} /\ "TCP" \in Protocols
      BY <2>1 DEF UpdateTCPState
    <2>3. \E g : \/ Key(a, "TCP", p) \in DOMAIN flows /\ Touch(Key(a, "TCP", p), g)
                 \/ Key(a, "TCP", p) \notin DOMAIN flows /\ Create(Key(a, "TCP", p), g)
      BY <2>1 DEF UpdateTCPState
    <2>4. PortsCover' /\ FinitePorts'
      BY <2>2, <2>3, LookupCovers
    <2>5. pkt'.stage = "tracked" /\ pkt'.src = a
      BY <1>1 DEF TrackTCP, Packet
    <2> QED
      BY <2>4, <2>5
  <1>2. ASSUME NEW a \in Addrs, NEW protocol \in Protocols, NEW p \in Ports,
               TrackOther(a, protocol, p)
        PROVE  PortsCover' /\ FinitePorts' /\ pkt'.stage = "tracked" /\ pkt'.src \in Addrs
    <2>1. LookupOrCreate(a, protocol, p)
      BY <1>2 DEF TrackOther
    <2>2. pending = {} /\ (protocol \in {"TCP", "UDP"} => pending' = {<<a, p>>})
      BY <2>1 DEF LookupOrCreate
    <2>3. \E g : \/ /\ Key(a, protocol, p) \in DOMAIN flows
                    /\ Touch(Key(a, protocol, p), g)
                 \/ /\ Key(a, protocol, p) \notin DOMAIN flows
                    /\ Create(Key(a, protocol, p), g)
      BY <2>1 DEF LookupOrCreate
    <2>4. PortsCover' /\ FinitePorts'
      BY <2>2, <2>3, LookupCovers
    <2>5. pkt'.stage = "tracked" /\ pkt'.src = a
      BY <1>2 DEF TrackOther, Packet
    <2> QED
      BY <2>4, <2>5
  <1>3. PortsCover' /\ FinitePorts' /\ pkt'.stage = "tracked" /\ pkt'.src \in Addrs
    BY <1>1, <1>2
  <1> QED
    BY <1>3 DEF PacketInPlace, SynIsNoScan

\* The port of the packet under way enters the history, or finds it full.
LEMMA RecordCovers ==
    ASSUME PolicyInv, RecordPort
    PROVE  PortsCover' /\ FinitePorts' /\ PacketInPlace' /\ SynIsNoScan'
  <1> DEFINE a == pkt.src
             p == pkt.port
             t == normalizeIP[pkt.src]
  <1>1. /\ pkt.stage = "tracked" /\ pkt' = pkt /\ flows' = flows
        /\ pending = {<<a, p>>} /\ pending' = {}
        /\ srcPorts' = IF p \in srcPorts[t] \/ Cardinality(srcPorts[t]) >= PortScanMaxPorts
                       THEN srcPorts
                       ELSE [srcPorts EXCEPT ![t] = @ \cup {p}]
    BY DEF RecordPort, RecordDestPort
  <1>2. t \in Sources /\ srcPorts \in [Sources -> SUBSET Ports]
    BY <1>1 DEF PolicyInv, PacketInPlace, Sources, IInv, TypeOK
  <1>3. \A s \in Sources : LivePorts(s)' = LivePorts(s)
    BY <1>1 DEF LivePorts, FlowsOf
  <1>4. \A s \in Sources : OfPending(s) = IF s = t THEN {p} ELSE {}
    <2>1. <<a, p>>[1] = a /\ <<a, p>>[2] = p
      OBVIOUS
    <2> QED
      BY <1>1, <2>1 DEF OfPending
  <1>5. ASSUME NEW s \in Sources
        PROVE  /\ \/ LivePorts(s)' \subseteq srcPorts'[s]
                  \/ Cardinality(srcPorts'[s]) >= PortScanMaxPorts
               /\ IsFiniteSet(srcPorts'[s])
    <2>1. /\ IsFiniteSet(srcPorts[s])
          /\ \/ LivePorts(s) \ OfPending(s) \subseteq srcPorts[s]
             \/ Cardinality(srcPorts[s]) >= PortScanMaxPorts
      BY DEF PolicyInv, PortsCover, FinitePorts
    <2>2. CASE s # t
      <3>1. srcPorts'[s] = srcPorts[s]
        BY <1>1, <1>2, <2>2
      <3> QED
        BY <1>3, <1>4, <2>1, <2>2, <3>1
    <2>3. CASE s = t /\ (p \in srcPorts[t] \/ Cardinality(srcPorts[t]) >= PortScanMaxPorts)
      <3>1. srcPorts'[s] = srcPorts[s]
        BY <1>1, <2>3
      <3> QED
        BY <1>3, <1>4, <2>1, <2>3, <3>1
    <2>4. CASE s = t /\ ~(p \in srcPorts[t] \/ Cardinality(srcPorts[t]) >= PortScanMaxPorts)
      <3>1. srcPorts'[s] = srcPorts[s] \cup {p}
        BY <1>1, <1>2, <2>4
      <3>2. IsFiniteSet(srcPorts[s] \cup {p})
        BY <2>1, FS_AddElement
      <3> QED
        BY <1>3, <1>4, <2>1, <2>4, <3>1, <3>2
    <2> QED
      BY <2>2, <2>3, <2>4
  <1>6. PortsCover' /\ FinitePorts'
    BY <1>5 DEF PortsCover, FinitePorts, Sources
  <1> QED
    BY <1>1, <1>6 DEF PolicyInv, PacketInPlace, SynIsNoScan

\* A SYN the policy lets through met a history below the threshold, hence not
\* full, hence one that covers the flows.
LEMMA EvaluateKeeps ==
    ASSUME PolicyInv, NEW others \in BOOLEAN, EvaluatePolicy(others)
    PROVE  SynIsNoScan'
  <1> DEFINE in == BuildInput(pkt, GetRecentDestPorts(pkt.src))
             s == normalizeIP[pkt.src]
  <1>1. /\ pkt.stage = "rated" /\ UNCHANGED vars
        /\ pkt' = [stage |-> IF deny_reasons(in) # {} \/ others THEN "drop" ELSE "accept",
                   src |-> pkt.src, flags |-> pkt.flags,
                   wasEstablished |-> pkt.wasEstablished, reasons |-> deny_reasons(in)]
    BY DEF EvaluatePolicy
  <1> SUFFICES ASSUME pkt'.stage = "accept", pkt'.flags.syn, ~pkt'.flags.ack
               PROVE  /\ IsFiniteSet(LivePorts(s)')
                      /\ Cardinality(LivePorts(s)') < port_scan_threshold
    BY DEF SynIsNoScan
  <1>2. /\ deny_reasons(in) = {} /\ pkt'.src = pkt.src
        /\ pkt.flags.syn /\ ~pkt.flags.ack
    BY <1>1
  <1>3. ~deny_port_scan(in)
    BY <1>2 DEF deny_reasons
  <1>4. ~(Cardinality(srcPorts[s]) >= port_scan_threshold)
    BY <1>2, <1>3 DEF deny_port_scan, BuildInput, GetRecentDestPorts
  <1>5. s \in Sources /\ pending = {}
    BY <1>1 DEF PolicyInv, PacketInPlace, Sources
  <1>6. IsFiniteSet(srcPorts[s]) /\ Cardinality(srcPorts[s]) \in Nat
    BY <1>5, FS_CardinalityType DEF PolicyInv, FinitePorts
  <1>7. /\ port_scan_threshold \in Nat /\ PortScanMaxPorts \in Nat
        /\ port_scan_threshold <= PortScanMaxPorts
    BY PolicyAssumption, ConntrackAssumption
  <1>8. LivePorts(s) \subseteq srcPorts[s]
    <2>1. OfPending(s) = {}
      BY <1>5 DEF OfPending
    <2> QED
      BY <1>4, <1>5, <1>6, <1>7, <2>1 DEF PolicyInv, PortsCover
  <1>9. /\ IsFiniteSet(LivePorts(s))
        /\ Cardinality(LivePorts(s)) <= Cardinality(srcPorts[s])
        /\ Cardinality(LivePorts(s)) \in Nat
    BY <1>6, <1>8, FS_Subset, FS_CardinalityType
  <1>10. LivePorts(s)' = LivePorts(s)
    BY <1>1 DEF vars, LivePorts, FlowsOf
  <1> QED
    BY <1>2, <1>4, <1>6, <1>7, <1>9, <1>10

\* Every step of the composition keeps the invariant.
LEMMA PolicyKeeps == PolicyInv /\ [PolicyNext]_policyVars => PolicyInv'
  <1> SUFFICES ASSUME PolicyInv, [PolicyNext]_policyVars PROVE PolicyInv'
    OBVIOUS
  <1>0. IInv'
    BY StepsOfTable, NextIInv DEF PolicyInv
  <1> DEFINE Rest == PortsCover' /\ FinitePorts' /\ PacketInPlace' /\ SynIsNoScan'
  <1>u. ASSUME UNCHANGED vars PROVE PortsCover' /\ FinitePorts'
    BY <1>u DEF vars, PolicyInv, PortsCover, FinitePorts, LivePorts, FlowsOf, OfPending
  <1>1. CASE \/ \E a \in Addrs, p \in Ports, f \in Flags : TrackTCP(a, p, f)
             \/ \E a \in Addrs, protocol \in Protocols, p \in Ports :
                   TrackOther(a, protocol, p)
    BY <1>0, <1>1, TrackCovers DEF PolicyInv
  <1>2. ASSUME NEW a \in Addrs, NEW protocol \in Protocols, NEW p \in Ports,
               DropFlowLimited(a, protocol, p)
        PROVE  Rest
    <2>1. UNCHANGED vars /\ pkt'.stage = "idle" /\ pending' = {}
      BY <1>2 DEF DropFlowLimited, FlowLimited, NoPacket, vars
    <2> QED
      BY <1>u, <2>1 DEF PacketInPlace, SynIsNoScan
  <1>3. CASE RecordPort
    BY <1>0, <1>3, RecordCovers DEF PolicyInv
  <1>4. CASE ReadNewConnRate
    <2>1. /\ UNCHANGED vars /\ pending' = {} /\ pkt.stage = "tracked"
          /\ pkt' = [pkt EXCEPT !.stage = "rated",
                                !.newConnRate = rate(ring[normalizeIP[pkt.src]])]
      BY <1>4 DEF ReadNewConnRate, vars
    <2>2. pkt'.stage = "rated" /\ pkt'.src = pkt.src
      BY <2>1 DEF PolicyInv
    <2> QED
      BY <1>0, <1>u, <2>1, <2>2 DEF PolicyInv, PacketInPlace, SynIsNoScan
  <1>5. CASE DropByCheck
    <2>1. UNCHANGED vars /\ pkt'.stage = "idle" /\ pending' = {}
      BY <1>5 DEF DropByCheck, NoPacket, vars
    <2> QED
      BY <1>0, <1>u, <2>1 DEF PolicyInv, PacketInPlace, SynIsNoScan
  <1>6. ASSUME NEW others \in BOOLEAN, EvaluatePolicy(others)
        PROVE  Rest
    <2>1. /\ UNCHANGED vars /\ pkt.stage = "rated" /\ pkt'.src = pkt.src
          /\ pkt'.stage \in {"accept", "drop"}
      BY <1>6 DEF EvaluatePolicy
    <2>2. PacketInPlace'
      BY <2>1 DEF vars, PolicyInv, PacketInPlace
    <2> QED
      BY <1>6, <1>u, <2>1, <2>2, EvaluateKeeps
  <1>7. CASE Expire /\ TrackNewConns /\ UNCHANGED pkt
    <2>1. PICK D \in SUBSET DOMAIN flows : Remove(D)
      BY <1>7 DEF Expire
    <2>2. DOMAIN flows' = DOMAIN flows \ D
      BY <2>1, RemoveStep DEF PolicyInv
    <2>3. \A s \in Sources : FlowsOf(s)' \subseteq Remaining(s, D)
      BY <2>2 DEF FlowsOf, Remaining
    <2>4. \A s \in Sources : Remaining(s, D) \subseteq FlowsOf(s)
      BY DEF FlowsOf, Remaining
    <2>5. pending' = pending /\ srcPorts' = portsWithout(prunedBy(D))
      BY <2>1 DEF Remove
    <2>6. \A s \in Sources : OfPending(s) \subseteq OfPending(s)'
      BY <2>5 DEF OfPending
    <2>7. \A s \in Sources :
              \/ srcPorts'[s] = srcPorts[s] /\ FlowsOf(s)' \subseteq FlowsOf(s) \cup {}
              \/ srcPorts'[s] = {} /\ FlowsOf(s)' \subseteq {}
      BY <2>3, <2>4, <2>5, PortsAfterRemoval DEF PolicyInv
    <2>8. PortsCover' /\ FinitePorts'
      BY <2>6, <2>7, CoverKept DEF PolicyInv
    <2>9. SynIsNoScan'
      BY <1>7, <2>3, <2>4, AcceptKept, ConntrackAssumption DEF PolicyInv
    <2> QED
      BY <1>0, <1>7, <2>5, <2>8, <2>9 DEF PolicyInv, PacketInPlace
  <1>8. CASE Tick /\ UNCHANGED <<ring, pkt, opened>>
    BY <1>0, <1>8
    DEF Tick, PolicyInv, PortsCover, FinitePorts, LivePorts, FlowsOf, OfPending,
        PacketInPlace, SynIsNoScan
  <1>9. CASE UNCHANGED policyVars
    BY <1>0, <1>9, <1>u
    DEF policyVars, vars, PolicyInv, LivePorts, FlowsOf, PacketInPlace, SynIsNoScan
  <1> QED
    BY <1>0, <1>1, <1>2, <1>3, <1>4, <1>5, <1>6, <1>7, <1>8, <1>9 DEF PolicyNext, PolicyInv

\* The invariant of the composition holds throughout.
LEMMA PolicyInvariant == PolicySpec => []PolicyInv
  BY PolicyStarts, PolicyKeeps, PTL DEF PolicySpec

-----------------------------------------------------------------------------
\* A bare SYN passes only while its source has live flows to fewer ports than
\* the threshold, for every schedule of the packet path and of the expiry.
THEOREM PolicyDeniesScans == PolicySpec => []ScansDenied
  <1>1. PolicyInv => ScansDenied
    BY DEF PolicyInv, SynIsNoScan, ScansDenied
  <1> QED
    BY <1>1, PolicyInvariant, PTL

\* The composition implements the connection table, so everything proved of the
\* table holds of it.
THEOREM PolicyImplementsTable == PolicySpec => Spec
  <1>1. PolicyInit => Init
    BY DEF PolicyInit
  <1> QED
    BY <1>1, StepsOfTable, PolicyInvariant, PTL DEF PolicySpec, Spec

-----------------------------------------------------------------------------
(* Least elements, and remainders.                                        *)

\* A set of natural numbers that is not empty has a least element.
LEMMA LeastOf ==
    ASSUME NEW S \in SUBSET Nat, S # {}
    PROVE  \E x \in S : \A y \in S : x <= y
<1> DEFINE R == OpToRel(<, Nat)
<1>1. IsWellFoundedOn(R, Nat)
  BY NatLessThanWellFounded
<1>2. \A x, y \in Nat : y < x => <<y, x>> \in R
  BY DEF OpToRel
<1> HIDE DEF R
<1>3. \E x \in S : \A y \in S : ~(<<y, x>> \in R)
  BY <1>1, WFMin
<1>4. PICK x \in S : \A y \in S : ~(<<y, x>> \in R)
  BY <1>3
<1>5. \A y \in S : x \in Nat /\ y \in Nat /\ ~(y < x)
  BY <1>2, <1>4
<1>6. \A y \in S : x <= y
  BY <1>5
<1> QED BY <1>6

\* Among some subsets of a finite set there is one that includes no other.
LEMMA SmallestOf ==
    ASSUME NEW S, IsFiniteSet(S), NEW F \in SUBSET SUBSET S, F # {}
    PROVE  \E T \in F : \A U \in F : ~(U \subseteq T /\ U # T)
<1>1. SUBSET S = FiniteSubsetsOf(S)
  BY FS_FiniteSubsetsOfFinite
<1>2. IsWellFoundedOn(StrictSubsetOrdering(S), SUBSET S)
  BY <1>1, FS_StrictSubsetOrderingWellFounded
<1>3. PICK T \in F : \A U \in F : ~(<<U, T>> \in StrictSubsetOrdering(S))
  BY <1>2, WFMin
<1>4. \A U \in F : U \in SUBSET S /\ T \in SUBSET S
  OBVIOUS
<1> QED BY <1>3, <1>4 DEF StrictSubsetOrdering

\* Numbers less than w apart leave different remainders.
LEMMA RemaindersApart ==
    ASSUME NEW w \in Nat \ {0}, NEW a \in Nat, NEW b \in Nat,
           a % w = b % w, a <= b, b < a + w
    PROVE  a = b
<1>0. a \div w \in Int /\ b \div w \in Int
  BY SMTT(30)
<1>1. PICK q \in Int : q = a \div w
  BY <1>0
<1>2. PICK p \in Int : p = b \div w
  BY <1>0
<1>3. PICK c \in Nat : c = a % w
  OBVIOUS
<1>4. a = w * q + c /\ b = w * p + c
  BY <1>1, <1>2, <1>3
<1>5. PICK d \in Int : d = p - q
  OBVIOUS
<1>6. b - a = w * d
  BY <1>4, <1>5
<1>7. d = 0
  <2>1. CASE d >= 1
    <3>1. w * d >= w
      BY <2>1
    <3> QED BY <1>6, <3>1
  <2>2. CASE d <= -1
    <3>1. w * d < 0
      BY <2>2
    <3> QED BY <1>6, <3>1
  <2> QED BY <2>1, <2>2
<1> QED BY <1>6, <1>7

-----------------------------------------------------------------------------
(* Sums.  SumFunctionOnSet adds the values up in the order in which CHOOSE    *)
(* takes the indices out of the set.                                        *)

Pick(T) == CHOOSE x \in T : TRUE

\* g gives the sum for each subset of S.
SumsUp(g, f, S) ==
    g = [T \in SUBSET S |-> IF T = {} THEN 0 ELSE f[Pick(T)] + g[T \ {Pick(T)}]]

LEMMA SumIsChosen ==
    ASSUME NEW f, NEW S
    PROVE  SumFunctionOnSet(f, S) = (CHOOSE g : SumsUp(g, f, S))[S]
  BY DEF SumFunctionOnSet, FoldFunctionOnSet, MapThenFoldSet, SumsUp, Pick

LEMMA PickIn == ASSUME NEW T, T # {} PROVE Pick(T) \in T
  BY DEF Pick

\* The recursion has a solution: one that is right for all sets of up to n
\* elements can be made right for those of n + 1.
LEMMA SumExists ==
    ASSUME NEW S, IsFiniteSet(S), NEW f, \A x \in S : f[x] \in Nat
    PROVE  \E g \in [SUBSET S -> Nat] : SumsUp(g, f, S)
<1> DEFINE Value(g, T) == IF T = {} THEN 0 ELSE f[Pick(T)] + g[T \ {Pick(T)}]
           UpTo(n) == \E g \in [SUBSET S -> Nat] :
                         \A T \in SUBSET S : Cardinality(T) <= n => g[T] = Value(g, T)
           Bad == {n \in Nat : ~UpTo(n)}
<1>1. \A T \in SUBSET S : IsFiniteSet(T) /\ Cardinality(T) \in Nat
                          /\ Cardinality(T) <= Cardinality(S)
  BY FS_Subset, FS_CardinalityType
<1>2. \A T \in SUBSET S : T # {} =>
          Pick(T) \in T /\ Cardinality(T \ {Pick(T)}) = Cardinality(T) - 1
  BY <1>1, PickIn, FS_RemoveElement
<1>3. UpTo(0)
  <2> DEFINE g == [T \in SUBSET S |-> 0]
  <2>1. g \in [SUBSET S -> Nat]
    OBVIOUS
  <2>2. ASSUME NEW T \in SUBSET S, Cardinality(T) <= 0 PROVE g[T] = Value(g, T)
    <3>1. T = {}
      BY <1>1, <2>2, FS_EmptySet
    <3> QED BY <3>1
  <2> QED BY <2>1, <2>2
<1>4. ASSUME NEW n \in Nat, UpTo(n) PROVE UpTo(n + 1)
  <2>1. PICK g \in [SUBSET S -> Nat] :
            \A T \in SUBSET S : Cardinality(T) <= n => g[T] = Value(g, T)
    BY <1>4
  <2> DEFINE h == [T \in SUBSET S |-> IF Cardinality(T) <= n THEN g[T] ELSE Value(g, T)]
  <2>2. ASSUME NEW T \in SUBSET S PROVE Value(g, T) \in Nat
    <3>1. CASE T # {}
      <4>1. f[Pick(T)] \in Nat /\ T \ {Pick(T)} \in SUBSET S
        BY <1>2, <3>1
      <4>2. g[T \ {Pick(T)}] \in Nat
        BY <4>1
      <4> QED BY <3>1, <4>1, <4>2
    <3> QED BY <3>1
  <2>3. h \in [SUBSET S -> Nat]
    BY <2>2
  <2>4. ASSUME NEW T \in SUBSET S, Cardinality(T) <= n + 1 PROVE h[T] = Value(h, T)
    <3>1. CASE T = {}
      <4>1. Cardinality(T) <= n /\ Value(h, T) = 0 /\ Value(g, T) = 0
        BY <3>1, FS_EmptySet
      <4> QED BY <2>1, <4>1
    <3>2. CASE T # {}
      <4>1. T \ {Pick(T)} \in SUBSET S
        OBVIOUS
      <4>2. Cardinality(T \ {Pick(T)}) <= n
        BY <1>1, <1>2, <2>4, <3>2
      <4>3. h[T \ {Pick(T)}] = g[T \ {Pick(T)}]
        BY <4>1, <4>2
      <4>4. Value(h, T) = Value(g, T)
        BY <3>2, <4>3
      <4> QED BY <2>1, <4>4
    <3> QED BY <3>1, <3>2
  <2> QED BY <2>3, <2>4
<1>5. Bad = {}
  <2> HIDE DEF UpTo
  <2> SUFFICES ASSUME Bad # {} PROVE FALSE
    OBVIOUS
  <2>1. PICK n \in Bad : \A m \in Bad : n <= m
    BY LeastOf
  <2>2. n \in Nat /\ n # 0 /\ ~UpTo(n)
    BY <1>3
  <2>3. PICK k \in Nat : n = k + 1
    BY <2>2
  <2>4. UpTo(k)
    BY <2>1, <2>2, <2>3
  <2> QED BY <1>4, <2>2, <2>3, <2>4
<1>6. UpTo(Cardinality(S))
  BY <1>1, <1>5
<1>7. PICK g \in [SUBSET S -> Nat] :
          \A T \in SUBSET S : Cardinality(T) <= Cardinality(S) => g[T] = Value(g, T)
  BY <1>6
<1>8. \A T \in SUBSET S : g[T] = Value(g, T)
  BY <1>1, <1>7
<1> QED BY <1>8 DEF SumsUp

\* Two solutions agree where both are defined.
LEMMA SumsAgree ==
    ASSUME NEW S, IsFiniteSet(S), NEW R \in SUBSET S, NEW f, NEW g, NEW h,
           SumsUp(g, f, S), SumsUp(h, f, R)
    PROVE  \A T \in SUBSET R : g[T] = h[T]
<1> DEFINE Bad == {T \in SUBSET R : g[T] # h[T]}
<1> SUFFICES ASSUME Bad # {} PROVE FALSE
  OBVIOUS
<1>1. PICK T \in Bad : \A U \in Bad : ~(U \subseteq T /\ U # T)
  <2>1. Bad \in SUBSET SUBSET S
    OBVIOUS
  <2> HIDE DEF Bad
  <2> QED BY <2>1, SmallestOf
<1>2. T \in SUBSET R /\ T \in SUBSET S /\ g[T] # h[T]
  OBVIOUS
<1>3. /\ g[T] = IF T = {} THEN 0 ELSE f[Pick(T)] + g[T \ {Pick(T)}]
      /\ h[T] = IF T = {} THEN 0 ELSE f[Pick(T)] + h[T \ {Pick(T)}]
  BY <1>2 DEF SumsUp
<1>4. T # {}
  BY <1>2, <1>3
<1>5. Pick(T) \in T
  BY <1>4, PickIn
<1>6. T \ {Pick(T)} \in SUBSET R /\ T \ {Pick(T)} \notin Bad
  BY <1>1, <1>2, <1>5
<1>7. g[T \ {Pick(T)}] = h[T \ {Pick(T)}]
  BY <1>6
<1> QED BY <1>2, <1>3, <1>4, <1>7

\* A sum is a number; that of nothing is zero; that of a set is the value at the
\* index that CHOOSE takes first and the sum of the others.
LEMMA SumUnfolds ==
    ASSUME NEW S, IsFiniteSet(S), NEW f, \A x \in S : f[x] \in Nat
    PROVE  /\ SumFunctionOnSet(f, S) \in Nat
           /\ SumFunctionOnSet(f, S) =
                IF S = {} THEN 0
                ELSE f[Pick(S)] + SumFunctionOnSet(f, S \ {Pick(S)})
<1> DEFINE Chosen(T) == CHOOSE g : SumsUp(g, f, T)
<1>1. ASSUME NEW T \in SUBSET S
      PROVE  /\ SumsUp(Chosen(T), f, T)
             /\ SumFunctionOnSet(f, T) = Chosen(T)[T]
             /\ SumFunctionOnSet(f, T) \in Nat
  <2>1. PICK g \in [SUBSET T -> Nat] : SumsUp(g, f, T)
    BY SumExists, FS_Subset
  <2>2. SumsUp(Chosen(T), f, T)
    BY <2>1
  <2>3. SumFunctionOnSet(f, T) = Chosen(T)[T]
    BY SumIsChosen
  <2> HIDE DEF Chosen
  <2>4. IsFiniteSet(T)
    BY FS_Subset
  <2>5. Chosen(T)[T] = g[T]
    BY <2>1, <2>2, <2>4, SumsAgree
  <2> QED BY <2>1, <2>2, <2>3, <2>5
<1> HIDE DEF Chosen
<1>2. PICK R \in SUBSET S : R = S \ {Pick(S)}
  OBVIOUS
<1>3. /\ SumsUp(Chosen(S), f, S) /\ SumFunctionOnSet(f, S) = Chosen(S)[S]
      /\ SumFunctionOnSet(f, S) \in Nat
  BY <1>1
<1>4. SumsUp(Chosen(R), f, R) /\ SumFunctionOnSet(f, R) = Chosen(R)[R]
  BY <1>1
<1>5. Chosen(S)[R] = Chosen(R)[R]
  BY <1>3, <1>4, SumsAgree
<1>6. Chosen(S)[S] = IF S = {} THEN 0 ELSE f[Pick(S)] + Chosen(S)[S \ {Pick(S)}]
  BY <1>3 DEF SumsUp
<1> QED BY <1>2, <1>3, <1>4, <1>5, <1>6

\* Any index may be taken out first.
LEMMA SumWithout ==
    ASSUME NEW S, IsFiniteSet(S), NEW f, \A y \in S : f[y] \in Nat, NEW x \in S
    PROVE  SumFunctionOnSet(f, S) = f[x] + SumFunctionOnSet(f, S \ {x})
<1> DEFINE Sum(T) == SumFunctionOnSet(f, T)
           Bad == {T \in SUBSET S : \E z \in T : Sum(T) # f[z] + Sum(T \ {z})}
<1>1. ASSUME NEW T \in SUBSET S
      PROVE  /\ Sum(T) \in Nat
             /\ Sum(T) = IF T = {} THEN 0 ELSE f[Pick(T)] + Sum(T \ {Pick(T)})
  <2>1. IsFiniteSet(T) /\ \A y \in T : f[y] \in Nat
    BY FS_Subset
  <2> QED BY <2>1, SumUnfolds
<1> HIDE DEF Sum
<1>2. SUFFICES ASSUME Bad # {} PROVE FALSE
  BY DEF Sum
<1>3. PICK T \in Bad : \A U \in Bad : ~(U \subseteq T /\ U # T)
  <2>1. Bad \in SUBSET SUBSET S
    OBVIOUS
  <2> HIDE DEF Bad
  <2> QED BY <1>2, <2>1, SmallestOf
<1>4. PICK z \in T : Sum(T) # f[z] + Sum(T \ {z})
  OBVIOUS
<1>5. PICK p \in T : p = Pick(T) /\ Sum(T) = f[p] + Sum(T \ {p})
  BY <1>1, <1>4, PickIn
<1>6. z # p
  BY <1>4, <1>5
<1>7. PICK A \in SUBSET S : A = T \ {p}
  OBVIOUS
<1>8. PICK B \in SUBSET S : B = T \ {z}
  OBVIOUS
<1>9. PICK C \in SUBSET S : C = (T \ {p}) \ {z}
  OBVIOUS
<1>10. A \notin Bad /\ B \notin Bad
  BY <1>3, <1>5, <1>7, <1>8
<1>11. Sum(A) = f[z] + Sum(C)
  BY <1>4, <1>6, <1>7, <1>9, <1>10
<1>12. Sum(B) = f[p] + Sum(C)
  <2>1. p \in B /\ B \ {p} = C
    BY <1>5, <1>6, <1>8, <1>9
  <2> QED BY <1>10, <2>1
<1>13. f[z] \in Nat /\ f[p] \in Nat /\ Sum(C) \in Nat
  BY <1>1
<1> QED BY <1>4, <1>5, <1>7, <1>8, <1>11, <1>12, <1>13

\* Two sums are the same when the indices of one can be matched with indices of
\* the other that have the same value, and all that is not matched is zero.
Matched(g, f, U, h, S) ==
    /\ \A u \in U : g[u] \in S /\ f[u] = h[g[u]]
    /\ \A u, v \in U : g[u] = g[v] => u = v
    /\ \A x \in S : (\A u \in U : g[u] # x) => h[x] = 0

LEMMA MatchedSums ==
    ASSUME NEW S, IsFiniteSet(S), NEW h, \A x \in S : h[x] \in Nat,
           NEW U, IsFiniteSet(U), NEW f, NEW g, Matched(g, f, U, h, S)
    PROVE  SumFunctionOnSet(f, U) = SumFunctionOnSet(h, S)
<1> DEFINE SumF(V) == SumFunctionOnSet(f, V)
           SumH(T) == SumFunctionOnSet(h, T)
           Differ(V, T) == Matched(g, f, V, h, T) /\ SumF(V) # SumH(T)
           Bad == {T \in SUBSET S : \E V \in SUBSET U : Differ(V, T)}
<1>1. \A u \in U : f[u] \in Nat
  BY DEF Matched
<1>2. ASSUME NEW T \in SUBSET S
      PROVE  /\ T = {} => SumH(T) = 0
             /\ SumH(T) \in Nat
             /\ \A x \in T : SumH(T) = h[x] + SumH(T \ {x})
  <2>1. IsFiniteSet(T) /\ \A x \in T : h[x] \in Nat
    BY FS_Subset
  <2> QED BY <2>1, SumUnfolds, SumWithout
<1>3. ASSUME NEW V \in SUBSET U
      PROVE  /\ V = {} => SumF(V) = 0
             /\ \A u \in V : SumF(V) = f[u] + SumF(V \ {u})
  <2>1. IsFiniteSet(V) /\ \A u \in V : f[u] \in Nat
    BY <1>1, FS_Subset
  <2> QED BY <2>1, SumUnfolds, SumWithout
<1> HIDE DEF SumF, SumH
<1>4. SUFFICES ASSUME Bad # {} PROVE FALSE
  BY DEF SumF, SumH
<1>5. PICK T \in Bad : \A R \in Bad : ~(R \subseteq T /\ R # T)
  <2>1. Bad \in SUBSET SUBSET S
    OBVIOUS
  <2> HIDE DEF Bad
  <2> QED BY <1>4, <2>1, SmallestOf
<1>6. PICK V \in SUBSET U : Differ(V, T)
  OBVIOUS
<1>7. T # {}
  <2> SUFFICES ASSUME T = {} PROVE FALSE
    OBVIOUS
  <2>1. V = {}
    BY <1>6 DEF Matched
  <2> QED BY <1>2, <1>3, <1>6, <2>1
<1>8. PICK x \in T : TRUE
  BY <1>7
<1>9. PICK R \in SUBSET S : R = T \ {x}
  OBVIOUS
<1>10. R \notin Bad
  BY <1>5, <1>9
<1>11. SumH(T) = h[x] + SumH(R) /\ SumH(R) \in Nat
  BY <1>2, <1>9
<1>12. ASSUME NEW u \in V, g[u] = x PROVE FALSE
  <2>1. PICK W \in SUBSET U : W = V \ {u}
    OBVIOUS
  <2>2. Matched(g, f, W, h, R)
    BY <1>6, <1>9, <1>12, <2>1 DEF Matched
  <2>3. SumF(W) = SumH(R)
    BY <1>10, <2>2
  <2>4. SumF(V) = f[u] + SumF(W)
    BY <1>3, <2>1
  <2>5. f[u] = h[x]
    BY <1>6, <1>12 DEF Matched
  <2>6. SumF(V) = SumH(T)
    <3> HIDE DEF SumF, SumH, Differ, Bad
    <3> QED BY <1>11, <2>3, <2>4, <2>5
  <2> QED BY <1>6, <2>6
<1>13. CASE \A u \in V : g[u] # x
  <2>1. Matched(g, f, V, h, R) /\ h[x] = 0
    BY <1>6, <1>9, <1>13 DEF Matched
  <2>2. SumF(V) = SumH(R)
    BY <1>10, <2>1
  <2>3. SumF(V) = SumH(T)
    <3> HIDE DEF SumF, SumH, Differ, Bad
    <3> QED BY <1>11, <2>1, <2>2
  <2> QED BY <1>6, <2>3
<1> HIDE DEF SumF, SumH, Differ, Bad
<1> QED BY <1>12, <1>13

-----------------------------------------------------------------------------
(* The rate trackers.                                                      *)

\* What the ring r of a source has to do with the openings o of its history: a
\* written slot is that of the second it holds and has that second's count, and
\* every second of the window with an opening has its slot.
Slots == [0..(connRateWindowSecs - 1) -> [sec : Nat, count : Nat]]

RingHolds(r, o) ==
    /\ r \in Slots /\ o \in [0..MaxTime -> Nat]
    /\ \A t \in 0..MaxTime : t > now => o[t] = 0
    /\ \A i \in DOMAIN r : r[i].sec # 0 =>
          /\ r[i].sec <= Unix /\ r[i].sec % connRateWindowSecs = i
          /\ r[i].count = o[r[i].sec - 1]
    /\ \A t \in 0..now : t > now - connRateWindowSecs /\ o[t] # 0 =>
          r[(t + 1) % connRateWindowSecs].sec = t + 1

RingInv ==
    /\ now \in 0..MaxTime
    /\ DOMAIN ring = Sources /\ DOMAIN opened = Sources
    /\ \A s \in Sources : RingHolds(ring[s], opened[s])

\* A ring that holds what the history says counts the openings of the window.
LEMMA RingSums ==
    ASSUME NEW r, NEW o, RingHolds(r, o), now \in 0..MaxTime
    PROVE  rate(r) = SumFunctionOnSet(o, {t \in 0..now : t > now - connRateWindowSecs})
<1> DEFINE W == connRateWindowSecs
           live == {i \in DOMAIN r : r[i].sec # 0 /\ r[i].sec > Unix - W}
           window == {t \in 0..now : t > now - W}
           f == [i \in DOMAIN r |-> r[i].count]
           g == [i \in live |-> r[i].sec - 1]
<1>1. W \in Nat \ {0} /\ now \in Nat /\ MaxTime \in Nat
  BY PolicyAssumption, ConntrackAssumption
<1>2. /\ DOMAIN r = 0..(W - 1) /\ \A i \in DOMAIN r : r[i].sec \in Nat /\ r[i].count \in Nat
      /\ DOMAIN o = 0..MaxTime /\ \A t \in 0..MaxTime : o[t] \in Nat
  BY DEF RingHolds, Slots
<1>3. IsFiniteSet(window) /\ IsFiniteSet(live)
  <2>1. IsFiniteSet(0..now) /\ IsFiniteSet(0..(W - 1))
    BY <1>1, FS_Interval
  <2>2. window \subseteq 0..now /\ live \subseteq 0..(W - 1)
    BY <1>2
  <2> QED BY <2>1, <2>2, FS_Subset
<1>4. \A t \in window : o[t] \in Nat
  BY <1>1, <1>2
<1>5. ASSUME NEW i \in live
      PROVE  /\ g[i] \in window /\ f[i] = o[g[i]]
             /\ g[i] + 1 = r[i].sec /\ (g[i] + 1) % W = i
  <2>1. /\ r[i].sec \in Nat /\ r[i].sec # 0 /\ r[i].sec > Unix - W /\ r[i].sec <= Unix
        /\ r[i].sec % W = i /\ r[i].count = o[r[i].sec - 1]
    BY <1>2 DEF RingHolds
  <2>2. g[i] = r[i].sec - 1
    OBVIOUS
  <2>3. g[i] \in window /\ g[i] + 1 = r[i].sec
    <3>1. PICK n \in Nat : n = r[i].sec
      BY <2>1
    <3>2. n - 1 \in 0..now /\ n - 1 > now - W /\ n - 1 + 1 = n
      <4> HIDE DEF f, g, live, window
      <4> QED BY <1>1, <2>1, <3>1 DEF Unix
    <3>3. n - 1 \in window
      BY <3>2
    <3> HIDE DEF f, g, live, window
    <3> QED BY <2>2, <3>1, <3>2, <3>3
  <2>4. f[i] = r[i].count
    OBVIOUS
  <2> HIDE DEF f, g, live, window
  <2> QED BY <2>1, <2>2, <2>3, <2>4
<1>6. ASSUME NEW t \in window, o[t] # 0
      PROVE  \E i \in live : g[i] = t
  <2>1. PICK i \in 0..(W - 1) : i = (t + 1) % W
    BY <1>1
  <2>2. r[i].sec = t + 1
    BY <1>6, <2>1 DEF RingHolds
  <2>3. i \in live /\ t + 1 - 1 = t
    BY <1>1, <1>2, <2>2 DEF Unix
  <2>4. g[i] = t
    BY <2>2, <2>3
  <2> HIDE DEF f, g, live, window
  <2> QED BY <2>3, <2>4
<1>7. Matched(g, f, live, o, window)
  <2> HIDE DEF g, f, live, window
  <2>1. \A i, j \in live : g[i] = g[j] => i = j
    BY <1>5
  <2> QED BY <1>5, <1>6, <2>1 DEF Matched
<1>8. SumFunctionOnSet(f, live) = SumFunctionOnSet(o, window)
  <2> HIDE DEF g, f, live, window
  <2> QED BY <1>3, <1>4, <1>7, MatchedSums
<1> QED BY <1>8 DEF rate

\* A tracker that was just made, or whose source was pruned.
LEMMA EmptyRing ==
    ASSUME now \in 0..MaxTime
    PROVE  RingHolds(NoSlots, [t \in 0..MaxTime |-> 0])
  BY PolicyAssumption, ConntrackAssumption DEF RingHolds, NoSlots, Slots

\* Counting one more opening, in the slot of this second: another second of the
\* window never has the same slot.
LEMMA RecordHolds ==
    ASSUME NEW r, NEW o, RingHolds(r, o), now \in 0..MaxTime
    PROVE  RingHolds(record(r), [o EXCEPT ![now] = @ + 1])
<1> DEFINE W == connRateWindowSecs
           q == record(r)
           p == [o EXCEPT ![now] = @ + 1]
<1>1. W \in Nat \ {0} /\ now \in Nat /\ MaxTime \in Nat /\ Unix = now + 1
  BY PolicyAssumption, ConntrackAssumption DEF Unix
<1>2. /\ r \in [0..(W - 1) -> [sec : Nat, count : Nat]] /\ o \in [0..MaxTime -> Nat]
  BY DEF RingHolds, Slots
<1>3. PICK k \in 0..(W - 1) : k = Unix % W
  BY <1>1
<1>4. r[k].sec # Unix => o[now] = 0
  BY <1>1, <1>2, <1>3 DEF RingHolds
<1>5. r[k].sec = Unix => r[k].count = o[now]
  <2>1. Unix - 1 = now /\ Unix # 0 /\ k \in DOMAIN r
    BY <1>1, <1>2
  <2> QED BY <2>1 DEF RingHolds
<1>6. /\ q = [r EXCEPT ![k] = [sec |-> Unix,
                               count |-> IF r[k].sec = Unix THEN r[k].count + 1 ELSE 1]]
  BY <1>3 DEF record
<1>7. p[now] = o[now] + 1 /\ \A t \in 0..MaxTime : t # now => p[t] = o[t]
  BY <1>2
<1>8. /\ q[k].sec = Unix /\ q[k].count = p[now]
      /\ \A i \in 0..(W - 1) : i # k => q[i] = r[i]
  BY <1>2, <1>4, <1>5, <1>6, <1>7
<1>9. q \in [0..(W - 1) -> [sec : Nat, count : Nat]] /\ p \in [0..MaxTime -> Nat]
  <2>1. o[now] + 1 \in Nat
    BY <1>1, <1>2
  <2>2. p \in [0..MaxTime -> Nat]
    BY <1>2, <2>1
  <2>3. PICK c \in Nat : c = IF r[k].sec = Unix THEN r[k].count + 1 ELSE 1
    BY <1>2
  <2>4. [sec |-> Unix, count |-> c] \in [sec : Nat, count : Nat]
    BY <1>1
  <2>5. q \in [0..(W - 1) -> [sec : Nat, count : Nat]]
    BY <1>2, <1>6, <2>3, <2>4
  <2> QED BY <2>2, <2>5
<1> HIDE DEF q, p
<1>10. ASSUME NEW t \in 0..MaxTime, t > now PROVE p[t] = 0
  BY <1>1, <1>7, <1>10 DEF RingHolds
<1>11. ASSUME NEW i \in 0..(W - 1), q[i].sec # 0
       PROVE  q[i].sec <= Unix /\ q[i].sec % W = i /\ q[i].count = p[q[i].sec - 1]
  <2>1. CASE i = k
    <3>1. Unix - 1 = now /\ Unix <= Unix
      BY <1>1
    <3> QED BY <1>3, <1>8, <2>1, <3>1
  <2>2. CASE i # k
    <3>1. /\ q[i] = r[i] /\ r[i].sec \in Nat /\ r[i].sec <= Unix /\ r[i].sec % W = i
          /\ r[i].count = o[r[i].sec - 1]
      BY <1>2, <1>8, <1>11, <2>2 DEF RingHolds
    <3>2. r[i].sec # Unix
      BY <1>3, <2>2, <3>1
    <3>3. r[i].sec - 1 \in 0..MaxTime /\ r[i].sec - 1 # now
      BY <1>1, <1>11, <3>1, <3>2
    <3> QED BY <1>7, <3>1, <3>3
  <2> QED BY <2>1, <2>2
<1>12. ASSUME NEW t \in 0..now, t > now - W, p[t] # 0
       PROVE  q[(t + 1) % W].sec = t + 1
  <2>1. CASE t = now
    BY <1>1, <1>3, <1>8, <2>1
  <2>2. CASE t # now
    <3>1. o[t] # 0 /\ r[(t + 1) % W].sec = t + 1
      BY <1>1, <1>7, <1>12, <2>2 DEF RingHolds
    <3>2. PICK a \in Nat : a = t + 1
      BY <1>1
    <3>3. a <= Unix /\ Unix < a + W /\ a # Unix /\ Unix \in Nat
      BY <1>1, <1>12, <2>2, <3>2
    <3>4. a % W # k
      BY <1>1, <1>3, <3>3, RemaindersApart
    <3>5. a % W \in 0..(W - 1)
      BY <1>1
    <3> QED BY <1>8, <3>1, <3>2, <3>4, <3>5
  <2> QED BY <2>1, <2>2
<1>13. DOMAIN q = 0..(W - 1)
  BY <1>9
<1> QED BY <1>9, <1>10, <1>11, <1>12, <1>13 DEF RingHolds, Slots, q, p

\* What TrackNewConns does to one source: its tracker is made anew when the
\* source was pruned, and counts the flow it opened, if it opened one.
LEMMA TrackKeeps ==
    ASSUME RingInv, TrackNewConns, now' = now
    PROVE  RingInv'
<1> DEFINE never == [t \in 0..MaxTime |-> 0]
           pruned == prunedBy(DOMAIN flows \ DOMAIN flows')
           opens == {k.src : k \in DOMAIN flows' \ DOMAIN flows}
           r(s) == IF s \in pruned THEN NoSlots ELSE ring[s]
           o(s) == IF s \in pruned THEN never ELSE opened[s]
<1>1. /\ ring' = [s \in Sources |-> IF s \in opens THEN record(r(s)) ELSE r(s)]
      /\ opened' = [s \in Sources |->
                       IF s \in opens THEN [o(s) EXCEPT ![now] = @ + 1] ELSE o(s)]
  BY DEF TrackNewConns
<1> HIDE DEF pruned, opens
<1>2. ASSUME NEW s \in Sources PROVE RingHolds(ring'[s], opened'[s])
  <2>1. RingHolds(r(s), o(s))
    BY EmptyRing DEF RingInv
  <2> HIDE DEF r, o
  <2>2. RingHolds(record(r(s)), [o(s) EXCEPT ![now] = @ + 1])
    BY <2>1, RecordHolds DEF RingInv
  <2> QED BY <1>1, <2>1, <2>2
<1>3. ASSUME NEW s \in Sources PROVE RingHolds(ring[s], opened[s])'
  BY <1>2 DEF RingHolds, Unix
<1>4. DOMAIN ring' = Sources /\ DOMAIN opened' = Sources
  BY <1>1
<1> QED BY <1>3, <1>4 DEF RingInv, Sources

\* The next second enters the window with no opening.
LEMMA TickHolds ==
    ASSUME RingInv, Tick, UNCHANGED <<ring, opened>>
    PROVE  RingInv'
<1>1. now' = now + 1 /\ now \in 0..MaxTime /\ now' \in 0..MaxTime /\ MaxTime \in Nat
  BY ConntrackAssumption DEF Tick, RingInv
<1>2. connRateWindowSecs \in Nat \ {0}
  BY PolicyAssumption
<1>3. ASSUME NEW s \in Sources PROVE RingHolds(ring[s], opened[s])'
  <2> DEFINE r == ring[s]
             o == opened[s]
  <2>1. /\ r \in Slots /\ o \in [0..MaxTime -> Nat]
        /\ \A t \in 0..MaxTime : t > now => o[t] = 0
    BY DEF RingInv, RingHolds
  <2>2. ASSUME NEW i \in DOMAIN r, r[i].sec # 0
        PROVE  /\ r[i].sec <= Unix' /\ r[i].sec % connRateWindowSecs = i
               /\ r[i].count = o[r[i].sec - 1]
    <3>1. r[i].sec \in Nat
      BY <2>1 DEF Slots
    <3> QED BY <1>1, <2>2, <3>1 DEF RingInv, RingHolds, Unix
  <2>3. ASSUME NEW t \in 0..now', t > now' - connRateWindowSecs, o[t] # 0
        PROVE  r[(t + 1) % connRateWindowSecs].sec = t + 1
    <3>1. ~(t > now) /\ t \in 0..now /\ t > now - connRateWindowSecs
      BY <1>1, <1>2, <2>1, <2>3
    <3> QED BY <2>3, <3>1 DEF RingInv, RingHolds
  <2>4. \A t \in 0..MaxTime : t > now' => o[t] = 0
    BY <1>1, <2>1
  <2> QED BY <2>1, <2>2, <2>3, <2>4 DEF RingHolds, Slots
<1> QED BY <1>1, <1>3 DEF RingInv, Sources

LEMMA RingKept == RingInv /\ [PolicyNext]_policyVars => RingInv'
<1> SUFFICES ASSUME RingInv, [PolicyNext]_policyVars PROVE RingInv'
  OBVIOUS
<1>1. ASSUME UNCHANGED <<now, ring, opened>> PROVE RingInv'
  BY <1>1 DEF RingInv, RingHolds, Unix, Slots, Sources
<1>2. ASSUME NEW a \in Addrs, NEW p \in Ports, NEW f \in Flags, TrackTCP(a, p, f)
      PROVE  RingInv'
  <2>1. TrackNewConns /\ now' = now
    BY <1>2 DEF TrackTCP, UpdateTCPState, Touch, Create
  <2> QED BY <2>1, TrackKeeps
<1>3. ASSUME NEW a \in Addrs, NEW protocol \in Protocols, NEW p \in Ports,
             TrackOther(a, protocol, p)
      PROVE  RingInv'
  <2>1. TrackNewConns /\ now' = now
    BY <1>3 DEF TrackOther, LookupOrCreate, Touch, Create
  <2> QED BY <2>1, TrackKeeps
<1>4. ASSUME NEW a \in Addrs, NEW protocol \in Protocols, NEW p \in Ports,
             DropFlowLimited(a, protocol, p)
      PROVE  UNCHANGED <<now, ring, opened>>
  BY <1>4 DEF DropFlowLimited, FlowLimited, vars
<1>5. ASSUME RecordPort \/ ReadNewConnRate \/ DropByCheck \/ UNCHANGED policyVars
      PROVE  UNCHANGED <<now, ring, opened>>
  BY <1>5 DEF RecordPort, RecordDestPort, ReadNewConnRate, DropByCheck, vars, policyVars
<1>6. ASSUME NEW others \in BOOLEAN, EvaluatePolicy(others)
      PROVE  UNCHANGED <<now, ring, opened>>
  BY <1>6 DEF EvaluatePolicy, vars
<1>7. CASE Expire /\ TrackNewConns /\ UNCHANGED pkt
  <2>1. now' = now
    BY <1>7 DEF Expire, Remove
  <2> QED BY <1>7, <2>1, TrackKeeps
<1>8. CASE Tick /\ UNCHANGED <<ring, pkt, opened>>
  BY <1>8, TickHolds
<1> QED BY <1>1, <1>2, <1>3, <1>4, <1>5, <1>6, <1>7, <1>8 DEF PolicyNext

\* The rate that the policy's new-connection rule reads is that of the
\* connections the source opened in the last connRateWindowSecs seconds
\* (newConnRate.record and rate), whatever is pruned, however long the source
\* is silent and whatever the number of slots: no slot counts a second that has
\* left the window, and no second of the window has lost its slot.
THEOREM RateCountsWindow == PolicySpec => []RingCountsWindow
<1>1. PolicyInit => RingInv
  <2> SUFFICES ASSUME PolicyInit PROVE RingInv
    OBVIOUS
  <2>1. now \in 0..MaxTime
    BY ConntrackAssumption DEF PolicyInit, Init
  <2>2. RingHolds(NoSlots, [t \in 0..MaxTime |-> 0])
    BY <2>1, EmptyRing
  <2> QED BY <2>1, <2>2 DEF PolicyInit, RingInv
<1>2. RingInv => RingCountsWindow
  BY RingSums DEF RingInv, RingCountsWindow
<1> QED BY <1>1, <1>2, RingKept, PTL DEF PolicySpec

=============================================================================
