----------------------------- MODULE Conntrack ------------------------------
(***************************************************************************)
(* The connection table of internal/conntrack/table.go, driven the way the  *)
(* engine drives it: one packet goroutine that looks a flow up and, in a     *)
(* second critical section, records the destination port; a maintenance     *)
(* goroutine that expires idle flows; and callers of Delete.  Every method   *)
(* holds Table.mu for its whole body, so a method is one action; what        *)
(* interleaves is the sequence of methods.                                  *)
(*                                                                         *)
(* A 5-tuple is abstracted to (source, protocol, destination port), the      *)
(* parts the table looks at separately; destination address and source port *)
(* only take part in key equality.  newConns keeps the sources that have a    *)
(* rate tracker; what a tracker counts is left out.                          *)
(***************************************************************************)
EXTENDS Integers, FiniteSets, Functions, TcpFsm

CONSTANTS
    Addrs,             \* source addresses as they are spelled in packets
    normalizeIP,       \* [Addrs -> Addrs]: the canonical spelling
    Protocols,         \* "TCP" and the connectionless ones
    Ports,             \* destination ports
    Flags,             \* the TCP flag combinations that packets carry
    MaxEntries,        \* Config.MaxEntries
    MaxFlowsPerSrcIP,  \* Config.MaxFlowsPerSrcIP, 0 = unlimited
    PortScanMaxPorts,  \* Config.PortScanMaxPorts
    idleTimeoutFor,    \* [Protocols -> Nat]: the per-protocol idle timeout
    EvictionSampleSize,\* evictionSampleSize
    MaxTime,           \* bound: the clock stops here
    MaxCreated         \* bound: no flow is created after this many

Sources == {normalizeIP[a] : a \in Addrs}

FlowKeys == [src : Sources, protocol : Protocols, dstPort : Ports]

ASSUME ConntrackAssumption ==
    /\ normalizeIP \in [Addrs -> Addrs]
    /\ \A a \in Addrs : normalizeIP[normalizeIP[a]] = normalizeIP[a]
    /\ Flags \subseteq TCPFlags
    /\ MaxEntries \in Nat \ {0}
    /\ MaxFlowsPerSrcIP \in Nat
    /\ PortScanMaxPorts \in Nat \ {0}
    /\ EvictionSampleSize \in Nat \ {0}
    /\ idleTimeoutFor \in [Protocols -> Nat]
    /\ MaxTime \in Nat /\ MaxCreated \in Nat

VARIABLES
    flows,        \* flow key -> flow, for the keys in the table
    srcFlowCount, \* source -> number of flows; 0 where the map has no entry
    srcPorts,     \* source -> recorded ports; {} where the map has no entry
    newConns,     \* the sources that have a new-connection rate tracker
    stats,        \* the Created, Expired and Evicted counters
    pending,      \* the packet, if any, between its lookup and RecordDestPort
    now,          \* the clock
    deleted       \* history: how many flows Delete removed

vars == <<flows, srcFlowCount, srcPorts, newConns, stats, pending, now, deleted>>

Flow == [TCPState : TCPStates, Established : BOOLEAN, lastSeen : Nat]

TypeOK ==
    /\ DOMAIN flows \subseteq FlowKeys
    /\ flows \in [DOMAIN flows -> Flow]
    /\ srcFlowCount \in [Sources -> Nat]
    /\ srcPorts \in [Sources -> SUBSET Ports]
    /\ newConns \subseteq Sources
    /\ stats \in [Created : Nat, Expired : Nat, Evicted : Nat]
    /\ pending \subseteq Addrs \X Ports
    /\ now \in Nat
    /\ deleted \in Nat

\* NewTable.
Init ==
    /\ flows = [k \in {} |-> {}]
    /\ srcFlowCount = [s \in Sources |-> 0]
    /\ srcPorts = [s \in Sources |-> {}]
    /\ newConns = {}
    /\ stats = [Created |-> 0, Expired |-> 0, Evicted |-> 0]
    /\ pending = {}
    /\ now = 0
    /\ deleted = 0

-----------------------------------------------------------------------------
(* Helpers, called with Table.mu held.                                     *)

Key(a, protocol, p) ==
    [src |-> normalizeIP[a], protocol |-> protocol, dstPort |-> p]

FlowsOf(s) == {k \in DOMAIN flows : k.src = s}

\* Mutant: one flow too many is let in.
reachedFlowLimitLate(s) ==
    MaxFlowsPerSrcIP > 0 /\ srcFlowCount[s] > MaxFlowsPerSrcIP

reachedFlowLimitLocked(s) ==
    MaxFlowsPerSrcIP > 0 /\ srcFlowCount[s] >= MaxFlowsPerSrcIP

\* Mutant: a sweep that removes several flows of a source decrements once.
decrFlowCountOnce(D) ==
    [s \in Sources |->
        IF (\E k \in D : k.src = s) /\ srcFlowCount[s] > 0
        THEN srcFlowCount[s] - 1 ELSE srcFlowCount[s]]

\* decrFlowCountLocked, called once for each flow of the set D: the counts it
\* leaves, and the sources whose companion entries it prunes on the way.
decrFlowCount(D) ==
    [s \in Sources |->
        LET gone == Cardinality({k \in D : k.src = s})
        IN  IF srcFlowCount[s] <= gone THEN 0 ELSE srcFlowCount[s] - gone]

prunedBy(D) == {s \in Sources : (\E k \in D : k.src = s) /\ decrFlowCount(D)[s] = 0}

\* Mutant: the port history outlives the flows.
portsKept(S) == srcPorts

portsWithout(S) == [s \in Sources |-> IF s \in S THEN {} ELSE srcPorts[s]]

\* Mutant: the comparison of ages is inverted.
evictNewestLocked ==
    {v \in DOMAIN flows : \A k \in DOMAIN flows : flows[v].lastSeen >= flows[k].lastSeen}

\* Map iteration yields an arbitrary sample of the table; the victim is the
\* flow of the sample that was seen longest ago.
evictOneLocked ==
    LET n == Cardinality(DOMAIN flows)
    IN  {v \in DOMAIN flows :
            \E sample \in SUBSET DOMAIN flows :
                /\ Cardinality(sample) =
                       IF n < EvictionSampleSize THEN n ELSE EvictionSampleSize
                /\ v \in sample
                /\ \A k \in sample : flows[v].lastSeen <= flows[k].lastSeen}

\* What the creation of flow f under key k evicts: nothing, or one victim.
Victims ==
    IF Cardinality(DOMAIN flows) >= MaxEntries
    THEN {{v} : v \in evictOneLocked}
    ELSE {{}}

\* Mutant: the rate is tracked before the eviction, which may prune the tracker.
CreateTrackFirst(k, f) ==
    /\ stats.Created < MaxCreated
    /\ \E D \in Victims :
        /\ flows' = [j \in (DOMAIN flows \ D) \cup {k} |->
                        IF j = k THEN f ELSE flows[j]]
        /\ srcFlowCount' = [decrFlowCount(D) EXCEPT ![k.src] = @ + 1]
        /\ srcPorts' = portsWithout(prunedBy(D))
        /\ newConns' = (newConns \cup {k.src}) \ prunedBy(D)
        /\ stats' = [stats EXCEPT !.Created = @ + 1,
                                  !.Evicted = @ + Cardinality(D)]
    /\ UNCHANGED <<now, deleted>>

\* The insertion both lookups share: evict, insert, count, track the rate.
Create(k, f) ==
    /\ stats.Created < MaxCreated
    /\ \E D \in Victims :
        /\ flows' = [j \in (DOMAIN flows \ D) \cup {k} |->
                        IF j = k THEN f ELSE flows[j]]
        /\ srcFlowCount' = [decrFlowCount(D) EXCEPT ![k.src] = @ + 1]
        /\ srcPorts' = portsWithout(prunedBy(D))
        /\ newConns' = (newConns \ prunedBy(D)) \cup {k.src}
        /\ stats' = [stats EXCEPT !.Created = @ + 1,
                                  !.Evicted = @ + Cardinality(D)]
    /\ UNCHANGED <<now, deleted>>

\* A hit: touch the flow and store its state after the packet.
Touch(k, f) ==
    /\ flows' = [flows EXCEPT ![k] = f]
    /\ UNCHANGED <<srcFlowCount, srcPorts, newConns, stats, now, deleted>>

-----------------------------------------------------------------------------
(* The packet goroutine: evaluatePacket calls UpdateTCPState for TCP and     *)
(* LookupOrCreate for the rest; a nil flow ends the packet, otherwise TCP    *)
(* and UDP packets go on to RecordDestPort.                                 *)

LookupOrCreate(a, protocol, p) ==
    LET k == Key(a, protocol, p)
        fresh == [TCPState |-> "SYN_SENT", Established |-> FALSE, lastSeen |-> now]
    IN  /\ pending = {}
        /\ protocol # "TCP"
        /\ \/ /\ k \in DOMAIN flows
              /\ Touch(k, [flows[k] EXCEPT !.lastSeen = now])
           \/ /\ k \notin DOMAIN flows
              /\ ~reachedFlowLimitLocked(k.src)
              /\ Create(k, fresh)
        /\ pending' = IF protocol = "UDP" THEN {<<a, p>>} ELSE {}

\* Mutant: the mid-stream override also hits a flow that is in the table.
UpdateTCPStateOverrides(a, p, f) ==
    LET k == Key(a, "TCP", p)
        flow(s, e) ==
            [TCPState |-> IF StartsMidStream(f) THEN "SYN_RECEIVED"
                          ELSE StateAfter(Segment(f), s),
             Established |-> EstablishedAfter(Segment(f), s, e),
             lastSeen |-> now]
    IN  /\ pending = {}
        /\ "TCP" \in Protocols
        /\ \/ k \in DOMAIN flows
              /\ Touch(k, flow(flows[k].TCPState, flows[k].Established))
           \/ /\ k \notin DOMAIN flows
              /\ ~reachedFlowLimitLocked(k.src)
              /\ Create(k, flow("SYN_SENT", FALSE))
        /\ pending' = {<<a, p>>}

UpdateTCPState(a, p, f) ==
    LET k == Key(a, "TCP", p)
        seg == Segment(f)
        fresh == [TCPState |-> NewState(f),
                  Established |-> EstablishedAfter(seg, "SYN_SENT", FALSE),
                  lastSeen |-> now]
        seen == [TCPState |-> StateAfter(seg, flows[k].TCPState),
                 Established |-> EstablishedAfter(seg, flows[k].TCPState,
                                                  flows[k].Established),
                 lastSeen |-> now]
    IN  /\ pending = {}
        /\ "TCP" \in Protocols
        /\ \/ k \in DOMAIN flows /\ Touch(k, seen)
           \/ /\ k \notin DOMAIN flows
              /\ ~reachedFlowLimitLocked(k.src)
              /\ Create(k, fresh)
        /\ pending' = {<<a, p>>}

\* Either lookup of a packet that would open one flow too many returns nil and
\* changes nothing but the FlowLimitExceeded counter, which is not kept here.
FlowLimited(a, protocol, p) ==
    LET k == Key(a, protocol, p)
    IN  /\ pending = {}
        /\ k \notin DOMAIN flows
        /\ reachedFlowLimitLocked(k.src)
        /\ UNCHANGED vars

\* Mutant: one port less than the cap is kept.
RecordDestPortShort(a, p) ==
    LET s == normalizeIP[a]
    IN  /\ pending = {<<a, p>>}
        /\ pending' = {}
        /\ srcPorts' =
               IF p \in srcPorts[s] \/ Cardinality(srcPorts[s]) + 1 >= PortScanMaxPorts
               THEN srcPorts
               ELSE [srcPorts EXCEPT ![s] = @ \cup {p}]
        /\ UNCHANGED <<flows, srcFlowCount, newConns, stats, now, deleted>>

RecordDestPort(a, p) ==
    LET s == normalizeIP[a]
    IN  /\ pending = {<<a, p>>}
        /\ pending' = {}
        /\ srcPorts' =
               IF p \in srcPorts[s] \/ Cardinality(srcPorts[s]) >= PortScanMaxPorts
               THEN srcPorts
               ELSE [srcPorts EXCEPT ![s] = @ \cup {p}]
        /\ UNCHANGED <<flows, srcFlowCount, newConns, stats, now, deleted>>

-----------------------------------------------------------------------------
(* The maintenance goroutine, other callers, and time.                      *)

Idle(k) == now - flows[k].lastSeen

\* Removes the flows of D from the table and settles their sources' entries.
Remove(D) ==
    /\ flows' = Restrict(flows, DOMAIN flows \ D)
    /\ srcFlowCount' = decrFlowCount(D)
    /\ srcPorts' = portsWithout(prunedBy(D))
    /\ newConns' = newConns \ prunedBy(D)
    /\ UNCHANGED <<pending, now>>

\* Mutant: a sweep counts as one expired flow.
ExpireCountsOnce ==
    LET expired == {k \in DOMAIN flows : Idle(k) > idleTimeoutFor[k.protocol]}
    IN  /\ Remove(expired)
        /\ stats' = [stats EXCEPT !.Expired = @ + (IF expired = {} THEN 0 ELSE 1)]
        /\ UNCHANGED deleted

Expire ==
    LET expired == {k \in DOMAIN flows : Idle(k) > idleTimeoutFor[k.protocol]}
    IN  /\ Remove(expired)
        /\ stats' = [stats EXCEPT !.Expired = @ + Cardinality(expired)]
        /\ UNCHANGED deleted

Delete(a, protocol, p) ==
    LET k == Key(a, protocol, p)
    IN  /\ k \in DOMAIN flows
        /\ Remove({k})
        /\ deleted' = deleted + 1
        /\ UNCHANGED stats

Tick ==
    /\ now < MaxTime
    /\ now' = now + 1
    /\ UNCHANGED <<flows, srcFlowCount, srcPorts, newConns, stats, pending, deleted>>

Next ==
    \/ \E a \in Addrs, protocol \in Protocols, p \in Ports :
          \/ LookupOrCreate(a, protocol, p)
          \/ FlowLimited(a, protocol, p)
          \/ Delete(a, protocol, p)
    \/ \E a \in Addrs, p \in Ports, f \in Flags : UpdateTCPState(a, p, f)
    \/ \E a \in Addrs, p \in Ports : RecordDestPort(a, p)
    \/ Expire
    \/ Tick

Spec == Init /\ [][Next]_vars

-----------------------------------------------------------------------------
(* Properties.                                                             *)

\* The per-source counter, kept by increments and decrements spread over five
\* methods, is the number of flows the table really holds for that source,
\* whichever spelling of the address opened or deleted them.
CountsAgree == \A s \in Sources : srcFlowCount[s] = Cardinality(FlowsOf(s))

\* The table never holds more flows than MaxEntries, and no source more than
\* MaxFlowsPerSrcIP: a creation evicts first, and evicting a flow of another
\* source does not lift the limit of this one.
WithinLimits ==
    /\ Cardinality(DOMAIN flows) <= MaxEntries
    /\ MaxFlowsPerSrcIP > 0 =>
          \A s \in Sources : Cardinality(FlowsOf(s)) <= MaxFlowsPerSrcIP

\* A source has a rate tracker exactly while it has a flow (the companion-map
\* rule of decrFlowCountLocked): no tracker outlives the last flow, and none is
\* lost when a source's only flow is evicted to make room for its next one.
TrackersFollowFlows == newConns = {s \in Sources : FlowsOf(s) # {}}

\* Every flow ever created is in the table or was expired, evicted or deleted,
\* exactly once: Expire and eviction never count a flow twice or lose one.
FlowsConserved ==
    stats.Created =
        Cardinality(DOMAIN flows) + stats.Expired + stats.Evicted + deleted

\* The Established flag the policy reads agrees with the state machine: set in
\* ESTABLISHED, clear in SYN_SENT and CLOSED, and CLOSE_WAIT is never entered.
EstablishedAgrees ==
    \A k \in DOMAIN flows :
        /\ flows[k].TCPState = "ESTABLISHED" => flows[k].Established
        /\ flows[k].TCPState \in {"SYN_SENT", "CLOSED"} => ~flows[k].Established
        /\ flows[k].TCPState # "CLOSE_WAIT"

\* A flow that stays in the table never goes back to an earlier TCP state; in
\* particular no segment reopens a CLOSED flow.
TcpNeverRegresses ==
    [][\A k \in DOMAIN flows \cap DOMAIN flows' :
          Rank(flows[k].TCPState) <= Rank(flows'[k].TCPState)]_vars

\* The step that takes the last flow of a source also drops its port history
\* and its rate tracker (decrFlowCountLocked), whichever method removed it; and
\* a source loses port history only in a step that removes all its old flows.
PortsFollowFlows ==
    [][\A s \in Sources :
          /\ FlowsOf(s) # {} /\ FlowsOf(s)' = {} => srcPorts'[s] = {}
          /\ ~(srcPorts[s] \subseteq srcPorts'[s])
                 => FlowsOf(s) \cap DOMAIN flows' = {}]_vars

\* A flow that has not outstayed its timeout disappears only by Delete or by an
\* eviction from a full table, and an evicted flow has at most
\* n - EvictionSampleSize strictly older flows in the table of n flows.
LiveFlowsKept ==
    [][\A k \in DOMAIN flows \ DOMAIN flows' :
          \/ Idle(k) > idleTimeoutFor[k.protocol]
          \/ deleted' > deleted
          \/ LET n == Cardinality(DOMAIN flows)
                 older == {j \in DOMAIN flows : flows[j].lastSeen < flows[k].lastSeen}
             IN  /\ n >= MaxEntries
                 /\ stats'.Evicted = stats.Evicted + 1
                 /\ older = {} \/ Cardinality(older) + EvictionSampleSize <= n]_vars

=============================================================================
