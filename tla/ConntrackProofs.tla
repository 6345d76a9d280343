-------------------------- MODULE ConntrackProofs ---------------------------
(***************************************************************************)
(* Theorems about the connection table, for every set of addresses, ports    *)
(* and protocols, every capacity and limit, and no bound on time.            *)
(***************************************************************************)
EXTENDS Conntrack, FiniteSetTheorems, TLAPS

\* The inductive invariant.  The counters say nothing about the table unless
\* its domain is finite, and the limits and the trackers are preserved only
\* because the counters agree with the table.
IInv ==
    /\ TypeOK
    /\ IsFiniteSet(DOMAIN flows)
    /\ CountsAgree
    /\ WithinLimits
    /\ TrackersFollowFlows
    /\ FlowsConserved

\* The flows of s that remain when D is taken out.
Remaining(s, D) == {k \in DOMAIN flows \ D : k.src = s}

-----------------------------------------------------------------------------
(* Facts about the helpers.                                                *)

\* decrFlowCount leaves every source with the number of its remaining flows.
LEMMA DecrCounts ==
    ASSUME TypeOK, IsFiniteSet(DOMAIN flows), CountsAgree,
           NEW D \in SUBSET DOMAIN flows, NEW s \in Sources
    PROVE  /\ decrFlowCount(D)[s] = Cardinality(Remaining(s, D))
           /\ decrFlowCount(D)[s] \in Nat
<1> DEFINE X == {k \in D : k.src = s}
<1>1. IsFiniteSet(FlowsOf(s)) /\ IsFiniteSet(X) /\ X \subseteq FlowsOf(s)
  <2>1. FlowsOf(s) \subseteq DOMAIN flows /\ X \subseteq FlowsOf(s)
    BY DEF FlowsOf
  <2> QED BY <2>1, FS_Subset
<1>2. Remaining(s, D) = FlowsOf(s) \ X
  BY DEF Remaining, FlowsOf
<1>3. /\ IsFiniteSet(Remaining(s, D))
      /\ Cardinality(Remaining(s, D)) = Cardinality(FlowsOf(s)) - Cardinality(X)
  <2>1. FlowsOf(s) \cap X = X
    BY <1>1
  <2>2. /\ IsFiniteSet(FlowsOf(s) \ X)
        /\ Cardinality(FlowsOf(s) \ X) =
               Cardinality(FlowsOf(s)) - Cardinality(FlowsOf(s) \cap X)
    <3> HIDE DEF X
    <3> QED BY <1>1, FS_Difference
  <2> QED BY <1>2, <2>1, <2>2
<1>4. /\ Cardinality(X) \in Nat
      /\ Cardinality(FlowsOf(s)) \in Nat
      /\ Cardinality(Remaining(s, D)) \in Nat
  BY <1>1, <1>3, FS_CardinalityType
<1>5. srcFlowCount[s] = Cardinality(FlowsOf(s))
  BY DEF CountsAgree
<1>6. decrFlowCount(D)[s] = IF srcFlowCount[s] <= Cardinality(X) THEN 0
                            ELSE srcFlowCount[s] - Cardinality(X)
  BY DEF decrFlowCount
<1> QED BY <1>3, <1>4, <1>5, <1>6

\* decrFlowCount prunes exactly the sources that D leaves without a flow.
LEMMA PrunedSources ==
    ASSUME TypeOK, IsFiniteSet(DOMAIN flows), CountsAgree,
           NEW D \in SUBSET DOMAIN flows
    PROVE  prunedBy(D) = {s \in Sources : FlowsOf(s) # {} /\ Remaining(s, D) = {}}
<1>1. ASSUME NEW s \in Sources
      PROVE  decrFlowCount(D)[s] = 0 <=> Remaining(s, D) = {}
  <2>1. Remaining(s, D) \subseteq DOMAIN flows
    BY DEF Remaining
  <2>2. IsFiniteSet(Remaining(s, D))
    BY <2>1, FS_Subset
  <2> QED BY <2>2, DecrCounts, FS_EmptySet
<1>2. ASSUME NEW s \in Sources, Remaining(s, D) = {}
      PROVE  (\E k \in D : k.src = s) <=> FlowsOf(s) # {}
  BY <1>2 DEF Remaining, FlowsOf
<1>3. ASSUME NEW s \in Sources, Remaining(s, D) = {}
      PROVE  s \in prunedBy(D) <=> FlowsOf(s) # {}
  BY <1>1, <1>2, <1>3 DEF prunedBy
<1>4. ASSUME NEW s \in Sources, Remaining(s, D) # {}
      PROVE  s \notin prunedBy(D)
  BY <1>1, <1>4 DEF prunedBy
<1>5. prunedBy(D) \subseteq Sources
  BY DEF prunedBy
<1> QED BY <1>3, <1>4, <1>5

\* A victim set is a set of at most one flow of the table, and it is not empty
\* when the table is full.
LEMMA VictimSets ==
    ASSUME NEW D \in Victims
    PROVE  /\ D \in SUBSET DOMAIN flows
           /\ \/ D = {} /\ ~(Cardinality(DOMAIN flows) >= MaxEntries)
              \/ \E v \in DOMAIN flows : D = {v}
BY DEF Victims, evictOneLocked

-----------------------------------------------------------------------------
(* What the shared bodies preserve.                                        *)

\* Remove(D), the common part of Expire and Delete.
LEMMA RemoveStep ==
    ASSUME IInv, NEW D \in SUBSET DOMAIN flows, Remove(D)
    PROVE  /\ DOMAIN flows' = DOMAIN flows \ D
           /\ flows' \in [DOMAIN flows' -> Flow]
           /\ srcFlowCount' \in [Sources -> Nat]
           /\ srcPorts' \in [Sources -> SUBSET Ports]
           /\ newConns' \subseteq Sources
           /\ IsFiniteSet(DOMAIN flows)'
           /\ CountsAgree'
           /\ WithinLimits'
           /\ TrackersFollowFlows'
           /\ Cardinality(D) \in Nat
           /\ Cardinality(DOMAIN flows') = Cardinality(DOMAIN flows) - Cardinality(D)
<1> USE DEF IInv
<1>1. DOMAIN flows' = DOMAIN flows \ D
  BY DEF Remove, Restrict
<1>2. flows' \in [DOMAIN flows' -> Flow]
  BY DEF Remove, Restrict, TypeOK
<1>3. \A s \in Sources : FlowsOf(s)' = Remaining(s, D)
  BY <1>1 DEF FlowsOf, Remaining
<1>4. /\ IsFiniteSet(DOMAIN flows)'
      /\ IsFiniteSet(D)
      /\ Cardinality(D) \in Nat
      /\ Cardinality(DOMAIN flows) \in Nat
      /\ Cardinality(DOMAIN flows') = Cardinality(DOMAIN flows) - Cardinality(D)
  <2>1. IsFiniteSet(D) /\ DOMAIN flows \cap D = D
    BY FS_Subset
  <2>2. /\ IsFiniteSet(DOMAIN flows \ D)
        /\ Cardinality(DOMAIN flows \ D) =
               Cardinality(DOMAIN flows) - Cardinality(DOMAIN flows \cap D)
    BY FS_Difference
  <2> QED BY <1>1, <2>1, <2>2, FS_CardinalityType
<1>5. srcFlowCount' \in [Sources -> Nat] /\ CountsAgree'
  <2>1. srcFlowCount' = [s \in Sources |-> decrFlowCount(D)[s]]
    BY DEF Remove, decrFlowCount
  <2>2. \A s \in Sources : /\ decrFlowCount(D)[s] \in Nat
                           /\ decrFlowCount(D)[s] = Cardinality(Remaining(s, D))
    BY DecrCounts
  <2> QED BY <1>3, <2>1, <2>2 DEF CountsAgree
<1>6. srcPorts' \in [Sources -> SUBSET Ports]
  BY DEF Remove, portsWithout, TypeOK
<1>7. TrackersFollowFlows' /\ newConns' \subseteq Sources
  <2>1. newConns' = newConns \ prunedBy(D)
    BY DEF Remove
  <2>2. prunedBy(D) = {s \in Sources : FlowsOf(s) # {} /\ Remaining(s, D) = {}}
    BY PrunedSources
  <2>3. \A s \in Sources : Remaining(s, D) \subseteq FlowsOf(s)
    BY DEF Remaining, FlowsOf
  <2>4. newConns' = {s \in Sources : Remaining(s, D) # {}}
    BY <2>1, <2>2, <2>3 DEF TrackersFollowFlows
  <2> QED BY <1>3, <2>4 DEF TrackersFollowFlows
<1>8. WithinLimits'
  <2>1. Cardinality(DOMAIN flows') <= MaxEntries
    BY <1>4, ConntrackAssumption DEF WithinLimits
  <2>2. ASSUME NEW s \in Sources, MaxFlowsPerSrcIP > 0
        PROVE  Cardinality(FlowsOf(s)') <= MaxFlowsPerSrcIP
    <3>1. Remaining(s, D) \in SUBSET FlowsOf(s) /\ FlowsOf(s) \in SUBSET DOMAIN flows
      BY DEF Remaining, FlowsOf
    <3>2. IsFiniteSet(FlowsOf(s)) /\ IsFiniteSet(Remaining(s, D))
      BY <3>1, FS_Subset
    <3>3. Cardinality(Remaining(s, D)) <= Cardinality(FlowsOf(s))
      BY <3>1, <3>2, FS_Subset
    <3>4. Cardinality(FlowsOf(s)) <= MaxFlowsPerSrcIP
      BY <2>2 DEF WithinLimits
    <3>5. Cardinality(Remaining(s, D)) \in Nat /\ Cardinality(FlowsOf(s)) \in Nat
      BY <3>2, FS_CardinalityType
    <3> QED BY <1>3, <3>3, <3>4, <3>5, ConntrackAssumption
  <2> QED BY <2>1, <2>2 DEF WithinLimits
<1> QED BY <1>1, <1>2, <1>4, <1>5, <1>6, <1>7, <1>8

\* Touch, the hit of either lookup, changes no key of the table.
LEMMA TouchStep ==
    ASSUME IInv, NEW k \in DOMAIN flows, NEW f \in Flow, Touch(k, f),
           pending' \subseteq Addrs \X Ports
    PROVE  IInv'
<1> USE DEF IInv
<1>1. DOMAIN flows' = DOMAIN flows /\ flows' \in [DOMAIN flows' -> Flow]
  BY DEF Touch, TypeOK
<1>2. TypeOK'
  BY <1>1 DEF Touch, TypeOK
<1>3. \A s : FlowsOf(s)' = FlowsOf(s)
  BY <1>1 DEF FlowsOf
<1> QED
  BY <1>1, <1>2, <1>3 DEF Touch, CountsAgree, WithinLimits, TrackersFollowFlows,
                          FlowsConserved

\* Create, the insertion both lookups share.
LEMMA CreateStep ==
    ASSUME IInv, NEW k \in FlowKeys, k \notin DOMAIN flows, NEW f \in Flow,
           ~reachedFlowLimitLocked(k.src), Create(k, f),
           pending' \subseteq Addrs \X Ports
    PROVE  IInv'
<1> USE DEF IInv
<1>0. k.src \in Sources
  BY DEF FlowKeys
<1>1. PICK D \in Victims :
        /\ flows' = [j \in (DOMAIN flows \ D) \cup {k} |->
                        IF j = k THEN f ELSE flows[j]]
        /\ srcFlowCount' = [decrFlowCount(D) EXCEPT ![k.src] = @ + 1]
        /\ srcPorts' = portsWithout(prunedBy(D))
        /\ newConns' = (newConns \ prunedBy(D)) \cup {k.src}
        /\ stats' = [stats EXCEPT !.Created = @ + 1,
                                  !.Evicted = @ + Cardinality(D)]
  BY DEF Create
<1>2. /\ D \in SUBSET DOMAIN flows
      /\ \/ D = {} /\ ~(Cardinality(DOMAIN flows) >= MaxEntries)
         \/ \E v \in DOMAIN flows : D = {v}
  BY VictimSets
<1> DEFINE n == Cardinality(DOMAIN flows)
           d == Cardinality(D)
<1>3. n \in Nat /\ IsFiniteSet(D) /\ d \in Nat
  BY <1>2, FS_Subset, FS_CardinalityType
<1>4. \/ d = 0 /\ n < MaxEntries
      \/ d = 1
  <2>1. CASE D = {} /\ ~(n >= MaxEntries)
    BY <2>1, <1>3, FS_EmptySet, ConntrackAssumption
  <2>2. CASE \E v \in DOMAIN flows : D = {v}
    BY <2>2, FS_Singleton
  <2> QED BY <1>2, <2>1, <2>2
<1>5. DOMAIN flows' = (DOMAIN flows \ D) \cup {k} /\ flows' \in [DOMAIN flows' -> Flow]
  BY <1>1 DEF TypeOK
<1>6. IsFiniteSet(DOMAIN flows') /\ Cardinality(DOMAIN flows') = n - d + 1
  <2>1. DOMAIN flows \cap D = D
    BY <1>2
  <2>2. IsFiniteSet(DOMAIN flows \ D) /\ Cardinality(DOMAIN flows \ D) = n - d
    BY <2>1, FS_Difference
  <2>3. /\ IsFiniteSet((DOMAIN flows \ D) \cup {k})
        /\ Cardinality((DOMAIN flows \ D) \cup {k}) = Cardinality(DOMAIN flows \ D) + 1
    <3>1. k \notin DOMAIN flows \ D
      OBVIOUS
    <3> QED BY <2>2, <3>1, FS_AddElement
  <2> QED BY <1>5, <2>2, <2>3
<1>7. \A s \in Sources :
         FlowsOf(s)' = IF s = k.src THEN Remaining(s, D) \cup {k} ELSE Remaining(s, D)
  BY <1>5 DEF FlowsOf, Remaining
<1>8. \A s \in Sources : /\ decrFlowCount(D)[s] \in Nat
                         /\ decrFlowCount(D)[s] = Cardinality(Remaining(s, D))
  BY <1>2, DecrCounts
<1>9. Cardinality(Remaining(k.src, D) \cup {k}) = Cardinality(Remaining(k.src, D)) + 1
  <2>1. Remaining(k.src, D) \in SUBSET DOMAIN flows /\ k \notin Remaining(k.src, D)
    BY DEF Remaining
  <2>2. IsFiniteSet(Remaining(k.src, D))
    BY <2>1, FS_Subset
  <2> QED BY <2>1, <2>2, FS_AddElement
<1>10. srcFlowCount' \in [Sources -> Nat] /\ CountsAgree'
  <2>1. srcFlowCount' = [s \in Sources |-> IF s = k.src THEN decrFlowCount(D)[s] + 1
                                            ELSE decrFlowCount(D)[s]]
    BY <1>1 DEF decrFlowCount
  <2>2. ASSUME NEW s \in Sources
        PROVE  srcFlowCount'[s] \in Nat /\ srcFlowCount'[s] = Cardinality(FlowsOf(s)')
    <3>1. CASE s = k.src
      <4>1. srcFlowCount'[s] = decrFlowCount(D)[s] + 1
        BY <2>1, <3>1
      <4>2. FlowsOf(s)' = Remaining(s, D) \cup {k}
        BY <1>7, <3>1
      <4> QED BY <1>8, <1>9, <3>1, <4>1, <4>2
    <3>2. CASE s # k.src
      BY <1>7, <1>8, <2>1, <3>2
    <3> QED BY <3>1, <3>2
  <2> QED BY <2>1, <2>2 DEF CountsAgree
<1>11. WithinLimits'
  <2>1. Cardinality(DOMAIN flows') <= MaxEntries
    BY <1>3, <1>4, <1>6, ConntrackAssumption DEF WithinLimits
  <2>2. ASSUME NEW s \in Sources, MaxFlowsPerSrcIP > 0
        PROVE  Cardinality(FlowsOf(s)') <= MaxFlowsPerSrcIP
    <3>1. Remaining(s, D) \in SUBSET FlowsOf(s) /\ FlowsOf(s) \in SUBSET DOMAIN flows
      BY DEF Remaining, FlowsOf
    <3>2. IsFiniteSet(FlowsOf(s)) /\ IsFiniteSet(Remaining(s, D))
      BY <3>1, FS_Subset
    <3>3. /\ Cardinality(Remaining(s, D)) <= Cardinality(FlowsOf(s))
          /\ Cardinality(Remaining(s, D)) \in Nat
          /\ Cardinality(FlowsOf(s)) \in Nat
      BY <3>1, <3>2, FS_Subset, FS_CardinalityType
    <3>4. Cardinality(FlowsOf(s)) <= MaxFlowsPerSrcIP
      BY <2>2 DEF WithinLimits
    <3>5. CASE s = k.src
      <4>1. Cardinality(FlowsOf(s)) < MaxFlowsPerSrcIP
        <5>1. srcFlowCount[s] = Cardinality(FlowsOf(s))
          BY DEF CountsAgree
        <5>2. ~(srcFlowCount[s] >= MaxFlowsPerSrcIP)
          BY <2>2, <3>5 DEF reachedFlowLimitLocked
        <5> QED BY <3>3, <5>1, <5>2, ConntrackAssumption
      <4>2. FlowsOf(s)' = Remaining(s, D) \cup {k}
        BY <1>7, <3>5
      <4>3. Cardinality(FlowsOf(s)') = Cardinality(Remaining(s, D)) + 1
        BY <1>9, <3>5, <4>2
      <4> QED BY <3>3, <4>1, <4>3, ConntrackAssumption, SMTT(30)
    <3>6. CASE s # k.src
      BY <1>7, <3>3, <3>4, <3>6, ConntrackAssumption
    <3> QED BY <3>5, <3>6
  <2> QED BY <2>1, <2>2 DEF WithinLimits
<1>12. TrackersFollowFlows'
  <2>1. prunedBy(D) = {s \in Sources : FlowsOf(s) # {} /\ Remaining(s, D) = {}}
    BY <1>2, PrunedSources
  <2>2. \A s \in Sources : Remaining(s, D) \subseteq FlowsOf(s)
    BY DEF Remaining, FlowsOf
  <2>3. newConns \ prunedBy(D) = {s \in Sources : Remaining(s, D) # {}}
    BY <2>1, <2>2 DEF TrackersFollowFlows
  <2>4. newConns' = {s \in Sources : Remaining(s, D) # {}} \cup {k.src}
    BY <1>1, <2>3
  <2>5. \A s \in Sources : FlowsOf(s)' # {} <=> Remaining(s, D) # {} \/ s = k.src
    BY <1>7
  <2>6. newConns' = {s \in Sources : FlowsOf(s)' # {}}
    BY <1>0, <2>4, <2>5
  <2> QED BY <2>6 DEF TrackersFollowFlows
<1>13. stats' \in [Created : Nat, Expired : Nat, Evicted : Nat] /\ FlowsConserved'
  <2>1. /\ stats'.Created = stats.Created + 1
        /\ stats'.Expired = stats.Expired
        /\ stats'.Evicted = stats.Evicted + d
        /\ stats' \in [Created : Nat, Expired : Nat, Evicted : Nat]
    <3>1. stats \in [Created : Nat, Expired : Nat, Evicted : Nat]
      BY DEF TypeOK
    <3>2. stats' = [Created |-> stats.Created + 1, Expired |-> stats.Expired,
                    Evicted |-> stats.Evicted + d]
      BY <1>1, <3>1
    <3>3. stats.Created + 1 \in Nat /\ stats.Expired \in Nat /\ stats.Evicted + d \in Nat
      BY <1>3, <3>1
    <3> QED BY <3>2, <3>3
  <2>2. deleted' = deleted
    BY DEF Create
  <2>3. /\ stats.Created \in Nat /\ stats.Expired \in Nat
        /\ stats.Evicted \in Nat /\ deleted \in Nat
    BY DEF TypeOK
  <2> QED BY <1>3, <1>6, <2>1, <2>2, <2>3 DEF FlowsConserved
<1>14. TypeOK'
  <2>1. srcPorts' \in [Sources -> SUBSET Ports]
    BY <1>1 DEF portsWithout, TypeOK
  <2>2. now' \in Nat /\ deleted' \in Nat
    BY DEF Create, TypeOK
  <2>3. DOMAIN flows' \subseteq FlowKeys
    BY <1>5 DEF TypeOK
  <2>4. newConns' \subseteq Sources
    BY <1>12 DEF TrackersFollowFlows
  <2> QED BY <1>5, <1>10, <1>13, <2>1, <2>2, <2>3, <2>4 DEF TypeOK
<1> QED BY <1>6, <1>10, <1>11, <1>12, <1>13, <1>14

-----------------------------------------------------------------------------
(* The state machine's operators.                                          *)

\* Segments have one of seven classes, and the state after any of them is a
\* state; neither needs the flow's history.
LEMMA FsmType ==
    ASSUME NEW f \in TCPFlags, NEW s \in TCPStates, NEW est \in BOOLEAN
    PROVE  /\ StateAfter(Segment(f), s) \in TCPStates
           /\ NewState(f) \in TCPStates
           /\ EstablishedAfter(Segment(f), s, est) \in BOOLEAN
<1>1. \A seg : StateAfter(seg, s) \in TCPStates
  BY DEF StateAfter, TCPStates
<1>2. "SYN_SENT" \in TCPStates /\ "SYN_RECEIVED" \in TCPStates
  BY DEF TCPStates
<1>3. \A seg : StateAfter(seg, "SYN_SENT") \in TCPStates
  BY DEF StateAfter, TCPStates
<1>4. NewState(f) \in TCPStates
  BY <1>2, <1>3, Zenon DEF NewState
<1>5. EstablishedAfter(Segment(f), s, est) \in BOOLEAN
  BY DEF EstablishedAfter
<1> QED BY <1>1, <1>4, <1>5

\* No segment takes a flow to an earlier state.
LEMMA FsmForward ==
    ASSUME NEW seg, NEW s \in TCPStates
    PROVE  Rank(s) <= Rank(StateAfter(seg, s))
<1>1. /\ Rank("SYN_SENT") = 0 /\ Rank("SYN_RECEIVED") = 1 /\ Rank("ESTABLISHED") = 2
      /\ Rank("FIN_WAIT_1") = 3 /\ Rank("FIN_WAIT_2") = 4 /\ Rank("CLOSING") = 4
      /\ Rank("CLOSE_WAIT") = 4 /\ Rank("TIME_WAIT") = 5 /\ Rank("CLOSED") = 6
  BY DEF Rank
<1>2. \A t \in TCPStates : Rank(t) \in 0..6
  BY <1>1 DEF TCPStates
<1>3. CASE StateAfter(seg, s) \in {s, "CLOSED"}
  BY <1>1, <1>2, <1>3
<1>4. CASE StateAfter(seg, s) \notin {s, "CLOSED"}
  <2>1. \/ s = "SYN_SENT"
           /\ StateAfter(seg, s) \in {"SYN_RECEIVED", "ESTABLISHED", "FIN_WAIT_1"}
        \/ s \in {"SYN_RECEIVED", "ESTABLISHED"} /\ StateAfter(seg, s) = "FIN_WAIT_1"
        \/ s = "FIN_WAIT_1" /\ StateAfter(seg, s) \in {"FIN_WAIT_2", "CLOSING"}
        \/ s \in {"FIN_WAIT_2", "CLOSING"} /\ StateAfter(seg, s) = "TIME_WAIT"
    BY <1>4 DEF StateAfter
  <2> QED BY <1>1, <2>1
<1> QED BY <1>3, <1>4

\* The flows that a lookup stores are flows.
LEMMA KeyType ==
    ASSUME NEW a \in Addrs, NEW protocol \in Protocols, NEW p \in Ports
    PROVE  Key(a, protocol, p) \in FlowKeys
BY DEF Key, FlowKeys, Sources

-----------------------------------------------------------------------------
(* The inductive invariant.                                                *)

\* The table of NewTable is empty, and satisfies the invariant.
LEMMA InitIInv == Init => IInv
<1> SUFFICES ASSUME Init PROVE IInv
  OBVIOUS
<1>1. DOMAIN flows = {}
  BY DEF Init
<1>2. TypeOK
  <2>1. flows \in [DOMAIN flows -> Flow] /\ DOMAIN flows \subseteq FlowKeys
    BY <1>1 DEF Init
  <2> QED BY <2>1 DEF Init, TypeOK
<1>3. \A s : FlowsOf(s) = {}
  BY <1>1 DEF FlowsOf
<1>4. IsFiniteSet({}) /\ Cardinality({}) = 0
  BY FS_EmptySet
<1>5. CountsAgree
  BY <1>3, <1>4 DEF Init, CountsAgree
<1>6. WithinLimits
  <2>1. Cardinality(DOMAIN flows) = 0 /\ \A s \in Sources : Cardinality(FlowsOf(s)) = 0
    BY <1>1, <1>3, <1>4
  <2>2. MaxEntries \in Nat /\ MaxFlowsPerSrcIP \in Nat
    BY ConntrackAssumption
  <2> QED BY <2>1, <2>2 DEF WithinLimits
<1>7. TrackersFollowFlows
  BY <1>3 DEF Init, TrackersFollowFlows
<1>8. FlowsConserved
  BY <1>1, <1>4 DEF Init, FlowsConserved
<1> QED BY <1>1, <1>2, <1>4, <1>5, <1>6, <1>7, <1>8 DEF IInv

\* LookupOrCreate touches a flow, refuses, or creates one, after an eviction
\* when the table is full.
LEMMA LookupPreserves ==
    ASSUME IInv, NEW a \in Addrs, NEW protocol \in Protocols, NEW p \in Ports,
           LookupOrCreate(a, protocol, p)
    PROVE  IInv'
<1> DEFINE k == Key(a, protocol, p)
           fresh == [TCPState |-> "SYN_SENT", Established |-> FALSE, lastSeen |-> now]
           seen == [flows[k] EXCEPT !.lastSeen = now]
<1>1. pending' \subseteq Addrs \X Ports
  BY DEF LookupOrCreate
<1>2. now \in Nat
  BY DEF IInv, TypeOK
<1>3. CASE k \in DOMAIN flows /\ Touch(k, seen)
  <2>1. flows[k] \in Flow
    BY <1>3 DEF IInv, TypeOK
  <2>2. seen \in Flow
    BY <1>2, <2>1 DEF Flow
  <2> HIDE DEF k, seen
  <2> QED BY <1>1, <1>3, <2>2, TouchStep
<1>4. CASE k \notin DOMAIN flows /\ ~reachedFlowLimitLocked(k.src) /\ Create(k, fresh)
  <2>1. fresh \in Flow
    BY <1>2 DEF Flow, TCPStates
  <2>2. k \in FlowKeys
    BY KeyType
  <2> HIDE DEF k, fresh
  <2> QED BY <1>1, <1>4, <2>1, <2>2, CreateStep
<1> QED BY <1>3, <1>4 DEF LookupOrCreate

\* UpdateTCPState does the same and then moves the flow's TCP state.
LEMMA UpdatePreserves ==
    ASSUME IInv, NEW a \in Addrs, NEW p \in Ports, NEW f \in Flags,
           UpdateTCPState(a, p, f)
    PROVE  IInv'
<1> DEFINE k == Key(a, "TCP", p)
           fresh == [TCPState |-> NewState(f),
                     Established |-> EstablishedAfter(Segment(f), "SYN_SENT", FALSE),
                     lastSeen |-> now]
           seen == [TCPState |-> StateAfter(Segment(f), flows[k].TCPState),
                    Established |-> EstablishedAfter(Segment(f), flows[k].TCPState,
                                                     flows[k].Established),
                    lastSeen |-> now]
<1>1. pending' \subseteq Addrs \X Ports
  <2>1. pending' = {<<a, p>>}
    BY Zenon DEF UpdateTCPState
  <2> QED BY <2>1
<1>2. now \in Nat /\ "TCP" \in Protocols /\ f \in TCPFlags
  BY ConntrackAssumption DEF IInv, TypeOK, UpdateTCPState
<1>3. CASE k \in DOMAIN flows /\ Touch(k, seen)
  <2>1. flows[k] \in Flow
    BY <1>3 DEF IInv, TypeOK
  <2>2. flows[k].TCPState \in TCPStates /\ flows[k].Established \in BOOLEAN
    BY <2>1 DEF Flow
  <2>3. /\ StateAfter(Segment(f), flows[k].TCPState) \in TCPStates
        /\ EstablishedAfter(Segment(f), flows[k].TCPState, flows[k].Established) \in BOOLEAN
    <3> HIDE DEF k
    <3> QED BY <1>2, <2>2, FsmType
  <2>4. seen \in Flow
    BY <1>2, <2>3 DEF Flow
  <2> HIDE DEF k, seen
  <2> QED BY <1>1, <1>3, <2>4, TouchStep
<1>4. CASE k \notin DOMAIN flows /\ ~reachedFlowLimitLocked(k.src) /\ Create(k, fresh)
  <2>1. "SYN_SENT" \in TCPStates
    BY DEF TCPStates
  <2>2. /\ NewState(f) \in TCPStates
        /\ EstablishedAfter(Segment(f), "SYN_SENT", FALSE) \in BOOLEAN
    BY <1>2, <2>1, FsmType
  <2>3. fresh \in Flow
    BY <1>2, <2>2 DEF Flow
  <2>4. k \in FlowKeys
    BY <1>2, KeyType
  <2> HIDE DEF k, fresh
  <2> QED BY <1>1, <1>4, <2>3, <2>4, CreateStep
<1> QED BY <1>3, <1>4 DEF UpdateTCPState

\* Expire removes the idle flows and takes each out of its source's count.
LEMMA ExpirePreserves ==
    ASSUME IInv, Expire
    PROVE  IInv'
<1> DEFINE D == {k \in DOMAIN flows : Idle(k) > idleTimeoutFor[k.protocol]}
<1>1. D \in SUBSET DOMAIN flows /\ Remove(D)
  BY DEF Expire
<1>2. /\ stats' = [stats EXCEPT !.Expired = @ + Cardinality(D)]
      /\ deleted' = deleted /\ now' = now /\ pending' = pending
  BY DEF Expire, Remove
<1>3. /\ stats \in [Created : Nat, Expired : Nat, Evicted : Nat]
      /\ deleted \in Nat /\ now \in Nat /\ pending \subseteq Addrs \X Ports
      /\ DOMAIN flows \subseteq FlowKeys
  BY DEF IInv, TypeOK
<1> HIDE DEF D
<1>4. /\ DOMAIN flows' = DOMAIN flows \ D
      /\ flows' \in [DOMAIN flows' -> Flow]
      /\ srcFlowCount' \in [Sources -> Nat]
      /\ srcPorts' \in [Sources -> SUBSET Ports]
      /\ newConns' \subseteq Sources
      /\ IsFiniteSet(DOMAIN flows)' /\ CountsAgree' /\ WithinLimits'
      /\ TrackersFollowFlows'
      /\ Cardinality(D) \in Nat
      /\ Cardinality(DOMAIN flows') = Cardinality(DOMAIN flows) - Cardinality(D)
  BY <1>1, RemoveStep
<1>5. /\ stats' = [Created |-> stats.Created, Expired |-> stats.Expired + Cardinality(D),
                   Evicted |-> stats.Evicted]
      /\ stats' \in [Created : Nat, Expired : Nat, Evicted : Nat]
  BY <1>2, <1>3, <1>4
<1>6. TypeOK'
  BY <1>2, <1>3, <1>4, <1>5 DEF TypeOK
<1>7. Cardinality(DOMAIN flows) \in Nat
  BY FS_CardinalityType DEF IInv
<1>8. FlowsConserved'
  BY <1>2, <1>3, <1>4, <1>5, <1>7 DEF FlowsConserved, IInv
<1> QED BY <1>4, <1>6, <1>8 DEF IInv

\* Delete removes one flow, or none.
LEMMA DeletePreserves ==
    ASSUME IInv, NEW a \in Addrs, NEW protocol \in Protocols, NEW p \in Ports,
           Delete(a, protocol, p)
    PROVE  IInv'
<1> DEFINE D == {Key(a, protocol, p)}
<1>1. D \in SUBSET DOMAIN flows /\ Remove(D)
  BY DEF Delete
<1>2. /\ stats' = stats /\ deleted' = deleted + 1
      /\ now' = now /\ pending' = pending
  BY DEF Delete, Remove
<1>3. /\ stats \in [Created : Nat, Expired : Nat, Evicted : Nat]
      /\ deleted \in Nat /\ now \in Nat /\ pending \subseteq Addrs \X Ports
      /\ DOMAIN flows \subseteq FlowKeys
  BY DEF IInv, TypeOK
<1>4. Cardinality(D) = 1
  BY FS_Singleton
<1> HIDE DEF D
<1>5. /\ DOMAIN flows' = DOMAIN flows \ D
      /\ flows' \in [DOMAIN flows' -> Flow]
      /\ srcFlowCount' \in [Sources -> Nat]
      /\ srcPorts' \in [Sources -> SUBSET Ports]
      /\ newConns' \subseteq Sources
      /\ IsFiniteSet(DOMAIN flows)' /\ CountsAgree' /\ WithinLimits'
      /\ TrackersFollowFlows'
      /\ Cardinality(DOMAIN flows') = Cardinality(DOMAIN flows) - Cardinality(D)
  BY <1>1, RemoveStep
<1>6. TypeOK'
  BY <1>2, <1>3, <1>5 DEF TypeOK
<1>7. Cardinality(DOMAIN flows) \in Nat
  BY FS_CardinalityType DEF IInv
<1>8. FlowsConserved'
  BY <1>2, <1>3, <1>4, <1>5, <1>7 DEF FlowsConserved, IInv
<1> QED BY <1>5, <1>6, <1>8 DEF IInv

\* Steps that leave the flows, the counts and the counters alone.
LEMMA OtherPreserves ==
    ASSUME IInv, TypeOK',
           UNCHANGED <<flows, srcFlowCount, newConns, stats, deleted>>
    PROVE  IInv'
<1>1. \A s : FlowsOf(s)' = FlowsOf(s)
  BY DEF FlowsOf
<1> QED BY <1>1 DEF IInv, CountsAgree, WithinLimits, TrackersFollowFlows, FlowsConserved

\* The invariant is inductive: one case per operation of the table.
LEMMA NextIInv == IInv /\ [Next]_vars => IInv'
<1> SUFFICES ASSUME IInv, [Next]_vars PROVE IInv'
  OBVIOUS
<1>1. ASSUME NEW a \in Addrs, NEW protocol \in Protocols, NEW p \in Ports,
             LookupOrCreate(a, protocol, p)
      PROVE  IInv'
  BY <1>1, LookupPreserves
<1>2. ASSUME NEW a \in Addrs, NEW p \in Ports, NEW f \in Flags, UpdateTCPState(a, p, f)
      PROVE  IInv'
  BY <1>2, UpdatePreserves
<1>3. ASSUME NEW a \in Addrs, NEW protocol \in Protocols, NEW p \in Ports,
             Delete(a, protocol, p)
      PROVE  IInv'
  BY <1>3, DeletePreserves
<1>4. CASE Expire
  BY <1>4, ExpirePreserves
<1>5. ASSUME NEW a \in Addrs, NEW p \in Ports, RecordDestPort(a, p)
      PROVE  IInv'
  <2>1. TypeOK'
    <3>1. srcPorts' \in [Sources -> SUBSET Ports]
      BY <1>5 DEF RecordDestPort, IInv, TypeOK
    <3>2. pending' = {}
      BY <1>5 DEF RecordDestPort
    <3> QED BY <1>5, <3>1, <3>2 DEF RecordDestPort, IInv, TypeOK
  <2> QED BY <1>5, <2>1, OtherPreserves DEF RecordDestPort
<1>6. CASE Tick
  <2>1. TypeOK'
    BY <1>6 DEF Tick, IInv, TypeOK
  <2> QED BY <1>6, <2>1, OtherPreserves DEF Tick
<1>7. CASE UNCHANGED vars
  <2>1. TypeOK'
    BY <1>7 DEF vars, IInv, TypeOK
  <2> QED BY <1>7, <2>1, OtherPreserves DEF vars
<1>8. ASSUME NEW a \in Addrs, NEW protocol \in Protocols, NEW p \in Ports,
             FlowLimited(a, protocol, p)
      PROVE  IInv'
  BY <1>7, <1>8 DEF FlowLimited
<1> QED BY <1>1, <1>2, <1>3, <1>4, <1>5, <1>6, <1>7, <1>8 DEF Next

\* Whatever packets arrive in whatever order, and however Expire and Delete
\* fall between them, the inductive invariant holds.
THEOREM TableInvariant == Spec => []IInv
<1> QED BY InitIInv, NextIInv, PTL DEF Spec

\* Type correctness of the table.
THEOREM TableTypeOK == Spec => []TypeOK
<1>1. IInv => TypeOK
  BY DEF IInv
<1> QED BY <1>1, TableInvariant, PTL

\* The per-source counters equal the number of flows of the source.
THEOREM TableCounts == Spec => []CountsAgree
<1>1. IInv => CountsAgree
  BY DEF IInv
<1> QED BY <1>1, TableInvariant, PTL

\* The table and each source stay within their limits.
THEOREM TableLimits == Spec => []WithinLimits
<1>1. IInv => WithinLimits
  BY DEF IInv
<1> QED BY <1>1, TableInvariant, PTL

\* A source has a rate tracker exactly while it has a flow.
THEOREM TableTrackers == Spec => []TrackersFollowFlows
<1>1. IInv => TrackersFollowFlows
  BY DEF IInv
<1> QED BY <1>1, TableInvariant, PTL

\* Every flow ever created is accounted for exactly once.
THEOREM TableConserves == Spec => []FlowsConserved
<1>1. IInv => FlowsConserved
  BY DEF IInv
<1> QED BY <1>1, TableInvariant, PTL

-----------------------------------------------------------------------------
(* The state machine over the life of a flow.                              *)

\* What EstablishedAgrees says of one flow.
Agrees(f) ==
    /\ f.TCPState = "ESTABLISHED" => f.Established
    /\ f.TCPState \in {"SYN_SENT", "CLOSED"} => ~f.Established
    /\ f.TCPState # "CLOSE_WAIT"

\* A segment keeps the flag and the state in agreement.
LEMMA FsmAgrees ==
    ASSUME NEW f \in Flow, Agrees(f), NEW seg, NEW t
    PROVE  Agrees([TCPState |-> StateAfter(seg, f.TCPState),
                   Established |-> EstablishedAfter(seg, f.TCPState, f.Established),
                   lastSeen |-> t])
BY DEF Agrees, StateAfter, EstablishedAfter, Flow, TCPStates

\* So does the first segment of a flow, the mid-stream override included.
LEMMA FsmNewAgrees ==
    ASSUME NEW f \in TCPFlags, NEW t
    PROVE  Agrees([TCPState |-> NewState(f),
                   Established |-> EstablishedAfter(Segment(f), "SYN_SENT", FALSE),
                   lastSeen |-> t])
<1> DEFINE new == [TCPState |-> "SYN_SENT", Established |-> FALSE, lastSeen |-> 0]
<1>1. new \in Flow /\ Agrees(new)
  BY DEF Agrees, Flow, TCPStates
<1>2. Agrees([TCPState |-> StateAfter(Segment(f), new.TCPState),
              Established |-> EstablishedAfter(Segment(f), new.TCPState, new.Established),
              lastSeen |-> t])
  <2> HIDE DEF new
  <2> QED BY <1>1, FsmAgrees
<1>3. CASE StartsMidStream(f)
  BY <1>3 DEF Agrees, NewState
<1>4. CASE ~StartsMidStream(f)
  BY <1>2, <1>4 DEF NewState
<1> QED BY <1>3, <1>4

\* How a step changes the flows that are in the table after it: a flow is left
\* alone, touched, moved by a segment, or new.
LEMMA FlowStep ==
    ASSUME TypeOK, [Next]_vars, NEW k \in DOMAIN flows'
    PROVE  \/ k \in DOMAIN flows /\ flows'[k] = flows[k]
           \/ k \in DOMAIN flows /\ flows'[k] = [flows[k] EXCEPT !.lastSeen = now]
           \/ /\ k \in DOMAIN flows
              /\ \E f \in Flags : flows'[k] =
                     [TCPState |-> StateAfter(Segment(f), flows[k].TCPState),
                      Established |-> EstablishedAfter(Segment(f), flows[k].TCPState,
                                                       flows[k].Established),
                      lastSeen |-> now]
           \/ /\ k \notin DOMAIN flows
              /\ \/ flows'[k] = [TCPState |-> "SYN_SENT", Established |-> FALSE,
                                  lastSeen |-> now]
                 \/ \E f \in Flags : flows'[k] =
                        [TCPState |-> NewState(f),
                         Established |-> EstablishedAfter(Segment(f), "SYN_SENT", FALSE),
                         lastSeen |-> now]
<1>1. ASSUME NEW j, NEW f, Touch(j, f), j \in DOMAIN flows
      PROVE  k \in DOMAIN flows /\ flows'[k] = IF k = j THEN f ELSE flows[k]
  BY <1>1 DEF Touch
<1>2. ASSUME NEW j, NEW f, Create(j, f), j \notin DOMAIN flows
      PROVE  \/ k = j /\ flows'[k] = f
             \/ k \in DOMAIN flows /\ flows'[k] = flows[k]
  BY <1>2 DEF Create
<1>3. ASSUME NEW D, Remove(D)
      PROVE  k \in DOMAIN flows /\ flows'[k] = flows[k]
  BY <1>3 DEF Remove, Restrict
<1>4. ASSUME NEW a \in Addrs, NEW protocol \in Protocols, NEW p \in Ports,
             LookupOrCreate(a, protocol, p)
      PROVE  \/ k \in DOMAIN flows /\ flows'[k] = flows[k]
             \/ k \in DOMAIN flows /\ flows'[k] = [flows[k] EXCEPT !.lastSeen = now]
             \/ k \notin DOMAIN flows
                /\ flows'[k] = [TCPState |-> "SYN_SENT", Established |-> FALSE,
                                lastSeen |-> now]
  BY <1>1, <1>2, <1>4, Zenon DEF LookupOrCreate
<1>5. ASSUME NEW a \in Addrs, NEW p \in Ports, NEW f \in Flags, UpdateTCPState(a, p, f)
      PROVE  \/ k \in DOMAIN flows /\ flows'[k] = flows[k]
             \/ k \in DOMAIN flows
                /\ flows'[k] =
                     [TCPState |-> StateAfter(Segment(f), flows[k].TCPState),
                      Established |-> EstablishedAfter(Segment(f), flows[k].TCPState,
                                                       flows[k].Established),
                      lastSeen |-> now]
             \/ k \notin DOMAIN flows
                /\ flows'[k] =
                     [TCPState |-> NewState(f),
                      Established |-> EstablishedAfter(Segment(f), "SYN_SENT", FALSE),
                      lastSeen |-> now]
  BY <1>1, <1>2, <1>5, Zenon DEF UpdateTCPState
<1>6. CASE \/ \E a \in Addrs, protocol \in Protocols, p \in Ports :
                 FlowLimited(a, protocol, p) \/ Delete(a, protocol, p)
           \/ \E a \in Addrs, p \in Ports : RecordDestPort(a, p)
           \/ Expire
           \/ Tick
           \/ UNCHANGED vars
  <2>1. CASE UNCHANGED flows
    BY <2>1
  <2>2. CASE \E D : Remove(D)
    BY <1>3, <2>2
  <2>3. (UNCHANGED flows) \/ \E D : Remove(D)
    BY <1>6 DEF FlowLimited, Delete, RecordDestPort, Expire, Tick, vars
  <2> QED BY <2>1, <2>2, <2>3
<1> QED BY <1>4, <1>5, <1>6 DEF Next

\* The Established flag agrees with the state machine for ever.
THEOREM FlagAgrees == Spec => []EstablishedAgrees
<1>1. Init => EstablishedAgrees
  BY DEF Init, EstablishedAgrees
<1>2. TypeOK /\ EstablishedAgrees /\ [Next]_vars => EstablishedAgrees'
  <2> SUFFICES ASSUME TypeOK, EstablishedAgrees, [Next]_vars,
                      NEW k \in DOMAIN flows'
               PROVE  Agrees(flows'[k])
    BY DEF EstablishedAgrees, Agrees
  <2>1. k \in DOMAIN flows => flows[k] \in Flow /\ Agrees(flows[k])
    BY DEF EstablishedAgrees, Agrees, TypeOK
  <2>2. CASE k \in DOMAIN flows /\ flows'[k] = flows[k]
    BY <2>1, <2>2
  <2>3. CASE k \in DOMAIN flows /\ flows'[k] = [flows[k] EXCEPT !.lastSeen = now]
    BY <2>1, <2>3 DEF Agrees, Flow
  <2>4. ASSUME k \in DOMAIN flows, NEW f \in Flags, flows'[k] =
                 [TCPState |-> StateAfter(Segment(f), flows[k].TCPState),
                  Established |-> EstablishedAfter(Segment(f), flows[k].TCPState,
                                                   flows[k].Established),
                  lastSeen |-> now]
        PROVE  Agrees(flows'[k])
    BY <2>1, <2>4, FsmAgrees
  <2>5. CASE flows'[k] = [TCPState |-> "SYN_SENT", Established |-> FALSE, lastSeen |-> now]
    BY <2>5 DEF Agrees
  <2>6. ASSUME NEW f \in Flags, flows'[k] =
                 [TCPState |-> NewState(f),
                  Established |-> EstablishedAfter(Segment(f), "SYN_SENT", FALSE),
                  lastSeen |-> now]
        PROVE  Agrees(flows'[k])
    <3>1. f \in TCPFlags
      BY ConntrackAssumption
    <3> QED BY <2>6, <3>1, FsmNewAgrees
  <2> QED BY <2>2, <2>3, <2>4, <2>5, <2>6, FlowStep
<1> QED BY <1>1, <1>2, TableTypeOK, PTL DEF Spec

\* A flow never goes back to an earlier TCP state while it is in the table.
THEOREM TcpForward == Spec => TcpNeverRegresses
<1>1. TypeOK /\ [Next]_vars =>
        [\A k \in DOMAIN flows \cap DOMAIN flows' :
            Rank(flows[k].TCPState) <= Rank(flows'[k].TCPState)]_vars
  <2> SUFFICES ASSUME TypeOK, [Next]_vars, NEW k \in DOMAIN flows \cap DOMAIN flows'
               PROVE  Rank(flows[k].TCPState) <= Rank(flows'[k].TCPState)
    OBVIOUS
  <2>1. flows[k] \in Flow /\ flows[k].TCPState \in TCPStates
    BY DEF TypeOK, Flow
  <2>2. \E seg : flows'[k].TCPState = StateAfter(seg, flows[k].TCPState)
    <3>1. StateAfter("NONE", flows[k].TCPState) = flows[k].TCPState
      BY DEF StateAfter
    <3>2. [flows[k] EXCEPT !.lastSeen = now].TCPState = flows[k].TCPState
      BY <2>1 DEF Flow
    <3>3. CASE flows'[k] = flows[k] \/ flows'[k] = [flows[k] EXCEPT !.lastSeen = now]
      BY <3>1, <3>2, <3>3
    <3>4. CASE \E f \in Flags : flows'[k] =
                 [TCPState |-> StateAfter(Segment(f), flows[k].TCPState),
                  Established |-> EstablishedAfter(Segment(f), flows[k].TCPState,
                                                   flows[k].Established),
                  lastSeen |-> now]
      BY <3>4
    <3> QED BY <3>3, <3>4, FlowStep
  <2> QED BY <2>1, <2>2, FsmForward
<1> QED BY <1>1, TableTypeOK, PTL DEF Spec, TcpNeverRegresses

-----------------------------------------------------------------------------
(* Port history and eviction.                                              *)

\* What PortsFollowFlows says of one source in one step.
PortsKept(s) ==
    /\ FlowsOf(s) # {} /\ FlowsOf(s)' = {} => srcPorts'[s] = {}
    /\ ~(srcPorts[s] \subseteq srcPorts'[s]) => FlowsOf(s) \cap DOMAIN flows' = {}

\* A step that takes D out of the table, adds no old flow, and prunes the
\* sources decrFlowCountLocked prunes, keeps the ports with the flows.
LEMMA PrunedPorts ==
    ASSUME IInv, NEW D \in SUBSET DOMAIN flows, NEW s \in Sources,
           DOMAIN flows \ D \subseteq DOMAIN flows',
           D \cap DOMAIN flows' = {},
           srcPorts' = portsWithout(prunedBy(D))
    PROVE  PortsKept(s)
<1>1. s \in prunedBy(D) <=> FlowsOf(s) # {} /\ Remaining(s, D) = {}
  BY PrunedSources DEF IInv
<1>2. srcPorts'[s] = IF s \in prunedBy(D) THEN {} ELSE srcPorts[s]
  BY DEF portsWithout
<1>3. Remaining(s, D) \subseteq FlowsOf(s)'
  BY DEF Remaining, FlowsOf
<1>4. FlowsOf(s) \cap DOMAIN flows' = Remaining(s, D)
  BY DEF Remaining, FlowsOf
<1> QED BY <1>1, <1>2, <1>3, <1>4 DEF PortsKept

\* A source keeps its port history while a flow of it survives, and the step
\* that takes its last flow drops the history.
THEOREM PortsWithFlows == Spec => PortsFollowFlows
<1>1. IInv /\ [Next]_vars =>
        [\A s \in Sources :
            /\ FlowsOf(s) # {} /\ FlowsOf(s)' = {} => srcPorts'[s] = {}
            /\ ~(srcPorts[s] \subseteq srcPorts'[s])
                   => FlowsOf(s) \cap DOMAIN flows' = {}]_vars
  <2> SUFFICES ASSUME IInv, [Next]_vars, NEW s \in Sources
               PROVE  PortsKept(s)
    BY DEF PortsKept
  <2>1. ASSUME DOMAIN flows' = DOMAIN flows, srcPorts[s] \subseteq srcPorts'[s]
        PROVE  PortsKept(s)
    BY <2>1 DEF PortsKept, FlowsOf
  <2>2. ASSUME NEW D, D \in SUBSET DOMAIN flows, Remove(D)
        PROVE  PortsKept(s)
    <3>1. DOMAIN flows' = DOMAIN flows \ D /\ srcPorts' = portsWithout(prunedBy(D))
      BY <2>2 DEF Remove, Restrict
    <3> QED BY <2>2, <3>1, PrunedPorts
  <2>3. ASSUME NEW k, NEW f, k \notin DOMAIN flows, Create(k, f)
        PROVE  PortsKept(s)
    <3>1. PICK D \in Victims :
             /\ flows' = [j \in (DOMAIN flows \ D) \cup {k} |->
                             IF j = k THEN f ELSE flows[j]]
             /\ srcPorts' = portsWithout(prunedBy(D))
      BY <2>3 DEF Create
    <3>2. D \in SUBSET DOMAIN flows
      BY VictimSets
    <3>3. DOMAIN flows' = (DOMAIN flows \ D) \cup {k}
      BY <3>1
    <3> QED BY <2>3, <3>1, <3>2, <3>3, PrunedPorts
  <2>4. ASSUME NEW k \in DOMAIN flows, NEW f, Touch(k, f)
        PROVE  PortsKept(s)
    BY <2>1, <2>4 DEF Touch
  <2>5. ASSUME NEW a \in Addrs, NEW protocol \in Protocols, NEW p \in Ports,
               LookupOrCreate(a, protocol, p)
        PROVE  PortsKept(s)
    BY <2>3, <2>4, <2>5, Zenon DEF LookupOrCreate
  <2>6. ASSUME NEW a \in Addrs, NEW p \in Ports, NEW f \in Flags, UpdateTCPState(a, p, f)
        PROVE  PortsKept(s)
    BY <2>3, <2>4, <2>6, Zenon DEF UpdateTCPState
  <2>7. ASSUME NEW a \in Addrs, NEW p \in Ports, RecordDestPort(a, p)
        PROVE  PortsKept(s)
    <3>1. srcPorts[s] \subseteq srcPorts'[s]
      BY <2>7 DEF RecordDestPort, IInv, TypeOK
    <3> QED BY <2>1, <2>7, <3>1 DEF RecordDestPort
  <2>8. ASSUME NEW a \in Addrs, NEW protocol \in Protocols, NEW p \in Ports,
               Delete(a, protocol, p)
        PROVE  PortsKept(s)
    <3>1. {Key(a, protocol, p)} \in SUBSET DOMAIN flows /\ Remove({Key(a, protocol, p)})
      BY <2>8 DEF Delete
    <3> QED BY <2>2, <3>1
  <2>9. CASE Expire
    <3>1. \E D \in SUBSET DOMAIN flows : Remove(D)
      BY <2>9 DEF Expire
    <3> QED BY <2>2, <3>1
  <2>10. CASE Tick \/ UNCHANGED vars
               \/ \E a \in Addrs, protocol \in Protocols, p \in Ports :
                     FlowLimited(a, protocol, p)
    <3>1. UNCHANGED <<flows, srcPorts>>
      BY <2>10 DEF Tick, vars, FlowLimited
    <3> QED BY <2>1, <3>1
  <2> QED BY <2>5, <2>6, <2>7, <2>8, <2>9, <2>10 DEF Next
<1> QED BY <1>1, TableInvariant, PTL DEF Spec, PortsFollowFlows

\* The victim of an eviction has few strictly older flows in the table: they
\* all lie outside the sample.
LEMMA VictimAge ==
    ASSUME TypeOK, IsFiniteSet(DOMAIN flows), NEW v \in evictOneLocked
    PROVE  LET older == {j \in DOMAIN flows : flows[j].lastSeen < flows[v].lastSeen}
           IN  older = {} \/ Cardinality(older) + EvictionSampleSize
                                <= Cardinality(DOMAIN flows)
<1> DEFINE n == Cardinality(DOMAIN flows)
           older == {j \in DOMAIN flows : flows[j].lastSeen < flows[v].lastSeen}
<1>1. PICK sample \in SUBSET DOMAIN flows :
         /\ Cardinality(sample) = IF n < EvictionSampleSize THEN n ELSE EvictionSampleSize
         /\ \A k \in sample : flows[v].lastSeen <= flows[k].lastSeen
  BY DEF evictOneLocked
<1>2. \A k \in DOMAIN flows : flows[k].lastSeen \in Nat
  BY DEF TypeOK, Flow
<1>3. v \in DOMAIN flows
  BY DEF evictOneLocked
<1>4. older \in SUBSET (DOMAIN flows \ sample)
  BY <1>1, <1>2, <1>3
<1>5. /\ IsFiniteSet(DOMAIN flows \ sample)
      /\ Cardinality(DOMAIN flows \ sample) = n - Cardinality(sample)
  <2>1. DOMAIN flows \cap sample = sample
    OBVIOUS
  <2>2. /\ IsFiniteSet(DOMAIN flows \ sample)
        /\ Cardinality(DOMAIN flows \ sample) = n - Cardinality(DOMAIN flows \cap sample)
    BY FS_Difference
  <2> QED BY <2>1, <2>2
<1>6. /\ IsFiniteSet(older)
      /\ Cardinality(older) <= Cardinality(DOMAIN flows \ sample)
      /\ Cardinality(older) \in Nat
  <2> HIDE DEF older
  <2> QED BY <1>4, <1>5, FS_Subset, FS_CardinalityType
<1>7. n \in Nat /\ EvictionSampleSize \in Nat
  BY FS_CardinalityType, ConntrackAssumption
<1>8. CASE n < EvictionSampleSize
  <2>1. Cardinality(older) = 0
    <3> HIDE DEF older
    <3> QED BY <1>1, <1>5, <1>6, <1>7, <1>8
  <2>2. older = {}
    <3> HIDE DEF older
    <3> QED BY <1>6, <2>1, FS_EmptySet
  <2> QED BY <2>2
<1>9. CASE ~(n < EvictionSampleSize)
  <2> HIDE DEF older
  <2>1. Cardinality(older) + EvictionSampleSize <= n
    BY <1>1, <1>5, <1>6, <1>7, <1>9
  <2> QED BY <2>1 DEF older
<1> QED BY <1>8, <1>9

\* A flow within its timeout leaves the table only by Delete, or as the victim
\* of an eviction from a full table, with few strictly older flows beside it.
THEOREM LiveFlowsStay == Spec => LiveFlowsKept
<1> DEFINE older(k) == {j \in DOMAIN flows : flows[j].lastSeen < flows[k].lastSeen}
           Kept(k) ==
             \/ Idle(k) > idleTimeoutFor[k.protocol]
             \/ deleted' > deleted
             \/ /\ Cardinality(DOMAIN flows) >= MaxEntries
                /\ stats'.Evicted = stats.Evicted + 1
                /\ \/ older(k) = {}
                   \/ Cardinality(older(k)) + EvictionSampleSize
                         <= Cardinality(DOMAIN flows)
<1>1. ASSUME IInv, [Next]_vars, NEW k \in DOMAIN flows \ DOMAIN flows'
      PROVE  Kept(k)
  <2>1. ASSUME NEW j, NEW f, Create(j, f)
        PROVE  Kept(k)
    <3>1. PICK D \in Victims :
             /\ flows' = [i \in (DOMAIN flows \ D) \cup {j} |->
                             IF i = j THEN f ELSE flows[i]]
             /\ stats' = [stats EXCEPT !.Created = @ + 1,
                                       !.Evicted = @ + Cardinality(D)]
      BY <2>1 DEF Create
    <3>2. DOMAIN flows' = (DOMAIN flows \ D) \cup {j}
      BY <3>1
    <3>3. k \in D
      BY <1>1, <3>2
    <3>4. /\ Cardinality(DOMAIN flows) >= MaxEntries
          /\ k \in evictOneLocked
          /\ D = {k}
      BY <3>3 DEF Victims
    <3>5. Cardinality(D) = 1
      BY <3>4, FS_Singleton
    <3>6. stats'.Evicted = stats.Evicted + 1
      BY <1>1, <3>1, <3>5 DEF IInv, TypeOK
    <3>7. \/ older(k) = {}
          \/ Cardinality(older(k)) + EvictionSampleSize <= Cardinality(DOMAIN flows)
      BY <1>1, <3>4, VictimAge DEF IInv
    <3> QED BY <3>4, <3>6, <3>7
  <2>2. ASSUME NEW j \in DOMAIN flows, NEW f, Touch(j, f)
        PROVE  FALSE
    BY <1>1, <2>2 DEF Touch
  <2>3. ASSUME NEW a \in Addrs, NEW protocol \in Protocols, NEW p \in Ports,
               LookupOrCreate(a, protocol, p)
        PROVE  Kept(k)
    <3> HIDE DEF Kept
    <3> QED BY <2>1, <2>2, <2>3, Zenon DEF LookupOrCreate
  <2>4. ASSUME NEW a \in Addrs, NEW p \in Ports, NEW f \in Flags, UpdateTCPState(a, p, f)
        PROVE  Kept(k)
    <3> HIDE DEF Kept
    <3> QED BY <2>1, <2>2, <2>4, Zenon DEF UpdateTCPState
  <2>5. CASE Expire
    BY <1>1, <2>5 DEF Expire, Remove, Restrict
  <2>6. ASSUME NEW a \in Addrs, NEW protocol \in Protocols, NEW p \in Ports,
               Delete(a, protocol, p)
        PROVE  Kept(k)
    <3>1. deleted' > deleted
      BY <1>1, <2>6 DEF Delete, IInv, TypeOK
    <3> QED BY <3>1
  <2>7. ASSUME UNCHANGED flows
        PROVE  Kept(k)
    BY <1>1, <2>7
  <2>8. CASE \/ \E a \in Addrs, protocol \in Protocols, p \in Ports :
                   FlowLimited(a, protocol, p)
             \/ \E a \in Addrs, p \in Ports : RecordDestPort(a, p)
             \/ Tick
             \/ UNCHANGED vars
    <3>1. UNCHANGED flows
      BY <2>8 DEF FlowLimited, RecordDestPort, Tick, vars
    <3> QED BY <2>7, <3>1
  <2> HIDE DEF Kept
  <2> QED BY <1>1, <2>3, <2>4, <2>5, <2>6, <2>8 DEF Next
<1>2. IInv /\ [Next]_vars => [\A k \in DOMAIN flows \ DOMAIN flows' : Kept(k)]_vars
  <2> HIDE DEF Kept
  <2> QED BY <1>1
<1>3. (IInv /\ [Next]_vars) =>
        [\A k \in DOMAIN flows \ DOMAIN flows' :
           \/ Idle(k) > idleTimeoutFor[k.protocol]
           \/ deleted' > deleted
           \/ LET n == Cardinality(DOMAIN flows)
                  old == {j \in DOMAIN flows : flows[j].lastSeen < flows[k].lastSeen}
              IN  /\ n >= MaxEntries
                  /\ stats'.Evicted = stats.Evicted + 1
                  /\ old = {} \/ Cardinality(old) + EvictionSampleSize <= n]_vars
  BY <1>2
<1> QED BY <1>3, TableInvariant, PTL DEF Spec, LiveFlowsKept

=============================================================================
