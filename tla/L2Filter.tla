------------------------------ MODULE L2Filter -------------------------------
(***************************************************************************)
(* The address bindings of the layer-2 filter                              *)
(* (src/internal/l2filter/l2filter.go): RecordDHCP writes a binding,       *)
(* CheckARP compares a claim with it or learns it.  Each call holds the    *)
(* lock.  normalizeMAC maps what holds no hex digit to NoMAC.              *)
(***************************************************************************)
EXTENDS Naturals, FiniteSets, Functions

CONSTANTS
    Claimed,          \* IP addresses as claimed, in any spelling
    normalizeIPKey,   \* spelling -> canonical spelling
    MACs,             \* MAC addresses as spelled
    normalizeMAC,     \* spelling -> canonical spelling, or NoMAC
    NoMAC,
    maxARP            \* Filter.maxARP

ASSUME L2Constants ==
    /\ normalizeIPKey \in [Claimed -> Claimed]
    /\ DOMAIN normalizeMAC = MACs
    /\ maxARP \in Nat \ {0}

VARIABLES
    arpTable,         \* Filter.arpTable
    accepted          \* history: canonical address -> MACs that CheckARP let
                      \* pass for it since its binding was last set by DHCP
                      \* or last evicted

l2Vars == <<arpTable, accepted>>

L2Init ==
    /\ arpTable = [k \in {} |-> NoMAC]
    /\ accepted = [a \in Claimed |-> {}]

\* The table keeps all its keys, or loses any one of them when it is full.
RoomFor(key) ==
    IF key \in DOMAIN arpTable \/ Cardinality(DOMAIN arpTable) < maxARP
    THEN {DOMAIN arpTable}
    ELSE {DOMAIN arpTable \ {k} : k \in DOMAIN arpTable}

Bind(key, mac, kept) ==
    arpTable' = [k \in kept \cup {key} |-> IF k = key THEN mac ELSE arpTable[k]]

Evicted(kept) == DOMAIN arpTable \ kept

RecordDHCP(ip, mac) ==
    LET key == normalizeIPKey[ip]
        norm == normalizeMAC[mac]
    IN /\ norm # NoMAC
       /\ \E kept \in RoomFor(key) :
             /\ Bind(key, norm, kept)
             /\ accepted' = [a \in Claimed |->
                                IF a = key \/ a \in Evicted(kept) THEN {} ELSE accepted[a]]

\* Mutant: the claim is looked up as it is spelled.
CheckARPUnnormalised(ip, mac) ==
    LET norm == normalizeMAC[mac]
    IN /\ norm # NoMAC
       /\ ip \in DOMAIN arpTable => arpTable[ip] = norm
       /\ \E kept \in RoomFor(ip) :
             /\ Bind(ip, norm, kept)
             /\ accepted' = [a \in Claimed |->
                                CASE a = normalizeIPKey[ip] -> accepted[a] \cup {norm}
                                  [] a \in Evicted(kept) -> {}
                                  [] OTHER -> accepted[a]]

\* A claim without a MAC passes and teaches nothing; a claim that differs
\* from the binding is refused and changes nothing: no step.
CheckARP(ip, mac) ==
    LET key == normalizeIPKey[ip]
        norm == normalizeMAC[mac]
    IN /\ norm # NoMAC
       /\ key \in DOMAIN arpTable => arpTable[key] = norm
       /\ \E kept \in RoomFor(key) :
             /\ Bind(key, norm, kept)
             /\ accepted' = [a \in Claimed |->
                                CASE a = normalizeIPKey[ip] -> accepted[a] \cup {norm}
                                  [] a \in Evicted(kept) -> {}
                                  [] OTHER -> accepted[a]]

L2Next == \E ip \in Claimed, mac \in MACs : RecordDHCP(ip, mac) \/ CheckARP(ip, mac)

L2Spec == L2Init /\ [][L2Next]_l2Vars

-----------------------------------------------------------------------------
\* Between two writes of an address's binding, CheckARP lets at most one MAC
\* pass for it, under all its spellings, and it is the bound one: learning
\* mode never accepts a second claimant (l2filter.go:185-200).
OneClaimantPerBinding ==
    \A a \in Claimed :
        accepted[a] # {} => a \in DOMAIN arpTable /\ accepted[a] = {arpTable[a]}

=============================================================================
