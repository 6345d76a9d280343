-------------------------- MODULE IntelAuditProofs --------------------------
(***************************************************************************)
(* The two components whose state is a list: the threat-intelligence list,    *)
(* for any caps, feeds and lines, and the audit log, for any size of a file,   *)
(* number of backups, ticks and restarts.                                   *)
(*                                                                         *)
(* Inductions over data are arguments by a least counterexample (LeastOf).    *)
(***************************************************************************)
EXTENDS ThreatIntel, AuditLog, FiniteSetTheorems, SequenceTheorems, TLAPS

-----------------------------------------------------------------------------
(* Sequences and numbers.                                                  *)

\* A set of natural numbers that is not empty has a least element.
LEMMA LeastOf ==
    ASSUME NEW S \in SUBSET Nat, S # {}
    PROVE  \E x \in S : \A y \in S : x <= y
<1> DEFINE R == OpToRel(<, Nat)
<1>1. IsWellFoundedOn(R, Nat)
  BY NatLessThanWellFounded
<1>2. \A x, y \in Nat : y < x => <<y, x>> \in R
  BY DEF OpToRel
<1> HIDE DEF R
<1>3. \E x \in S : \A y \in S : ~(<<y, x>> \in R)
  BY <1>1, WFMin
<1>4. PICK x \in S : \A y \in S : ~(<<y, x>> \in R)
  BY <1>3
<1>5. \A y \in S : x \in Nat /\ y \in Nat /\ ~(y < x)
  BY <1>2, <1>4
<1>6. \A y \in S : x <= y
  BY <1>5
<1> QED BY <1>6

\* A stretch of a sequence: its length and its elements.
LEMMA WindowOf ==
    ASSUME NEW S, NEW s \in Seq(S), NEW a \in Nat, NEW b \in Nat,
           1 <= a, a <= b + 1, b <= Len(s)
    PROVE  /\ SubSeq(s, a, b) \in Seq(S)
           /\ Len(SubSeq(s, a, b)) = b + 1 - a
           /\ \A i \in 1..(b + 1 - a) : SubSeq(s, a, b)[i] = s[a - 1 + i]
<1> DEFINE w == SubSeq(s, a, b)
<1>1. \A i \in a..b : s[i] \in S
  OBVIOUS
<1>2. /\ w \in Seq(S) /\ Len(w) = (IF a <= b THEN b - a + 1 ELSE 0)
      /\ \A i \in 1..b - a + 1 : w[i] = s[a + i - 1]
  BY <1>1, SubSeqProperties
<1> HIDE DEF w
<1>3. Len(w) = b + 1 - a
  BY <1>2
<1>4. \A i \in 1..(b + 1 - a) : i \in 1..b - a + 1 /\ a + i - 1 = a - 1 + i
  OBVIOUS
<1>5. \A i \in 1..(b + 1 - a) : w[i] = s[a - 1 + i]
  BY <1>2, <1>4
<1> QED BY <1>2, <1>3, <1>5 DEF w

-----------------------------------------------------------------------------
(* The threat-intelligence list.                                           *)

\* No entry twice.
Distinct(s) == \A i, j \in 1..Len(s) : s[i] = s[j] => i = j

\* What is left of a sequence without its k-th element.
OmitAt(s, k) == SubSeq(s, 1, k - 1) \o SubSeq(s, k + 1, Len(s))

LEMMA WithoutKth ==
    ASSUME NEW S, NEW s \in Seq(S), NEW k \in 1..Len(s)
    PROVE  /\ OmitAt(s, k) \in Seq(S)
           /\ Len(OmitAt(s, k)) = Len(s) - 1
           /\ \A i \in 1..(k - 1) : OmitAt(s, k)[i] = s[i]
           /\ \A i \in k..(Len(s) - 1) : OmitAt(s, k)[i] = s[i + 1]
<1>0. Len(s) \in Nat /\ k \in Nat
  OBVIOUS
<1>1. PICK n \in Nat : n = Len(s)
  BY <1>0
<1>2. PICK b \in Nat : b = k - 1
  BY <1>0
<1>3. PICK a \in Nat : a = k + 1
  BY <1>0
<1> DEFINE l == SubSeq(s, 1, b)
           r == SubSeq(s, a, n)
<1>4. l \in Seq(S) /\ Len(l) = b /\ \A i \in 1..b : l[i] = s[i]
  <2>1. 1 <= b + 1 /\ b <= Len(s) /\ b + 1 - 1 = b /\ \A i \in 1..b : 1 - 1 + i = i
    BY <1>1, <1>2
  <2>2. /\ l \in Seq(S) /\ Len(l) = b + 1 - 1
        /\ \A i \in 1..(b + 1 - 1) : l[i] = s[1 - 1 + i]
    BY <2>1, WindowOf
  <2> HIDE DEF l
  <2> QED BY <2>1, <2>2
<1>5. r \in Seq(S) /\ Len(r) = n + 1 - a /\ \A i \in 1..(n + 1 - a) : r[i] = s[a - 1 + i]
  <2>1. 1 <= a /\ a <= n + 1 /\ n <= Len(s)
    BY <1>1, <1>3
  <2> QED BY <2>1, WindowOf
<1>6. OmitAt(s, k) = l \o r
  BY <1>1, <1>2, <1>3 DEF OmitAt
<1> HIDE DEF l, r
<1> DEFINE t == l \o r
<1>7. /\ t \in Seq(S) /\ Len(t) = Len(l) + Len(r)
      /\ \A i \in 1..(Len(l) + Len(r)) :
            t[i] = IF i <= Len(l) THEN l[i] ELSE r[i - Len(l)]
  BY <1>4, <1>5, ConcatProperties
<1> HIDE DEF t
<1>8. Len(t) = n - 1
  BY <1>1, <1>2, <1>3, <1>4, <1>5, <1>7
<1>9. ASSUME NEW i \in 1..(k - 1) PROVE t[i] = s[i]
  <2>1. i \in 1..(Len(l) + Len(r)) /\ i <= Len(l) /\ i \in 1..b
    BY <1>1, <1>2, <1>3, <1>4, <1>5
  <2> QED BY <1>4, <1>7, <2>1
<1>10. ASSUME NEW i \in k..(n - 1) PROVE t[i] = s[i + 1]
  <2>1. i \in 1..(Len(l) + Len(r)) /\ ~(i <= Len(l))
    BY <1>1, <1>2, <1>3, <1>4, <1>5
  <2>2. PICK j \in 1..(n + 1 - a) : j = i - Len(l)
    BY <1>1, <1>2, <1>3, <1>4
  <2>3. a - 1 + j = i + 1
    BY <1>2, <1>3, <1>4, <2>2
  <2> QED BY <1>5, <1>7, <2>1, <2>2, <2>3
<1> QED BY <1>1, <1>6, <1>7, <1>8, <1>9, <1>10 DEF t

\* Of a sequence without repetitions that is the element, the whole element and
\* nothing else.
LEMMA RemovedOnce ==
    ASSUME NEW S, NEW s \in Seq(S), Distinct(s), NEW k \in 1..Len(s)
    PROVE  /\ OmitAt(s, k) \in Seq(S)
           /\ Len(OmitAt(s, k)) = Len(s) - 1
           /\ Distinct(OmitAt(s, k))
           /\ Range(OmitAt(s, k)) = Range(s) \ {s[k]}
<1> DEFINE t == OmitAt(s, k)
<1>1. /\ t \in Seq(S) /\ Len(t) = Len(s) - 1
      /\ \A i \in 1..(k - 1) : t[i] = s[i]
      /\ \A i \in k..(Len(s) - 1) : t[i] = s[i + 1]
  BY WithoutKth
<1>2. PICK n \in Nat : n = Len(s) /\ k \in 1..n
  OBVIOUS
<1> HIDE DEF t
<1>3. \A i \in 1..(n - 1) : /\ i \in 1..(k - 1) \/ i \in k..(n - 1)
                            /\ t[i] = s[IF i < k THEN i ELSE i + 1]
                            /\ (IF i < k THEN i ELSE i + 1) \in (1..n) \ {k}
  BY <1>1, <1>2
<1>4. Distinct(t)
  <2> SUFFICES ASSUME NEW i \in 1..(n - 1), NEW j \in 1..(n - 1), t[i] = t[j]
               PROVE  i = j
    BY <1>1, <1>2 DEF Distinct
  <2>1. (IF i < k THEN i ELSE i + 1) = (IF j < k THEN j ELSE j + 1)
    BY <1>2, <1>3 DEF Distinct
  <2> QED BY <1>2, <2>1
<1>5. Range(t) = Range(s) \ {s[k]}
  <2>1. DOMAIN t = 1..(n - 1) /\ DOMAIN s = 1..n
    BY <1>1, <1>2
  <2>2. ASSUME NEW i \in 1..(n - 1) PROVE t[i] \in Range(s) \ {s[k]}
    BY <1>2, <1>3, <2>1 DEF Range, Distinct
  <2>3. ASSUME NEW j \in 1..n, s[j] # s[k] PROVE s[j] \in Range(t)
    <3>1. CASE j < k
      <4>1. j \in 1..(n - 1) /\ t[j] = s[j]
        BY <1>2, <1>3, <3>1
      <4> QED BY <2>1, <4>1 DEF Range
    <3>2. CASE j > k
      <4>1. PICK i \in 1..(n - 1) : i + 1 = j /\ ~(i < k)
        BY <1>2, <3>2
      <4>2. t[i] = s[j]
        BY <1>3, <4>1
      <4> QED BY <2>1, <4>1, <4>2 DEF Range
    <3>3. j # k
      BY <2>3
    <3> QED BY <1>2, <3>1, <3>2, <3>3
  <2> QED BY <2>1, <2>2, <2>3 DEF Range
<1> QED BY <1>1, <1>4, <1>5 DEF t

IntelNets == {netOf[l] : l \in DOMAIN netOf}

\* No network is listed twice and netKeys is the set of those listed, so the
\* length that Add compares with the caps counts distinct networks.
IntelInv ==
    /\ IsFiniteSet(ips)
    /\ nets \in Seq(IntelNets) /\ Distinct(nets)
    /\ netKeys = Range(nets)
    /\ IsFiniteSet(Range(nets)) /\ Cardinality(Range(nets)) = Len(nets)
    /\ offered \subseteq {"ip", "net"} \X (Hosts \cup IntelNets)
    /\ NewThreatsListed

\* The list after one line (Add): what was on it stays, and the line's entry is
\* on it unless the list is full.
LEMMA AddKeeps ==
    ASSUME IntelInv, NEW l \in Lines, Add(l)
    PROVE  /\ IsFiniteSet(ips') /\ ips \subseteq ips'
           /\ nets' \in Seq(IntelNets) /\ Distinct(nets')
           /\ netKeys' = Range(nets') /\ Range(nets) \subseteq Range(nets')
           /\ IsFiniteSet(Range(nets')) /\ Cardinality(Range(nets')) = Len(nets')
           /\ l \notin Junk /\ ~FullFor(l) => Listed(Entry(l))'
<1> DEFINE addIP == HasRoom /\ l \in DOMAIN hostOf
           addNet == HasRoom /\ IsNewNet(l) /\ Len(nets) < maxCIDRNetworks
<1>1. /\ ips' = (IF addIP THEN ips \cup {hostOf[l]} ELSE ips)
      /\ nets' = (IF addNet THEN Append(nets, netOf[l]) ELSE nets)
      /\ netKeys' = (IF addNet THEN netKeys \cup {netOf[l]} ELSE netKeys)
  BY DEF Add
<1>2. addNet => l \in DOMAIN netOf /\ netOf[l] \in IntelNets /\ netOf[l] \notin Range(nets)
  BY DEF IsNewNet, IntelNets, IntelInv
<1>3. /\ IsFiniteSet(ips) /\ nets \in Seq(IntelNets) /\ Len(nets) \in Nat
      /\ Distinct(nets) /\ netKeys = Range(nets)
      /\ IsFiniteSet(Range(nets)) /\ Cardinality(Range(nets)) = Len(nets)
      /\ Cardinality(ips) \in Nat
  BY FS_CardinalityType DEF IntelInv
<1>4. l \notin Junk /\ ~FullFor(l) =>
        /\ HasRoom
        /\ l \in DOMAIN netOf => Len(nets) < maxCIDRNetworks
        /\ l \in DOMAIN hostOf \/ l \in DOMAIN netOf
  BY <1>3, ThreatIntelConstants DEF FullFor, HasRoom, Lines
<1>5. IsFiniteSet(ips') /\ ips \subseteq ips'
  BY <1>1, <1>3, FS_AddElement
<1>6. /\ nets' \in Seq(IntelNets) /\ Distinct(nets')
      /\ netKeys' = Range(nets') /\ Range(nets) \subseteq Range(nets')
      /\ IsFiniteSet(Range(nets')) /\ Cardinality(Range(nets')) = Len(nets')
      /\ addNet => netOf[l] \in Range(nets')
  <2>1. CASE ~addNet
    <3>1. nets' = nets /\ netKeys' = netKeys
      BY <1>1, <2>1
    <3> QED BY <1>3, <2>1, <3>1
  <2>2. CASE addNet
    <3>1. /\ nets' = Append(nets, netOf[l]) /\ netKeys' = netKeys \cup {netOf[l]}
          /\ netOf[l] \in IntelNets /\ netOf[l] \notin Range(nets)
      BY <1>1, <1>2, <2>2
    <3>2. PICK x \in IntelNets : x = netOf[l]
      BY <3>1
    <3>3. /\ nets' \in Seq(IntelNets) /\ Len(nets') = Len(nets) + 1
          /\ nets'[Len(nets) + 1] = x /\ \A i \in 1..Len(nets) : nets'[i] = nets[i]
      BY <1>3, <3>1, <3>2
    <3>4. \A i \in 1..Len(nets) : nets[i] # x
      BY <1>3, <3>1, <3>2 DEF Range
    <3>5. Distinct(nets')
      BY <1>3, <3>3, <3>4 DEF Distinct
    <3>6. Range(nets') = Range(nets) \cup {x}
      BY <1>3, <3>3 DEF Range
    <3>7. /\ IsFiniteSet(Range(nets) \cup {x})
          /\ Cardinality(Range(nets) \cup {x}) = Cardinality(Range(nets)) + 1
      BY <1>3, <3>1, <3>2, FS_AddElement
    <3> QED BY <1>3, <3>1, <3>2, <3>3, <3>5, <3>6, <3>7
  <2> QED BY <2>1, <2>2
<1>7. ASSUME l \notin Junk, ~FullFor(l) PROVE Listed(Entry(l))'
  <2>1. CASE l \in DOMAIN hostOf
    <3>1. hostOf[l] \in ips'
      BY <1>1, <1>4, <1>7, <2>1
    <3> QED BY <2>1, <3>1 DEF Entry, Listed
  <2>2. CASE l \notin DOMAIN hostOf
    <3>1. l \in DOMAIN netOf /\ HasRoom /\ Len(nets) < maxCIDRNetworks
      BY <1>4, <1>7, <2>2
    <3>2. netOf[l] \in Range(nets')
      <4>1. CASE netOf[l] \in netKeys
        BY <1>3, <1>6, <4>1
      <4>2. CASE netOf[l] \notin netKeys
        BY <1>6, <3>1, <4>2 DEF IsNewNet
      <4> QED BY <4>1, <4>2
    <3> QED BY <2>2, <3>2 DEF Entry, Listed
  <2> QED BY <2>1, <2>2
<1> QED BY <1>5, <1>6, <1>7

\* The list after Remove: exactly the line's entry is gone.
LEMMA RemoveKeeps ==
    ASSUME IntelInv, NEW l \in Lines \ Junk, RemoveEntry(l)
    PROVE  IntelInv'
<1>1. /\ IsFiniteSet(ips) /\ nets \in Seq(IntelNets) /\ Distinct(nets)
      /\ netKeys = Range(nets) /\ Len(nets) \in Nat
      /\ IsFiniteSet(Range(nets)) /\ Cardinality(Range(nets)) = Len(nets)
      /\ offered \subseteq {"ip", "net"} \X (Hosts \cup IntelNets)
  BY DEF IntelInv
<1>2. offered' = offered \ {Entry(l)} /\ refused' = refused
  BY DEF RemoveEntry
<1>3. ASSUME NEW e \in offered' \ refused'
      PROVE  e \in offered /\ e = <<e[1], e[2]>> /\ Listed(e) /\ e # Entry(l)
  BY <1>1, <1>2 DEF IntelInv, NewThreatsListed
<1>4. CASE l \in DOMAIN hostOf
  <2>1. ips' = ips \ {hostOf[l]} /\ nets' = nets /\ netKeys' = netKeys
    BY <1>4, ThreatIntelConstants DEF RemoveEntry
  <2>2. IsFiniteSet(ips')
    BY <1>1, <2>1, FS_RemoveElement
  <2>3. NewThreatsListed'
    BY <1>3, <1>4, <2>1 DEF NewThreatsListed, Listed, Entry
  <2> QED BY <1>1, <1>2, <2>1, <2>2, <2>3 DEF IntelInv
<1>5. CASE l \notin DOMAIN hostOf
  <2>1. PICK k \in 1..Len(nets) :
          /\ l \in DOMAIN netOf /\ nets[k] = netOf[l] /\ ips' = ips
          /\ nets' = OmitAt(nets, k) /\ netKeys' = netKeys \ {netOf[l]}
    <3>1. PICK i \in DOMAIN nets :
            /\ l \in DOMAIN netOf /\ nets[i] = netOf[l] /\ ips' = ips
            /\ nets' = SubSeq(nets, 1, i - 1) \o SubSeq(nets, i + 1, Len(nets))
            /\ netKeys' = netKeys \ {netOf[l]}
      BY <1>5 DEF RemoveEntry
    <3>2. i \in 1..Len(nets)
      BY <1>1, <3>1
    <3>3. nets' = OmitAt(nets, i)
      BY <3>1 DEF OmitAt
    <3> QED BY <3>1, <3>2, <3>3
  <2>2. netOf[l] \in Range(nets)
    BY <1>1, <2>1 DEF Range
  <2>3. /\ nets' \in Seq(IntelNets) /\ Len(nets') = Len(nets) - 1 /\ Distinct(nets')
        /\ Range(nets') = Range(nets) \ {netOf[l]}
    BY <1>1, <2>1, RemovedOnce
  <2>4. /\ IsFiniteSet(Range(nets) \ {netOf[l]})
        /\ Cardinality(Range(nets) \ {netOf[l]}) = Cardinality(Range(nets)) - 1
    BY <1>1, <2>2, FS_RemoveElement
  <2>5. NewThreatsListed'
    BY <1>3, <1>5, <2>1, <2>3 DEF NewThreatsListed, Listed, Entry
  <2> QED BY <1>1, <1>2, <2>1, <2>3, <2>4, <2>5 DEF IntelInv
<1> QED BY <1>4, <1>5

LEMMA IntelKeeps == IntelInv /\ [IntelNext]_intelVars => IntelInv'
<1> SUFFICES ASSUME IntelInv, [IntelNext]_intelVars PROVE IntelInv'
  OBVIOUS
<1>1. ASSUME NEW l \in Lines, parseLine(l) PROVE IntelInv'
  <2>1. /\ IsFiniteSet(ips') /\ ips \subseteq ips'
        /\ nets' \in Seq(IntelNets) /\ Distinct(nets')
        /\ netKeys' = Range(nets') /\ Range(nets) \subseteq Range(nets')
        /\ IsFiniteSet(Range(nets')) /\ Cardinality(Range(nets')) = Len(nets')
        /\ l \notin Junk /\ ~FullFor(l) => Listed(Entry(l))'
    BY <1>1, AddKeeps DEF parseLine
  <2>2. /\ offered' = (IF l \in Junk THEN offered ELSE offered \cup {Entry(l)})
        /\ refused' = (IF l \notin Junk /\ FullFor(l) THEN refused \cup {Entry(l)} ELSE refused)
    BY <1>1 DEF parseLine
  <2>3. l \notin Junk => Entry(l) \in {"ip", "net"} \X (Hosts \cup IntelNets)
    BY ThreatIntelConstants DEF Entry, IntelNets, Lines
  <2>4. offered' \subseteq {"ip", "net"} \X (Hosts \cup IntelNets)
    BY <2>2, <2>3 DEF IntelInv
  <2>5. ASSUME NEW e \in offered' \ refused' PROVE Listed(e)'
    <3>1. CASE e \in offered
      <4>1. Listed(e)
        BY <2>2, <2>5, <3>1 DEF IntelInv, NewThreatsListed
      <4> QED BY <2>1, <4>1 DEF Listed
    <3>2. CASE e \notin offered
      <4>1. e = Entry(l) /\ l \notin Junk /\ ~FullFor(l)
        BY <2>2, <2>5, <3>2
      <4> QED BY <2>1, <4>1 DEF Listed, Entry
    <3> QED BY <3>1, <3>2
  <2> QED BY <2>1, <2>4, <2>5 DEF IntelInv, NewThreatsListed
<1>2. ASSUME NEW l \in Lines \ Junk, RemoveEntry(l) PROVE IntelInv'
  BY <1>2, RemoveKeeps
<1>3. CASE FetchBegins
  BY <1>3 DEF FetchBegins, IntelInv, NewThreatsListed
<1>4. CASE FetchFails \/ FetchEnds \/ StartRefresher \/ RefreshTick \/ UNCHANGED intelVars
  <2>1. UNCHANGED <<ips, nets, netKeys, offered, refused>>
    BY <1>4 DEF FetchFails, FetchEnds, StartRefresher, RefreshTick, intelVars
  <2> QED BY <2>1 DEF IntelInv, NewThreatsListed, Listed
<1> QED BY <1>1, <1>2, <1>3, <1>4 DEF IntelNext

LEMMA IntelStarts == IntelInit => IntelInv
<1> SUFFICES ASSUME IntelInit PROVE IntelInv
  OBVIOUS
<1>1. ips = {} /\ nets = <<>> /\ netKeys = {} /\ offered = {}
  BY DEF IntelInit
<1>2. nets \in Seq(IntelNets) /\ Len(nets) = 0 /\ Range(nets) = {} /\ Distinct(nets)
  BY <1>1 DEF Range, Distinct
<1>3. IsFiniteSet({}) /\ Cardinality({}) = 0
  BY FS_EmptySet
<1> QED BY <1>1, <1>2, <1>3 DEF IntelInv, NewThreatsListed

\* What a response has offered and nobody removed is on the list, unless the list
\* was full of distinct entries when it was offered, for feeds and lists of any
\* size (Add, Remove).
THEOREM IntelNewThreatsListed == IntelSpec => []NewThreatsListed
<1>1. IntelInv => NewThreatsListed
  BY DEF IntelInv
<1> QED BY <1>1, IntelStarts, IntelKeeps, PTL DEF IntelSpec

\* A source that is blocked stays blocked until an operator removes an entry,
\* whatever the feeds answer (Add only ever adds; FetchURL clears nothing).
THEOREM IntelBlocksPersist == IntelSpec => BlocksPersist
<1> DEFINE Persist == \/ \E l \in Lines \ Junk : RemoveEntry(l)
                      \/ \A h \in Hosts : Blocks(h) => Blocks(h)'
<1>1. ASSUME IntelInv, [IntelNext]_intelVars PROVE Persist \/ UNCHANGED intelVars
  <2>1. ASSUME NEW l \in Lines, parseLine(l) PROVE Persist
    <3>1. nets \in Seq(IntelNets) /\ nets' \in Seq(IntelNets)
          /\ ips \subseteq ips' /\ Range(nets) \subseteq Range(nets')
      BY <1>1, <2>1, AddKeeps DEF parseLine, IntelInv
    <3>2. ASSUME NEW i \in DOMAIN nets PROVE \E j \in DOMAIN nets' : nets'[j] = nets[i]
      BY <3>1 DEF Range
    <3> QED BY <3>1, <3>2 DEF Blocks
  <2>2. CASE FetchBegins \/ FetchFails \/ FetchEnds \/ StartRefresher \/ RefreshTick
    <3>1. UNCHANGED <<ips, nets>>
      BY <2>2 DEF FetchBegins, FetchFails, FetchEnds, StartRefresher, RefreshTick
    <3> QED BY <3>1 DEF Blocks
  <2> QED BY <1>1, <2>1, <2>2 DEF IntelNext
<1>2. IntelInv /\ [IntelNext]_intelVars => [Persist]_intelVars
  BY <1>1
<1> QED BY <1>2, IntelStarts, IntelKeeps, PTL DEF IntelSpec, BlocksPersist

-----------------------------------------------------------------------------
(* The audit log.                                                           *)

Holds(file, e) == \E i \in 1..Len(file) : file[i] = e
Precedes(file, next) == \A i \in 1..Len(file), j \in 1..Len(next) : file[i] < next[j]
UpTo(file, ev) == \A i \in 1..Len(file) : file[i] <= ev

\* Backups of no later second than the clock's, none of them empty, each with
\* earlier events than those of a later name and of the log.
Backups(dir, clock) ==
    /\ DOMAIN dir \subseteq 0..clock
    /\ \A s \in DOMAIN dir : dir[s] \in Seq(Nat) /\ dir[s] # <<>>

InOrder(dir, log, ev) ==
    /\ \A s, t \in DOMAIN dir : s < t => Precedes(dir[s], dir[t])
    /\ \A s \in DOMAIN dir : Precedes(dir[s], log) /\ UpTo(dir[s], ev)
    /\ UpTo(log, ev)

\* What became of event e (AcknowledgedKept).
After(dir, e) == {s \in DOMAIN dir : dir[s][1] > e}
Pushed(dir, e) == Cardinality(After(dir, e)) >= MaxBackups
Kept(dir, log, over, e) ==
    \/ Holds(log, e) \/ e \in over
    \/ \E s \in DOMAIN dir : Holds(dir[s], e)
    \/ Pushed(dir, e)
AllKept(dir, log, over, ev) == \A e \in 1..ev : Kept(dir, log, over, e)

\* A line is cut short behind an encoder without an error only in a process
\* that found it so, and no event of that process has been written behind it.
Garbling ==
    /\ IsFiniteSet(garbled) /\ auditRuns \in Nat
    /\ Cardinality(garbled) < auditRuns
    /\ torn /\ ~encErr => Cardinality(garbled) + 1 < auditRuns

\* An open log knows its size, so that a rotation never makes an empty backup.
AuditInv ==
    /\ now \in Nat /\ events \in Nat
    /\ logFile \in Seq(Nat)
    /\ fdOpen => logSize = Len(logFile)
    /\ Backups(backups, now)
    /\ InOrder(backups, logFile, events)
    /\ AllKept(backups, logFile, overwritten, events)
    /\ Garbling

-----------------------------------------------------------------------------
(* The invariant says what AcknowledgedKept says.                             *)

LEMMA HoldsIsRange ==
    ASSUME NEW file \in Seq(Nat), NEW e
    PROVE  Holds(file, e) <=> e \in Range(file)
BY DEF Holds, Range

LEMMA InvSaysKept == AuditInv => AcknowledgedKept
<1> SUFFICES ASSUME AuditInv PROVE AcknowledgedKept
  OBVIOUS
<1>1. /\ logFile \in Seq(Nat) /\ AllKept(backups, logFile, overwritten, events)
      /\ \A s \in DOMAIN backups : backups[s] \in Seq(Nat)
  BY DEF AuditInv, Backups
<1>2. \A e : Pushed(backups, e) <=> Cardinality(BackupsAfter(e)) >= MaxBackups
  BY DEF Pushed, After, BackupsAfter
<1>3. ASSUME NEW e \in 1..events
      PROVE  \/ e \in Range(logFile) \cup overwritten
             \/ \E s \in DOMAIN backups : e \in Range(backups[s])
             \/ Cardinality(BackupsAfter(e)) >= MaxBackups
  <2>1. Kept(backups, logFile, overwritten, e)
    BY <1>1 DEF AllKept
  <2>2. Holds(logFile, e) => e \in Range(logFile)
    BY <1>1, HoldsIsRange
  <2>3. \A s \in DOMAIN backups : Holds(backups[s], e) => e \in Range(backups[s])
    BY <1>1, HoldsIsRange
  <2> QED BY <1>2, <2>1, <2>2, <2>3 DEF Kept
<1>4. ASSUME NEW s \in DOMAIN backups, NEW t \in DOMAIN backups, s < t,
             NEW i \in DOMAIN backups[s], NEW j \in DOMAIN backups[t]
      PROVE  backups[s][i] < backups[t][j]
  <2>1. Precedes(backups[s], backups[t])
    BY <1>4 DEF AuditInv, InOrder
  <2>2. i \in 1..Len(backups[s]) /\ j \in 1..Len(backups[t])
    BY <1>1
  <2> QED BY <2>1, <2>2 DEF Precedes
<1>5. Cardinality(garbled) < auditRuns
  BY DEF AuditInv, Garbling
<1> QED BY <1>3, <1>4, <1>5 DEF AcknowledgedKept

-----------------------------------------------------------------------------
(* What a rotation does.                                                     *)

\* The log becomes the newest backup.
LEMMA RenameKeeps ==
    ASSUME AuditInv, logFile # <<>>
    PROVE  /\ Backups(Renamed, now)
           /\ InOrder(Renamed, <<>>, events)
           /\ AllKept(Renamed, <<>>, OverwrittenByRename, events)
<1> DEFINE D == DOMAIN backups
<1>1. /\ DOMAIN Renamed = D \cup {now} /\ Renamed[now] = logFile
      /\ \A s \in D : s # now => Renamed[s] = backups[s]
  BY DEF Renamed
<1>2. /\ now \in Nat /\ events \in Nat /\ logFile \in Seq(Nat) /\ D \subseteq 0..now
      /\ \A s \in D : backups[s] \in Seq(Nat) /\ backups[s] # <<>>
      /\ InOrder(backups, logFile, events)
      /\ AllKept(backups, logFile, overwritten, events)
  BY DEF AuditInv, Backups
<1> HIDE DEF D
<1>3. Backups(Renamed, now)
  <2>1. D \cup {now} \subseteq 0..now
    BY <1>2
  <2>2. \A s \in D \cup {now} : Renamed[s] \in Seq(Nat) /\ Renamed[s] # <<>>
    BY <1>1, <1>2
  <2> QED BY <1>1, <2>1, <2>2 DEF Backups
<1>4. \A s \in D : s # now => s \in Nat /\ s < now
  BY <1>2
<1>5. /\ \A s, t \in D : s < t => Precedes(backups[s], backups[t])
      /\ \A s \in D : Precedes(backups[s], logFile) /\ UpTo(backups[s], events)
      /\ UpTo(logFile, events)
  BY <1>2 DEF InOrder, D
<1>6. InOrder(Renamed, <<>>, events)
  <2>1. ASSUME NEW s \in D \cup {now}, NEW t \in D \cup {now}, s < t
        PROVE  Precedes(Renamed[s], Renamed[t])
    <3>1. s \in D /\ s # now
      BY <1>2, <1>4, <2>1
    <3>2. CASE t = now
      BY <1>1, <1>5, <3>1, <3>2
    <3>3. CASE t # now
      BY <1>1, <1>5, <2>1, <3>1, <3>3
    <3> QED BY <3>2, <3>3
  <2>2. \A s \in D \cup {now} : UpTo(Renamed[s], events)
    BY <1>1, <1>5
  <2>3. \A s \in D \cup {now} : Precedes(Renamed[s], <<>>)
    BY DEF Precedes
  <2>4. UpTo(<<>>, events)
    BY DEF UpTo
  <2> QED BY <1>1, <2>1, <2>2, <2>3, <2>4 DEF InOrder
<1>7. ASSUME NEW e \in 1..events
      PROVE  Kept(Renamed, <<>>, OverwrittenByRename, e)
  <2>1. Kept(backups, logFile, overwritten, e)
    BY <1>2 DEF AllKept
  <2>2. CASE Holds(logFile, e)
    BY <1>1, <2>2 DEF Kept
  <2>3. CASE e \in overwritten
    BY <2>3 DEF Kept, OverwrittenByRename
  <2>4. ASSUME NEW s \in D, Holds(backups[s], e)
        PROVE  Kept(Renamed, <<>>, OverwrittenByRename, e)
    <3>1. CASE s # now
      BY <1>1, <2>4, <3>1 DEF Kept
    <3>2. CASE s = now
      <4>1. e \in Range(backups[now])
        BY <1>2, <2>4, <3>2, HoldsIsRange
      <4> QED BY <2>4, <3>2, <4>1 DEF Kept, OverwrittenByRename, D
    <3> QED BY <3>1, <3>2
  <2>5. CASE Pushed(backups, e)
    <3>1. After(backups, e) \subseteq After(Renamed, e)
      <4> SUFFICES ASSUME NEW s \in D, backups[s][1] > e PROVE Renamed[s][1] > e
        BY <1>1 DEF After, D
      <4>1. CASE s # now
        BY <1>1, <4>1
      <4>2. CASE s = now
        <5>1. Precedes(backups[now], logFile) /\ 1 \in 1..Len(logFile)
              /\ 1 \in 1..Len(backups[now])
          BY <1>2, <1>5, <4>2
        <5>2. backups[now][1] < logFile[1]
          BY <5>1 DEF Precedes
        <5>3. backups[now][1] \in Int /\ logFile[1] \in Int /\ e \in Int
          BY <1>2, <4>2, <5>1
        <5> QED BY <1>1, <4>2, <5>2, <5>3
      <4> QED BY <4>1, <4>2
    <3>2. IsFiniteSet(After(Renamed, e))
      <4>1. After(Renamed, e) \subseteq 0..now
        BY <1>3 DEF After, Backups
      <4>2. IsFiniteSet(0..now)
        BY <1>2, FS_Interval
      <4> QED BY <4>1, <4>2, FS_Subset
    <3>3. Pushed(Renamed, e)
      <4>1. /\ IsFiniteSet(After(backups, e))
            /\ Cardinality(After(backups, e)) <= Cardinality(After(Renamed, e))
        BY <3>1, <3>2, FS_Subset
      <4>2. Cardinality(After(backups, e)) \in Nat /\ Cardinality(After(Renamed, e)) \in Nat
        BY <3>2, <4>1, FS_CardinalityType
      <4> QED BY <2>5, <4>1, <4>2, AuditConstants DEF Pushed
    <3> QED BY <3>3 DEF Kept
  <2> QED BY <2>1, <2>2, <2>3, <2>4, <2>5 DEF Kept, D
<1> QED BY <1>3, <1>6, <1>7 DEF AllKept

\* The names later than s that are left of D.
LaterLeft(D, removed, s) == {t \in D \ removed : t > s}

\* Behind any backup that a clean-up takes, MaxBackups later ones stay: the
\* newest of the excess names has that many names behind it, none of them in
\* excess (cleanupLocked removes the first of the sorted names).
LEMMA NewestStay ==
    ASSUME NEW n \in Nat, NEW D \in SUBSET (0..n), NEW names \in SUBSET D,
           NEW removed \in SUBSET Excess(names), NEW s \in removed
    PROVE  Cardinality(LaterLeft(D, removed, s)) >= MaxBackups
<1> DEFINE X == Excess(names)
           Back == {n - x : x \in X}
           Behind(x) == {t \in names : t > x}
           Left == LaterLeft(D, removed, s)
<1>1. X \subseteq names /\ X \subseteq 0..n /\ s \in X
  BY DEF Excess
<1>2. \A x \in X : Cardinality(Behind(x)) >= MaxBackups
  BY DEF Excess
<1>3. \A x \in names : Cardinality(Behind(x)) >= MaxBackups => x \in X
  BY DEF Excess
<1> HIDE DEF X
<1>4. Back \in SUBSET Nat /\ Back # {}
  <2>1. \A x \in X : n - x \in Nat
    BY <1>1
  <2> QED BY <1>1, <2>1
<1>5. PICK m \in Back : \A y \in Back : m <= y
  BY <1>4, LeastOf
<1>6. PICK x \in X : m = n - x
  BY <1>5
<1>7. \A y \in X : y <= x
  <2>1. \A y \in X : n - x <= n - y
    BY <1>5, <1>6
  <2>2. \A y \in X : y \in Int /\ x \in Int
    BY <1>1
  <2> QED BY <2>1, <2>2
<1>8. Behind(x) \subseteq Left
  <2> SUFFICES ASSUME NEW t \in names, t > x PROVE t \in D \ removed /\ t > s
    BY DEF LaterLeft
  <2>1. t \in Int /\ x \in Int /\ s \in Int /\ s <= x
    BY <1>1, <1>6, <1>7
  <2>2. t \notin X
    BY <1>7, <2>1
  <2> QED BY <2>1, <2>2 DEF X
<1>9. IsFiniteSet(Left)
  <2>1. Left \subseteq 0..n
    BY DEF LaterLeft
  <2>2. IsFiniteSet(0..n)
    BY FS_Interval
  <2> QED BY <2>1, <2>2, FS_Subset
<1>10. Cardinality(Behind(x)) >= MaxBackups
  BY <1>2
<1> HIDE DEF Behind, Left
<1>11. /\ IsFiniteSet(Behind(x))
       /\ Cardinality(Behind(x)) <= Cardinality(Left)
  BY <1>8, <1>9, FS_Subset
<1>12. Cardinality(Behind(x)) \in Nat /\ Cardinality(Left) \in Nat
  BY <1>9, <1>11, FS_CardinalityType
<1>13. Cardinality(Left) >= MaxBackups
  BY <1>10, <1>11, <1>12, AuditConstants
<1> QED BY <1>13 DEF Left

\* A clean-up takes no event away that has not MaxBackups backups of later
\* events.
LEMMA CleanupKeeps ==
    ASSUME NEW dir, NEW n \in Nat, NEW over, NEW ev \in Nat,
           Backups(dir, n), InOrder(dir, <<>>, ev), AllKept(dir, <<>>, over, ev),
           NEW left \in cleanupBackups(dir)
    PROVE  Backups(left, n) /\ InOrder(left, <<>>, ev) /\ AllKept(left, <<>>, over, ev)
<1> DEFINE D == DOMAIN dir
<1>0. PICK names \in SUBSET D :
         \E gone \in SUBSET Excess(names) : left = Restrict(dir, D \ gone)
  BY DEF cleanupBackups
<1>1. PICK removed \in SUBSET Excess(names) : left = Restrict(dir, D \ removed)
  BY <1>0
<1>2. DOMAIN left = D \ removed /\ \A s \in D \ removed : left[s] = dir[s]
  BY <1>1 DEF Restrict
<1>3. D \subseteq 0..n /\ \A s \in D : dir[s] \in Seq(Nat) /\ dir[s] # <<>>
  BY DEF Backups
<1>4. /\ \A s, t \in D : s < t => Precedes(dir[s], dir[t])
      /\ \A s \in D : Precedes(dir[s], <<>>) /\ UpTo(dir[s], ev)
      /\ UpTo(<<>>, ev)
  BY DEF InOrder
<1>5. removed \subseteq D
  BY <1>1 DEF Excess
<1> HIDE DEF D
<1>6. Backups(left, n)
  BY <1>2, <1>3 DEF Backups
<1>7. InOrder(left, <<>>, ev)
  BY <1>2, <1>4 DEF InOrder
<1>8. ASSUME NEW e \in 1..ev, NEW s \in removed, NEW i \in 1..Len(dir[s]), e <= dir[s][i]
      PROVE  Pushed(left, e)
  <2> DEFINE Later == LaterLeft(D, removed, s)
  <2>1. Cardinality(Later) >= MaxBackups
    BY <1>1, <1>3, NewestStay
  <2>2. Later \subseteq After(left, e)
    <3> SUFFICES ASSUME NEW t \in D \ removed, t > s PROVE left[t][1] > e
      BY <1>2 DEF After, LaterLeft
    <3>1. s \in D /\ t \in Int /\ s \in Int /\ s < t
      BY <1>3, <1>5
    <3>2. Precedes(dir[s], dir[t]) /\ 1 \in 1..Len(dir[t])
      BY <1>3, <1>4, <3>1
    <3>3. dir[s][i] < dir[t][1]
      BY <1>8, <3>2 DEF Precedes
    <3>4. dir[s] \in Seq(Nat) /\ dir[t] \in Seq(Nat)
      BY <1>3, <3>1
    <3>5. dir[s][i] \in Nat /\ dir[t][1] \in Nat
      BY <3>2, <3>4, ElementOfSeq
    <3>6. dir[t][1] > e
      BY <1>8, <3>3, <3>5
    <3> QED BY <1>2, <3>6
  <2>3. IsFiniteSet(After(left, e))
    <3>1. After(left, e) \subseteq 0..n
      BY <1>2, <1>3 DEF After
    <3>2. IsFiniteSet(0..n)
      BY FS_Interval
    <3> QED BY <3>1, <3>2, FS_Subset
  <2> HIDE DEF Later
  <2>4. IsFiniteSet(Later) /\ Cardinality(Later) <= Cardinality(After(left, e))
    BY <2>2, <2>3, FS_Subset
  <2>5. Cardinality(Later) \in Nat /\ Cardinality(After(left, e)) \in Nat
    BY <2>3, <2>4, FS_CardinalityType
  <2> QED BY <2>1, <2>4, <2>5, AuditConstants DEF Pushed
<1>9. ASSUME NEW e \in 1..ev PROVE Kept(left, <<>>, over, e)
  <2>1. Kept(dir, <<>>, over, e)
    BY DEF AllKept
  <2>2. CASE Holds(<<>>, e) \/ e \in over
    BY <2>2 DEF Kept
  <2>3. ASSUME NEW s \in D, Holds(dir[s], e) PROVE Kept(left, <<>>, over, e)
    <3>1. CASE s \notin removed
      BY <1>2, <2>3, <3>1 DEF Kept
    <3>2. CASE s \in removed
      <4>1. PICK i \in 1..Len(dir[s]) : dir[s][i] = e
        BY <2>3 DEF Holds
      <4>2. e <= dir[s][i]
        BY <4>1
      <4> QED BY <1>8, <3>2, <4>2 DEF Kept
    <3> QED BY <3>1, <3>2
  <2>4. ASSUME Pushed(dir, e) PROVE Kept(left, <<>>, over, e)
    <3>1. CASE \A s \in removed : ~(dir[s][1] > e)
      <4>1. After(left, e) = After(dir, e)
        BY <1>2, <1>5, <3>1 DEF After, D
      <4> QED BY <2>4, <4>1 DEF Kept, Pushed
    <3>2. ASSUME NEW s \in removed, dir[s][1] > e PROVE Kept(left, <<>>, over, e)
      <4>0. dir[s] \in Seq(Nat) /\ dir[s] # <<>>
        BY <1>3, <1>5
      <4>1. 1 \in 1..Len(dir[s]) /\ dir[s][1] \in Int /\ e \in Int
        BY <4>0
      <4>2. e <= dir[s][1]
        BY <3>2, <4>1
      <4> QED BY <1>8, <4>1, <4>2 DEF Kept
    <3> QED BY <3>1, <3>2
  <2> QED BY <2>1, <2>2, <2>3, <2>4 DEF Kept, D
<1> QED BY <1>6, <1>7, <1>9 DEF AllKept

\* An event goes to the end of the log, or its write fails and leaves it.
LEMMA EncodeKeeps ==
    ASSUME NEW dir, NEW n, Backups(dir, n), NEW log \in Seq(Nat), NEW over,
           NEW cut, NEW size, size = Len(log), events \in Nat,
           InOrder(dir, log, events), AllKept(dir, log, over, events),
           Encode(log, cut, size)
    PROVE  /\ events' \in Nat /\ logFile' \in Seq(Nat) /\ logSize' = Len(logFile')
           /\ InOrder(dir, logFile', events') /\ AllKept(dir, logFile', over, events')
<1>1. CASE logFile' = log /\ logSize' = size /\ UNCHANGED events
  BY <1>1
<1>2. CASE /\ events' = events + 1 /\ logFile' = Append(log, events + 1)
           /\ logSize' = size + 1
  <2>1. PICK k \in Nat : k = Len(log)
    OBVIOUS
  <2>2. /\ logFile' \in Seq(Nat) /\ Len(logFile') = k + 1 /\ logFile'[k + 1] = events + 1
        /\ \A i \in 1..k : logFile'[i] = log[i]
    BY <1>2, <2>1
  <2>3. \A i \in 1..(k + 1) : i \in 1..k \/ i = k + 1
    BY <2>1
  <2>4. ASSUME NEW file \in Seq(Nat), UpTo(file, events)
        PROVE  UpTo(file, events')
    <3>1. \A i \in 1..Len(file) : file[i] \in Nat
      BY <2>4
    <3> QED BY <1>2, <2>4, <3>1 DEF UpTo
  <2>5. ASSUME NEW file \in Seq(Nat), UpTo(file, events), Precedes(file, log)
        PROVE  Precedes(file, logFile')
    <3> SUFFICES ASSUME NEW i \in 1..Len(file), NEW j \in 1..(k + 1)
                 PROVE  file[i] < logFile'[j]
      BY <2>2 DEF Precedes
    <3>1. file[i] \in Nat /\ file[i] <= events
      BY <2>5, ElementOfSeq DEF UpTo
    <3>2. CASE j \in 1..k
      BY <2>1, <2>2, <2>5, <3>2 DEF Precedes
    <3>3. CASE j = k + 1
      BY <2>2, <3>1, <3>3
    <3> QED BY <2>3, <3>2, <3>3
  <2>6. UpTo(logFile', events')
    <3>1. \A i \in 1..k : log[i] \in Nat /\ log[i] <= events
      BY <2>1, ElementOfSeq DEF InOrder, UpTo
    <3>2. \A i \in 1..(k + 1) : logFile'[i] <= events'
      BY <1>2, <2>2, <2>3, <3>1
    <3> QED BY <2>2, <3>2 DEF UpTo
  <2>7. InOrder(dir, logFile', events')
    <3>1. /\ \A s \in DOMAIN dir : /\ dir[s] \in Seq(Nat) /\ UpTo(dir[s], events)
                                  /\ Precedes(dir[s], log)
          /\ \A s, t \in DOMAIN dir : s < t => Precedes(dir[s], dir[t])
      BY DEF Backups, InOrder
    <3>2. \A s \in DOMAIN dir : UpTo(dir[s], events') /\ Precedes(dir[s], logFile')
      BY <2>4, <2>5, <3>1
    <3> QED BY <2>6, <3>1, <3>2 DEF InOrder
  <2>8. ASSUME NEW e \in 1..events' PROVE Kept(dir, logFile', over, e)
    <3>1. CASE e = events + 1
      <4>1. k + 1 \in 1..Len(logFile') /\ logFile'[k + 1] = e
        BY <2>2, <3>1
      <4> QED BY <4>1 DEF Kept, Holds
    <3>2. CASE e # events + 1
      <4>1. e \in 1..events
        BY <1>2, <3>2
      <4>2. Kept(dir, log, over, e)
        BY <4>1 DEF AllKept
      <4>3. ASSUME NEW i \in 1..k, log[i] = e PROVE Holds(logFile', e)
        <5>1. i \in 1..Len(logFile') /\ logFile'[i] = e
          BY <2>2, <4>3
        <5> QED BY <5>1 DEF Holds
      <4>4. Holds(log, e) => Holds(logFile', e)
        BY <2>1, <4>3 DEF Holds
      <4> QED BY <4>2, <4>4 DEF Kept
    <3> QED BY <3>1, <3>2
  <2> QED BY <1>2, <2>1, <2>2, <2>7, <2>8 DEF AllKept
<1> QED BY <1>1, <1>2 DEF Encode

\* An event is written behind part of a line only where an earlier process left
\* it, and the line ends with that event.
LEMMA EncodeGarbles ==
    ASSUME Garbling, NEW log, NEW cut, NEW size,
           cut => torn /\ ~encErr, Encode(log, cut, size), UNCHANGED auditRuns
    PROVE  Garbling'
<1>1. CASE encErr' = TRUE /\ UNCHANGED garbled
  BY <1>1 DEF Garbling
<1>2. CASE /\ garbled' = (IF cut THEN garbled \cup {events + 1} ELSE garbled)
           /\ torn' = FALSE
  <2>1. CASE ~cut
    BY <1>2, <2>1 DEF Garbling
  <2>2. CASE cut
    <3>1. /\ IsFiniteSet(garbled) /\ auditRuns \in Nat
          /\ Cardinality(garbled) + 1 < auditRuns
      BY <2>2 DEF Garbling
    <3>2. garbled' = garbled \cup {events + 1}
      BY <1>2, <2>2
    <3>3. /\ IsFiniteSet(garbled')
          /\ Cardinality(garbled') = Cardinality(garbled)
             \/ Cardinality(garbled') = Cardinality(garbled) + 1
      BY <3>1, <3>2, FS_AddElement
    <3>4. Cardinality(garbled) \in Nat
      BY <3>1, FS_CardinalityType
    <3>5. Cardinality(garbled') < auditRuns'
      BY <3>1, <3>3, <3>4
    <3> QED BY <1>2, <3>1, <3>3, <3>5 DEF Garbling
  <2> QED BY <2>1, <2>2
<1> QED BY <1>1, <1>2 DEF Encode

LEMMA AuditKeeps == AuditInv /\ [AuditNext]_<<auditVars, now>> => AuditInv'
<1> SUFFICES ASSUME AuditInv, [AuditNext]_<<auditVars, now>> PROVE AuditInv'
  OBVIOUS
<1>0. /\ now \in Nat /\ events \in Nat /\ logFile \in Seq(Nat)
      /\ fdOpen => logSize = Len(logFile)
      /\ Backups(backups, now) /\ InOrder(backups, logFile, events)
      /\ AllKept(backups, logFile, overwritten, events)
      /\ Garbling
  BY DEF AuditInv
<1>1. fdOpen /\ MustRotateLog => logFile # <<>>
  BY <1>0, AuditConstants DEF MustRotateLog
<1>2. ASSUME Log, UNCHANGED now PROVE AuditInv'
  <2>1. /\ fdOpen /\ ~encErr /\ Encode(logFile, torn, logSize)
        /\ UNCHANGED <<backups, fdOpen, overwritten, auditRuns>>
    BY <1>2 DEF Log
  <2>2. /\ events' \in Nat /\ logFile' \in Seq(Nat) /\ logSize' = Len(logFile')
        /\ InOrder(backups, logFile', events')
        /\ AllKept(backups, logFile', overwritten, events')
    BY <1>0, <2>1, EncodeKeeps
  <2>3. Garbling'
    BY <1>0, <2>1, EncodeGarbles
  <2> QED BY <1>0, <1>2, <2>1, <2>2, <2>3 DEF AuditInv
<1>3. ASSUME RotateAndLog, UNCHANGED now PROVE AuditInv'
  <2>1. /\ fdOpen /\ MustRotateLog /\ Encode(<<>>, FALSE, 0)
        /\ UNCHANGED <<fdOpen, auditRuns>>
        /\ backups' \in cleanupBackups(Renamed)
        /\ overwritten' = OverwrittenByRename
    BY <1>3 DEF RotateAndLog
  <2>2. /\ Backups(Renamed, now) /\ InOrder(Renamed, <<>>, events)
        /\ AllKept(Renamed, <<>>, OverwrittenByRename, events)
    BY <1>1, <2>1, RenameKeeps
  <2>3. /\ Backups(backups', now) /\ InOrder(backups', <<>>, events)
        /\ AllKept(backups', <<>>, overwritten', events)
    BY <1>0, <2>1, <2>2, CleanupKeeps
  <2>4. <<>> \in Seq(Nat) /\ 0 = Len(<<>>)
    OBVIOUS
  <2>5. /\ events' \in Nat /\ logFile' \in Seq(Nat) /\ logSize' = Len(logFile')
        /\ InOrder(backups', logFile', events')
        /\ AllKept(backups', logFile', overwritten', events')
    BY <1>0, <2>1, <2>3, <2>4, EncodeKeeps
  <2>6. Garbling'
    BY <1>0, <2>1, EncodeGarbles
  <2> QED BY <1>0, <1>3, <2>1, <2>3, <2>5, <2>6 DEF AuditInv
<1>4. ASSUME NEW at \in {"rename", "open"}, RotationFails(at), UNCHANGED now
      PROVE  AuditInv'
  <2>1. /\ fdOpen /\ MustRotateLog /\ fdOpen' = FALSE
        /\ UNCHANGED <<encErr, events, garbled, auditRuns>>
    BY <1>4 DEF RotationFails
  <2>2. CASE UNCHANGED <<logFile, torn, backups, overwritten>>
    <3>1. Garbling'
      BY <1>0, <2>1, <2>2 DEF Garbling
    <3> QED BY <1>0, <1>4, <2>1, <2>2, <3>1 DEF AuditInv
  <2>3. CASE /\ backups' = Renamed /\ logFile' = <<>> /\ torn' = FALSE
             /\ overwritten' = OverwrittenByRename
    <3>1. /\ Backups(Renamed, now) /\ InOrder(Renamed, <<>>, events)
          /\ AllKept(Renamed, <<>>, OverwrittenByRename, events)
      BY <1>1, <2>1, RenameKeeps
    <3>2. logFile' \in Seq(Nat)
      BY <2>3
    <3>3. Garbling'
      BY <1>0, <2>1, <2>3 DEF Garbling
    <3> QED BY <1>0, <1>4, <2>1, <2>3, <3>1, <3>2, <3>3 DEF AuditInv
  <2> QED BY <1>4, <2>2, <2>3 DEF RotationFails
<1>5. ASSUME AuditClose, UNCHANGED now PROVE AuditInv'
  <2>1. /\ fdOpen' = FALSE
        /\ UNCHANGED <<logFile, torn, backups, encErr, events, garbled, overwritten, auditRuns>>
    BY <1>5 DEF AuditClose
  <2>2. Garbling'
    BY <1>0, <2>1 DEF Garbling
  <2> QED BY <1>0, <1>5, <2>1, <2>2 DEF AuditInv
<1>6. ASSUME AuditRestart, UNCHANGED now PROVE AuditInv'
  <2>1. /\ logSize' = Len(logFile) /\ auditRuns' = auditRuns + 1
        /\ UNCHANGED <<logFile, backups, events, garbled, overwritten>>
    BY <1>6 DEF AuditRestart
  <2>2. Garbling'
    <3>1. Cardinality(garbled) \in Nat
      BY <1>0, FS_CardinalityType DEF Garbling
    <3> QED BY <1>0, <2>1, <3>1 DEF Garbling
  <2> QED BY <1>0, <1>6, <2>1, <2>2 DEF AuditInv
<1>7. ASSUME Tick, UNCHANGED auditVars PROVE AuditInv'
  <2>1. /\ now' = now + 1 /\ now' \in Nat
        /\ UNCHANGED <<logFile, backups, fdOpen, logSize, events, overwritten>>
        /\ UNCHANGED <<torn, encErr, garbled, auditRuns>>
    BY <1>0, <1>7 DEF Tick, auditVars
  <2>2. Backups(backups, now')
    <3>1. 0..now \subseteq 0..now'
      BY <1>0, <2>1
    <3> QED BY <1>0, <3>1 DEF Backups
  <2>3. Garbling'
    BY <1>0, <2>1 DEF Garbling
  <2> QED BY <1>0, <2>1, <2>2, <2>3 DEF AuditInv
<1>8. CASE UNCHANGED <<auditVars, now>>
  <2>1. /\ UNCHANGED <<now, logFile, backups, fdOpen, logSize, events, overwritten>>
        /\ UNCHANGED <<torn, encErr, garbled, auditRuns>>
    BY <1>8 DEF auditVars
  <2>2. Garbling'
    BY <1>0, <2>1 DEF Garbling
  <2> QED BY <1>0, <2>1, <2>2 DEF AuditInv
<1> QED BY <1>2, <1>3, <1>4, <1>5, <1>6, <1>7, <1>8 DEF AuditNext

LEMMA AuditStarts == AuditInit /\ now = 0 => AuditInv
<1> SUFFICES ASSUME AuditInit, now = 0 PROVE AuditInv
  OBVIOUS
<1>1. /\ logFile = <<>> /\ DOMAIN backups = {} /\ logSize = 0 /\ events = 0
      /\ Len(logFile) = 0 /\ logFile \in Seq(Nat)
      /\ torn = FALSE /\ garbled = {} /\ auditRuns = 1
  BY DEF AuditInit
<1>2. Backups(backups, now) /\ InOrder(backups, logFile, events)
  BY <1>1 DEF Backups, InOrder, UpTo
<1>3. AllKept(backups, logFile, overwritten, events)
  BY <1>1 DEF AllKept
<1>4. Garbling
  BY <1>1, FS_EmptySet DEF Garbling
<1> QED BY <1>1, <1>2, <1>3, <1>4 DEF AuditInv

\* An acknowledged event is in the log or in a backup unless MaxBackups backups of
\* later events are there or a rotation in the same second took the name of its
\* backup, the files follow each other in the order of their names, and at most one
\* event per restart is behind part of a line: for every size, every number of
\* backups and any sequence of failed writes, rotations that stop half-way,
\* clean-ups that see or remove only some names, and restarts (Log, rotateLocked,
\* cleanupLocked, NewLogger).
THEOREM AuditAcknowledgedKept == AuditSpec => []AcknowledgedKept
BY AuditStarts, AuditKeeps, InvSaysKept, PTL DEF AuditSpec

=============================================================================
