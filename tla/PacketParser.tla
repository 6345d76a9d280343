---------------------------- MODULE PacketParser -----------------------------
(***************************************************************************)
(* Where the parser finds the transport header of a packet, and whether it *)
(* reports its fields (src/internal/packet/parser.go).                     *)
(*                                                                         *)
(* A packet is its length and the bytes the parser looks at.  Those bytes  *)
(* are chosen when they are read: each is read once.  HopByHop stands for  *)
(* the three extension headers with a length field (hop-by-hop, routing,   *)
(* destination options).  Addresses, MACs and the values of ports, flags   *)
(* and ICMP types are left out: `report` says whether they were read off   *)
(* the wire.  Each turn of the loop in walkIPv6HeaderChain is a step.          *)
(***************************************************************************)
EXTENDS Integers

CONSTANTS
    Lengths,          \* packet lengths in bytes
    IHLs,             \* values of the IPv4 header-length field
    ExtLens           \* values of an extension header's length field

ASSUME ParserConstants == Lengths \cup IHLs \cup ExtLens \subseteq Nat

extHeaderTypes == {"HopByHop", "Fragment"}
MinHeader == [TCP |-> 20, UDP |-> 8, ICMP |-> 4]
Protocols == extHeaderTypes \cup DOMAIN MinHeader \cup {"other"}

ipv4HeaderLen == 20
ipv6HeaderLen == 40
ipv6FragmentHeaderLen == 8

NoFragment == [more |-> FALSE, offset |-> 0]

VARIABLES
    stage,            \* "idle", "walk" (inside walkIPv6HeaderChain), "done"
    pktLen,           \* len(raw)
    off, proto,       \* the walk's position and the protocol expected there
    fragment,         \* FragmentInfo
    report,           \* what is reported of the transport header: "fields"
                      \* (ports and flags, or type and code), "incomplete"
                      \* (FragmentInfo.L4Incomplete, which leaves the fields
                      \* zero) or "none"
    readEnd,          \* history: one past the last byte read
    wire              \* history: what the headers read so far say by RFC 791
                      \* and RFC 8200: the IP version, where they end, and at
                      \* which offset of its datagram the packet continues it

parserVars == <<stage, pktLen, off, proto, fragment, report, readEnd, wire>>

NoHeaders == [version |-> 0, end |-> 0, offset |-> 0]

ParserInit ==
    /\ stage = "idle" /\ pktLen = 0 /\ off = 0 /\ proto = "other"
    /\ fragment = NoFragment /\ report = "none"
    /\ readEnd = 0 /\ wire = NoHeaders

Reads(end) == readEnd' = IF end > readEnd THEN end ELSE readEnd

-----------------------------------------------------------------------------
\* A transport header the policy judges starts at l4Off.
Expected(l4Off, p, len) == l4Off >= 0 /\ p \in DOMAIN MinHeader

\* populateL4FromBytes: l4Off is -1 when no transport header is on the wire.
populateL4FromBytes(l4Off, p, len) ==
    LET expected == Expected(l4Off, p, len)
        fits == expected /\ l4Off + MinHeader[p] <= len
    IN /\ stage' = "done"
       /\ report' = CASE fits               -> "fields"
                      [] expected /\ ~fits -> "incomplete"
                      [] ~expected         -> "none"
       /\ IF fits THEN Reads(l4Off + MinHeader[p]) ELSE UNCHANGED readEnd

\* parseIPv4Packet, which looks at the fixed header only: gopacket decodes it.
\* Packets below the fixed header are refused: no step.
parseIPv4Packet(len, ihl, frag, p) ==
    LET l4Off == ihl * 4 IN
    /\ stage = "idle" /\ len >= ipv4HeaderLen
    /\ pktLen' = len /\ proto' = p /\ fragment' = frag /\ off' = l4Off
    /\ wire' = [version |-> 4, end |-> 4 * ihl, offset |-> frag.offset]
    /\ CASE frag.offset > 0 ->
               /\ stage' = "done" /\ report' = "none"
               /\ UNCHANGED readEnd
         [] frag.offset = 0 /\ l4Off < ipv4HeaderLen ->
               /\ stage' = "done" /\ report' = "incomplete"
               /\ UNCHANGED readEnd
         [] OTHER -> populateL4FromBytes(l4Off, p, len)

\* parseIPv6Packet up to the walk.
parseIPv6Packet(len, first) ==
    /\ stage = "idle" /\ len >= ipv6HeaderLen
    /\ stage' = "walk" /\ pktLen' = len /\ proto' = first /\ off' = ipv6HeaderLen
    /\ wire' = [NoHeaders EXCEPT !.version = 6, !.end = 40]
    /\ UNCHANGED <<fragment, report, readEnd>>

\* The walk returns without a transport header.
WalkStops(p) ==
    /\ proto' = p
    /\ stage' = "done" /\ report' = "none"
    /\ UNCHANGED <<pktLen, off>>

\* The protocol is no extension header.
WalkFindsL4 ==
    /\ stage = "walk" /\ proto \notin extHeaderTypes
    /\ populateL4FromBytes(IF off < pktLen THEN off ELSE -1, proto, pktLen)
    /\ UNCHANGED <<pktLen, off, proto, fragment, wire>>

\* The next header is not on the wire, or too little of it is.
WalkTruncated ==
    /\ stage = "walk" /\ proto \in extHeaderTypes
    /\ \/ off >= pktLen /\ UNCHANGED readEnd
       \/ /\ off < pktLen /\ Reads(off + 1)
          /\ \/ proto = "Fragment" /\ off + ipv6FragmentHeaderLen > pktLen
             \/ proto = "HopByHop" /\ off + 2 > pktLen
    /\ WalkStops(proto)
    /\ UNCHANGED <<fragment, wire>>

FragmentFits == off + ipv6FragmentHeaderLen <= pktLen

\* Mutant: one byte of the header is enough.
ExtensionFitsLoosely == off + 1 <= pktLen

ExtensionFits == off + 2 <= pktLen

\* Mutant: what follows any fragment header is read on.
ReadsOn(frag) == TRUE

\* Only a first fragment carries a transport header.
CarriesHeader(frag) == frag.offset = 0

WalkFragment(next, frag) ==
    /\ stage = "walk" /\ proto = "Fragment" /\ off < pktLen /\ FragmentFits
    /\ Reads(off + 4)
    /\ fragment' = frag
    /\ wire' = [wire EXCEPT !.end = @ + 8, !.offset = frag.offset]
    /\ \/ ~CarriesHeader(frag) /\ WalkStops(next)
       \/ /\ CarriesHeader(frag)
          /\ proto' = next /\ off' = off + ipv6FragmentHeaderLen
          /\ UNCHANGED <<stage, pktLen, report>>

WalkExtension(next, extLen) ==
    /\ stage = "walk" /\ proto = "HopByHop" /\ off < pktLen /\ ExtensionFits
    /\ Reads(off + 2)
    /\ wire' = [wire EXCEPT !.end = @ + 8 + 8 * extLen]
    /\ proto' = next /\ off' = off + (extLen + 1) * 8
    /\ UNCHANGED <<stage, pktLen, fragment, report>>

Fragments == [more : BOOLEAN, offset : {0, 1}]

ParserNext ==
    \/ \E len \in Lengths, ihl \in IHLs, frag \in Fragments, p \in Protocols :
          parseIPv4Packet(len, ihl, frag, p)
    \/ \E len \in Lengths, p \in Protocols : parseIPv6Packet(len, p)
    \/ WalkFindsL4 \/ WalkTruncated
    \/ \E p \in Protocols :
          \/ \E frag \in Fragments : WalkFragment(p, frag)
          \/ \E extLen \in ExtLens : WalkExtension(p, extLen)

ParserSpec == ParserInit /\ [][ParserNext]_parserVars

-----------------------------------------------------------------------------
\* No byte beyond the packet is read, whatever lengths its headers declare:
\* a slice out of range would panic in the packet goroutine
\* (parser.go:246, 257, 280, 317).
ReadsInBounds == readEnd <= pktLen

\* The IPv4 header is at least as long as its fixed part.
WellFormed == wire.version = 4 => wire.end >= ipv4HeaderLen

\* The packet is a whole one or a first fragment, its headers are well
\* formed, and the protocol after them is one whose header the policy judges.
TransportExpected ==
    WellFormed /\ wire.offset = 0 /\ proto \in DOMAIN MinHeader

TransportOnWire == TransportExpected /\ wire.end + MinHeader[proto] <= pktLen

\* Ports, flags and ICMP types are reported exactly when the whole transport
\* header is on the wire, where the destination finds it: never from the
\* middle of a fragmented datagram, from inside the IP header or from an
\* extension header (parser.go:131, 140, 267, 301).  A header that is expected
\* and cut short is marked for the policy instead, and nothing else is, except
\* a malformed IPv4 header.  An IPv6 packet that ends with its extension
\* headers is not marked (parser.go:241, 310): see FirstFragmentMarked.
TransportReported ==
    stage = "done" =>
        /\ (report = "fields") <=> TransportOnWire
        /\ (report = "incomplete") <=>
              \/ ~WellFormed /\ wire.offset = 0
              \/ /\ TransportExpected /\ ~TransportOnWire
                 /\ wire.version = 4 \/ wire.end < pktLen

\* "A first fragment (offset 0) short of its protocol's minimum header size, at
\* either address family" is marked (FragmentInfo.L4Incomplete,
\* parser.go:25-27).
FirstFragmentMarked ==
    stage = "done" /\ fragment.more /\ TransportExpected /\ ~TransportOnWire =>
        report = "incomplete"

=============================================================================
