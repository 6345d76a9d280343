----------------------------- MODULE ThreatIntel -----------------------------
(***************************************************************************)
(* The threat-intelligence block list and its refresher                    *)
(* (src/internal/threatintel/threatintel.go, src/cmd/server/main.go).      *)
(*                                                                         *)
(* A feed line is a member of DOMAIN hostOf (an exact address, in any of   *)
(* its spellings), of DOMAIN netOf (a CIDR, in any of its spellings) or    *)
(* something that Add ignores.  Blank lines, comments and lines beyond     *)
(* maxFeedLineSize never reach Add and are not steps.  The lines of a      *)
(* response are chosen as they are read.                                   *)
(*                                                                         *)
(* main fetches every feed once and then starts the refresher, which       *)
(* fetches them all at every tick.  main trims the URLs it fetches itself  *)
(* and hands the untrimmed ones to the refresher: a URL written after      *)
(* ", " (SpacedFeeds) does not parse there.  Remove may be called at any   *)
(* time.                                                                   *)
(***************************************************************************)
EXTENDS Integers, Sequences, FiniteSets, Functions

CONSTANTS
    Hosts,            \* canonical addresses
    hostOf,           \* line -> the canonical address it names
    netOf,            \* line -> the canonical network it names
    netHosts,         \* network -> the addresses it contains
    Junk,             \* lines that parse as neither
    Feeds,            \* the feeds in the order of --threat-intel-url
    SpacedFeeds,      \* feeds whose URL carries a blank in that list
    maxBlocklistEntries, maxCIDRNetworks,
    MaxLines          \* bound: lines of one response

ASSUME ThreatIntelConstants ==
    /\ DOMAIN hostOf \cap DOMAIN netOf = {}
    /\ \A l \in DOMAIN hostOf : hostOf[l] \in Hosts
    /\ \A l \in DOMAIN netOf : netHosts[netOf[l]] \subseteq Hosts
    /\ SpacedFeeds \subseteq Range(Feeds)
    /\ {maxBlocklistEntries, maxCIDRNetworks, MaxLines} \subseteq Nat

Lines == DOMAIN hostOf \cup DOMAIN netOf \cup Junk

VARIABLES
    ips, nets, netKeys,  \* Blocklist.ips, .nets, .netKeys
    booting,             \* main has not started the refresher yet
    queue,               \* feeds this round has still to fetch
    linesLeft,           \* lines left of the response being read, -1 for none
    offered,             \* history: entries this response offered and nobody
                         \* removed since
    refused,             \* history: those of them that met a full list
    asked                \* history: the feeds asked in this round

intelVars == <<ips, nets, netKeys, booting, queue, linesLeft, offered, refused, asked>>

IntelInit ==
    /\ ips = {} /\ nets = <<>> /\ netKeys = {}
    /\ booting = TRUE /\ queue = Feeds /\ linesLeft = -1
    /\ offered = {} /\ refused = {} /\ asked = {}

Entry(l) == IF l \in DOMAIN hostOf THEN <<"ip", hostOf[l]>> ELSE <<"net", netOf[l]>>

Listed(e) == \/ e[1] = "ip" /\ e[2] \in ips
             \/ e[1] = "net" /\ e[2] \in Range(nets)

\* Blocklist.Contains: a packet from h is blocked.
Blocks(h) == h \in ips \/ \E i \in DOMAIN nets : h \in netHosts[nets[i]]

-----------------------------------------------------------------------------
HasRoom == Cardinality(ips) + Len(nets) < maxBlocklistEntries

\* Mutant: networks already listed are appended again.
IsNetWithoutDedup(l) == l \in DOMAIN netOf

IsNewNet(l) == l \in DOMAIN netOf /\ netOf[l] \notin netKeys

Add(l) ==
    LET addIP == HasRoom /\ l \in DOMAIN hostOf
        addNet == HasRoom /\ IsNewNet(l) /\ Len(nets) < maxCIDRNetworks
    IN /\ ips' = IF addIP THEN ips \cup {hostOf[l]} ELSE ips
       /\ nets' = IF addNet THEN Append(nets, netOf[l]) ELSE nets
       /\ netKeys' = IF addNet THEN netKeys \cup {netOf[l]} ELSE netKeys

\* Blocklist.Remove: the first entry for a network goes from nets together with
\* its key.
RemoveEntry(l) ==
    /\ \/ l \in DOMAIN hostOf /\ ips' = ips \ {hostOf[l]} /\ UNCHANGED <<nets, netKeys>>
       \/ \E i \in DOMAIN nets :
             /\ l \in DOMAIN netOf /\ nets[i] = netOf[l]
             /\ \A j \in 1..(i - 1) : nets[j] # netOf[l]
             /\ nets' = SubSeq(nets, 1, i - 1) \o SubSeq(nets, i + 1, Len(nets))
             /\ netKeys' = netKeys \ {netOf[l]}
             /\ UNCHANGED ips
    /\ offered' = offered \ {Entry(l)}
    /\ UNCHANGED <<booting, queue, linesLeft, refused, asked>>

-----------------------------------------------------------------------------
Idle == linesLeft = -1

\* Mutant: a response first empties the list it is about to fill.
FetchBeginsByClearing ==
    /\ Idle /\ queue # <<>>
    /\ booting \/ Head(queue) \notin SpacedFeeds
    /\ asked' = asked \cup {Head(queue)} /\ queue' = Tail(queue)
    /\ linesLeft' = MaxLines
    /\ ips' = {} /\ nets' = <<>> /\ netKeys' = {}
    /\ offered' = {} /\ refused' = {}
    /\ UNCHANGED booting

\* The request for the next feed is answered with a success status.
FetchBegins ==
    /\ Idle /\ queue # <<>>
    /\ booting \/ Head(queue) \notin SpacedFeeds
    /\ asked' = asked \cup {Head(queue)} /\ queue' = Tail(queue)
    /\ linesLeft' = MaxLines
    /\ offered' = {} /\ refused' = {}
    /\ UNCHANGED <<ips, nets, netKeys, booting>>

\* The feed to which client.Get sends a request, if its URL parses.
Sent == IF booting \/ Head(queue) \notin SpacedFeeds THEN {Head(queue)} ELSE {}

\* Mutant: a failure gives up the rest of the round.
FetchFailsRound ==
    /\ Idle /\ queue # <<>>
    /\ asked' = asked \cup Sent /\ queue' = <<>>
    /\ UNCHANGED <<ips, nets, netKeys, booting, linesLeft, offered, refused>>

\* It is not: an error, a timeout, a redirect or an error status.  For a URL that
\* does not parse the error comes before any request is sent.
FetchFails ==
    /\ Idle /\ queue # <<>>
    /\ asked' = asked \cup Sent /\ queue' = Tail(queue)
    /\ UNCHANGED <<ips, nets, netKeys, booting, linesLeft, offered, refused>>

\* What a full list is, counted in distinct entries.
FullFor(l) ==
    LET distinct == Cardinality(Range(nets)) IN
    \/ Cardinality(ips) + distinct >= maxBlocklistEntries
    \/ l \in DOMAIN netOf /\ distinct >= maxCIDRNetworks

parseLine(l) ==
    /\ linesLeft > 0 /\ linesLeft' = linesLeft - 1
    /\ Add(l)
    /\ offered' = IF l \in Junk THEN offered ELSE offered \cup {Entry(l)}
    /\ refused' = IF l \notin Junk /\ FullFor(l) THEN refused \cup {Entry(l)} ELSE refused
    /\ UNCHANGED <<booting, queue, asked>>

\* End of the response, or an error in the middle of it.
FetchEnds ==
    /\ ~Idle /\ linesLeft' = -1
    /\ UNCHANGED <<ips, nets, netKeys, booting, queue, offered, refused, asked>>

StartRefresher ==
    /\ booting /\ Idle /\ queue = <<>>
    /\ booting' = FALSE
    /\ UNCHANGED <<ips, nets, netKeys, queue, linesLeft, offered, refused, asked>>

RefreshTick ==
    /\ ~booting /\ Idle /\ queue = <<>>
    /\ queue' = Feeds /\ asked' = {}
    /\ UNCHANGED <<ips, nets, netKeys, booting, linesLeft, offered, refused>>

IntelNext ==
    \/ \E l \in Lines : parseLine(l)
    \/ \E l \in Lines \ Junk : RemoveEntry(l)
    \/ FetchBegins \/ FetchFails \/ FetchEnds
    \/ StartRefresher \/ RefreshTick

IntelSpec == IntelInit /\ [][IntelNext]_intelVars

-----------------------------------------------------------------------------
\* What a response has offered so far and nobody removed is on the list,
\* unless the list was full of distinct entries when it was offered:
\* repeated networks and other spellings of them use up no room, and an
\* entry that was removed can come back (threatintel.go:74-81, 164).
NewThreatsListed == \A e \in offered \ refused : Listed(e)

\* A source that is blocked stays blocked until an operator removes an
\* entry: no refresh, failed fetch or half-read response opens a window
\* (threatintel.go:75, "old entries are never cleared").
BlocksPersist ==
    [][\/ \E l \in Lines \ Junk : RemoveEntry(l)
       \/ \A h \in Hosts : Blocks(h) => Blocks(h)']_intelVars

=============================================================================
