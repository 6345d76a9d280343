------------------------------- MODULE TcpFsm -------------------------------
(***************************************************************************)
(* The simplified TCP state machine of internal/conntrack/table.go: what   *)
(* UpdateTCPState does to the TCPState and Established fields of one flow   *)
(* when a segment with the given flags arrives.  Operators only.            *)
(*                                                                         *)
(* A flow is one direction of a connection: the key is the 5-tuple as it    *)
(* stands in the packet, so the two directions are two flows.               *)
(***************************************************************************)

\* The TCPState constants.
TCPStates ==
    {"SYN_SENT", "SYN_RECEIVED", "ESTABLISHED", "FIN_WAIT_1", "FIN_WAIT_2",
     "CLOSING", "TIME_WAIT", "CLOSE_WAIT", "CLOSED"}

\* The four flag bits the conntrack looks at.
TCPFlags == [syn : BOOLEAN, ack : BOOLEAN, rst : BOOLEAN, fin : BOOLEAN]

\* The arms of the switch, in their order: the first that matches is taken.
Segment(f) ==
    CASE f.rst                              -> "RST"
      [] ~f.rst /\ f.syn /\ f.ack /\ ~f.fin  -> "SYN_ACK"
      [] ~f.rst /\ f.syn /\ ~f.ack /\ ~f.fin -> "SYN"
      [] ~f.rst /\ f.fin /\ f.ack            -> "FIN_ACK"
      [] ~f.rst /\ f.fin /\ ~f.ack           -> "FIN"
      [] ~f.rst /\ ~f.syn /\ ~f.fin /\ f.ack -> "ACK"
      [] OTHER                              -> "NONE"

\* The state after the switch, from state s.
StateAfter(seg, s) ==
    CASE seg = "RST"                                     -> "CLOSED"
      [] seg \in {"SYN_ACK", "ACK"} /\ s = "SYN_SENT"     -> "ESTABLISHED"
      [] seg = "SYN" /\ s = "SYN_SENT"                    -> "SYN_RECEIVED"
      [] seg = "FIN_ACK" /\ s \in {"SYN_SENT", "SYN_RECEIVED", "ESTABLISHED"}
                                                         -> "FIN_WAIT_1"
      [] seg = "FIN" /\ s = "ESTABLISHED"                 -> "FIN_WAIT_1"
      [] seg \in {"FIN_ACK", "ACK"} /\ s = "FIN_WAIT_1"   -> "FIN_WAIT_2"
      [] seg = "FIN" /\ s = "FIN_WAIT_1"                  -> "CLOSING"
      [] seg = "FIN_ACK" /\ s = "FIN_WAIT_2"              -> "TIME_WAIT"
      [] seg = "ACK" /\ s = "CLOSING"                     -> "TIME_WAIT"
      [] seg = "ACK" /\ s = "TIME_WAIT"                   -> "CLOSED"
      [] seg = "FIN_ACK" /\ s = "CLOSE_WAIT"              -> "CLOSED"
      [] OTHER                                           -> s

\* Mutant: RST closes the flow and leaves the flag.
EstablishedAfterRst(seg, s, est) ==
    est \/ (seg \in {"SYN_ACK", "ACK"} /\ s = "SYN_SENT")

\* The arms that clear the flag are the ones that enter CLOSED; the two that
\* set it are the ones that enter ESTABLISHED.
EstablishedAfter(seg, s, est) ==
    \/ seg \in {"SYN_ACK", "ACK"} /\ s = "SYN_SENT"
    \/ /\ est
       /\ seg # "RST"
       /\ ~(seg = "ACK" /\ s = "TIME_WAIT")
       /\ ~(seg = "FIN_ACK" /\ s = "CLOSE_WAIT")

\* The block after the switch: a TCP flow whose first segment has none of SYN,
\* RST and FIN is put in SYN_RECEIVED whatever the switch did.
StartsMidStream(f) == ~f.syn /\ ~f.rst /\ ~f.fin

NewState(f) ==
    IF StartsMidStream(f) THEN "SYN_RECEIVED"
    ELSE StateAfter(Segment(f), "SYN_SENT")

\* How far a connection has come.  The state machine has no arc that goes back.
Rank(s) ==
    CASE s = "SYN_SENT"     -> 0
      [] s = "SYN_RECEIVED" -> 1
      [] s = "ESTABLISHED"  -> 2
      [] s = "FIN_WAIT_1"   -> 3
      [] s \in {"FIN_WAIT_2", "CLOSING", "CLOSE_WAIT"} -> 4
      [] s = "TIME_WAIT"    -> 5
      [] s = "CLOSED"       -> 6
=============================================================================
