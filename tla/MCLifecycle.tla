---------------------------- MODULE MCLifecycle -----------------------------
(***************************************************************************)
(* Two reasons for a block.  A file that does not exist, or whose encoding is *)
(* incomplete, is a model value, which no set of counters equals.            *)
(***************************************************************************)
EXTENDS Lifecycle

MCReasons == {"r1", "r2"}

=============================================================================
