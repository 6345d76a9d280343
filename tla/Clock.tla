-------------------------------- MODULE Clock --------------------------------
(***************************************************************************)
(* Wall-clock time as the packages around the packet path read it with     *)
(* time.Now(): a natural number that never goes back.  Each component      *)
(* names the length of one tick for itself.                                *)
(***************************************************************************)
EXTENDS Naturals

CONSTANT MaxTime      \* bound: the clock stops here

VARIABLE now

Tick == now < MaxTime /\ now' = now + 1

=============================================================================
