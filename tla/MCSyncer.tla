------------------------------ MODULE MCSyncer ------------------------------
(***************************************************************************)
(* A key with two policies that load, one that does not, an oversized and an  *)
(* empty value.                                                             *)
(***************************************************************************)
EXTENDS Syncer

MCLoadable == {"A", "B"}
MCOversized == {"big"}
MCContents == {"A", "B", "broken", "big", ""}

=============================================================================
