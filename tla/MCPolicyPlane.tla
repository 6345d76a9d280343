--------------------------- MODULE MCPolicyPlane ----------------------------
(***************************************************************************)
(* Two policies that load and one that does not, in etcd and in the file.     *)
(***************************************************************************)
EXTENDS PolicyPlane

MCLoadable == {"A", "B"}
MCContents == {"A", "B", "broken", ""}

=============================================================================
