--------------------------- MODULE MCPeerManager ---------------------------
(***************************************************************************)
(* Small instances of PeerManager for TLC.                                 *)
(***************************************************************************)
EXTENDS PeerManager, TLC

\* Peers are interchangeable: nothing orders them but their scores.
PeerSymmetry == Permutations(Peers)
=============================================================================
