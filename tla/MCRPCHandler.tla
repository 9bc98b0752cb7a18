---------------------------- MODULE MCRPCHandler ----------------------------
(***************************************************************************)
(* Small instances of RPCHandler for TLC.                                  *)
(***************************************************************************)
EXTENDS RPCHandler, TLC

\* Request ids are interchangeable: the handler only copies them.
RequestSymmetry == Permutations(ReqIds)
=============================================================================
