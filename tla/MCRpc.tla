------------------------------- MODULE MCRpc -------------------------------
(***************************************************************************)
(* Every function of the agent library, every branch of every handler, and *)
(* servers that stop: the model has no bounds to choose.                   *)
(***************************************************************************)
EXTENDS Rpc
=============================================================================
