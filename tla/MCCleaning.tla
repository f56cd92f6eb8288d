----------------------------- MODULE MCCleaning -----------------------------
(***************************************************************************)
(* A root and two more contexts, enough for a context in a context, one    *)
(* with two names, and one that holds itself and stops the server when it  *)
(* is removed.                                                             *)
(***************************************************************************)
EXTENDS Cleaning
MCContexts == 0..2
=============================================================================
