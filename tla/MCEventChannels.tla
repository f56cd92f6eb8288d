-------------------------- MODULE MCEventChannels --------------------------
(* Instances of EventChannels for TLC. *)
EXTENDS EventChannels, TLC

CONSTANTS s1, s2

SinkSymmetry == Permutations({s1, s2})
=============================================================================
