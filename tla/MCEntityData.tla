--------------------------- MODULE MCEntityData ---------------------------
(* Instances of EntityData for TLC. *)
EXTENDS EntityData, TLC

CONSTANTS Writers   \* the other clients read, and set data

MCUses == [c \in Clients |->
  IF c \in Writers THEN {"create", "set", "set_attrs", "remove"}
                   ELSE {"get", "set", "get_attrs"}]

\* No step tells attributes apart.
Symmetry == Permutations(Atoms)
=============================================================================
