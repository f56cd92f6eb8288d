-------------------------- MODULE MCDomainRegistry -------------------------
(* Instances of DomainRegistry for TLC. *)
EXTENDS DomainRegistry, TLC

CONSTANTS s1, s2, c1, x, nul, any

Key(name, version) == [name |-> name, type |-> nul, version |-> version, app |-> any]

\* A plain key, and a nameless one that fits every name.
SomeKeys == {Key(x, 1), Key(nul, 1)}

ServerSymmetry == Permutations(Servers)
=============================================================================
