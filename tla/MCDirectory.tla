---------------------------- MODULE MCDirectory ----------------------------
(* Instances of Directory for TLC. *)
EXTENDS Directory, TLC

CONSTANTS a, b, x

\* Any client: names up to two components long, for contexts and for entities alike.
AnyPaths == {<<>>, <<a>>, <<b>>, <<a, b>>, <<b, a>>}
AnyLinks == {<<a>>, <<b>>, <<a, b>>, <<b, a>>}
AnySymmetry == Permutations({a, b})

\* Careful clients name contexts a and b, entities x.
ContextPaths == {<<a>>, <<b>>, <<a, b>>}
EntityPaths == {<<x>>, <<a, x>>}
ContextLinks == {<<a, b>>, <<b, a>>}
EntityLinks == {<<a, x>>, <<b, x>>}
=============================================================================
