CONSTANTS
  a = a
  b = b
  x = x
  Names = {a, b}
  MaxId = 4
  CtxPaths <- AnyPaths
  EntPaths <- AnyPaths
  CtxLinks <- AnyLinks
  EntLinks <- AnyLinks
  Careful = FALSE
SPECIFICATION Spec
SYMMETRY AnySymmetry
INVARIANTS
  IInv
  ReferrersExact
  NoDanglingBinding
  NoBadErase
  LifeAnnounced
  WalkFollowsName
PROPERTIES
  RepliesMatchNames
  IdsNotReused
  IsNamespace
CHECK_DEADLOCK FALSE
