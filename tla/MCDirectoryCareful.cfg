CONSTANTS
  a = a
  b = b
  x = x
  Names = {a, b, x}
  MaxId = 4
  CtxPaths <- ContextPaths
  EntPaths <- EntityPaths
  CtxLinks <- ContextLinks
  EntLinks <- EntityLinks
  Careful = TRUE
SPECIFICATION Spec
INVARIANT CarefulIsSafe
CHECK_DEADLOCK FALSE
