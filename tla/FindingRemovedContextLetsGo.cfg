CONSTANTS
  a = a
  b = b
  x = x
  Names = {a, b}
  MaxId = 4
  CtxPaths <- AnyPaths
  EntPaths <- AnyPaths
  CtxLinks <- AnyLinks
  EntLinks <- AnyLinks
  Careful = FALSE
SPECIFICATION Spec
INVARIANT RemovedContextLetsGo
CHECK_DEADLOCK FALSE
