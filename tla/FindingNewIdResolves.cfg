CONSTANTS
  s1 = s1
  s2 = s2
  c1 = c1
  x = x
  nul = nul
  any = any
  Servers = {s1, s2}
  Clients = {c1}
  Keys <- SomeKeys
  NullName = nul
  AnyName = any
  MaxNum = 4
  MaxRun = 2
SPECIFICATION Spec
PROPERTY NewIdResolves
CHECK_DEADLOCK FALSE
