CONSTANTS
  s1 = s1
  s2 = s2
  Entities = {e}
  Contexts = {c}
  Sinks = {s1, s2}
  DataTypes = {"int"}
  Bucket = 2
  MaxLog = 5
SPECIFICATION Spec
SYMMETRY SinkSymmetry
INVARIANTS
  TypeOK
  SubscribersAreServed
  NoGap
  DataAfterCreation
PROPERTIES
  BucketsPassOn
CHECK_DEADLOCK FALSE
