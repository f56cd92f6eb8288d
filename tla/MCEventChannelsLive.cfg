CONSTANTS
  s1 = s1
  s2 = s2
  Entities = {e}
  Contexts = {c}
  Sinks = {s1}
  DataTypes = {"int"}
  Bucket = 2
  MaxLog = 5
SPECIFICATION Spec
PROPERTIES
  KeepsPromises
  Answered
  Heard
CHECK_DEADLOCK FALSE
