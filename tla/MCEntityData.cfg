CONSTANTS
  Clients = {c1, c2}
  Atoms = {a, b}
  DataTypes = {"int", "float"}
  OptionSets = {{}}
  Uses <- MCUses
  Writers = {c1}
  Objects = {1}
  MaxId = 4
  MaxStamp = 2
SPECIFICATION Spec
SYMMETRY Symmetry
INVARIANTS
  IInv
  SubscribersHaveTheData
  GetsGoForward
PROPERTIES
  StaleIdsTouchNothing
  AttributesStay
CHECK_DEADLOCK FALSE
