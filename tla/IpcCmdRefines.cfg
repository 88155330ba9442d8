SPECIFICATION Spec
CONSTANTS
  a = a
  b = b
  c = c
  Senders <- ThreeSenders
  MaxCalls = 2
  Faults = {"sigint", "destroy"}
CHECK_DEADLOCK FALSE
PROPERTY ImplementsRpc
