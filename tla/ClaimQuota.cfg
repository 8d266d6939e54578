SPECIFICATION Spec
CONSTANTS
  Senders = {"s1", "s2"}
  Sizes = {1, 3}
  Policies <- MCPolicies
  Megabyte = 2
  Word = 8
  MaxTotal = 14
  MaxNow = 1
INVARIANTS
  DeniedBeyondLimit
CHECK_DEADLOCK FALSE
