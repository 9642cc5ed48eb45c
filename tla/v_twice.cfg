SPECIFICATION Spec
CONSTANTS
  Servers = {"p1"}
  Seeds = {"s1", "s2"}
  Legacies = {{}}
  StartFaults = {}
  Script <- MCScript
  ByHand = {"admin", "finance", "gift"}
INVARIANT SeedsOnce
