SPECIFICATION Spec
CONSTANTS
  Servers = {"p1"}
  Seeds = {}
  Legacies = {{}}
  StartFaults = {"crash", "postgres"}
  Script <- MCScript
  ByHand = {"gift"}
INVARIANT CreditedOnceAnywhere
