SPECIFICATION FairStart
CONSTANTS
  Servers = {"p1", "p2"}
  Seeds = {"s1", "s2"}
  Legacies = {{}, {"base"}, {"base", "events"}, {"base", "events", "ledger"}}
  StartFaults = {}
  Script <- MCScript
  ByHand = {}
INVARIANT OpenLogIsClosing
PROPERTY StartsEnd
