SPECIFICATION FairSpec
CONSTANTS
  Calls = {"read1", "read2", "list", "pledge", "donation", "event"}
  Coroutines = {"donation", "event"}
  Guests = {"list", "event"}
  Writers = {"pledge", "donation", "event"}
  PoolSize = 2
  ThreadCount = 2
INVARIANTS PoolTypeOK OnlyThePoolStalls
PROPERTY EveryCallEnds
