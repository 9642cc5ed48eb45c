SPECIFICATION Spec
CONSTANTS
  Clients = {"nat"}
  Window = 3
  LoginLimit = 2
  PublicLimit = 3
  MaxTime = 7
INVARIANTS
  LimiterTypeOK
  LoginsLimited
  RequestsLimited
PROPERTIES
  SilenceHelps
