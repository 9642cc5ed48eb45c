SPECIFICATION Spec
CONSTANTS
  Workers = {w1, w2}
  CampaignIds = {"c2"}
  OpenAtStart = {}
  DonationReqs = {}
  WebhookReqs = {"h6", "h7"}
  PledgeReqs = {"p1", "p2"}
  CreateReqs = {"n1"}
  CloseReqs = {"x2"}
  ListReqs = {}
  VerifyReqs = {}
  CampaignOf <- MCCampaignOf
  RefOf <- MCRefOf
  AmountOf <- MCAmountOf
  KeyOf <- MCKeyOf
  NoKey = "no key"
  EventOf <- MCEventOf
  NamedBy <- MCNamedBy
  General = {"h4"}
  KnownMember = {"d1", "d2", "d3"}
  HasProfile = {"p2"}
  IntMax = 1000
  KoboPerNaira = 100
  Faults = {"crash"}
SYMMETRY Symmetry
INVARIANTS
  EventsMatchDonations
  AuditIsComplete
  AnswersAreTrue
PROPERTIES
  ClosedStaysClosed
