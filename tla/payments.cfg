SPECIFICATION Spec
CONSTANTS
  Workers = {w1, w2}
  CampaignIds = {"c1", "c2"}
  OpenAtStart = {"c1"}
  DonationReqs = {"d1", "d2", "d3"}
  WebhookReqs = {"h1", "h4"}
  PledgeReqs = {}
  CreateReqs = {}
  CloseReqs = {}
  ListReqs = {}
  VerifyReqs = {}
  CampaignOf <- MCCampaignOf
  RefOf <- MCRefOf
  AmountOf <- MCAmountOf
  KeyOf <- MCKeyOf
  NoKey = "no key"
  EventOf <- MCEventOf
  NamedBy <- MCNamedBy
  General = {"h4"}
  KnownMember = {"d1", "d2", "d3"}
  HasProfile = {"p2"}
  IntMax = 99
  KoboPerNaira = 100
  Faults = {"crash", "database"}
SYMMETRY Symmetry
INVARIANTS
  TypeOK
  ExactlyOnce
  BooksAgree
  OneDonationPerKey
  RefusedLeavesNothing
  AnswersAreTrue
  RaisedNeverAboveLedger
