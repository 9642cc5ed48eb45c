SPECIFICATION Spec
CONSTANTS
  Workers = {w1}
  CampaignIds = {"c1", "c2"}
  OpenAtStart = {"c1", "c2"}
  DonationReqs = {"d1", "d6"}
  WebhookReqs = {"h1", "h5"}
  PledgeReqs = {}
  CreateReqs = {}
  CloseReqs = {"x1"}
  ListReqs = {}
  VerifyReqs = {"v1"}
  CampaignOf <- MCCampaignOf
  RefOf <- MCRefOf
  AmountOf <- MCAmountOf
  KeyOf <- MCKeyOf
  NoKey = "no key"
  EventOf <- MCEventOf
  NamedBy <- MCNamedBy
  General = {"h4"}
  KnownMember = {"d1", "d2", "d3"}
  HasProfile = {"p2"}
  IntMax = 99
  KoboPerNaira = 100
  Faults = {"crash"}
INVARIANTS
  RaisedIsLedger
  AlarmHasOneDirection
PROPERTIES
  BookSpec
