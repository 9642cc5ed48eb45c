SPECIFICATION Spec
CONSTANTS
  Workers = {w1, w2}
  CampaignIds = {"c1", "c2"}
  OpenAtStart = {"c1", "c2"}
  DonationReqs = {"d1", "d3"}
  WebhookReqs = {"h1", "h8"}
  PledgeReqs = {}
  CreateReqs = {}
  CloseReqs = {}
  ListReqs = {"l1"}
  VerifyReqs = {}
  CampaignOf <- MCCampaignOf
  RefOf <- MCRefOf
  AmountOf <- MCAmountOf
  KeyOf <- MCKeyOf
  NoKey = "no key"
  EventOf <- MCEventOf
  NamedBy <- MCNamedBy
  General = {"h4"}
  KnownMember = {"d1", "d2", "d3"}
  HasProfile = {"p2"}
  IntMax = 1000
  KoboPerNaira = 100
  Faults = {"redis"}
PROPERTIES
  EveryRequestEnds
  CacheCatchesUp
