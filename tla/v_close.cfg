SPECIFICATION Spec
CONSTANTS
  Workers = {w1}
  CampaignIds = {"c1", "c2"}
  OpenAtStart = {"c1"}
  DonationReqs = {"d1"}
  WebhookReqs = {}
  PledgeReqs = {}
  CreateReqs = {}
  CloseReqs = {"x1"}
  ListReqs = {}
  VerifyReqs = {}
  CampaignOf <- MCCampaignOf
  RefOf <- MCRefOf
  AmountOf <- MCAmountOf
  KeyOf <- MCKeyOf
  NoKey = "no key"
  EventOf <- MCEventOf
  NamedBy <- MCNamedBy
  General = {"h4"}
  KnownMember = {"d1", "d2", "d3"}
  HasProfile = {"p2"}
  IntMax = 1000
  KoboPerNaira = 100
  Faults = {}
PROPERTIES
  NothingAfterClose
