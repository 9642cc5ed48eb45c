SPECIFICATION Spec
CONSTANTS
  RegisterReqs = {"ada", "eve", "fin"}
  ReceiptReqs = {"a1", "a2", "f1", "f3"}
  EmailOf <- MCEmailOf
  RoleOf <- MCRoleOf
  CallerOf <- MCCallerOf
  DonationOf <- MCDonationOf
  Donations = {"own", "anon"}
  MemberOf <- MCMemberOf
  NoMember = "none"
  MemberFaults = {"crash", "database"}
INVARIANTS
  MembersTypeOK
  AccountsAreWhole
  OneReceipt
  LoserIsServed
