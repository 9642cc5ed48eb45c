----------------------------- MODULE MCMembers -----------------------------
(***************************************************************************)
(* Named requests for TLC: two people register with one e-mail, a member   *)
(* of the staff with another; the donor and the staff ask for the receipts *)
(* of the donor's donation, of an anonymous one and of one that is missing.*)
(***************************************************************************)
EXTENDS Members

MCEmailOf  == [ada |-> "a@x", eve |-> "a@x", fin |-> "f@x"]
MCRoleOf   == [ada |-> "donor", eve |-> "donor", fin |-> "finance"]
MCAsk ==
  [a1 |-> <<"ada", "own">>, f1 |-> <<"fin", "own">>, a2 |-> <<"ada", "anon">>,
   f3 |-> <<"fin", "gone">>]
MCCallerOf   == [r \in ReceiptReqs |-> MCAsk[r][1]]
MCDonationOf == [r \in ReceiptReqs |-> MCAsk[r][2]]
MCMemberOf   == [own |-> "ada", anon |-> "none"]
=============================================================================
