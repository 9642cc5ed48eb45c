---------------------------- MODULE MCGiveNaija ----------------------------
(***************************************************************************)
(* Named requests for TLC.  A cfg picks the requests of a run; the payload *)
(* of each is fixed here, so that the interesting clashes happen:          *)
(*   d1, d2  two officers enter the same transfer                          *)
(*   d3      d1's key, reused for another transfer                         *)
(*   d6      a member_id that does not exist                               *)
(*   h1      an event; its reference names c1, and d1 has entered it too    *)
(*   h4      an event for the transfer of d3: REF-, and names no campaign  *)
(*   h5      a title two campaigns have                                    *)
(*   h6, h7  one event delivered twice, for a campaign n1 may create       *)
(*   h8      the event_id of h1 with the transfer of d3, for c2            *)
(***************************************************************************)
EXTENDS GiveNaija, TLC

\* The workers are alike; used where no liveness is checked.
Symmetry == Permutations(Workers)

Donation(ref, campaign, amount, key) ==
  [ref |-> ref, campaign |-> campaign, amount |-> amount, key |-> key]

MCDonation ==
  [d1 |-> Donation("T1", "c1", 1, "K1"), d2 |-> Donation("T1", "c1", 99, NoKey),
   d3 |-> Donation("T2", "c1", 99, "K1"), d6 |-> Donation("T4", "c1", 99, NoKey)]

Event(event, ref, amount, named) ==
  [event |-> event, ref |-> ref, amount |-> amount, named |-> named]

MCEvent ==
  [h1 |-> Event("E1", "T1", 1, {"c1"}), h4 |-> Event("E3", "T2", 99, {}),
   h5 |-> Event("E4", "T5", 99, {"c1", "c2"}),
   h6 |-> Event("E5", "T6", 99, {"c2"}), h7 |-> Event("E5", "T6", 99, {"c2"}),
   h8 |-> Event("E1", "T2", 99, {"c2"})]

MCCampaign ==
  [n1 |-> "c2", x1 |-> "c1", x2 |-> "c2", p1 |-> "c2", p2 |-> "c2", v1 |-> "c1"]

MCRefOf    == [r \in Payments |-> IF r \in DonationReqs THEN MCDonation[r].ref ELSE MCEvent[r].ref]
MCAmountOf == [r \in Payments |-> IF r \in DonationReqs THEN MCDonation[r].amount ELSE MCEvent[r].amount]
MCKeyOf    == [r \in DonationReqs |-> MCDonation[r].key]
MCEventOf  == [r \in WebhookReqs |-> MCEvent[r].event]
MCNamedBy  == [r \in WebhookReqs |-> MCEvent[r].named]
MCCampaignOf ==
  [r \in Requests \ (WebhookReqs \cup ListReqs) |->
     IF r \in DonationReqs THEN MCDonation[r].campaign ELSE MCCampaign[r]]
=============================================================================
