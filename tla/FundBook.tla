------------------------------ MODULE FundBook ------------------------------
(***************************************************************************)
(* What the service promises about money, without requests, transactions   *)
(* or tables: a payment reference is credited at most once, and the total  *)
(* a campaign shows grows by exactly the amount of each credit, in the     *)
(* same step.                                                              *)
(***************************************************************************)
EXTENDS Naturals

CONSTANTS CampaignIds, Credits   \* Credits: rows [id, campaign, amount, bank_ref]
VARIABLES book, total

Init ==
  /\ book = {}
  /\ total = [c \in CampaignIds |-> 0]

Record(d) ==
  /\ \A e \in book : e.bank_ref # d.bank_ref
  /\ book' = book \cup {d}
  /\ total' = [total EXCEPT ![d.campaign] = @ + d.amount]

Next == \E d \in Credits : Record(d)

Spec == Init /\ [][Next]_<<book, total>>
=============================================================================
