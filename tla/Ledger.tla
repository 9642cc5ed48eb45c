------------------------------- MODULE Ledger -------------------------------
(***************************************************************************)
(* donations/ledger: the total of a campaign's CREDIT entries, and the     *)
(* reconciliation an admin asks for with GET /ledger/campaign/{id}/verify. *)
(***************************************************************************)
EXTENDS Store, FiniteSetsExt

\* SUM(amount_ngn) has two decimals: it is held in hundredths of a naira.
Hundredths(ngn) == ngn.naira * KoboPerNaira + ngn.kobo

\* get_total_credited(): 0 when there is no entry.
TotalCredited(c) ==
  MapThenSumSet(LAMBDA l : Hundredths(l.amount_ngn), {l \in ledger : l.campaign = c})

\* The total is equal to raised_amount / 100, or to raised_amount itself read
\* as naira.
Match(total, raised) == total = raised \/ total = raised * KoboPerNaira

ReadToVerify(r) ==
  /\ pc[r] = "campaign"
  /\ IF campaigns[CampaignOf[r]].status = "absent"
       THEN Reply(r, "not_found", NoDonation) /\ UNCHANGED seen
       ELSE Load(r, CampaignOf[r]) /\ Goto(r, "sum")
  /\ UNCHANGED <<tables, cache, page>>

SumAndCompare(r) ==
  /\ pc[r] = "sum"
  /\ Reply(r, IF Match(TotalCredited(seen[r].id), seen[r].raised)
                THEN "match" ELSE "mismatch", NoDonation)
  /\ UNCHANGED <<tables, cache, seen, page>>

VerifyLedger(r) == r \in VerifyReqs /\ (ReadToVerify(r) \/ SumAndCompare(r))
=============================================================================
