----------------------------- MODULE Donations -----------------------------
(***************************************************************************)
(* donations/service.py: record_donation and create_pledge.                *)
(***************************************************************************)
EXTENDS Store

\* A key seen before: its saved body is returned, whatever the new body says.
Replay(r) ==
  /\ pc[r] = "key"
  /\ \E i \in idem : i.key = KeyOf[r] /\ Reply(r, "replayed", i.donation)
  /\ UNCHANGED <<tables, cache, seen, page>>

NewKey(r) ==
  /\ pc[r] = "key" /\ ~KeySaved(r)
  /\ Goto(r, "campaign")
  /\ UNCHANGED <<tables, cache, seen, page>>

\* 404 and 409 of the campaign, or the Campaign object.
ValidateCampaign(r) ==
  /\ pc[r] = "campaign"
  /\ CASE campaigns[CampaignOf[r]].status = "absent" ->
            Reply(r, "not_found", NoDonation) /\ UNCHANGED seen
       [] campaigns[CampaignOf[r]].status = "closed" ->
            Reply(r, "campaign_closed", NoDonation) /\ UNCHANGED seen
       [] campaigns[CampaignOf[r]].status = "open" ->
            /\ Load(r, CampaignOf[r])
            /\ Goto(r, IF r \in DonationReqs THEN "precheck" ELSE "insert")
  /\ UNCHANGED <<tables, cache, page>>

PrecheckRef(r) ==
  /\ pc[r] = "precheck"
  /\ IF RefTaken(r) THEN Reply(r, "duplicate", NoDonation) ELSE Goto(r, "insert")
  /\ UNCHANGED <<tables, cache, seen, page>>

\* INSERT donations: IntegrityError of UNIQUE(bank_ref) or of the foreign key
\* to members, both answered as a duplicate; an amount out of range is 500.
InsertDonation(r) ==
  /\ pc[r] = "insert"
  /\ AmountOf[r] <= IntMax => ~RefHeld(r)
  /\ CASE AmountOf[r] > IntMax -> Reply(r, "error", NoDonation)
       [] AmountOf[r] <= IntMax /\ (r \notin KnownMember \/ RefTaken(r)) ->
            Reply(r, "duplicate", NoDonation)
       [] AmountOf[r] <= IntMax /\ r \in KnownMember /\ ~RefTaken(r) ->
            Goto(r, "raise")
  /\ UNCHANGED <<tables, cache, seen, page>>

\* INSERT ledger_entries: its donation_id is new, nothing can clash.
LedgerOutsideTxn(r) ==                                    \* mutant
  /\ pc[r] = "ledger"
  /\ ledger' = ledger \cup {LedgerRow(r)}
  /\ Goto(r, "commit")
  /\ UNCHANGED <<campaigns, donations, audit, idem, events, pledges, cache, seen, page>>
KeyOutsideTxn(r) ==                                       \* mutant
  /\ pc[r] = "ledger" /\ ~KeySaved(r)
  /\ idem' = idem \cup (IF KeyOf[r] = NoKey THEN {} ELSE {IdemRow(r)})
  /\ Goto(r, "commit")
  /\ UNCHANGED <<campaigns, donations, ledger, audit, events, pledges, cache, seen, page>>
InsertLedger(r) ==
  /\ pc[r] = "ledger"
  /\ Goto(r, "commit")
  /\ UNCHANGED <<tables, cache, seen, page>>

\* session.commit(): INSERT audit_log and idempotency_keys, COMMIT.
CommitDonation(r) ==
  /\ pc[r] = "commit" /\ ~KeySaved(r)
  /\ donations' = donations \cup {DonationRow(r)}
  /\ campaigns' = SetRaised(r)
  /\ ledger' = ledger \cup {LedgerRow(r)}
  /\ audit' = audit \cup {AuditRow(r, "RECORD_DONATION")}
  /\ idem' = idem \cup (IF KeyOf[r] = NoKey THEN {} ELSE {IdemRow(r)})
  /\ Goto(r, "refresh")
  /\ UNCHANGED <<events, pledges, cache, seen, page>>

\* The same key was saved meanwhile: IntegrityError, rollback.
RetriesOnClash(r) ==                                      \* mutant
  /\ pc[r] = "commit" /\ KeySaved(r)
  /\ Goto(r, "precheck")
  /\ UNCHANGED <<tables, cache, seen, page>>
AuditSurvivesClash(r) ==                                  \* mutant
  /\ pc[r] = "commit" /\ KeySaved(r)
  /\ audit' = audit \cup {AuditRow(r, "RECORD_DONATION")}
  /\ Reply(r, "duplicate", NoDonation)
  /\ UNCHANGED <<campaigns, donations, ledger, idem, events, pledges, cache, seen, page>>
KeyClash(r) ==
  /\ pc[r] = "commit" /\ KeySaved(r)
  /\ Reply(r, "duplicate", NoDonation)
  /\ UNCHANGED <<tables, cache, seen, page>>

RecordDonation(r) ==
  /\ r \in DonationReqs
  /\ \/ Replay(r) \/ NewKey(r) \/ ValidateCampaign(r) \/ PrecheckRef(r)
     \/ InsertDonation(r) \/ UpdateRaised(r) \/ InsertLedger(r)
     \/ CommitDonation(r) \/ KeyClash(r)
     \/ Refresh(r) \/ InvalidateAndReply(r)

-----------------------------------------------------------------------------
FindMember(r) ==
  /\ pc[r] = "member"
  /\ IF r \in HasProfile THEN Goto(r, "campaign") ELSE Reply(r, "not_found", NoDonation)
  /\ UNCHANGED <<tables, cache, seen, page>>

\* INSERT pledges, INSERT audit_log, COMMIT: no statement of these can wait.
PledgeWithoutAudit(r) ==                                  \* mutant
  /\ pc[r] = "insert"
  /\ pledges' = pledges \cup {r}
  /\ Goto(r, "refresh")
  /\ UNCHANGED <<campaigns, donations, ledger, audit, idem, events, cache, seen, page>>
CommitPledge(r) ==
  /\ pc[r] = "insert"
  /\ pledges' = pledges \cup {r}
  /\ audit' = audit \cup {AuditRow(r, "CREATE_PLEDGE")}
  /\ Goto(r, "refresh")
  /\ UNCHANGED <<campaigns, donations, ledger, idem, events, cache, seen, page>>

\* No cached page shows pledges: nothing is invalidated.
RefreshPledge(r) ==
  /\ pc[r] = "refresh"
  /\ Reply(r, "created", NoDonation)
  /\ UNCHANGED <<tables, cache, seen, page>>

CreatePledge(r) ==
  /\ r \in PledgeReqs
  /\ FindMember(r) \/ ValidateCampaign(r) \/ CommitPledge(r) \/ RefreshPledge(r)
=============================================================================
