------------------------------ MODULE Webhooks ------------------------------
(***************************************************************************)
(* webhooks/service.py: process_payment, called for every payment event    *)
(* whose signature the route has verified.                                 *)
(***************************************************************************)
EXTENDS Store

\* 1. processed_events: an event seen before is acknowledged and ignored.
CheckEvent(r) ==
  /\ pc[r] = "event"
  /\ IF EventTaken(r) THEN Reply(r, "duplicate_ignored", NoDonation)
                      ELSE Goto(r, "resolve")
  /\ UNCHANGED <<tables, cache, seen, page>>

Exists(c) == campaigns[c].status # "absent"
IsOpen(c) == campaigns[c].status = "open"

\* The campaign the code settles on is an orphan when it is not open.
Settle(r, c) ==
  /\ Load(r, c)
  /\ Goto(r, IF IsOpen(c) THEN "insert" ELSE "orphan")

\* 2. CAMP-n and digits name at most one campaign, a title any number of them:
\* .first() without an order is any of those that exist.
ResolveNamed(r) ==
  /\ pc[r] = "resolve"
  /\ \E c \in NamedBy[r] : Exists(c) /\ Settle(r, c)
  /\ UNCHANGED <<tables, cache, page>>

Unresolved(r) ==
  /\ pc[r] = "resolve"
  /\ \A c \in NamedBy[r] : ~Exists(c)
  /\ Goto(r, IF r \in General THEN "general" ELSE "orphan")
  /\ UNCHANGED <<tables, cache, seen, page>>

\* BOOK-, DON-, REF-: any open campaign.
ResolveGeneral(r) ==
  /\ pc[r] = "general"
  /\ \E c \in CampaignIds : IsOpen(c) /\ Settle(r, c)
  /\ UNCHANGED <<tables, cache, page>>

NoneOpen(r) ==
  /\ pc[r] = "general"
  /\ \A c \in CampaignIds : ~IsOpen(c)
  /\ Goto(r, "orphan")
  /\ UNCHANGED <<tables, cache, seen, page>>

\* 3. The orphan is recorded with its audit row; an IntegrityError of
\* UNIQUE(event_id) is raised again and becomes 500.
RecordOrphan(r) ==
  /\ pc[r] = "orphan"
  /\ ~EventHeld(r)
  /\ IF EventTaken(r)
       THEN Reply(r, "error", NoDonation) /\ UNCHANGED <<events, audit>>
       ELSE /\ events' = events \cup {EventRow(r, TRUE)}
            /\ audit' = audit \cup {AuditRow(r, "ORPHAN_WEBHOOK_RECORDED")}
            /\ Reply(r, "orphan_logged", NoDonation)
  /\ UNCHANGED <<campaigns, donations, ledger, idem, pledges, cache, seen, page>>

\* 4. INSERT donations with the reference as bank_ref: an IntegrityError is
\* answered already_processed.  It is recorded by an admin, and there is one: no
\* route creates a campaign without an admin, and none removes a user.
InsertPayment(r) ==
  /\ pc[r] = "insert"
  /\ AmountOf[r] <= IntMax => ~RefHeld(r)
  /\ CASE AmountOf[r] > IntMax -> Reply(r, "error", NoDonation)
       [] AmountOf[r] <= IntMax /\ RefTaken(r) ->
            Reply(r, "already_processed", NoDonation)
       [] AmountOf[r] <= IntMax /\ ~RefTaken(r) -> Goto(r, "raise")
  /\ UNCHANGED <<tables, cache, seen, page>>

\* INSERT ledger_entries and processed_events, with the campaign row locked.
InsertEvent(r) ==
  /\ pc[r] = "ledger"
  /\ ~EventHeld(r)
  /\ IF EventTaken(r) THEN Reply(r, "already_processed", NoDonation)
                      ELSE Goto(r, "commit")
  /\ UNCHANGED <<tables, cache, seen, page>>

CommitPayment(r) ==
  /\ pc[r] = "commit"
  /\ donations' = donations \cup {DonationRow(r)}
  /\ campaigns' = SetRaised(r)
  /\ ledger' = ledger \cup {LedgerRow(r)}
  /\ audit' = audit \cup {AuditRow(r, "WEBHOOK_DONATION_RECORDED")}
  /\ events' = events \cup {EventRow(r, FALSE)}
  /\ Goto(r, "refresh")
  /\ UNCHANGED <<idem, pledges, cache, seen, page>>

ProcessPayment(r) ==
  /\ r \in WebhookReqs
  /\ \/ CheckEvent(r) \/ ResolveNamed(r) \/ Unresolved(r) \/ ResolveGeneral(r)
     \/ NoneOpen(r) \/ RecordOrphan(r)
     \/ InsertPayment(r) \/ UpdateRaised(r) \/ InsertEvent(r) \/ CommitPayment(r)
     \/ Refresh(r) \/ InvalidateAndReply(r)
=============================================================================
