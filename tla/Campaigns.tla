----------------------------- MODULE Campaigns -----------------------------
(***************************************************************************)
(* campaigns/service.py: create, close and list campaigns, and the Redis   *)
(* page the list is served from.  These routes run in threads.             *)
(***************************************************************************)
EXTENDS Store, FiniteSets

\* INSERT campaigns, INSERT audit_log, COMMIT: the id is new, nothing waits.
CommitCampaign(r) ==
  /\ pc[r] = "insert"
  /\ campaigns' = [campaigns EXCEPT ![CampaignOf[r]] = [status |-> "open", raised |-> 0]]
  /\ audit' = audit \cup {AuditRow(r, "CREATE_CAMPAIGN")}
  /\ Goto(r, "refresh")
  /\ UNCHANGED <<donations, ledger, idem, events, pledges, cache, seen, page>>

CreateCampaign(r) ==
  /\ r \in CreateReqs
  /\ CommitCampaign(r) \/ Refresh(r) \/ InvalidateAndReply(r)

-----------------------------------------------------------------------------
ReadToClose(r) ==
  /\ pc[r] = "campaign"
  /\ CASE campaigns[CampaignOf[r]].status = "absent" ->
            Reply(r, "not_found", NoDonation)
       [] campaigns[CampaignOf[r]].status = "closed" ->
            Reply(r, "already_closed", NoDonation)
       [] campaigns[CampaignOf[r]].status = "open" -> Goto(r, "commit")
  /\ UNCHANGED <<tables, cache, seen, page>>

\* INSERT audit_log, UPDATE campaigns SET status (raised_amount is not in the
\* statement), COMMIT: the update waits for a payment that has the row.
CommitClose(r) ==
  /\ pc[r] = "commit"
  /\ ~RowHeld(r, CampaignOf[r])
  /\ campaigns' = [campaigns EXCEPT ![CampaignOf[r]].status = "closed"]
  /\ audit' = audit \cup {AuditRow(r, "CLOSE_CAMPAIGN")}
  /\ Goto(r, "refresh")
  /\ UNCHANGED <<donations, ledger, idem, events, pledges, cache, seen, page>>

CloseCampaign(r) ==
  /\ r \in CloseReqs
  /\ ReadToClose(r) \/ CommitClose(r) \/ Refresh(r) \/ InvalidateAndReply(r)

-----------------------------------------------------------------------------
Present == {c \in CampaignIds : campaigns[c].status # "absent"}
Listed  == [c \in Present |-> campaigns[c]]

\* get_cache: the page as it was stored.
ServeCached(r) ==
  /\ pc[r] = "lookup" /\ cache # Empty
  /\ page' = [page EXCEPT ![r] = cache]
  /\ Reply(r, "cached", NoDonation)
  /\ UNCHANGED <<tables, cache, seen>>

\* Nothing stored, or a Redis error.
MissCache(r) ==
  /\ pc[r] = "lookup"
  /\ cache = Empty \/ "redis" \in Faults
  /\ Goto(r, "count")
  /\ UNCHANGED <<tables, cache, seen, page>>

\* The count and the items are two queries.
CountCampaigns(r) ==
  /\ pc[r] = "count"
  /\ page' = [page EXCEPT ![r].total = Cardinality(Present)]
  /\ Goto(r, "items")
  /\ UNCHANGED <<tables, cache, seen>>

ReadItems(r) ==
  /\ pc[r] = "items"
  /\ page' = [page EXCEPT ![r].items = Listed, ![r].stored = TRUE]
  /\ Goto(r, "store")
  /\ UNCHANGED <<tables, cache, seen>>

\* set_cache with a TTL of 60 seconds; a Redis error is swallowed.
StorePage(r) ==
  /\ pc[r] = "store"
  /\ cache' \in {page[r]} \cup (IF "redis" \in Faults THEN {cache} ELSE {})
  /\ Reply(r, "listed", NoDonation)
  /\ UNCHANGED <<tables, seen, page>>

ListCampaigns(r) ==
  /\ r \in ListReqs
  /\ \/ ServeCached(r) \/ MissCache(r) \/ CountCampaigns(r) \/ ReadItems(r)
     \/ StorePage(r)
=============================================================================
