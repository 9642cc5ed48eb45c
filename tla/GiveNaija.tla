----------------------------- MODULE GiveNaija -----------------------------
(***************************************************************************)
(* The services together, on one database and one Redis: any number of     *)
(* requests in flight on any number of workers.                            *)
(***************************************************************************)
EXTENDS Donations, Webhooks, Campaigns, Ledger

Step(r) ==
  \/ RecordDonation(r) \/ CreatePledge(r) \/ ProcessPayment(r)
  \/ CreateCampaign(r) \/ CloseCampaign(r) \/ ListCampaigns(r) \/ VerifyLedger(r)

Init == InitStore

\* Every request has been answered, or died with its worker.
Terminated == (\A r \in Requests : pc[r] \in {"done", "lost"}) /\ UNCHANGED vars

Next ==
  \/ \E r \in Requests : (\E w \in Workers : Arrive(r, w)) \/ Step(r) \/ DbFails(r)
  \/ \E w \in Workers : Crash(w)
  \/ Expire
  \/ Terminated

\* A thread or a coroutine that can run does, a lock that is free is granted,
\* and Redis drops a key when its time is over.  No request has to arrive.
Fairness == WF_vars(Expire) /\ \A r \in Requests : WF_vars(Step(r))

Spec == Init /\ [][Next]_vars /\ Fairness

-----------------------------------------------------------------------------
Codes == {"none", "created", "replayed", "not_found", "campaign_closed",
          "duplicate", "error", "duplicate_ignored", "orphan_logged",
          "already_processed", "payment_confirmed", "closed", "already_closed",
          "cached", "listed", "match", "mismatch"}
Labels == Ended \cup {"key", "event", "member", "lookup", "campaign", "precheck",
          "resolve", "general", "orphan", "insert", "raise", "ledger", "commit",
          "refresh", "invalidate", "count", "items", "store", "sum"}
DonationRows == [id : Payments, campaign : CampaignIds, amount : Nat,
                 bank_ref : {RefOf[r] : r \in Payments}]
SeenOf(ids) == [id : ids, raised : 0..IntMax]

\* Shape of every table and of every request (models.py of each domain).
TypeOK ==
  /\ campaigns \in [CampaignIds -> [status : {"absent", "open", "closed"},
                                    raised : 0..IntMax]]
  /\ donations \subseteq DonationRows
  /\ \A l \in ledger : l.donation \in Payments /\ l.campaign \in CampaignIds
  /\ \A a \in audit : a.target \in Requests
  /\ \A i \in idem : i.donation \in DonationReqs /\ i.key # NoKey
  /\ \A e \in events : e.by \in WebhookReqs /\ e.is_orphan \in BOOLEAN
  /\ pledges \subseteq PledgeReqs
  /\ pc \in [Requests -> Labels]
  /\ at \in [Requests -> Workers \cup {NoWorker}]
  /\ seen \in [Requests -> SeenOf(CampaignIds \cup {NothingSeen.id})]
  /\ resp \in [Requests -> [code : Codes, donation : Payments \cup {NoDonation}]]

\* A bank reference is credited at most once, by whichever of the two routes,
\* workers and retries (record_donation and process_payment, donations.bank_ref).
ExactlyOnce == \A d, e \in donations : d.bank_ref = e.bank_ref => d = e

\* A donation, its ledger entry and its audit row exist together or not at all,
\* for the same campaign and the same money, whatever crashed or failed.
BooksAgree ==
  /\ \A d \in donations :
       /\ \E l \in ledger : l.donation = d.id /\ l.campaign = d.campaign
            /\ Hundredths(l.amount_ngn) = d.amount
       /\ \E a \in audit : a.target = d.id
            /\ a.action \in {"RECORD_DONATION", "WEBHOOK_DONATION_RECORDED"}
  /\ \A l \in ledger : \E d \in donations : d.id = l.donation
  /\ \A k, l \in ledger : k.donation = l.donation => k = l
  /\ \A a \in audit :
       a.action \in {"RECORD_DONATION", "WEBHOOK_DONATION_RECORDED"} =>
         \E d \in donations : d.id = a.target

Audited(action, c) == \E a \in audit : a.action = action /\ CampaignOf[a.target] = c

\* The state of campaigns and pledges is the one the audit log tells: what was
\* created, closed or pledged has its row, and no row tells more.
AuditIsComplete ==
  /\ \A c \in CampaignIds :
       /\ campaigns[c].status = "closed" <=> Audited("CLOSE_CAMPAIGN", c)
       /\ c \notin OpenAtStart =>
            (campaigns[c].status # "absent" <=> Audited("CREATE_CAMPAIGN", c))
  /\ \A r \in PledgeReqs : r \in pledges <=> AuditRow(r, "CREATE_PLEDGE") \in audit

\* Two requests with one Idempotency-Key never both record a donation, with
\* one bank reference or two (the key is inserted by the donation's commit).
OneDonationPerKey ==
  \A d, e \in donations :
    d.id \in DonationReqs /\ e.id \in DonationReqs
      /\ KeyOf[d.id] = KeyOf[e.id] /\ KeyOf[d.id] # NoKey => d = e

\* An event has one processed_events row however often it is delivered, and
\* that row says "not an orphan" exactly when its donation is in the books.
EventsMatchDonations ==
  /\ \A e, f \in events : e.event = f.event => e = f
  /\ \A r \in WebhookReqs :
       (\E e \in events : e.by = r /\ ~e.is_orphan) <=> (\E d \in donations : d.id = r)

Recorded(r) == \E d \in donations : d.id = r

\* What an answer tells the caller is in the database: a donation of its own, the
\* donation of the key, the reason of a refusal, the event.
AnswersAreTrue ==
  \A r \in Requests :
    LET code == resp[r].code IN
    /\ r \in Payments /\ code \in {"created", "payment_confirmed"} => Recorded(r)
    /\ code = "replayed" =>
         /\ Recorded(resp[r].donation)
         /\ KeyOf[resp[r].donation] = KeyOf[r]
    /\ r \in KnownMember /\ code = "duplicate" => RefTaken(r) \/ KeySaved(r)
    /\ code = "already_processed" => RefTaken(r) \/ EventTaken(r)
    /\ code = "orphan_logged" => EventRow(r, TRUE) \in events
    /\ code = "duplicate_ignored" => EventTaken(r)
    /\ code \in {"closed", "already_closed"} => campaigns[CampaignOf[r]].status = "closed"

Refusals == {"replayed", "not_found", "campaign_closed", "duplicate",
             "already_processed", "duplicate_ignored", "already_closed"}

\* A request that is refused, or told that the work is done already, has left
\* no row of its own in any table.
RefusedLeavesNothing ==
  \A r \in Requests : resp[r].code \in Refusals =>
    /\ ~Recorded(r) /\ r \notin pledges
    /\ \A a \in audit : a.target # r
    /\ \A l \in ledger : l.donation # r
    /\ \A i \in idem : i.donation # r
    /\ \A e \in events : e.by # r

\* With any number of workers raised_amount may miss a donation (two workers
\* add to the value they have both loaded) and never counts one twice.
RaisedNeverAboveLedger ==
  \A c \in CampaignIds : campaigns[c].raised <= TotalCredited(c)

\* The reconciliation identity of /ledger/.../verify: raised_amount is the sum
\* of the CREDIT entries of the campaign.
RaisedIsLedger == \A c \in CampaignIds : campaigns[c].raised = TotalCredited(c)

\* The reconciliation errs in one direction: between its two reads a payment may
\* come into the sum that is not in the campaign it has loaded, and none may go,
\* so a counter above the sum is always real corruption (ledger/router.py:143).
AlarmHasOneDirection ==
  \A r \in VerifyReqs : pc[r] = "sum" => seen[r].raised <= TotalCredited(seen[r].id)

\* No step reopens a campaign or unmakes one: a payment that loaded the campaign
\* while it was open updates raised_amount only.
ClosedStaysClosed ==
  [][\A c \in CampaignIds :
       /\ campaigns[c].status = "closed" => campaigns'[c].status = "closed"
       /\ campaigns[c].status # "absent" => campaigns'[c].status # "absent"]_vars

\* Every request that has reached its service ends: no wait for a lock or for
\* an event loop lasts for ever (flush order of the two payment services).
EveryRequestEnds == \A r \in Requests : InFlight(r) ~> ~InFlight(r)

\* Whatever page a slow reader or a failed invalidation leaves in Redis, the
\* cache ends up empty or equal to the table.
CacheCatchesUp ==
  <>[](~cache.stored \/ (cache.items = Listed /\ cache.total = Cardinality(Present)))

\* With one worker the services implement FundBook: each committed payment is one
\* step of the book that credits its reference and adds its amount.
Book == INSTANCE FundBook WITH
  Credits <- {[id |-> r, campaign |-> c, amount |-> AmountOf[r], bank_ref |-> RefOf[r]] :
              r \in Payments, c \in CampaignIds},
  book  <- donations,
  total <- [c \in CampaignIds |-> campaigns[c].raised]
BookSpec == Book!Spec

-----------------------------------------------------------------------------
(* What the documents and tests say of the program, and it does not do.    *)

\* "Once closed, no further donations or pledges can ever be recorded against
\* it" (document.txt:376-377): a payment or pledge commits on an open campaign.
NothingAfterClose ==
  [][/\ \A d \in donations' \ donations : campaigns[d.campaign].status = "open"
     /\ \A r \in pledges' \ pledges : campaigns[CampaignOf[r]].status = "open"]_vars
=============================================================================
