------------------------------- MODULE Store -------------------------------
(***************************************************************************)
(* The state every service of GiveNaija works on: the PostgreSQL tables,   *)
(* the Redis page of campaigns, and the requests in flight on the worker   *)
(* processes.  A request is one HTTP call; a retry by a client, or a       *)
(* second delivery by the payment provider, is another request with the    *)
(* same Idempotency-Key or event_id.                                       *)
(*                                                                         *)
(* Each statement a service sends is one action (READ COMMITTED).  What a  *)
(* transaction has flushed and not committed is told by pc: the labels of  *)
(* a payment run                                                           *)
(*    ... "insert" -> "raise" -> "ledger" -> "commit" -> "refresh" ...     *)
(* and a row is in the transaction from the label after its statement on.  *)
(* Amounts are in kobo, and a ledger amount keeps its two decimals.        *)
(***************************************************************************)
EXTENDS Naturals

CONSTANTS
  Workers,      \* server processes, each with one event loop
  CampaignIds,  \* primary keys of campaigns, in use or still to be allocated
  OpenAtStart,  \* the campaigns that exist, open and empty, at the start
  DonationReqs, \* POST /donations
  WebhookReqs,  \* POST /webhooks/payment
  PledgeReqs,   \* POST /pledges
  CreateReqs,   \* POST /campaigns
  CloseReqs,    \* POST /campaigns/{id}/close
  ListReqs,     \* GET /campaigns
  VerifyReqs,   \* GET /ledger/campaign/{id}/verify
  CampaignOf,   \* campaign a request names, or the id a creation is given
  RefOf,        \* bank_ref of a donation, reference of a webhook
  AmountOf,     \* amount of a donation or webhook, in kobo
  KeyOf, NoKey, \* Idempotency-Key header of a donation, if any
  EventOf,      \* event_id of a webhook
  NamedBy,      \* campaigns whose id or title is the reference of a webhook
  General,      \* webhooks whose reference starts with BOOK-, DON- or REF-
  KnownMember,  \* donations whose member_id is absent or exists
  HasProfile,   \* pledges whose donor has a member profile
  IntMax,       \* largest value of an INTEGER column
  KoboPerNaira, \* 100 in the code
  Faults        \* what may go wrong: a subset of {"crash", "database", "redis"}

Payments == DonationReqs \cup WebhookReqs
Others   == PledgeReqs \cup CreateReqs \cup CloseReqs \cup ListReqs \cup VerifyReqs
Requests == Payments \cup Others

\* The kinds of request are disjoint.
ASSUME KindsAreDisjoint ==
  /\ DonationReqs \cap WebhookReqs = {}
  /\ Payments \cap Others = {}
  /\ PledgeReqs \cap (CreateReqs \cup CloseReqs \cup ListReqs \cup VerifyReqs) = {}
  /\ CreateReqs \cap (CloseReqs \cup ListReqs \cup VerifyReqs) = {}
  /\ CloseReqs \cap (ListReqs \cup VerifyReqs) = {}
  /\ ListReqs \cap VerifyReqs = {}

\* Schemas: amount > 0 (donations/schemas.py:9, webhooks/schemas.py:13); the
\* sequence of campaigns.id never hands out an id twice.
ASSUME PayloadAssumption ==
  /\ IntMax \in Nat
  /\ KoboPerNaira \in Nat \ {0}
  /\ AmountOf \in [Payments -> Nat \ {0}]
  /\ CampaignOf \in [Requests \ (WebhookReqs \cup ListReqs) -> CampaignIds]
  /\ NamedBy \in [WebhookReqs -> SUBSET CampaignIds]
  /\ OpenAtStart \subseteq CampaignIds
  /\ \A r \in CreateReqs : CampaignOf[r] \notin OpenAtStart
  /\ \A q, r \in CreateReqs : CampaignOf[q] = CampaignOf[r] => q = r
  /\ DOMAIN KeyOf = DonationReqs /\ DOMAIN EventOf = WebhookReqs
  /\ DOMAIN RefOf = Payments

-----------------------------------------------------------------------------
VARIABLES
  campaigns,  \* table: id -> [status, raised]
  donations,  \* table: set of donation rows; id is the inserting request
  ledger,     \* table ledger_entries
  audit,      \* table audit_log
  idem,       \* table idempotency_keys
  events,     \* table processed_events
  pledges,    \* table: set of requests whose pledge row is committed
  cache,      \* the Redis value of cache:campaigns:all:..., or Empty
  pc,         \* the statement a request has reached
  at,         \* the worker a request runs on, while it is in flight
  seen,       \* the Campaign object a request has loaded
  page,       \* what list_campaigns has read so far
  resp        \* the response sent, with the donation its body shows

tables == <<campaigns, donations, ledger, audit, idem, events, pledges>>
vars   == <<tables, cache, pc, at, seen, page, resp>>

Empty      == [stored |-> FALSE, total |-> 0, items |-> <<>>]
NoWorker   == "none"
NoDonation == "none"
NotSent    == [code |-> "none", donation |-> NoDonation]
NothingSeen == [id |-> "none", raised |-> 0]

\* The first statement of the service each route calls.
Entry(r) ==
  CASE r \in DonationReqs -> "key"
    [] r \in WebhookReqs  -> "event"
    [] r \in PledgeReqs   -> "member"
    [] r \in CreateReqs   -> "insert"
    [] r \in CloseReqs \cup VerifyReqs -> "campaign"
    [] r \in ListReqs     -> "lookup"

\* A service hands control back at one of these.
Ended == {"idle", "done", "lost"}
InFlight(r) == pc[r] \notin Ended

InitStore ==
  /\ campaigns = [c \in CampaignIds |->
       [status |-> IF c \in OpenAtStart THEN "open" ELSE "absent", raised |-> 0]]
  /\ donations = {} /\ ledger = {} /\ audit = {} /\ idem = {} /\ events = {}
  /\ pledges = {} /\ cache = Empty
  /\ pc   = [r \in Requests |-> "idle"]
  /\ at   = [r \in Requests |-> NoWorker]
  /\ seen = [r \in Requests |-> NothingSeen]
  /\ page = [r \in ListReqs |-> Empty]
  /\ resp = [r \in Requests |-> NotSent]

-----------------------------------------------------------------------------
(* Rows.                                                                   *)

\* Decimal(amount) / Decimal(100), stored as DECIMAL(15,2).
Ngn(kobo) == [naira |-> kobo \div KoboPerNaira, kobo |-> kobo % KoboPerNaira]

DonationRow(r) == [id |-> r, campaign |-> seen[r].id,
                   amount |-> AmountOf[r], bank_ref |-> RefOf[r]]
LedgerRow(r)   == [donation |-> r, campaign |-> seen[r].id,
                   amount_ngn |-> Ngn(AmountOf[r])]
AuditRow(r, action) == [action |-> action, target |-> r]
IdemRow(r)     == [key |-> KeyOf[r], donation |-> r]
EventRow(r, orphan) == [event |-> EventOf[r], by |-> r, is_orphan |-> orphan]

(* Constraints and locks.                                                  *)

Flushed(r)   == pc[r] \in {"raise", "ledger", "commit"} /\ r \in Payments
HoldsRow(r)  == pc[r] \in {"ledger", "commit"} /\ r \in Payments
HoldsEvent(r) == pc[r] = "commit" /\ r \in WebhookReqs

\* UNIQUE(bank_ref): an insert waits for a transaction that has inserted the
\* same value, and fails when the value is committed.
RefHeld(r)  ==
  \E q \in Payments \ {r} : Flushed(q) /\ RefOf[q] = RefOf[r]
NoUniqueRef(r) == FALSE                                   \* mutant
RefTaken(r) == \E d \in donations : d.bank_ref = RefOf[r]

\* UPDATE campaigns waits for the transaction that has updated the same row.
RowHeld(r, c) == \E q \in Payments \ {r} : HoldsRow(q) /\ seen[q].id = c

\* UNIQUE(event_id), and the primary key of idempotency_keys, which is
\* inserted by the commit itself and so never waits.
NoEventWait(r) == FALSE                                   \* mutant
EventHeld(r)  ==
  \E q \in WebhookReqs \ {r} : HoldsEvent(q) /\ EventOf[q] = EventOf[r]
EventTaken(r) == \E e \in events : e.event = EventOf[r]
NoUniqueKey(r) == FALSE                                   \* mutant
KeySaved(r)   == \E i \in idem : i.key = KeyOf[r]

-----------------------------------------------------------------------------
(* How a request moves.                                                    *)

Goto(r, label) == pc' = [pc EXCEPT ![r] = label] /\ UNCHANGED <<at, resp>>

\* The service returns, or raises, and the route answers.
Reply(r, code, donation) ==
  /\ pc' = [pc EXCEPT ![r] = "done"]
  /\ at' = [at EXCEPT ![r] = NoWorker]
  /\ resp' = [resp EXCEPT ![r] = [code |-> code, donation |-> donation]]

\* record_donation and payment_webhook are coroutines that call a synchronous
\* service: the event loop of their worker runs nothing else meanwhile.  The
\* other routes run in threads.
RunInThreads(w) == TRUE                                   \* mutant
LoopFree(w) == \A q \in Payments : at[q] # w

\* The balancer hands a request to a worker; authentication, the signature and
\* the schema have accepted it (a rejected request changes nothing).
Arrive(r, w) ==
  /\ pc[r] = "idle"
  /\ r \in Payments => LoopFree(w)
  /\ pc' = [pc EXCEPT ![r] = Entry(r)]
  /\ at' = [at EXCEPT ![r] = w]
  /\ UNCHANGED <<tables, cache, seen, page, resp>>

\* session.get(Campaign, id): the object keeps the values it was loaded with.
Load(r, c) ==
  seen' = [seen EXCEPT ![r] = [id |-> c, raised |-> campaigns[c].raised]]

\* raised_amount += amount, computed in Python from the loaded object.
Overwrites(r) == AmountOf[r]                              \* mutant
RaisedBy(r) == seen[r].raised + AmountOf[r]
Unchecked(r) == FALSE                                     \* mutant
Overflows(r) == RaisedBy(r) > IntMax

\* UPDATE campaigns SET raised_amount: the computed value is sent as a constant.
WritesWholeRow(r) ==                                      \* mutant
  [campaigns EXCEPT ![seen[r].id] = [status |-> "open", raised |-> RaisedBy(r)]]
SetRaised(r) == [campaigns EXCEPT ![seen[r].id].raised = RaisedBy(r)]

\* The flush in create_ledger_entry first sends the pending UPDATE campaigns; a
\* value out of the range of INTEGER is an error before it waits for the row,
\* rolled back and answered 500.
RaisesAtOnce(r) ==                                        \* mutant
  /\ pc[r] = "raise" /\ ~RowHeld(r, seen[r].id) /\ ~Overflows(r)
  /\ campaigns' = SetRaised(r)
  /\ Goto(r, "ledger")
  /\ UNCHANGED <<donations, ledger, audit, idem, events, pledges, cache, seen, page>>
UpdateRaised(r) ==
  /\ pc[r] = "raise"
  /\ \/ Overflows(r) /\ Reply(r, "error", NoDonation)
     \/ ~Overflows(r) /\ ~RowHeld(r, seen[r].id) /\ Goto(r, "ledger")
  /\ UNCHANGED <<tables, cache, seen, page>>

\* session.refresh() after the commit; the response is still to be sent.
Refresh(r) ==
  /\ pc[r] = "refresh"
  /\ Goto(r, "invalidate")
  /\ UNCHANGED <<tables, cache, seen, page>>

Success(r) ==
  CASE r \in DonationReqs -> "created"
    [] r \in WebhookReqs  -> "payment_confirmed"
    [] r \in CreateReqs   -> "created"
    [] r \in CloseReqs    -> "closed"

\* invalidate_cache swallows every Redis error; then the service returns.
InvalidateAndReply(r) ==
  /\ pc[r] = "invalidate"
  /\ cache' \in {Empty} \cup (IF "redis" \in Faults THEN {cache} ELSE {})
  /\ Reply(r, Success(r), IF r \in Payments THEN r ELSE NoDonation)
  /\ UNCHANGED <<tables, seen, page>>

\* A statement fails for a reason of its own (lost connection, no connection
\* left in the pool): rollback, and 500.  After the commit there is nothing
\* left to roll back, and the answer is 500 all the same.
DbFails(r) ==
  /\ "database" \in Faults
  /\ InFlight(r) /\ pc[r] \notin {"lookup", "store", "invalidate"}
  /\ Reply(r, "error", NoDonation)
  /\ UNCHANGED <<tables, cache, seen, page>>

\* A worker dies: the database rolls its open transactions back, its requests
\* are never answered.  A new process takes its place at once.
Crash(w) ==
  /\ "crash" \in Faults
  /\ \E r \in Requests : at[r] = w
  /\ pc' = [r \in Requests |-> IF at[r] = w THEN "lost" ELSE pc[r]]
  /\ at' = [r \in Requests |-> IF at[r] = w THEN NoWorker ELSE at[r]]
  /\ UNCHANGED <<tables, cache, seen, page, resp>>

\* The 60 seconds of the cached page are over.
NoTTL == FALSE /\ UNCHANGED vars                          \* mutant
Expire ==
  /\ cache # Empty
  /\ cache' = Empty
  /\ UNCHANGED <<tables, pc, at, seen, page, resp>>
=============================================================================
