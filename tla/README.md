# GiveNaija: a verification project

GiveNaija is the back office of an NGO: finance officers record bank transfers,
a payment provider reports payments through webhooks, donors pledge, admins open
and close campaigns, anyone reads the list of campaigns. It is a FastAPI
application on PostgreSQL and Redis. This directory models the part of it that
moves money and state, checks it with TLC and proves theorems about it with
TLAPS. Paths below are relative to the repository.

## Inventory

| Component | State | Operations | Interacts with |
|---|---|---|---|
| Donations (`app/domains/donations`) | tables `donations`, `pledges`, `receipts`, `idempotency_keys` | record_donation, create_pledge, get_or_create_receipt; reads | campaigns.raised_amount, ledger, audit log, Redis, live feed |
| Webhooks (`app/domains/webhooks`) | table `processed_events` | process_payment | the same, and donations.bank_ref |
| Campaigns (`app/domains/campaigns`) | table `campaigns`, Redis page `cache:campaigns:all:*` | create, close, list, event stream | audit log, Redis |
| Ledger (`app/domains/donations/ledger`) | table `ledger_entries` | create_ledger_entry, totals, verify | campaigns |
| Audit (`app/domains/audit`) | table `audit_log`, append-only triggers | rows written by the other services | everything that writes |
| Accounts (`app/domains/auth`) | tables `users`, `members` | register, login | audit log |
| Live feed (`app/core/broadcaster.py`, `app/db/firestore.py`) | queues of subscribers, per process | register, unregister, broadcast, background task after a 201 | donations, webhooks |
| Rate limiter (`app/core/middleware.py`) | timestamps per client, per process | dispatch | every request |
| Startup (`app/main.py`, `app/db/session.py`, `app/db/migrations.py`) | schema, triggers, alembic version, the engine a process has chosen | choose PostgreSQL or SQLite, create tables, install triggers, migrate | database, seed |
| Seed (`seed.py`) | rows of users, members, campaigns, a donation | init_db, trigger, seven look-up-or-insert steps, one commit | database, servers |
| Sessions (`app/db/session.py`) | connection pool, threads, the event loop | get_db | every request |

What is hard here:

* **Two schedulers.** `record_donation` and `payment_webhook` are coroutines that
  call a synchronous service (`donations/router.py:45`, `webhooks/router.py:29`):
  on one process they are atomic with respect to one another, and block
  everything else that needs the event loop. All other routes are plain
  functions and run in threads, so a close, a creation, a pledge or a read
  interleaves with a payment even on one process. With a second process or
  container, payments interleave with each other too.
* **READ COMMITTED.** A service reads, decides, and writes later. Only the UNIQUE
  constraints and row locks taken by INSERT and UPDATE order two transactions.
  The campaign row is read without a lock and `raised_amount` is computed in
  Python.
* **Idempotency in three layers**: the Idempotency-Key, the event_id and the bank
  reference, each checked early and enforced late.
* **Failure between commit and answer**: refresh and cache invalidation run after
  the commit; the process may die there; clients and the provider retry.
* **A cache filled by readers** that race with the writers' invalidations.
* **Startup that never fails.** A process picks its database once, when it is
  imported; it then creates, guards and migrates the schema with every error
  swallowed, while another process or a seed does the same and PostgreSQL may stop.
* **Three resources that wait for each other**: connections, threads, and an event
  loop that coroutines block while they wait for a connection.

What makes each component correct: a bank reference is credited at most once;
donation, ledger entry, audit row and counter commit together; a key makes at
most one donation; an event is an orphan or a donation, once; an answer says
what the tables say; a refused request leaves nothing; the counter is the sum of
the ledger; the audit log tells every change of state; no request waits for
ever; the cached page does not stay stale. Of a deployment: the recorded schema
version is true, an audit log in use is append-only or about to be, the demo data is
whole, two seeds that make an account share no row, nobody waits for ever; of a process: no connection or thread leaks.

## Plan

1. *Core (done)*: `Store`, `Donations`, `Webhooks`, `Campaigns`, `Ledger`,
   `GiveNaija`, the abstract `FundBook`, `MCGiveNaija`, and the first theorems in
   `GiveNaija_proofs`.
2. *Breadth (done)*: `Members` (registration and receipts, two insert-or-refetch
   races), `RateLimiter` (two sliding windows), `Startup` and `Seed` composed by
   `Deployment` (servers and seeds that start, crash and start again), and `Pool`
   (connections, threads and coroutines that block the loop).
3. *Proofs*: of every safety property a passing run checks, and of the refinement of
   `FundBook` (done). What is left: abstract specifications of `Members` and `Seed`, and
   the part of `FundBook` that any number of workers implements.

## Modules

* **`Store`**: the tables, the Redis page, the requests in flight, and what all
  services share. A request is one HTTP call. `pc[r]` is the statement it has
  reached, `at[r]` the worker it is on while in flight, `seen[r]` the Campaign object it
  has loaded, with the raised_amount it had then. A retry, or a second delivery,
  is another request with the same key or event_id. Rows that are flushed and
  not committed are not in the tables; they are told by `pc`: from "raise" on
  the donation is in the transaction (`Flushed`), from "ledger" on the campaign
  row is locked (`HoldsRow`), at "commit" of a webhook its event is (`HoldsEvent`).
  An INSERT of a value another transaction holds waits; one of a committed value
  fails. The flush order is SQLAlchemy's: donation, campaign, ledger entry and
  event, then the audit row and the key with the commit. Flushes that touch
  nothing others can see or wait for are one step with their neighbour.
* **`Donations`**: record_donation and create_pledge, one action per statement and
  error path. **`Webhooks`**: process_payment. **`Campaigns`**: create, close, list
  through the cache. **`Ledger`**: totals and verify.
* **`GiveNaija`** composes them: `Step(r)` is any service's step, `Next` adds
  arrivals, failing statements, crashes, and the TTL of the page; then the
  properties. **`FundBook`** is the abstract promise about money: a reference is
  credited at most once and a campaign's total grows by exactly that amount, in
  the same step; `Book` is the refinement mapping.
* **`MCGiveNaija`** names the requests the configurations pick from.
* **`Members`**: register_user and get_or_create_receipt, which share no row with the
  payments. Both look a row up, insert it if there is none, and learn at a UNIQUE
  constraint that another request came first; registration then fails, a receipt
  is read again. `users`, `members`, `receipts` and `auditLog` are the committed
  rows; a user that is flushed and not committed is told by `stmt[r] = "profile"`,
  and holds its e-mail (`EmailHeld`). Donations are given, and exist from the time
  their member does (`Made`). `MCMembers` names its requests.
* **`RateLimiter`**: RateLimiterMiddleware.dispatch. The lists of times are pruned when
  they are written, as in the code; their order is never looked at, and so a list is
  the set of its entries, each a time and the number of its request (`taken`), which
  keeps two requests of one moment apart. `admitted` and `lastRequest` record what
  was let in and answered, which the code does not keep and the properties are about.
  A dispatch awaits nothing before call_next, so it is one action.
* **`Startup`** is what a process does before it serves or seeds. `engine[p]` is the
  database it chose when it was imported, `phase[p]` the step it has reached,
  `missing[p]` what `create_all` found missing before it created anything. `tables`,
  `guarded` and `stamped` are the committed schema, triggers and alembic version.
  PostgreSQL's one trigger is dropped and created in one transaction, of SQLite's two
  each is a statement that commits by itself (`Refused`). A seed's Models are fewer: it imports the ledger's and the webhooks' models too late.
  **`Seed`** is the script: `item[s]` its position, `own[s]` the rows its one open
  transaction has inserted, `rows` the committed ones; a lookup is stale by the time
  of its insert. **`Deployment`** composes the two with crashes, with a PostgreSQL that
  stops and comes back, and with users of a server who make a seeded row by
  hand (`MakeByHand`): register any of its e-mails, as the API lets anyone
  (`auth/router.py:18`), or record its bank reference.
* **`Pool`** is one server process. A call goes through `at[c]`; `conns`, `threads` and
  `loop` say who holds what. What a session reads or writes is not in it.
* **`GiveNaija_proofs`**, **`Books_proofs`** and **`Totals_proofs`** (each builds on the one
  before), **`Members_proofs`**, **`Deployment_proofs`**, **`Pool_proofs`** and
  **`RateLimiter_proofs`** hold the theorems.

Where a property is about who can take a step (`NoStandstill`, `OnlyThePoolStalls`),
each guard has a name (`CanInsert`, `CanClose`), the action begins with it and asks
for nothing else, and the property is about the guards.

Operators marked `mutant` stand before the definition they change: each is a
plausible mistake that makes one property fail, which shows the property is
about the code.

## Runs

| Run | Instance | Shows |
|---|---|---|
| `payments` | 2 workers, d1 d2 d3 h1 h4, crashes, database failures | `TypeOK`, `ExactlyOnce`, `BooksAgree`, `OneDonationPerKey`, `RefusedLeavesNothing`, `AnswersAreTrue`, `RaisedNeverAboveLedger` |
| `lifecycle` | 2 workers, h6 h7, a creation, a close, 2 pledges, crashes | `EventsMatchDonations`, `AuditIsComplete`, `AnswersAreTrue`, `ClosedStaysClosed` |
| `one_worker` | 1 worker, d1 d6 h1 h5, a close, verify, 2 campaigns, crashes | `RaisedIsLedger`, `BookSpec`, `AlarmHasOneDirection` |
| `progress` | 2 workers, d1 d3 h1 h8, 2 campaigns, a reader, Redis failures | `EveryRequestEnds`, `CacheCatchesUp` |
| `members` | 2 registrations of one e-mail and 1 of another, 2 receipts of one donation, an anonymous and a missing one, crashes, failing statements | `MembersTypeOK`, `AccountsAreWhole`, `OneReceipt`, `LoserIsServed` |
| `limiter` | one address, window 3, limits 2 and 3, time 0 to 7, restarts | `LimiterTypeOK`, `LoginsLimited`, `RequestsLimited`, `SilenceHelps` |
| `deployment` | 1 server, 2 seeds of 3 items, two of which users make too, crashes, PostgreSQL stops | `DeploymentTypeOK`, `VersionIsTrue`, `SeedIsWhole`, `AccountKeepsApart`, `NoStandstill` |
| `starts` | 2 servers, 2 seeds of 4 items, none, some or all tables there before, no faults | `OpenLogIsClosing`, `StartsEnd` |
| `pool` | 2 connections, 2 threads, 6 calls of all kinds | `PoolTypeOK`, `OnlyThePoolStalls`, `EveryCallEnds` |
| `v_*` | the smallest instance of a disagreement | see Findings |

*Bounds.* Five payments at most: every clash in the code is between two
transactions (a reference, a row, an event, a key), so two requests per clash
and one that connects them (d1 shares a reference with d2 and h1, a key with d3, which
shares a reference with h4; h6 and h7 share an event) reach every combination, and a third party to each
wait. In `progress` two payments can also wait for each other's event: h8 carries the
event_id of h1, the reference of d3, and the other campaign. Amounts are 1 and 99 kobo, so that a lost update is visible and the
two-decimal ledger amount is not an integer of naira; the largest INTEGER is
99 or 1000, so that overflow happens in `payments` and `one_worker` and not
elsewhere. In `members` each race
has two racers, and the donor of the receipts may lose the race for the account.
In `limiter` the clock passes more than two windows, so that a window can start
between two hits, and the limits are small and unequal, so that each is met while
the other is not; addresses share nothing, so one is enough.
In `deployment` the two seeds clash with one another and with the server at every
statement they have; the script is cut to three of its seven items: an account, a
campaign (no constraint), and the donation with its ledger entry. Users make all of
these but the campaign, so that both seeds may find every account there. In `starts` and
`v_twice` there is a second account. The others take the same steps. PostgreSQL
has no tables before the first start; in `starts` it may also have those of an older
release, without the ledger or the events. The model has above a million states. In `pool`
two connections and two threads are enough for each pair of waits (a thread for a
connection, the holder of a connection for a thread or the loop, the loop for a
connection), and the six calls hold one of each kind: with and without a user,
thread and coroutine, reader and writer.
Faults are chosen by the run and unlimited in it. Workers and seeds are
symmetric, and symmetry is used where only safety is checked.

*Fairness.* `EveryRequestEnds` and `CacheCatchesUp` assume weak fairness of each
request's step (a thread or coroutine that can run does; PostgreSQL grants a
free lock) and of the page's expiry (Redis honours the TTL of 60 seconds). No
request has to arrive, and nothing is assumed of faults. `EveryCallEnds` assumes weak
fairness of what a call does next or, where it waits for a connection, of
the end of that wait: SQLAlchemy's `pool_timeout` of 30 seconds is what the code
relies on, and `OnlyThePoolStalls` says where it is needed. `StartsEnd` assumes weak
fairness of each process (`FairStart`), and strong fairness of the two statements that
wait for a lock which seeds take and release for ever: PostgreSQL grants the lock of
audit_log in the order of its queue, and an INSERT that waits for another transaction is
woken when that ends, while a new seed still has its start and its script ahead. Both
are needed: without the first a server starves before seeds that come
back, without the second a seed does. It is claimed where nothing fails; PostgreSQL may
stay down, and for that `NoStandstill` says that in every state, faults included,
somebody can take a step of the program.

## Findings

Three runs end in a counterexample on purpose: a document or comment says one
thing and the code does another.

* `v_close`: a donation commits on a campaign closed after its status check
  (`donations/service.py:62`), where `document.txt:376` says that no donation can
  ever be recorded against a closed campaign.
* `v_split`: a process that starts while PostgreSQL does not answer works on the
  SQLite file for the rest of its life (`db/session.py:28`); started again, it works on
  PostgreSQL, and one bank reference is recorded in both, which `README.md:16`
  excludes.
* `v_twice`: titles of campaigns are not UNIQUE, and what keeps two seeds apart is an
  account that both insert (`AccountKeepsApart`). Registration is public for any e-mail and
  role: where every seeded account was registered before, two seeds that overlap make a campaign twice
  (`seed.py:121`), although `seed.py:4` calls the script idempotent.

Met while modelling, in the model, and not a run of their own:

* *Payments.* With two processes, two payments lose an update of `raised_amount`
  (`document.txt:560` says balances cannot drift); with one process it cannot happen (`one_worker`),
  and the counter is never too high (`payments`). Two concurrent closes both succeed
  and are both audited (`campaigns/service.py:105`), where `document.txt:386` and
  `tests/test_donations_and_campaigns.py:191` have an error for the second. Every IntegrityError of a donation is answered as a
  duplicate bank reference, an unknown member_id too (`donations/service.py:146`). A
  failing refresh answers 500 for a recorded donation (`donations/service.py:139`),
  and so does a refresh that finds no connection in the pool.
* *Webhooks.* A second event with a recorded reference is acknowledged and leaves no
  `processed_events` row, which `mock_payment_provider.py:105` looks for. An unknown
  REF-, DON- or BOOK- reference is credited to any open campaign
  (`webhooks/service.py:66`), and CAMP-1 is read as the campaign with id 1.
* *Reads.* A reader stores a page it read before a write that has already
  invalidated; it stays until its TTL (`CacheCatchesUp`), where `README.md:47` promises
  invalidation. The reconciliation reads two values at two moments and so reports
  corruption of a correct database (`ledger/router.py:130`; on one worker only ever
  in one direction, `AlarmHasOneDirection`); it also accepts a total a hundred
  times the counter (`ledger/router.py:146`).
* *Accounts.* The loser of a registration race is answered 500, since the
  IntegrityError is raised again and no handler knows it (`auth/service.py:65`), where
  `swagger_document.txt:417` has 409. A login that the general window refuses has already
  taken a slot of the login window (`core/middleware.py:80`). Issuing a receipt writes no
  audit row (`donations/service.py:195`), while `README.md:17` says every state change
  does.
* *Startup.* The migration is never recorded on a database a server made itself:
  `create_all` has created `ledger_entries` first, `upgrade head` fails on it at
  every start, and `main.py:31` swallows that. A process serves when the database is
  unreachable, where `app/db/migrations.py:19` says that it refuses to start. A server that starts while a seed creates tables on a fresh
  database has its own `create_all` rolled back and serves without
  `ledger_entries` and `processed_events` (`main.py:21`), and before its audit log is
  append-only, which `README.md:18` excludes: where nothing else fails the seed is about to
  install the trigger (`OpenLogIsClosing`), and if that dies, the log stays open until
  another start. A server on SQLite still migrates
  PostgreSQL, and Alembic's `fileConfig` (`env.py:29`) disables the loggers the
  application has. The seed's third campaign has a counter of 150000000 and no ledger
  entry (`seed.py:179`): reconciliation reports it.
* *Seeds.* On a database no server has started on, the seed alone fails: it imports the
  ledger's model only at `seed.py:233`, after `init_db` (`seed.py:20`), so that the table of its
  donation's ledger entry is missing, and all it has inserted is rolled back (`LedgerFits`). `seed.py:2` calls
  it one command, and `README.md:220` names no server to start first.

## Proofs

All theorems hold for every set of workers, requests, processes, campaigns and
payloads that satisfies the named assumptions of the modules: that the kinds of
request are disjoint and the payloads of the kind they should be (`Store`,
`Members`), the likes for `Startup`, `Seed` and `Pool`; for `Seed`, that the script keeps
its order, and that users make rows by hand only where a constraint says there is
one (a campaign an admin creates under a seeded title is not modelled). Nothing else
is assumed, with two exceptions that theorems state: the one worker
of `OneWorkerReconciles` and `OneWorkerKeepsBook`, and the absence of faults in
`OpenLogsClose`.

**`GiveNaija_proofs`.**

* `TypeCorrect`: `TypeOK`, which is not inductive alone: that the counter a payment
  commits fits its column needs what the payment has loaded and the label it is
  at. `Loaded` says that, and `TypeInv` is both.
* `CreditedOnce`: `ExactlyOnce`, one reference in at most one donation. The code has
  two defences, a lookup and a UNIQUE constraint, and only the constraint is an
  argument: the lookup may be arbitrarily old when the row is inserted. The
  inductive invariant is `Reserved`: a transaction that has flushed its donation holds
  its reference alone, no other transaction has flushed it and no committed donation
  has it. An INSERT establishes it (it waits for holders and fails on rows), every
  other step keeps or ends a transaction, and the commit turns the reservation into
  the row.
* Both rest on `Turn`, which every later proof uses instead of the forty actions:
  a step of the system is `Outside` (the page expires, a process dies), a request
  that `Asks` (it moves to a label or answers, and writes nothing but the page), or
  one that `Writes` (its one commit, with all its rows).

**`Books_proofs`**, on top of it. `Effects` says what the three kinds of step do to rows
and answers.

* `BooksStayWhole` (`BooksAgree`): the rows of one commit belong together, and no other
  commit can give a donation a second entry, since `Reserved` makes references
  unique; that the two-decimal naira of the entry are the kobo of the donation is
  arithmetic on `Ngn`.
* `KeyUsedOnce` (`OneDonationPerKey`): the key is a row of the same commit.
* `EventsTell` (`EventsMatchDonations`): an event that is flushed is held alone, as a
  reference is.
* `ClosedForGood` (`ClosedStaysClosed`) and `AuditTells` (`AuditIsComplete`): from
  the invariant `Lives`, which says what a request past its commit has done to its
  campaign; the tables only grow.
* `ToldTheTruth` (`AnswersAreTrue`): `Turn` says what warrants an answer in the state
  it is given in; tables that only grow keep it warranted.
* `RefusalsLeaveNothing` (`RefusedLeavesNothing`): a request that has not reached its
  one commit has no row, and after it no refusal can be answered.

**`Totals_proofs`**, on top of both, is about money that is added up.

* The sum of the ledger is a fold of the community modules, that is, a function chosen
  to satisfy an equation over all subsets. The lemmas show that there is one, that
  it gives a set and a subset of it the same sum, and that a new entry adds its
  value (`WorthOf`, `WorthStep`, `NextTotal`), each on a smallest subset where it would
  fail.
* `NeverOvercounted` (`RaisedNeverAboveLedger`) and `AlarmsAreReal`
  (`AlarmHasOneDirection`), for any number of workers, rest on `Covered`: what stands in
  the counter, and what any request has loaded of it, however long ago, is at most the
  sum of the ledger. The sum only grows, and a commit adds to the ledger what it
  adds to what it had loaded.
* `OneWorkerReconciles` (`RaisedIsLedger`) and `OneWorkerKeepsBook` (`BookSpec`, the
  refinement of `FundBook`) need more: `OnePerWorker`, that a worker has one
  payment in flight at a time, and `UpToDate`, that a payment past its load
  holds the counter as it stands. It is the second that fails with two workers.

**`Members_proofs`.** `MembersTypeCorrect`, `WholeAccounts`, `SameReceipt` and
`RaceIsServed`: the shape, `AccountsAreWhole`, `OneReceipt` and `LoserIsServed`,
from one invariant, `MemberInv`. What the properties lack is what is between
two statements: the e-mail of a flushed account is free of others (`EmailIsHeld`),
a request that has committed a receipt will find it (`IssuedIsKept`), and a request
past its lookup is about a donation that exists (`DonationIsThere`).

**`Deployment_proofs`.** `DeploymentTypeCorrect` and `VersionStaysTrue`;
`SeededWhole` (`SeedIsWhole`) needs `Progress`: what a seed has passed in its script it
holds itself or finds committed, and committed rows stay. Two seeds in one database
exclude each other: `Exclusive`, that a unique item is in one open transaction.
`SomebodyGoesOn` (`NoStandstill`) follows for any number of processes: a seed waits only
for one that is further in the script (`WaitsAhead`), since what the other holds, and
what is therefore not committed, the first cannot have passed (`Behind`, `Progress`,
`Exclusive`); the seed that is furthest waits for nobody. A trigger waits only for
seeds. `SeedsKeepApart` (`AccountKeepsApart`) has the same invariant, `Ordered`, as its
argument: a seed that has made an account found it missing, so that, by `SeedIsWhole`, no
campaign was committed; and another seed that makes campaigns has passed the account,
which comes first in the script (`AccountsFirst`), and so would hold it or have found
it. What happens when no seed makes an account is `v_twice`.
`OpenLogsClose` (`OpenLogIsClosing`), for any number of starts without faults, rests on
`StillOpen`: as long as the log is open nobody is past the trigger, and nobody has lost
the race for the tables unless its winner is at the trigger.

**`Pool_proofs`.** `NothingLeaks` (`PoolTypeOK`): every connection, thread and turn of
the loop is with a call at a stage that uses it, and there are no more than
their number. `StallsNeedThePool` (`OnlyThePoolStalls`) follows from it: were a connection
free, the calls that wait for one could go on; had nobody one to wait for, the loop and
the threads would be free for all others.

**`RateLimiter_proofs`.** `LimiterTypeCorrect`, `LoginsStayLimited`, `RequestsStayLimited`
and `SilenceIsEnough`. A list is pruned and its limit checked at the time of a request,
and the properties are about every window, those that began at any other time included.
The invariant `Remembered` says that what was let in less than a window ago is still
in the lists, and that these keep to their limits. `UpToNow` reduces a window that ends
now to a list, `PastIsPast` one that ended before to the past, which no later request
changes.

*Only model-checked*: liveness (`EveryRequestEnds`, `CacheCatchesUp`, `EveryCallEnds`,
`StartsEnd`), since fairness and ENABLED are out of the prover's reach. The three runs that end in a
counterexample are TLC's alone.

## Not modelled

Login, tokens, signatures and schema validation come before a service and
change nothing; a rejected request never arrives in the model. In `Seed`, a campaign made by
hand under a seeded title is left out: the script would take it for its own, and
`c1.raised_amount +=` (`seed.py:212`) would then read and write a row that payments write too.
Without it the script adds only to a campaign of its own transaction, since a committed one
comes with its donation (`SeedIsWhole`). SQLite, the fallback
of `app/db/session.py`, is in `Startup` and `Seed`; the services are modelled on
PostgreSQL only, since SQLite serialises writers. Columns, messages and
timestamps no property is about are left out, and so are the reads that only
format rows. The ledger's DEBIT and REFUND entries exist as a type and are
created by no code. `app/core/idempotency.py` is not used by any route. In
`Pool`, connections that break or are recycled are left out: they are replaced where they
are. `RateLimiter` is one process with the clock of its host; that two processes count
apart, and forget at a restart, is how an in-memory limiter works. The live
feed is left out because no client can subscribe to it: the stream route
uses `Campaign` without importing it (`campaigns/router.py:99`), so every
`GET /campaigns/{id}/stream` ends in a 500 before it registers a queue, and what is
broadcast reaches nobody; Firestore is a write to an external service whose
failure is logged and ignored. Configuration, error formatting and the mock
provider keep no state of the service.
