---------------------------- MODULE Deployment ----------------------------
(***************************************************************************)
(* Servers and seeds that start, crash and are started again, while        *)
(* PostgreSQL stops and comes back.                                        *)
(***************************************************************************)
EXTENDS Seed

vars == <<pgUp, schemaVars, procVars, dataVars>>

Init ==
  /\ pgUp \in BOOLEAN /\ ("postgres" \in StartFaults \/ pgUp)
  /\ \E legacy \in Legacies :
       tables = [d \in Databases |-> IF d = "postgres" THEN legacy ELSE {}]
  /\ guarded = [d \in Databases |-> {}] /\ stamped = FALSE
  /\ phase = [p \in Processes |-> "down"]
  /\ engine = [p \in Processes |-> "none"]
  /\ missing = [p \in Processes |-> {}]
  /\ rows = [d \in Databases |-> [i \in Items |-> 0]]
  /\ own = [p \in Processes |-> {}]
  /\ item = [p \in Processes |-> 1]

StartStep(p) == \/ CheckTables(p) \/ CreateTables(p) \/ InstallTrigger(p)
                \/ StepFails(p) \/ Migrate(p)
SeedStep(s)  == FindItem(s) \/ InsertItem(s) \/ SeedFails(s) \/ CommitSeed(s)
ProcStep(p)  == StartStep(p) \/ (p \in Seeds /\ SeedStep(p))

Next ==
  \/ \E p \in Processes : Import(p) \/ ProcStep(p) \/ Crash(p)
  \/ \E p \in Servers, i \in ByHand : MakeByHand(p, i)
  \/ StopPostgres \/ StartPostgres

Spec == Init /\ [][Next]_vars

\* A process that can go on does.  Seeds come and go and hold locks meanwhile:
\* who waits for one of these is woken when it is free and gets it at last.
FairStart ==
  /\ Spec
  /\ \A p \in Processes : WF_vars(ProcStep(p)) /\ SF_vars(InstallTrigger(p))
  /\ \A s \in Seeds : SF_vars(InsertItem(s))

-----------------------------------------------------------------------------
\* Every variable keeps its shape, and no seed that has ended leaves a
\* transaction open (the `with Session` block of seed.py:26).
DeploymentTypeOK ==
  /\ pgUp \in BOOLEAN /\ stamped \in BOOLEAN
  /\ tables \in [Databases -> SUBSET Tables]
  /\ guarded \in [Databases -> SUBSET Changes]
  /\ phase \in [Processes -> {"down", "check", "create", "trigger", "migrate",
                              "serving", "find", "insert", "commit", "done", "failed"}]
  /\ engine \in [Processes -> Databases \cup {"none"}]
  /\ missing \in [Processes -> SUBSET Tables]
  /\ rows \in [Databases -> [Items -> Nat]]
  /\ own \in [Processes -> SUBSET Items]
  /\ item \in [Processes -> 1..Len(Script)]
  /\ \A p \in Processes : own[p] # {} => p \in Seeds /\ Seeding(p)

\* Alembic's record of the schema never runs ahead of the schema, whatever was
\* created by init_db and whatever migration failed (main.py:30).
VersionIsTrue == stamped => "ledger" \in tables["postgres"]

\* Where nothing fails, a server serves with an audit log that can be changed
\* only while another process is about to install the trigger: one that loses the
\* race for the tables skips its own (main.py:26 and 27), the winner does not.
OpenLogIsClosing ==
  \A p \in Processes : Serving(p) =>
    \/ guarded[engine[p]] = Changes
    \/ \E q \in Processes : phase[q] = "trigger" /\ engine[q] = engine[p]

\* Every start ends, a server serving and a seed gone, however often seeds come
\* back for the locks it waits for (seed.py:41, audit/service.py:65).
StartsEnd ==
  \A p \in Processes : Running(p) ~> ~Running(p) \/ Serving(p)

\* A seed that has made an account makes no row that is there or that another
\* seed is making, campaigns included, for which no constraint says so: who else
\* makes campaigns has passed the account first (seed.py:33, 124).
AccountKeepsApart ==
  \A s \in Seeds : own[s] \cap Accounts # {} =>
    \A i \in own[s] :
      /\ rows[engine[s]][i] = 0
      /\ \A t \in Seeds \ {s} : engine[t] = engine[s] => i \notin own[t]

\* What is seeded is seeded whole: where there is a row that only the script
\* makes, such as a campaign, there are all of them, whatever run of the script
\* made which, and wherever another was killed or failed (seed.py:26 to 247).
SeedIsWhole ==
  \A d \in Databases, c \in Items \ ByHand :
    rows[d][c] > 0 => \A i \in Items : rows[d][i] > 0

\* The guards of ProcStep, whose steps ask for nothing else.
CanGoOn(p) ==
  \/ CanCheck(p) \/ CanCreate(p) \/ CanInstall(p) \/ CanFail(p)
  \/ phase[p] = "migrate"
  \/ /\ p \in Seeds
     /\ phase[p] \in {"find", "commit"} \/ CanInsert(p) \/ CannotSeed(p)

\* Those that start or seed never all wait for one another: as long as there is
\* one, one of them can go on, over the locks of both databases (seed.py:41,
\* audit/service.py:58) and in every state PostgreSQL can be in.
NoStandstill ==
  (\E p \in Processes : Running(p) /\ ~Serving(p))
    => \E p \in Processes : CanGoOn(p)

\* A bank reference is recorded at most once (README.md:16), whichever database
\* the servers write to (session.py:28).
CreditedOnceAnywhere ==
  \A d, e \in Databases : rows[d]["gift"] > 0 /\ rows[e]["gift"] > 0 => d = e

\* "Safe to run multiple times without creating duplicate records" (seed.py:4).
SeedsOnce == \A d \in Databases, i \in Items : rows[d][i] <= 1

=============================================================================
