------------------------------ MODULE Startup ------------------------------
(***************************************************************************)
(* What a process does before it serves or seeds: db/session.py chooses an *)
(* engine at import, for the life of the process; init_db creates the      *)
(* tables it misses; audit/service.py installs the append-only trigger;    *)
(* main.py then runs the Alembic migration, which always addresses         *)
(* DATABASE_URL.  The lifespan of main.py swallows every error and serves; *)
(* seed.py stops at a failing init_db and swallows a failing trigger.  It  *)
(* imports neither the ledger's model nor the webhooks' before init_db, so *)
(* it does not create their tables.                                        *)
(* Processes share a working directory, hence one SQLite file.             *)
(***************************************************************************)
EXTENDS Integers, Sequences

CONSTANTS
  Servers,     \* uvicorn processes of app.main
  Seeds,       \* runs of seed.py
  Legacies,    \* sets of tables PostgreSQL may have before the first start
  StartFaults  \* what may go wrong: a subset of {"crash", "postgres"}

Processes == Servers \cup Seeds
Databases == {"postgres", "sqlite"}
\* ledger_entries, the table of the one migration; processed_events; the others.
Tables    == {"base", "events", "ledger"}
Models(p) == IF p \in Seeds THEN {"base"} ELSE Tables
\* What the triggers make audit_log refuse.
Changes   == {"update", "delete"}

ASSUME StartupAssumption ==
  /\ Servers \cap Seeds = {}
  /\ Legacies \subseteq {{}, {"base"}, {"base", "events"}, Tables}

VARIABLES
  pgUp,     \* PostgreSQL answers
  tables,   \* committed tables of each database
  guarded,  \* the changes audit_log refuses in each database
  stamped,  \* alembic_version of PostgreSQL is at head
  phase,    \* the step a process has reached
  engine,   \* the database of its engine, "none" when it does not run
  missing,  \* tables create_all has found missing
  rows,     \* how many committed rows of each seeded item a database has
  own,      \* items inserted by the open transaction of a seed
  item      \* position of a seed in its script

schemaVars == <<tables, guarded, stamped>>
procVars   == <<phase, engine, missing>>
dataVars   == <<rows, own, item>>

Running(p)     == engine[p] # "none"
Serving(p)     == p \in Servers /\ phase[p] = "serving"
Seeding(p)     == phase[p] \in {"find", "insert", "commit"}
Connected(p)   == engine[p] = "postgres" => pgUp
\* The write lock of the SQLite file is with a seed's open transaction.
Locked(p) == /\ engine[p] = "sqlite"
             /\ \E s \in Seeds \ {p} : engine[s] = "sqlite" /\ own[s] # {}

Goto(p, next) == phase' = [phase EXCEPT ![p] = next]
Leave(p, next) ==
  /\ Goto(p, next)
  /\ engine' = [engine EXCEPT ![p] = "none"]
  /\ missing' = [missing EXCEPT ![p] = {}]

-----------------------------------------------------------------------------
\* The engine is PostgreSQL if it answers SELECT 1 now, else the SQLite file.
Import(p) ==
  /\ ~Running(p)
  /\ engine' = [engine EXCEPT ![p] = IF pgUp THEN "postgres" ELSE "sqlite"]
  /\ Goto(p, "check")
  /\ UNCHANGED <<pgUp, schemaVars, missing, dataVars>>

CanCheck(p) == phase[p] = "check" /\ Connected(p)

\* mutant of CheckTables: nothing missing, nothing to do
SkipsWhenComplete(p) ==
  /\ CanCheck(p)
  /\ missing' = [missing EXCEPT ![p] = Models(p) \ tables[engine[p]]]
  /\ IF Models(p) \subseteq tables[engine[p]] /\ p \in Servers
       THEN Goto(p, "serving") ELSE Goto(p, "create")
  /\ UNCHANGED <<pgUp, schemaVars, engine, dataVars>>

\* create_all looks at all tables before it creates any.
CheckTables(p) ==
  /\ CanCheck(p)
  /\ missing' = [missing EXCEPT ![p] = Models(p) \ tables[engine[p]]]
  /\ Goto(p, "create")
  /\ UNCHANGED <<pgUp, schemaVars, engine, dataVars>>

First(set) == IF "base" \in set THEN {"base"}
              ELSE IF "events" \in set THEN {"events"} ELSE set

\* What is created by one statement that commits: all on PostgreSQL, where the
\* DDL is in one transaction; one table on SQLite, where it is in none.
Batch(p) == IF engine[p] = "sqlite" THEN First(missing[p]) ELSE missing[p]

Collides(p) == Batch(p) \cap tables[engine[p]] # {}

\* On PostgreSQL the foreign keys of ledger_entries need locks on campaigns and
\* donations, which a seed that has inserted into them keeps until it ends.
LedgerWaits == \E s \in Seeds : /\ engine[s] = "postgres"
                               /\ own[s] \cap {"c1", "c2", "c3", "gift"} # {}
CreateWaits(p) == engine[p] = "postgres" /\ "ledger" \in missing[p] /\ LedgerWaits

CanCreate(p) == /\ phase[p] = "create" /\ Connected(p)
                /\ ~Locked(p) /\ ~CreateWaits(p) /\ ~Collides(p)

CreateTables(p) ==
  /\ CanCreate(p)
  /\ tables' = [tables EXCEPT ![engine[p]] = @ \cup Batch(p)]
  /\ missing' = [missing EXCEPT ![p] = @ \ Batch(p)]
  /\ IF missing[p] = Batch(p) THEN Goto(p, "trigger") ELSE UNCHANGED phase
  /\ UNCHANGED <<pgUp, guarded, stamped, engine, dataVars>>

\* mutant of TriggerWaits: a server keeps a transaction open while it serves
WaitsForServers(p) == \E q \in Servers : Serving(q) /\ engine[q] = engine[p]

\* On PostgreSQL the new trigger waits for transactions that have written
\* audit rows, and processes that are replacing the function at the same
\* moment fail (tuple concurrently updated).
TriggerWaits(p) == /\ engine[p] = "postgres"
                   /\ \E s \in Seeds : engine[s] = "postgres" /\ own[s] # {}
Rivals(p) == {q \in Processes \ {p} : /\ engine[p] = "postgres"
                                      /\ engine[q] = "postgres"
                                      /\ phase[q] = "trigger"}

\* After the trigger: a seed goes on, whether it failed or not; in a server
\* the failure skips the migration.
Afterwards(p, ok) == IF p \in Seeds THEN "find"
                     ELSE IF ok THEN "migrate" ELSE "serving"

\* The next statement to commit: on PostgreSQL a transaction that drops the one
\* trigger and creates it again; on SQLite the creation of one of two, each by
\* itself and only if it is not there.
Refused(p) == IF engine[p] = "sqlite" /\ guarded["sqlite"] = {}
                THEN {"update"} ELSE Changes

CanInstall(p) ==
  phase[p] = "trigger" /\ Connected(p) /\ ~Locked(p) /\ ~TriggerWaits(p)

InstallTrigger(p) ==
  /\ CanInstall(p)
  /\ guarded' = [guarded EXCEPT ![engine[p]] = Refused(p)]
  /\ \/ Refused(p) # Changes /\ UNCHANGED phase
     \/ /\ Refused(p) = Changes
        /\ \E losers \in SUBSET Rivals(p) :
             phase' = [q \in Processes |->
                         IF q = p THEN Afterwards(q, TRUE)
                         ELSE IF q \in losers THEN Afterwards(q, FALSE)
                         ELSE phase[q]]
  /\ UNCHANGED <<pgUp, tables, stamped, engine, missing, dataVars>>

\* A statement of these steps fails: PostgreSQL is down, the SQLite file stays
\* locked, a table exists by now, or the two that wait for the locks of the
\* ledger's foreign keys and for each other's are a deadlock, which PostgreSQL
\* breaks.
CanFail(p) ==
  /\ phase[p] \in {"check", "create", "trigger"}
  /\ \/ ~Connected(p)
     \/ phase[p] # "check" /\ Locked(p)
     \/ phase[p] = "create" /\ (Collides(p) \/ CreateWaits(p))

StepFails(p) ==
  /\ CanFail(p)
  /\ \/ phase[p] \in {"check", "create"} /\ p \in Seeds /\ Leave(p, "failed")
     \/ /\ phase[p] \in {"check", "create"} /\ p \in Servers
        /\ Goto(p, "serving")
        /\ missing' = [missing EXCEPT ![p] = {}]
        /\ UNCHANGED engine
     \/ /\ phase[p] = "trigger"
        /\ Goto(p, Afterwards(p, FALSE))
        /\ UNCHANGED <<engine, missing>>
  /\ UNCHANGED <<pgUp, schemaVars, dataVars>>

\* mutant of Upgraded: stamp_head() where upgrade is meant
StampOnly == tables["postgres"]

\* upgrade head creates ledger_entries, which refers to tables of "base", and
\* stamps in one transaction; it does nothing when stamped and fails otherwise,
\* also as the victim of a deadlock with a seed.
Upgraded == tables["postgres"] \cup {"ledger"}

Migrate(p) ==
  /\ phase[p] = "migrate"
  /\ IF /\ pgUp /\ ~stamped /\ ~LedgerWaits
        /\ "base" \in tables["postgres"] /\ "ledger" \notin tables["postgres"]
       THEN tables' = [tables EXCEPT !["postgres"] = Upgraded] /\ stamped' = TRUE
       ELSE UNCHANGED <<tables, stamped>>
  /\ Goto(p, "serving")
  /\ UNCHANGED <<pgUp, guarded, engine, missing, dataVars>>

-----------------------------------------------------------------------------
Crash(p) ==
  /\ "crash" \in StartFaults /\ Running(p)
  /\ Leave(p, "down")
  /\ own' = [own EXCEPT ![p] = {}]
  /\ item' = [item EXCEPT ![p] = 1]
  /\ UNCHANGED <<pgUp, schemaVars, rows>>

\* PostgreSQL stops: open transactions end, and a seed in one dies of it.
Victims == {s \in Seeds : engine[s] = "postgres" /\ Seeding(s)}

StopPostgres ==
  /\ "postgres" \in StartFaults /\ pgUp
  /\ pgUp' = FALSE
  /\ phase'  = [p \in Processes |-> IF p \in Victims THEN "failed" ELSE phase[p]]
  /\ engine' = [p \in Processes |-> IF p \in Victims THEN "none" ELSE engine[p]]
  /\ own'    = [p \in Processes |-> IF p \in Victims THEN {} ELSE own[p]]
  /\ item'   = [p \in Processes |-> IF p \in Victims THEN 1 ELSE item[p]]
  /\ UNCHANGED <<schemaVars, missing, rows>>

StartPostgres ==
  /\ ~pgUp
  /\ pgUp' = TRUE
  /\ UNCHANGED <<schemaVars, procVars, dataVars>>

=============================================================================
