-------------------------------- MODULE Seed --------------------------------
(***************************************************************************)
(* seed.py: seven rows, each looked up and inserted if it is not there, in *)
(* one transaction.  E-mails and the bank reference are UNIQUE, titles of  *)
(* campaigns are not.  Users make rows of their own meanwhile: anyone can  *)
(* register any e-mail, an officer can record the seeded reference.  A     *)
(* campaign an admin creates under a seeded title is left out.             *)
(***************************************************************************)
EXTENDS Startup

CONSTANTS
  Script,  \* the items of the script, or some of them, in its order
  ByHand   \* seeded items that users of the API may make as well

FullScript == <<"admin", "finance", "donor", "c1", "c2", "c3", "gift">>
Accounts == {"admin", "finance", "donor"}
Unique == Accounts \cup {"gift"}
Items  == {Script[i] : i \in DOMAIN Script}

ASSUME SeedAssumption ==
  /\ Script \in Seq({FullScript[i] : i \in DOMAIN FullScript}) /\ Script # <<>>
  /\ \A j, k \in DOMAIN Script : j < k =>
       \E a, b \in DOMAIN FullScript :
         a < b /\ FullScript[a] = Script[j] /\ FullScript[b] = Script[k]
  /\ ByHand \subseteq Items \cap Unique

Item(s)    == Script[item[s]]
There(s)   == rows[engine[s]][Item(s)] > 0

\* mutant of Reserved: no UNIQUE constraint, hence no wait
NobodyWaits(s) == FALSE

\* Another transaction has inserted the row, which is UNIQUE, and not committed.
Reserved(s) == /\ Item(s) \in Unique
               /\ \E t \in Seeds \ {s} : /\ engine[t] = engine[s]
                                         /\ Item(s) \in own[t]

\* mutant of Held: a committed row is waited for too
WaitsForRows(s) == Locked(s) \/ Reserved(s) \/ (Item(s) \in Unique /\ There(s))

\* The insert waits, for that transaction or for the SQLite file.
Held(s) == Locked(s) \/ Reserved(s)
Clashes(s) == Item(s) \in Unique /\ There(s)
CanInsert(s) == phase[s] = "insert" /\ ~Held(s) /\ ~Clashes(s)

Advance(s) ==
  IF item[s] = Len(Script)
    THEN Goto(s, "commit") /\ UNCHANGED item
    ELSE Goto(s, "find") /\ item' = [item EXCEPT ![s] = @ + 1]

FindItem(s) ==
  /\ phase[s] = "find"
  /\ IF There(s) THEN Advance(s) ELSE Goto(s, "insert") /\ UNCHANGED item
  /\ UNCHANGED <<pgUp, schemaVars, engine, missing, rows, own>>

\* mutant of InsertItem: every row is committed at once
CommitsEachRow(s) ==
  /\ CanInsert(s)
  /\ rows' = [rows EXCEPT ![engine[s]][Item(s)] = @ + 1]
  /\ Advance(s)
  /\ UNCHANGED <<pgUp, schemaVars, engine, missing, own>>

InsertItem(s) ==
  /\ CanInsert(s)
  /\ own' = [own EXCEPT ![s] = @ \cup {Item(s)}]
  /\ Advance(s)
  /\ UNCHANGED <<pgUp, schemaVars, engine, missing, rows>>

\* The ledger entry of the donation is flushed by the commit, into a table the
\* seed has not created.
LedgerFits(s) == "gift" \in own[s] => "ledger" \in tables[engine[s]]

\* mutant of RollBack: what was flushed stays
KeepsFlushed(s) == UNCHANGED own

\* A row has come in between, the file stays locked, or there is no ledger: the
\* error leaves the session, which rolls back, and the script.
RollBack(s) == own' = [own EXCEPT ![s] = {}]

CannotSeed(s) ==
  \/ phase[s] = "insert" /\ (Locked(s) \/ (Clashes(s) /\ ~Held(s)))
  \/ phase[s] = "commit" /\ ~LedgerFits(s)

SeedFails(s) ==
  /\ CannotSeed(s)
  /\ RollBack(s)
  /\ Leave(s, "failed")
  /\ item' = [item EXCEPT ![s] = 1]
  /\ UNCHANGED <<pgUp, schemaVars, rows>>

CommitSeed(s) ==
  /\ phase[s] = "commit" /\ LedgerFits(s)
  /\ rows' = [rows EXCEPT ![engine[s]] =
                [i \in Items |-> IF i \in own[s] THEN @[i] + 1 ELSE @[i]]]
  /\ own' = [own EXCEPT ![s] = {}]
  /\ item' = [item EXCEPT ![s] = 1]
  /\ Leave(s, "done")
  /\ UNCHANGED <<pgUp, schemaVars>>

\* Through the API, a user registers with a seeded e-mail, or an officer records
\* a donation with the seeded bank reference.
MakeByHand(p, i) ==
  /\ Serving(p) /\ Connected(p) /\ ~Locked(p)
  /\ tables[engine[p]] = Tables
  /\ rows[engine[p]][i] = 0
  /\ \A s \in Seeds : engine[s] = engine[p] => i \notin own[s]
  /\ rows' = [rows EXCEPT ![engine[p]][i] = 1]
  /\ UNCHANGED <<pgUp, schemaVars, procVars, own, item>>

=============================================================================
