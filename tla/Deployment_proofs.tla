------------------------- MODULE Deployment_proofs -------------------------
(***************************************************************************)
(* Theorems about Deployment for any number of servers and seeds, any part *)
(* of the script and whatever users make by hand.                          *)
(***************************************************************************)
EXTENDS Deployment, WellFoundedInduction, TLAPS

\* A process past its import has a database, and one that is not in its script
\* is at its beginning.
Aligned ==
  \A p \in Processes :
    /\ phase[p] \notin {"down", "done", "failed"} => engine[p] \in Databases
    /\ ~Seeding(p) => item[p] = 1

\* A seed has each item it has passed: committed, or in its own transaction.
Progress ==
  \A s \in Seeds : Seeding(s) =>
    \A k \in DOMAIN Script : phase[s] = "commit" \/ k < item[s] =>
      rows[engine[s]][Script[k]] > 0 \/ Script[k] \in own[s]

\* What a UNIQUE constraint guards is inserted by one transaction at most, and
\* not while it is there.
Exclusive ==
  \A s \in Seeds : \A i \in own[s] \cap Unique :
    /\ rows[engine[s]][i] = 0
    /\ \A t \in Seeds \ {s} : engine[t] = engine[s] => i \notin own[t]

Shape == DeploymentTypeOK /\ Aligned
Whole == Shape /\ Progress /\ SeedIsWhole
Alone == Whole /\ Exclusive

\* A process that runs is at a step, servers and seeds each at their own.
Placed ==
  \A p \in Processes :
    /\ Running(p) => phase[p] \notin {"down", "done", "failed"}
    /\ phase[p] \in {"migrate", "serving"} => p \in Servers
    /\ Seeding(p) => p \in Seeds

\* What a seed holds is behind it in the script.
Behind ==
  \A s \in Seeds : \A i \in own[s] :
    \E k \in DOMAIN Script : Script[k] = i /\ (phase[s] = "commit" \/ k < item[s])

Ordered == Alone /\ Placed /\ Behind

\* An audit log that can still be changed has had nobody in front of it: no one
\* is past the trigger, and unless somebody is at it, no one serves or has lost
\* the race for the tables.
StillOpen ==
  /\ \A p \in Processes : ~Seeding(p) /\ phase[p] # "migrate"
  /\ \/ \E q \in Processes : phase[q] = "trigger"
     \/ \A p \in Processes :
          /\ ~Serving(p)
          /\ phase[p] = "create" => missing[p] \cap tables["postgres"] = {}

\* Nothing has failed: everybody works on PostgreSQL, and its log is guarded or as
\* StillOpen says.
Faultless ==
  /\ pgUp /\ \A p \in Processes : engine[p] # "sqlite"
  /\ guarded["postgres"] = Changes \/ StillOpen

\* No row is committed, and each process either stays as it is or is at the
\* beginning of the script with an empty transaction.
Quiet ==
  /\ rows' = rows
  /\ \A p \in Processes :
       \/ /\ phase'[p] = phase[p] /\ engine'[p] = engine[p]
          /\ own'[p] = own[p] /\ item'[p] = item[p]
       \/ own'[p] = {} /\ item'[p] = 1 /\ phase'[p] \notin {"insert", "commit"}

-----------------------------------------------------------------------------
\* The script has a first item, and its items are its positions.
LEMMA ScriptFacts ==
  /\ Len(Script) \in Nat \ {0} /\ DOMAIN Script = 1..Len(Script)
  /\ 1 \in DOMAIN Script
  /\ \A k \in DOMAIN Script : Script[k] \in Items
  /\ \A i \in Items : \E k \in DOMAIN Script : Script[k] = i
<1> DEFINE S == {FullScript[i] : i \in DOMAIN FullScript}
<1>1. Script \in Seq(S) /\ Script # <<>>  BY SeedAssumption
<1>2. Len(Script) \in Nat /\ DOMAIN Script = 1..Len(Script)  BY <1>1
<1>3. Len(Script) # 0  BY <1>1
<1> QED  BY <1>2, <1>3 DEF Items

\* A seed is always at an item of the script.
LEMMA ItemFact ==
  ASSUME Shape, NEW s \in Seeds
  PROVE  Item(s) \in Items /\ item[s] \in DOMAIN Script /\ s \in Processes
  BY ScriptFacts DEF Shape, DeploymentTypeOK, Item, Processes

\* What a process does before its script keeps the shape and touches no row.
LEMMA StartShape ==
  ASSUME Shape, NEW p \in Processes, Import(p) \/ StartStep(p)
  PROVE  Shape' /\ Quiet
<1> USE DEF Shape, DeploymentTypeOK, Aligned, Seeding, Quiet, schemaVars,
        dataVars, procVars, Goto
<1>1. CASE Import(p)
  BY <1>1 DEF Import, Running, Databases
<1>2. CASE CheckTables(p)
  <2>1. Models(p) \ tables[engine[p]] \in SUBSET Tables
    BY DEF Models, Tables
  <2> QED  BY <1>2, <2>1 DEF CheckTables, CanCheck
<1>3. CASE CreateTables(p)
  <2>1. engine[p] \in Databases
    BY <1>3 DEF CreateTables, CanCreate
  <2>2. Batch(p) \in SUBSET Tables
    BY DEF Batch, First, Tables
  <2>3. tables' \in [Databases -> SUBSET Tables]
    BY <1>3, <2>1, <2>2 DEF CreateTables
  <2>4. missing' \in [Processes -> SUBSET Tables]
    BY <1>3 DEF CreateTables
  <2> QED  BY <1>3, <2>3, <2>4 DEF CreateTables, CanCreate
<1>4. CASE InstallTrigger(p)
  <2>1. engine[p] \in Databases
    BY <1>4 DEF InstallTrigger, CanInstall
  <2>2. guarded' \in [Databases -> SUBSET Changes]
    BY <1>4, <2>1 DEF InstallTrigger, Refused, Changes
  <2>3. \A q \in Processes :
          \/ phase'[q] = phase[q]
          \/ phase[q] = "trigger" /\ phase'[q] \in {"find", "migrate", "serving"}
    BY <1>4 DEF InstallTrigger, CanInstall, Afterwards, Rivals
  <2>4. phase' \in [Processes -> {"down", "check", "create", "trigger", "migrate",
                          "serving", "find", "insert", "commit", "done", "failed"}]
    BY <1>4, <2>3 DEF InstallTrigger
  <2>5. UNCHANGED <<pgUp, tables, stamped, engine, missing, rows, own, item>>
    BY <1>4 DEF InstallTrigger
  <2> QED  BY <2>2, <2>3, <2>4, <2>5
<1>5. CASE StepFails(p)
  BY <1>5 DEF StepFails, Afterwards, Leave
<1>6. CASE Migrate(p)
  <2>1. Upgraded \in SUBSET Tables
    BY DEF Upgraded, Databases, Tables
  <2>2. tables' \in [Databases -> SUBSET Tables]
    BY <1>6, <2>1 DEF Migrate
  <2>3. stamped' \in BOOLEAN
    BY <1>6 DEF Migrate
  <2> QED  BY <1>6, <2>2, <2>3 DEF Migrate
<1> QED  BY <1>1, <1>2, <1>3, <1>4, <1>5, <1>6 DEF StartStep

\* A crash, a failure and a PostgreSQL that stops keep the shape, and no transaction
\* they end stays open.
LEMMA FaultShape ==
  ASSUME Shape,
         \/ \E p \in Processes : Crash(p)
         \/ \E s \in Seeds : SeedFails(s)
         \/ StopPostgres \/ StartPostgres
  PROVE  Shape' /\ Quiet
<1> USE ScriptFacts DEF Shape, DeploymentTypeOK, Aligned, Seeding, Quiet,
        schemaVars, dataVars, procVars, Goto, Leave, Processes
<1>1. ASSUME NEW p \in Processes, Crash(p) PROVE Shape' /\ Quiet
  BY <1>1 DEF Crash
<1>2. ASSUME NEW s \in Seeds, SeedFails(s) PROVE Shape' /\ Quiet
  BY <1>2 DEF SeedFails, RollBack
<1>3. CASE StopPostgres  BY <1>3 DEF StopPostgres, Victims
<1>4. CASE StartPostgres  BY <1>4 DEF StartPostgres
<1> QED  BY <1>1, <1>2, <1>3, <1>4

\* A seed that goes on has passed the item it was at, and those before.
LEMMA AdvancePasses ==
  ASSUME Shape, NEW s \in Seeds, Advance(s)
  PROVE  /\ item' \in [Processes -> 1..Len(Script)]
         /\ \A k \in DOMAIN Script :
              phase'[s] = "commit" \/ k < item'[s] => k = item[s] \/ k < item[s]
<1>1. s \in Processes /\ item \in [Processes -> 1..Len(Script)]
      /\ phase' = [phase EXCEPT ![s] = phase'[s]]
  BY DEF Shape, DeploymentTypeOK, Processes, Advance, Goto
<1>2. CASE item[s] = Len(Script)
  BY <1>1, <1>2, ScriptFacts DEF Advance
<1>3. CASE item[s] # Len(Script)
  <2>1. phase'[s] = "find" /\ item' = [item EXCEPT ![s] = item[s] + 1]
    BY <1>1, <1>3 DEF Advance, Goto, Shape, DeploymentTypeOK
  <2>2. item[s] \in 1..Len(Script) /\ item[s] + 1 \in 1..Len(Script)
    BY <1>1, <1>3, ScriptFacts
  <2>3. item' \in [Processes -> 1..Len(Script)] /\ item'[s] = item[s] + 1
    BY <1>1, <2>1, <2>2
  <2> QED  BY <2>1, <2>2, <2>3, ScriptFacts
<1> QED  BY <1>2, <1>3

\* The statements of the script keep the shape.
LEMMA ScriptShape ==
  ASSUME Shape, NEW s \in Seeds, FindItem(s) \/ InsertItem(s) \/ CommitSeed(s)
  PROVE  Shape'
<1>1. s \in Processes /\ Item(s) \in Items  BY ItemFact
<1>2. engine[s] \in Databases
  BY <1>1 DEF Shape, Aligned, FindItem, InsertItem, CanInsert, CommitSeed
<1> USE <1>1, <1>2 DEF Shape, DeploymentTypeOK, Aligned, Seeding, schemaVars, Goto
<1>4. CASE FindItem(s)
  <2>1. item' \in [Processes -> 1..Len(Script)]
    BY <1>4, AdvancePasses DEF FindItem
  <2>2. CASE There(s)  BY <1>4, <2>1, <2>2 DEF FindItem, Advance
  <2>3. CASE ~There(s)  BY <1>4, <2>1, <2>3 DEF FindItem
  <2> QED  BY <2>2, <2>3
<1>5. CASE InsertItem(s)
  <2>1. own' \in [Processes -> SUBSET Items]
    BY <1>5 DEF InsertItem
  <2>2. item' \in [Processes -> 1..Len(Script)]
    BY <1>5, AdvancePasses DEF InsertItem
  <2> QED  BY <1>5, <2>1, <2>2 DEF InsertItem, Advance
<1>6. CASE CommitSeed(s)
  <2>1. rows' \in [Databases -> [Items -> Nat]]
    BY <1>6 DEF CommitSeed
  <2>2. item' \in [Processes -> 1..Len(Script)]
    BY <1>6, ScriptFacts DEF CommitSeed
  <2> QED  BY <1>6, <2>1, <2>2 DEF CommitSeed, Leave
<1> QED  BY <1>4, <1>5, <1>6

-----------------------------------------------------------------------------
\* Every step is quiet, or one of the four that change what is seeded.
LEMMA Steps ==
  ASSUME Shape, [Next]_vars
  PROVE  /\ Shape'
         /\ \/ Quiet
            \/ \E s \in Seeds : FindItem(s) \/ InsertItem(s) \/ CommitSeed(s)
            \/ \E p \in Servers, i \in ByHand : MakeByHand(p, i)
<1>1. ASSUME NEW p \in Processes, Import(p) \/ StartStep(p)
      PROVE  Shape' /\ Quiet
  BY <1>1, StartShape
<1>2. ASSUME NEW s \in Seeds, FindItem(s) \/ InsertItem(s) \/ CommitSeed(s)
      PROVE  Shape'
  BY <1>2, ScriptShape
<1>3. ASSUME NEW p \in Servers, NEW i \in ByHand, MakeByHand(p, i)
      PROVE  Shape'
  BY <1>3, SeedAssumption
  DEF Shape, DeploymentTypeOK, Aligned, Seeding, schemaVars, procVars,
      MakeByHand, Serving, Processes
<1>4. CASE UNCHANGED vars
  BY <1>4
  DEF Shape, DeploymentTypeOK, Aligned, Seeding, Quiet, vars, schemaVars,
      procVars, dataVars
<1> QED
  BY <1>1, <1>2, <1>3, <1>4, FaultShape DEF Next, ProcStep, SeedStep

-----------------------------------------------------------------------------
\* A seed that goes on has found or inserted what it passes, and a commit makes
\* rows of all it has inserted.
LEMMA ScriptProgress ==
  ASSUME Whole, Shape', NEW s \in Seeds,
         FindItem(s) \/ InsertItem(s) \/ CommitSeed(s)
  PROVE  Progress' /\ SeedIsWhole'
<1> USE DEF Whole, Shape, DeploymentTypeOK
<1>1. /\ s \in Processes /\ Item(s) \in Items /\ item[s] \in DOMAIN Script
      /\ engine[s] \in Databases
  BY ItemFact DEF Aligned, FindItem, InsertItem, CanInsert, CommitSeed
<1>2. CASE FindItem(s) \/ InsertItem(s)
  <2>1. /\ rows' = rows /\ engine' = engine /\ Seeding(s)
        /\ \A t \in Seeds \ {s} : /\ phase'[t] = phase[t] /\ item'[t] = item[t]
                                  /\ own'[t] = own[t]
    BY <1>1, <1>2
    DEF FindItem, InsertItem, CanInsert, Advance, Goto, Seeding, Processes
  <2>2. own[s] \subseteq own'[s]
    BY <1>1, <1>2 DEF FindItem, InsertItem
  <2>3. ASSUME NEW k \in DOMAIN Script, phase'[s] = "commit" \/ k < item'[s]
        PROVE  rows[engine[s]][Script[k]] > 0 \/ Script[k] \in own'[s]
    <3>1. k = item[s] \/ k < item[s]
      <4>1. CASE Advance(s)
        BY <2>3, <4>1, AdvancePasses
      <4>2. CASE ~Advance(s)
        BY <1>1, <1>2, <2>3, <4>2 DEF FindItem, InsertItem, Goto
      <4> QED  BY <4>1, <4>2
    <3>2. CASE k < item[s]
      BY <2>1, <2>2, <3>2 DEF Progress
    <3>3. CASE k = item[s]
      BY <1>1, <1>2, <2>3, <3>3 DEF FindItem, InsertItem, Goto, There, Item
    <3> QED  BY <3>1, <3>2, <3>3
  <2>4. Progress'
    BY <2>1, <2>3 DEF Progress, Seeding
  <2> QED  BY <2>1, <2>4 DEF SeedIsWhole
<1>3. CASE CommitSeed(s)
  <2>1. \A i \in Items : rows'[engine[s]][i] > 0
    <3> SUFFICES ASSUME NEW i \in Items PROVE rows'[engine[s]][i] > 0
      OBVIOUS
    <3>1. PICK k \in DOMAIN Script : Script[k] = i  BY ScriptFacts
    <3>2. rows[engine[s]][i] > 0 \/ i \in own[s]
      BY <1>3, <3>1 DEF Progress, CommitSeed, Seeding
    <3> QED  BY <1>1, <1>3, <3>2 DEF CommitSeed
  <2>2. \A d \in Databases, i \in Items :
          /\ d # engine[s] => rows'[d][i] = rows[d][i]
          /\ rows[d][i] > 0 => rows'[d][i] > 0
    BY <1>1, <1>3 DEF CommitSeed
  <2>3. \A t \in Seeds \ {s} : /\ phase'[t] = phase[t] /\ item'[t] = item[t]
                                /\ own'[t] = own[t] /\ engine'[t] = engine[t]
    BY <1>1, <1>3 DEF CommitSeed, Leave, Goto, Processes
  <2>4. ~Seeding(s)'
    BY <1>1, <1>3 DEF CommitSeed, Leave, Goto, Seeding
  <2>5. Progress'
    <3> SUFFICES ASSUME NEW t \in Seeds \ {s}, Seeding(t), NEW k \in DOMAIN Script,
                        phase[t] = "commit" \/ k < item[t]
                 PROVE  rows'[engine[t]][Script[k]] > 0 \/ Script[k] \in own[t]
      BY <2>3, <2>4 DEF Progress, Seeding
    <3>1. engine[t] \in Databases /\ Script[k] \in Items
      BY ScriptFacts DEF Aligned, Seeding, Processes
    <3> QED  BY <2>2, <3>1 DEF Progress
  <2> QED  BY <2>1, <2>2, <2>5, ScriptFacts DEF SeedIsWhole
<1> QED  BY <1>2, <1>3

-----------------------------------------------------------------------------
\* No step leaves a part of the script behind.
LEMMA WholeStep ==
  ASSUME Whole, [Next]_vars
  PROVE  Whole'
<1>1. ASSUME Quiet  PROVE Progress' /\ SeedIsWhole'
  <2> USE <1>1
  <2>1. Progress'
    <3> SUFFICES ASSUME NEW s \in Seeds, Seeding(s)', NEW k \in DOMAIN Script,
                        phase'[s] = "commit" \/ k < item'[s]
                 PROVE  rows'[engine'[s]][Script[k]] > 0 \/ Script[k] \in own'[s]
      BY DEF Progress
    <3>1. k \in Nat \ {0}  BY ScriptFacts
    <3>2. ~(item'[s] = 1 /\ phase'[s] \notin {"insert", "commit"})  BY <3>1
    <3> QED  BY <3>2 DEF Quiet, Whole, Progress, Seeding, Processes
  <2> QED  BY <2>1 DEF Whole, SeedIsWhole, Quiet
<1>2. ASSUME NEW p \in Servers, NEW i \in ByHand, MakeByHand(p, i)
      PROVE  Progress' /\ SeedIsWhole'
  <2> USE <1>2
  <2> USE DEF Whole, Shape, DeploymentTypeOK
  <2>1. engine[p] \in Databases /\ i \in Items
    BY SeedAssumption DEF Aligned, MakeByHand, Serving, Processes
  <2>2. \A d \in Databases, j \in Items :
          /\ rows[d][j] > 0 => rows'[d][j] > 0
          /\ j # i => rows'[d][j] = rows[d][j]
    BY <2>1 DEF MakeByHand
  <2>3. UNCHANGED <<phase, engine, own, item>>
    BY DEF MakeByHand, procVars
  <2>4. Progress'
    <3> SUFFICES ASSUME NEW s \in Seeds, Seeding(s), NEW k \in DOMAIN Script,
                        phase[s] = "commit" \/ k < item[s]
                 PROVE  rows'[engine[s]][Script[k]] > 0 \/ Script[k] \in own[s]
      BY <2>3 DEF Progress, Seeding
    <3>1. engine[s] \in Databases /\ Script[k] \in Items
      BY ScriptFacts DEF Aligned, Seeding, Processes
    <3> QED  BY <2>2, <3>1 DEF Progress
  <2> QED  BY <2>2, <2>4 DEF SeedIsWhole
<1> QED  BY <1>1, <1>2, Steps, ScriptProgress DEF Whole

-----------------------------------------------------------------------------
\* Nothing starts with a transaction or a row.
LEMMA AloneInit == Init => Alone
<1> SUFFICES ASSUME Init PROVE Alone
  OBVIOUS
<1>1. tables \in [Databases -> SUBSET Tables]
  BY StartupAssumption DEF Init, Tables
<1>2. DeploymentTypeOK
  BY <1>1, ScriptFacts DEF Init, DeploymentTypeOK
<1>3. Aligned
  BY DEF Init, Aligned
<1>4. Progress
  BY DEF Init, Progress, Seeding, Processes
<1>5. SeedIsWhole
  BY DEF Init, SeedIsWhole
<1>6. Exclusive
  BY DEF Init, Exclusive, Processes
<1> QED  BY <1>2, <1>3, <1>4, <1>5, <1>6 DEF Alone, Whole, Shape

\* What is inserted is new, or the constraint makes it wait or fail.
LEMMA InsertAlone ==
  ASSUME Alone, NEW s \in Seeds, InsertItem(s)
  PROVE  Exclusive'
<1> USE DEF Alone, Whole, Shape, DeploymentTypeOK
<1>1. /\ s \in Processes /\ Item(s) \in Items
      /\ engine[s] \in Databases /\ phase[s] = "insert"
  BY ItemFact DEF Aligned, InsertItem, CanInsert
<1>2. /\ own'[s] = own[s] \cup {Item(s)} /\ rows' = rows /\ engine' = engine
      /\ \A t \in Seeds \ {s} : own'[t] = own[t]
  BY <1>1 DEF InsertItem, Advance, Goto, Processes
<1>3. Item(s) \in Unique =>
        /\ rows[engine[s]][Item(s)] = 0
        /\ \A t \in Seeds \ {s} : engine[t] = engine[s] => Item(s) \notin own[t]
  BY <1>1 DEF InsertItem, CanInsert, Held, Reserved, Clashes, There
<1> HIDE DEF Whole, Shape, DeploymentTypeOK
<1>4. Exclusive'
  <2> SUFFICES ASSUME NEW t \in Seeds, NEW i \in own'[t] \cap Unique
               PROVE  /\ rows[engine[t]][i] = 0
                      /\ \A u \in Seeds \ {t} : engine[u] = engine[t] => i \notin own'[u]
    BY <1>2 DEF Exclusive
  <2>1. CASE t = s /\ i = Item(s)
    BY <1>2, <1>3, <2>1
  <2>2. CASE i \in own[t]
    BY <1>2, <1>3, <2>2 DEF Exclusive
  <2> QED  BY <1>2, <2>1, <2>2
<1> QED  BY <1>4

\* What is committed was held alone, and becomes a row that nobody holds.
LEMMA CommitAlone ==
  ASSUME Alone, NEW s \in Seeds, CommitSeed(s)
  PROVE  Exclusive'
<1> USE DEF Alone, Whole, Shape, DeploymentTypeOK
<1>1. /\ s \in Processes /\ engine[s] \in Databases
  BY ItemFact DEF Aligned, CommitSeed
<1>2. /\ own'[s] = {}
      /\ \A t \in Seeds \ {s} : own'[t] = own[t] /\ engine'[t] = engine[t]
  BY <1>1 DEF CommitSeed, Leave, Goto, Processes
<1>3. \A d \in Databases, i \in Items :
        rows'[d][i] = IF d = engine[s] /\ i \in own[s] THEN rows[d][i] + 1
                                                       ELSE rows[d][i]
  BY <1>1 DEF CommitSeed
<1>4. Exclusive'
  <2> SUFFICES ASSUME NEW t \in Seeds, NEW i \in own'[t] \cap Unique
               PROVE  /\ rows'[engine'[t]][i] = 0
                      /\ \A u \in Seeds \ {t} : engine'[u] = engine'[t] => i \notin own'[u]
    BY DEF Exclusive
  <2>0. t # s /\ own'[t] = own[t] /\ engine'[t] = engine[t]
    BY <1>2
  <2> USE <2>0
  <2>1. engine[t] \in Databases /\ i \in Items
    BY DEF Aligned, Seeding, Processes
  <2>2. engine[t] = engine[s] => i \notin own[s]
    BY DEF Exclusive
  <2>3. rows[engine[t]][i] = 0
    BY DEF Exclusive
  <2>4. rows'[engine[t]][i] = 0
    BY <1>3, <2>1, <2>2, <2>3
  <2>5. ASSUME NEW u \in Seeds \ {t}, engine'[u] = engine'[t], i \in own'[u]
        PROVE  FALSE
    <3>1. u # s  BY <1>2, <2>5
    <3>2. engine[u] = engine[t] /\ i \in own[u]  BY <1>2, <2>5, <3>1
    <3> QED  BY <3>2 DEF Exclusive
  <2> QED  BY <2>4, <2>5
<1> QED  BY <1>4

\* A row made by hand is not one that a transaction holds.
LEMMA AloneStep ==
  ASSUME Alone, [Next]_vars
  PROVE  Alone'
<1>1. Whole'
  BY WholeStep DEF Alone
<1>2. ASSUME Quiet  PROVE Exclusive'
  <2>1. \A s \in Seeds :
          own'[s] # {} => own'[s] = own[s] /\ engine'[s] = engine[s]
    BY <1>2 DEF Quiet, Processes
  <2> QED  BY <1>2, <2>1 DEF Exclusive, Quiet, Alone
<1>3. ASSUME NEW s \in Seeds, FindItem(s)  PROVE Exclusive'
  BY <1>3 DEF FindItem, Exclusive, Alone
<1>4. ASSUME NEW p \in Servers, NEW i \in ByHand, MakeByHand(p, i)
      PROVE  Exclusive'
  <2> USE <1>4
  <2> USE DEF Alone, Whole, Shape, DeploymentTypeOK
  <2>1. engine[p] \in Databases /\ i \in Items
    BY SeedAssumption DEF Aligned, MakeByHand, Serving, Processes
  <2>2. \A d \in Databases, j \in Items :
          rows'[d][j] = IF d = engine[p] /\ j = i THEN 1 ELSE rows[d][j]
    BY <2>1 DEF MakeByHand
  <2>3. UNCHANGED <<engine, own>>
    BY DEF MakeByHand, procVars
  <2> SUFFICES ASSUME NEW s \in Seeds, NEW j \in own[s] \cap Unique
               PROVE  rows'[engine[s]][j] = 0
    BY <2>3 DEF Exclusive
  <2>4. engine[s] \in Databases /\ j \in Items
    BY DEF Aligned, Seeding, Processes
  <2>5. ~(engine[s] = engine[p] /\ j = i)
    BY DEF MakeByHand
  <2> QED  BY <2>2, <2>4, <2>5 DEF Exclusive
<1>5. Shape
  BY DEF Alone, Whole
<1> QED
  BY <1>1, <1>2, <1>3, <1>4, <1>5, Steps, InsertAlone, CommitAlone DEF Alone

-----------------------------------------------------------------------------
\* Every variable keeps its shape, and no open transaction outlives its seed
\* (the `with Session` block of seed.py:26), for any processes and script.
THEOREM DeploymentTypeCorrect == Spec => []DeploymentTypeOK
<1>1. Whole => DeploymentTypeOK  BY DEF Whole, Shape
<1>2. Init => Whole  BY AloneInit DEF Alone
<1> QED  BY <1>1, <1>2, WholeStep, PTL DEF Spec

\* What the script alone makes is there whole or not at all (seed.py:26 to 247),
\* however many runs of it overlap, fail or are killed.
THEOREM SeededWhole == Spec => []SeedIsWhole
<1>1. Whole => SeedIsWhole  BY DEF Whole
<1>2. Init => Whole  BY AloneInit DEF Alone
<1> QED  BY <1>1, <1>2, WholeStep, PTL DEF Spec

\* Alembic's record of the schema never runs ahead of it (main.py:30).
THEOREM VersionStaysTrue == Spec => []VersionIsTrue
<1>1. ASSUME Whole, VersionIsTrue, [Next]_vars  PROVE VersionIsTrue'
  <2> USE <1>1 DEF Whole, VersionIsTrue, Shape, DeploymentTypeOK, schemaVars
  <2>1. ASSUME NEW p \in Processes, CreateTables(p)  PROVE VersionIsTrue'
    BY <2>1 DEF CreateTables
  <2>2. ASSUME NEW p \in Processes, Migrate(p)  PROVE VersionIsTrue'
    BY <2>2 DEF Migrate, Upgraded, Databases
  <2>3. ASSUME NEW p \in Processes,
               Import(p) \/ CheckTables(p) \/ InstallTrigger(p) \/ StepFails(p) \/ Crash(p)
        PROVE  UNCHANGED <<tables, stamped>>
    BY <2>3 DEF Import, CheckTables, InstallTrigger, StepFails, Crash
  <2>4. ASSUME NEW s \in Seeds, SeedStep(s)  PROVE UNCHANGED <<tables, stamped>>
    BY <2>4 DEF SeedStep, FindItem, InsertItem, SeedFails, CommitSeed
  <2>5. ASSUME \/ \E p \in Servers, i \in ByHand : MakeByHand(p, i)
               \/ StopPostgres \/ StartPostgres \/ UNCHANGED vars
        PROVE  UNCHANGED <<tables, stamped>>
    BY <2>5 DEF MakeByHand, StopPostgres, StartPostgres, vars
  <2>6. UNCHANGED <<tables, stamped>> => VersionIsTrue'
    OBVIOUS
  <2> QED
    BY <1>1, <2>1, <2>2, <2>3, <2>4, <2>5, <2>6 DEF Next, ProcStep, StartStep
<1>2. Init => Whole /\ VersionIsTrue
  BY AloneInit DEF Alone, Init, VersionIsTrue
<1>3. Whole /\ VersionIsTrue /\ [Next]_vars => Whole' /\ VersionIsTrue'
  BY <1>1, WholeStep
<1> QED  BY <1>2, <1>3, PTL DEF Spec

-----------------------------------------------------------------------------
\* Every process stays at a step of its own kind.
LEMMA PlacedStep ==
  ASSUME Shape, Placed, [Next]_vars
  PROVE  Placed'
<1> USE DEF Shape, DeploymentTypeOK, Placed, Running, Seeding, schemaVars,
        dataVars, procVars, Goto, Leave, Processes
<1>1. ASSUME NEW p \in Processes, Import(p) \/ CheckTables(p) \/ Crash(p)
      PROVE  Placed'
  BY <1>1 DEF Import, CheckTables, Crash
<1>2. ASSUME NEW p \in Processes, CreateTables(p)  PROVE Placed'
  BY <1>2 DEF CreateTables, CanCreate
<1>3. ASSUME NEW p \in Processes, InstallTrigger(p)  PROVE Placed'
  BY <1>3 DEF InstallTrigger, CanInstall, Afterwards, Rivals
<1>4. ASSUME NEW p \in Processes, StepFails(p)  PROVE Placed'
  BY <1>4 DEF StepFails, Afterwards
<1>5. ASSUME NEW p \in Processes, Migrate(p)  PROVE Placed'
  BY <1>5 DEF Migrate
<1>6. ASSUME NEW s \in Seeds, SeedStep(s)  PROVE Placed'
  BY <1>6 DEF SeedStep, FindItem, InsertItem, Advance, SeedFails, CommitSeed
<1>7. ASSUME NEW p \in Servers, NEW i \in ByHand, MakeByHand(p, i)  PROVE Placed'
  BY <1>7 DEF MakeByHand
<1>8. CASE StopPostgres  BY <1>8 DEF StopPostgres, Victims
<1>9. CASE StartPostgres \/ UNCHANGED vars  BY <1>9 DEF StartPostgres, vars
<1> QED
  BY <1>1, <1>2, <1>3, <1>4, <1>5, <1>6, <1>7, <1>8, <1>9
  DEF Next, ProcStep, StartStep

\* A seed inserts the item it is at and then passes it.
LEMMA BehindStep ==
  ASSUME Shape, Behind, [Next]_vars
  PROVE  Behind'
<1>1. CASE Quiet
  BY <1>1 DEF Behind, Quiet, Processes
<1>2. ASSUME NEW s \in Seeds, FindItem(s) \/ InsertItem(s)
      PROVE  Behind'
  <2>1. /\ s \in Processes /\ item[s] \in DOMAIN Script /\ phase[s] # "commit"
        /\ \A t \in Seeds \ {s} : /\ phase'[t] = phase[t] /\ item'[t] = item[t]
                                  /\ own'[t] = own[t]
    BY <1>2, ItemFact
    DEF FindItem, InsertItem, CanInsert, Advance, Goto, Processes, Shape, DeploymentTypeOK
  <2>2. ASSUME NEW k \in DOMAIN Script, k < item[s]
        PROVE  phase'[s] = "commit" \/ k < item'[s]
    BY <1>2, <2>1, <2>2, ScriptFacts
    DEF FindItem, InsertItem, Advance, Goto, Shape, DeploymentTypeOK
  <2>3. ASSUME NEW i \in own'[s] \ own[s]
        PROVE  i = Script[item[s]] /\ (phase'[s] = "commit" \/ item[s] < item'[s])
    BY <1>2, <2>1, <2>3, ScriptFacts
    DEF FindItem, InsertItem, Advance, Goto, Item, Shape, DeploymentTypeOK
  <2>4. \A i \in own'[s] :
          \E k \in DOMAIN Script : Script[k] = i /\ (phase'[s] = "commit" \/ k < item'[s])
    BY <2>1, <2>2, <2>3 DEF Behind
  <2> QED  BY <2>1, <2>4 DEF Behind
<1>3. ASSUME NEW s \in Seeds, CommitSeed(s)  PROVE Behind'
  BY <1>3 DEF CommitSeed, Leave, Goto, Behind, Shape, DeploymentTypeOK, Processes
<1>4. ASSUME NEW p \in Servers, NEW i \in ByHand, MakeByHand(p, i)  PROVE Behind'
  BY <1>4 DEF MakeByHand, procVars, Behind
<1> QED  BY <1>1, <1>2, <1>3, <1>4, Steps

\* A seed waits only for one that is further in the script: what the other holds,
\* the first would have found or made, had it passed it.
LEMMA WaitsAhead ==
  ASSUME Ordered, NEW s \in Seeds, phase[s] = "insert", Reserved(s)
  PROVE  \E t \in Seeds : phase[t] = "commit" \/ (Seeding(t) /\ item[s] < item[t])
<1> USE DEF Ordered, Alone, Whole, Shape, DeploymentTypeOK
<1>1. PICK t \in Seeds \ {s} : engine[t] = engine[s] /\ Item(s) \in own[t]
  BY DEF Reserved
<1>2. Item(s) \in Unique /\ Seeding(s) /\ Seeding(t)
  BY <1>1 DEF Reserved, Seeding, Processes
<1>3. PICK k \in DOMAIN Script :
        Script[k] = Item(s) /\ (phase[t] = "commit" \/ k < item[t])
  BY <1>1 DEF Behind
<1>4. rows[engine[s]][Item(s)] = 0 /\ Item(s) \notin own[s]
  BY <1>1, <1>2 DEF Exclusive
<1>5. ~(k < item[s])
  BY <1>2, <1>3, <1>4 DEF Progress
<1>6. k \in Nat /\ item[s] \in Nat /\ item[t] \in Nat
  BY ScriptFacts DEF Processes
<1> QED  BY <1>2, <1>3, <1>5, <1>6

\* Of the seeds in their scripts, one is the furthest.
LEMMA Furthest ==
  ASSUME Shape, NEW s \in Seeds, Seeding(s)
  PROVE  \E t \in Seeds : Seeding(t) /\ \A u \in Seeds : Seeding(u) => ~(item[t] < item[u])
<1> DEFINE Left(n) == \E t \in Seeds : Seeding(t) /\ Len(Script) - item[t] = n
           Z == {n \in Nat : Left(n)}
<1>1. \A t \in Seeds : item[t] \in Nat /\ Len(Script) - item[t] \in Nat
  BY ScriptFacts DEF Shape, DeploymentTypeOK, Processes
<1>2. Z \in SUBSET Nat /\ Z # {}
  BY <1>1
<1>3. \E n \in Z : \A m \in Z : ~(m < n)
  <2> HIDE DEF Z
  <2>1. \E n \in Z : \A m \in Z : <<m, n>> \notin OpToRel(<, Nat)
    BY <1>2, NatLessThanWellFounded, WFMin, Zenon
  <2> QED  BY <1>2, <2>1, Zenon DEF OpToRel
<1>4. PICK t \in Seeds : Seeding(t) /\ \A m \in Z : ~(m < Len(Script) - item[t])
  BY <1>3
<1>5. ASSUME NEW u \in Seeds, Seeding(u)  PROVE ~(item[t] < item[u])
  <2>1. Len(Script) - item[u] \in Z
    BY <1>1, <1>5
  <2>2. ~(Len(Script) - item[u] < Len(Script) - item[t])
    BY <1>4, <2>1
  <2> QED  BY <1>1, <2>2, ScriptFacts
<1> QED  BY <1>4, <1>5

\* Locks, places and the order of the script go together from the start.
LEMMA OrderedInit == Init => Ordered
<1> SUFFICES ASSUME Init PROVE Ordered
  OBVIOUS
<1>1. Alone
  BY AloneInit
<1>2. Placed /\ Behind
  BY DEF Init, Placed, Behind, Running, Seeding, Processes
<1> QED  BY <1>1, <1>2 DEF Ordered

\* And they stay together.
LEMMA OrderedStep == Ordered /\ [Next]_vars => Ordered'
  BY AloneStep, PlacedStep, BehindStep DEF Ordered, Alone, Whole

\* Those that start or seed never all wait for one another (seed.py:41,
\* audit/service.py:58), however many they are and whatever fails: the order of
\* the script is an order of the locks.
THEOREM SomebodyGoesOn == Spec => []NoStandstill
<1>1. ASSUME Ordered, NEW s \in Seeds, Seeding(s)
      PROVE  \E p \in Processes : CanGoOn(p)
  <2> SUFFICES ASSUME \A p \in Processes : ~CanGoOn(p)  PROVE FALSE
    OBVIOUS
  <2>1. PICK t \in Seeds : Seeding(t) /\ \A u \in Seeds : Seeding(u) => ~(item[t] < item[u])
    BY <1>1, Furthest DEF Ordered, Alone, Whole
  <2>2. \A u \in Seeds : phase[u] \notin {"find", "commit"}
    BY DEF CanGoOn, Processes
  <2>3. phase[t] = "insert" /\ ~CanInsert(t) /\ ~CannotSeed(t)
    BY <2>1, <2>2 DEF CanGoOn, Seeding, Processes
  <2>4. Reserved(t)
    BY <2>3 DEF CanInsert, CannotSeed, Held
  <2> QED  BY <1>1, <2>1, <2>2, <2>3, <2>4, WaitsAhead
<1>2. ASSUME Ordered, NEW p \in Processes, Running(p), ~Serving(p), ~CanGoOn(p)
      PROVE  \E s \in Seeds : Seeding(s)
  <2> USE <1>2 DEF Ordered, Alone, Whole, Shape, DeploymentTypeOK
  <2>1. phase[p] \in {"check", "create", "trigger", "migrate", "find", "insert", "commit"}
    BY DEF Placed, Serving
  <2>2. CASE Seeding(p)
    BY <2>2 DEF Placed
  <2>3. CASE phase[p] = "trigger"
    <3>1. TriggerWaits(p)
      BY <2>3 DEF CanGoOn, CanInstall, CanFail
    <3> QED  BY <3>1 DEF TriggerWaits, Processes
  <2>4. CASE phase[p] \in {"check", "create", "migrate"}
    BY <2>4 DEF CanGoOn, CanCheck, CanCreate, CanFail
  <2> QED  BY <2>1, <2>2, <2>3, <2>4 DEF Seeding
<1>3. Ordered => NoStandstill
  BY <1>1, <1>2 DEF NoStandstill
<1> QED  BY <1>3, OrderedInit, OrderedStep, PTL DEF Spec

-----------------------------------------------------------------------------
\* In the script every account comes before every campaign.
LEMMA AccountsFirst ==
  ASSUME NEW j \in DOMAIN Script, NEW k \in DOMAIN Script,
         Script[j] \in Accounts, Script[k] \notin Unique
  PROVE  j < k
<1>1. j \in Nat /\ k \in Nat /\ j # k
  BY ScriptFacts DEF Unique
<1>2. ASSUME k < j  PROVE FALSE
  <2>1. PICK a, b \in DOMAIN FullScript :
          a < b /\ FullScript[a] = Script[k] /\ FullScript[b] = Script[j]
    BY <1>2, SeedAssumption
  <2> QED  BY <2>1 DEF FullScript, Accounts, Unique
<1> QED  BY <1>1, <1>2

\* A seed that has made an account makes nothing that is there or being made
\* (seed.py:33, 124): the account was missing, so the campaigns were, and another
\* seed that makes them has the account, or waits for it.
THEOREM SeedsKeepApart == Spec => []AccountKeepsApart
<1>1. Ordered => AccountKeepsApart
  <2> SUFFICES ASSUME Ordered, NEW s \in Seeds, NEW a \in own[s] \cap Accounts,
                      NEW i \in own[s]
               PROVE  /\ rows[engine[s]][i] = 0
                      /\ \A t \in Seeds \ {s} : engine[t] = engine[s] => i \notin own[t]
    BY DEF AccountKeepsApart
  <2> USE DEF Ordered, Alone, Whole, Shape, DeploymentTypeOK
  <2>1. /\ a \in Items /\ i \in Items /\ engine[s] \in Databases
    BY DEF Aligned, Seeding, Processes
  <2>2. /\ rows[engine[s]][a] = 0
        /\ \A t \in Seeds \ {s} : engine[t] = engine[s] => a \notin own[t]
    BY DEF Exclusive, Unique
  <2>3. CASE i \in Unique
    BY <2>3 DEF Exclusive
  <2>4. CASE i \notin Unique
    <3>1. rows[engine[s]][i] = 0
      <4>1. i \in Items \ ByHand
        BY <2>1, <2>4, SeedAssumption
      <4>2. ~(rows[engine[s]][i] > 0)
        BY <2>1, <2>2, <4>1 DEF SeedIsWhole
      <4> QED  BY <2>1, <4>2
    <3>2. ASSUME NEW t \in Seeds \ {s}, engine[t] = engine[s], i \in own[t]
          PROVE  FALSE
      <4>1. PICK k \in DOMAIN Script :
              Script[k] = i /\ (phase[t] = "commit" \/ k < item[t])
        BY <3>2 DEF Behind
      <4>2. PICK j \in DOMAIN Script : Script[j] = a
        BY <2>1, ScriptFacts
      <4>3. j < k
        BY <2>4, <4>1, <4>2, AccountsFirst
      <4>4. j \in Nat /\ k \in Nat /\ item[t] \in Nat
        BY ScriptFacts DEF Processes
      <4>5. phase[t] = "commit" \/ j < item[t]
        BY <4>1, <4>3, <4>4
      <4>6. rows[engine[t]][a] > 0 \/ a \in own[t]
        BY <3>2, <4>2, <4>5 DEF Progress, Processes
      <4> QED  BY <2>2, <3>2, <4>6
    <3> QED  BY <3>1, <3>2
  <2> QED  BY <2>3, <2>4
<1> QED  BY <1>1, OrderedInit, OrderedStep, PTL DEF Spec

-----------------------------------------------------------------------------
\* Without faults nobody loses his tables but to one who goes on to the trigger,
\* and nobody passes the trigger but with it installed.
LEMMA FaultlessStep ==
  ASSUME StartFaults = {}, Shape, Faultless, [Next]_vars
  PROVE  Faultless'
<1> USE DEF Shape, DeploymentTypeOK, Aligned, Faultless, StillOpen, Seeding,
        schemaVars, dataVars, procVars, Goto
<1>1. ASSUME NEW p \in Processes, Import(p)  PROVE Faultless'
  BY <1>1 DEF Import, Running, Serving, Databases
<1>2. ASSUME NEW p \in Processes, CheckTables(p)  PROVE Faultless'
  BY <1>2 DEF CheckTables, CanCheck, Serving, Databases
<1>3. ASSUME NEW p \in Processes, CreateTables(p)  PROVE Faultless'
  <2>1. engine[p] = "postgres" /\ Batch(p) = missing[p]
    BY <1>3 DEF CreateTables, CanCreate, Batch, Databases
  <2>2. phase' = [phase EXCEPT ![p] = "trigger"]
    BY <1>3, <2>1 DEF CreateTables
  <2>3. UNCHANGED <<pgUp, guarded, engine>>
    BY <1>3 DEF CreateTables
  <2>4. phase'[p] = "trigger"
    BY <2>2
  <2>5. \A q \in Processes : phase'[q] = phase[q] \/ phase'[q] = "trigger"
    BY <2>2
  <2> QED  BY <2>3, <2>4, <2>5
<1>4. ASSUME NEW p \in Processes, InstallTrigger(p)  PROVE Faultless'
  <2>1. engine[p] = "postgres"
    BY <1>4 DEF InstallTrigger, CanInstall, Databases
  <2>2. guarded'["postgres"] = Changes
    BY <1>4, <2>1 DEF InstallTrigger, Refused, Databases
  <2> QED  BY <1>4, <2>2 DEF InstallTrigger
<1>5. ASSUME NEW p \in Processes, StepFails(p)  PROVE Faultless'
  <2>1. engine[p] = "postgres" /\ phase[p] = "create" /\ (Collides(p) \/ CreateWaits(p))
    BY <1>5 DEF StepFails, CanFail, Connected, Locked, Databases
  <2>2. guarded["postgres"] = Changes \/ \E q \in Processes : phase[q] = "trigger"
    <3>1. CASE Collides(p)
      BY <2>1, <3>1 DEF Collides, Batch
    <3>2. CASE CreateWaits(p)
      BY <3>2 DEF CreateWaits, LedgerWaits, Processes
    <3> QED  BY <2>1, <3>1, <3>2
  <2>3. /\ UNCHANGED <<pgUp, guarded>>
        /\ \A q \in Processes : engine'[q] \in {engine[q], "none"}
        /\ \A q \in Processes : \/ phase'[q] = phase[q]
                                \/ q = p /\ phase'[q] \in {"failed", "serving"}
    BY <1>5, <2>1 DEF StepFails, Leave
  <2>4. (\E q \in Processes : phase[q] = "trigger")
          => \E q \in Processes : phase'[q] = "trigger"
    BY <2>1, <2>3
  <2>5. guarded["postgres"] = Changes \/ \A q \in Processes : ~Seeding(q)' /\ phase'[q] # "migrate"
    BY <2>3
  <2> QED  BY <2>2, <2>3, <2>4, <2>5
<1>6. ASSUME NEW p \in Processes, Migrate(p)  PROVE Faultless'
  BY <1>6 DEF Migrate
<1>7. ASSUME NEW s \in Seeds, SeedStep(s)  PROVE Faultless'
  <2>1. Seeding(s) /\ s \in Processes
    BY <1>7 DEF SeedStep, FindItem, InsertItem, CanInsert, SeedFails, CannotSeed,
                CommitSeed, Processes
  <2>2. UNCHANGED <<pgUp, guarded>> /\ \A q \in Processes : engine'[q] \in {engine[q], "none"}
    BY <1>7 DEF SeedStep, FindItem, InsertItem, SeedFails, CommitSeed, Leave
  <2> QED  BY <2>1, <2>2
<1>8. ASSUME NEW p \in Servers, NEW i \in ByHand, MakeByHand(p, i)  PROVE Faultless'
  BY <1>8 DEF MakeByHand, Serving
<1>9. CASE UNCHANGED vars
  BY <1>9 DEF vars, Serving
<1>10. ~StopPostgres /\ ~StartPostgres /\ \A p \in Processes : ~Crash(p)
  BY DEF StopPostgres, StartPostgres, Crash
<1> QED
  BY <1>1, <1>2, <1>3, <1>4, <1>5, <1>6, <1>7, <1>8, <1>9, <1>10
  DEF Next, ProcStep, StartStep

\* Where nothing fails, no server serves with an open audit log but while another
\* process is about to close it (main.py:26 and 27), for any processes and any
\* tables there were before.
THEOREM OpenLogsClose ==
  ASSUME StartFaults = {}
  PROVE  Spec => []OpenLogIsClosing
<1>1. Shape /\ Faultless => OpenLogIsClosing
  BY DEF Shape, DeploymentTypeOK, Aligned, Faultless, StillOpen, OpenLogIsClosing,
         Serving, Databases
<1>2. Init => Shape /\ Faultless
  <2>1. Init => Shape
    BY AloneInit DEF Alone, Whole
  <2>2. Init => Faultless
    BY DEF Init, Faultless, StillOpen, Seeding, Serving
  <2> QED  BY <2>1, <2>2
<1>3. Shape /\ Faultless /\ [Next]_vars => Shape' /\ Faultless'
  BY Steps, FaultlessStep
<1> QED  BY <1>1, <1>2, <1>3, PTL DEF Spec
=============================================================================
