-------------------------- MODULE GiveNaija_proofs --------------------------
(***************************************************************************)
(* Theorems about GiveNaija for every set of workers, requests, campaigns  *)
(* and payloads.                                                           *)
(***************************************************************************)
EXTENDS GiveNaija, TLAPS

\* The object a payment works on is a campaign of the table, and the value it
\* has sent to raised_amount is in range.
Loaded ==
  \A r \in Payments :
    /\ pc[r] \in {"precheck", "insert", "raise", "ledger", "commit"} =>
         seen[r].id \in CampaignIds
    /\ pc[r] \in {"ledger", "commit"} => RaisedBy(r) \in 0..IntMax

TypeInv == TypeOK /\ Loaded

\* The empty tables have their shape.
LEMMA TypeInit == Init => TypeInv
  BY KindsAreDisjoint, PayloadAssumption
  DEF Init, InitStore, TypeInv, TypeOK, Loaded, NotSent, NothingSeen, SeenOf,
      NoDonation, NoWorker, Codes, Labels, Ended, Requests

\* The label fits what the request has loaded.
Fits(r, label) ==
  r \in Payments =>
    /\ label \in {"precheck", "insert", "raise", "ledger", "commit"} =>
         seen'[r].id \in CampaignIds
    /\ label \in {"ledger", "commit"} => seen'[r].raised + AmountOf[r] \in 0..IntMax

\* A request moves on, or is answered, and leaves the tables alone.
LEMMA TypeGoto ==
  ASSUME TypeInv, NEW r \in Requests, NEW label \in Labels, Goto(r, label),
         UNCHANGED <<tables, seen>>, Fits(r, label)
  PROVE  TypeInv'
<1> USE DEF TypeInv, tables, Goto
<1>1. TypeOK'  BY DEF TypeOK
<1>2. Loaded'
  BY DEF TypeOK, Loaded, Fits, RaisedBy, Requests
<1> QED  BY <1>1, <1>2

\* So have they after an answer, which changes no table.
LEMMA TypeReply ==
  ASSUME TypeInv, NEW r \in Requests, NEW code \in Codes,
         NEW d \in Payments \cup {NoDonation}, Reply(r, code, d),
         UNCHANGED <<tables, seen>>
  PROVE  TypeInv'
<1> USE DEF TypeInv, tables, Reply
<1>1. TypeOK'
  BY DEF TypeOK, Labels, Ended
<1>2. Loaded'
  BY DEF TypeOK, Loaded, RaisedBy, Requests
<1> QED  BY <1>1, <1>2

\* The same, when the request has just loaded a campaign.
LEMMA TypeLoad ==
  ASSUME TypeInv, NEW r \in Requests, NEW c \in CampaignIds, Load(r, c),
         NEW label \in Labels \ {"ledger", "commit"}, Goto(r, label),
         UNCHANGED tables
  PROVE  TypeInv'
<1> USE DEF TypeInv, tables, Goto, Load
<1>1. TypeOK'
  BY DEF TypeOK, SeenOf
<1>2. Loaded'
  BY DEF TypeOK, Loaded, RaisedBy, Requests, SeenOf
<1> QED  BY <1>1, <1>2

\* The commit of a payment, by whichever route.
CommitsMoney(r) ==
  /\ pc[r] = "commit" /\ Goto(r, "refresh") /\ UNCHANGED <<pledges, seen>>
  /\ donations' = donations \cup {DonationRow(r)}
  /\ campaigns' = SetRaised(r)
  /\ ledger' = ledger \cup {LedgerRow(r)}

\* A payment's commit keeps the counter in its column: the addition was checked
\* when it was made.
LEMMA TypeCommit ==
  ASSUME TypeInv, NEW r \in Payments, CommitsMoney(r),
         \A a \in audit' \ audit : a.target \in Requests,
         \A i \in idem' \ idem : i.donation \in DonationReqs /\ i.key # NoKey,
         \A e \in events' \ events : e.by \in WebhookReqs /\ e.is_orphan \in BOOLEAN
  PROVE  TypeInv'
<1> USE DEF TypeInv, CommitsMoney, Goto
<1> DEFINE c == seen[r].id
<1>0. r \in Requests /\ c \in CampaignIds /\ RaisedBy(r) \in 0..IntMax
  BY DEF Loaded, Requests
<1>1. campaigns' \in [CampaignIds -> [status : {"absent", "open", "closed"},
                                      raised : 0..IntMax]]
  BY <1>0 DEF SetRaised, TypeOK
<1>2. donations' \subseteq DonationRows
  BY <1>0, PayloadAssumption DEF DonationRow, DonationRows, TypeOK
<1>3. \A l \in ledger' : l.donation \in Payments /\ l.campaign \in CampaignIds
  BY <1>0 DEF LedgerRow, TypeOK
<1>4. pc' \in [Requests -> Labels]
  BY <1>0 DEF TypeOK, Labels
<1>5. TypeOK'
  BY <1>1, <1>2, <1>3, <1>4 DEF TypeOK
<1>6. Loaded'
  BY <1>0 DEF TypeOK, Loaded, RaisedBy, Requests
<1> QED  BY <1>5, <1>6

\* A commit that is not about money, and its audit row.
LEMMA TypeWrite ==
  ASSUME TypeInv, NEW r \in Requests,
         Goto(r, "refresh") \/ (\E code \in Codes : Reply(r, code, NoDonation)),
         UNCHANGED <<donations, ledger, idem, seen>>,
         campaigns' \in [CampaignIds -> [status : {"absent", "open", "closed"},
                                         raised : 0..IntMax]],
         pledges' \subseteq PledgeReqs,
         \A a \in audit' \ audit : a.target \in Requests,
         \A e \in events' \ events : e.by \in WebhookReqs /\ e.is_orphan \in BOOLEAN
  PROVE  TypeInv'
<1> DEFINE Typed ==
      /\ pc' \in [Requests -> Labels]
      /\ at' \in [Requests -> Workers \cup {NoWorker}]
      /\ resp' \in [Requests -> [code : Codes, donation : Payments \cup {NoDonation}]]
      /\ \A q \in Requests : pc'[q] = pc[q] \/ pc'[q] \in {"refresh", "done"}
<1>1. Typed
  <2>1. CASE Goto(r, "refresh")
    BY <2>1 DEF Goto, TypeInv, TypeOK, Labels
  <2>2. ASSUME NEW code \in Codes, Reply(r, code, NoDonation)  PROVE Typed
    BY <2>2 DEF Reply, TypeInv, TypeOK, Labels, Ended
  <2> QED  BY <2>1, <2>2
<1>3. TypeOK'
  BY <1>1 DEF TypeInv, TypeOK
<1>4. Loaded'
  BY <1>1 DEF TypeInv, Loaded, RaisedBy, Requests
<1> QED  BY <1>3, <1>4 DEF TypeInv

-----------------------------------------------------------------------------
\* The statements that the services share keep the shape.
LEMMA TypeShared ==
  ASSUME TypeInv, NEW r \in Requests,
         \/ r \in Payments /\ UpdateRaised(r)
         \/ Refresh(r) \/ (r \notin ListReqs \cup PledgeReqs \cup VerifyReqs /\ InvalidateAndReply(r))
         \/ DbFails(r)
  PROVE  TypeInv'
<1>1. CASE r \in Payments /\ UpdateRaised(r)
  <2>1. seen[r].id \in CampaignIds /\ seen[r].raised + AmountOf[r] \in Nat
    BY <1>1, PayloadAssumption DEF UpdateRaised, TypeInv, TypeOK, Loaded, SeenOf, Requests
  <2>2. CASE Overflows(r)
    BY <1>1, <2>2, TypeReply DEF UpdateRaised, Codes
  <2>3. CASE ~Overflows(r)
    <3>1. Goto(r, "ledger") /\ UNCHANGED <<tables, seen>>
      BY <1>1, <2>3 DEF UpdateRaised
    <3>2. Fits(r, "ledger")
      BY <2>1, <2>3, <3>1, PayloadAssumption DEF Fits, Overflows, RaisedBy
    <3> QED  BY <3>1, <3>2, TypeGoto DEF Labels
  <2> QED  BY <2>2, <2>3
<1>2. CASE Refresh(r)
  BY <1>2, TypeGoto DEF Refresh, Fits, Labels
<1>3. CASE r \notin ListReqs \cup PledgeReqs \cup VerifyReqs /\ InvalidateAndReply(r)
  <2>1. Success(r) \in Codes
    BY <1>3 DEF Success, Codes, Requests, Payments, Others
  <2> QED  BY <1>3, <2>1, TypeReply DEF InvalidateAndReply
<1>4. CASE DbFails(r)
  BY <1>4, TypeReply DEF DbFails, Codes
<1> QED  BY <1>1, <1>2, <1>3, <1>4

\* record_donation keeps the shape.
LEMMA TypeRecord ==
  ASSUME TypeInv, NEW r \in Requests, RecordDonation(r)
  PROVE  TypeInv'
<1> DEFINE c == CampaignOf[r]
<1>0. r \in DonationReqs /\ r \in Payments /\ c \in CampaignIds
  BY KindsAreDisjoint, PayloadAssumption DEF RecordDonation, Payments, Others
<1>1. CASE Replay(r)
  BY <1>1, TypeReply DEF Replay, TypeInv, TypeOK, Codes, Payments
<1>2. CASE NewKey(r)
  BY <1>2, TypeGoto DEF NewKey, Labels, Fits
<1>3. CASE ValidateCampaign(r)
  <2>1. CASE campaigns[c].status = "absent"
    BY <1>3, <2>1, TypeReply DEF ValidateCampaign, Codes
  <2>2. CASE campaigns[c].status = "closed"
    BY <1>3, <2>2, TypeReply DEF ValidateCampaign, Codes
  <2>3. CASE campaigns[c].status = "open"
    BY <1>0, <1>3, <2>3, TypeLoad DEF ValidateCampaign, Labels
  <2> QED  BY <1>0, <2>1, <2>2, <2>3 DEF TypeInv, TypeOK
<1>4. CASE PrecheckRef(r)
  <2>1. CASE RefTaken(r)
    BY <1>4, <2>1, TypeReply DEF PrecheckRef, Codes
  <2>2. CASE ~RefTaken(r)
    BY <1>0, <1>4, <2>2, TypeGoto DEF PrecheckRef, Labels, Fits, TypeInv, Loaded
  <2> QED  BY <2>1, <2>2
<1>5. CASE InsertDonation(r)
  <2>1. CASE AmountOf[r] > IntMax
    <3>1. ~(AmountOf[r] <= IntMax)
      BY <1>0, <2>1, PayloadAssumption
    <3>2. Reply(r, "error", NoDonation) /\ UNCHANGED <<tables, seen>>
      BY <1>5, <2>1, <3>1 DEF InsertDonation
    <3> QED  BY <3>2, TypeReply DEF Codes
  <2>2. CASE AmountOf[r] <= IntMax /\ (r \notin KnownMember \/ RefTaken(r))
    BY <1>0, <1>5, <2>2, TypeReply, PayloadAssumption DEF InsertDonation, Codes
  <2>3. CASE AmountOf[r] <= IntMax /\ r \in KnownMember /\ ~RefTaken(r)
    BY <1>0, <1>5, <2>3, TypeGoto, PayloadAssumption
    DEF InsertDonation, Labels, Fits, TypeInv, Loaded
  <2> QED  BY <1>0, <2>1, <2>2, <2>3, PayloadAssumption
<1>6. CASE UpdateRaised(r)  BY <1>0, <1>6, TypeShared
<1>7. CASE InsertLedger(r)
  BY <1>0, <1>7, TypeGoto DEF InsertLedger, Labels, Fits, TypeInv, Loaded, RaisedBy
<1>8. CASE CommitDonation(r)
  <2>1. CommitsMoney(r)  BY <1>8 DEF CommitDonation, CommitsMoney
  <2> QED
    BY <1>0, <1>8, <2>1, TypeCommit DEF CommitDonation, AuditRow, IdemRow
<1>9. CASE KeyClash(r)
  BY <1>9, TypeReply DEF KeyClash, Codes
<1>10. CASE Refresh(r)  BY <1>10, TypeShared
<1>11. CASE InvalidateAndReply(r)
  BY <1>0, <1>11, TypeShared, KindsAreDisjoint DEF Others
<1> QED
  BY <1>1, <1>2, <1>3, <1>4, <1>5, <1>6, <1>7, <1>8, <1>9, <1>10, <1>11
  DEF RecordDonation

\* process_payment keeps the shape.
LEMMA TypePayment ==
  ASSUME TypeInv, NEW r \in Requests, ProcessPayment(r)
  PROVE  TypeInv'
<1>0. r \in WebhookReqs /\ r \in Payments
  BY DEF ProcessPayment, Payments
<1> USE <1>0
<1>1. CASE CheckEvent(r)
  <2>1. CASE EventTaken(r)
    BY <1>1, <2>1, TypeReply DEF CheckEvent, Codes
  <2>2. CASE ~EventTaken(r)
    BY <1>1, <2>2, TypeGoto DEF CheckEvent, Labels, Fits
  <2> QED  BY <2>1, <2>2
<1>2. ASSUME NEW c \in CampaignIds, Settle(r, c), UNCHANGED tables  PROVE TypeInv'
  BY <1>2, TypeLoad DEF Settle, Labels
<1>3. CASE ResolveNamed(r)
  BY <1>2, <1>3, PayloadAssumption DEF ResolveNamed
<1>4. CASE Unresolved(r)
  BY <1>4, TypeGoto DEF Unresolved, Labels, Fits
<1>5. CASE ResolveGeneral(r)
  BY <1>2, <1>5 DEF ResolveGeneral
<1>6. CASE NoneOpen(r)
  BY <1>6, TypeGoto DEF NoneOpen, Labels, Fits
<1>7. CASE RecordOrphan(r)
  <2>1. CASE EventTaken(r)
    BY <1>7, <2>1, TypeReply DEF RecordOrphan, Codes, tables
  <2>2. CASE ~EventTaken(r)
    <3>1. /\ Reply(r, "orphan_logged", NoDonation)
          /\ UNCHANGED <<campaigns, donations, ledger, idem, pledges, seen>>
      BY <1>7, <2>2 DEF RecordOrphan
    <3>2. \A a \in audit' \ audit : a.target \in Requests
      BY <1>7, <2>2 DEF RecordOrphan, AuditRow
    <3>3. \A e \in events' \ events : e.by \in WebhookReqs /\ e.is_orphan \in BOOLEAN
      <4>1. \A e \in events' \ events : e = EventRow(r, TRUE)
        BY <1>7, <2>2 DEF RecordOrphan
      <4>2. EventRow(r, TRUE).by \in WebhookReqs /\ EventRow(r, TRUE).is_orphan \in BOOLEAN
        BY <1>0, Zenon DEF EventRow
      <4> QED  BY <4>1, <4>2
    <3>4. pledges' \subseteq PledgeReqs /\ campaigns' \in
            [CampaignIds -> [status : {"absent", "open", "closed"}, raised : 0..IntMax]]
      BY <3>1 DEF TypeInv, TypeOK
    <3>5. "orphan_logged" \in Codes
      BY DEF Codes
    <3> QED  BY <3>1, <3>2, <3>3, <3>4, <3>5, TypeWrite
  <2> QED  BY <2>1, <2>2
<1>8. CASE InsertPayment(r)
  <2>1. CASE AmountOf[r] > IntMax
    <3>1. ~(AmountOf[r] <= IntMax)
      BY <2>1, PayloadAssumption
    <3>2. Reply(r, "error", NoDonation) /\ UNCHANGED <<tables, seen>>
      BY <1>8, <2>1, <3>1 DEF InsertPayment
    <3> QED  BY <3>2, TypeReply DEF Codes
  <2>2. CASE AmountOf[r] <= IntMax /\ RefTaken(r)
    BY <1>8, <2>2, TypeReply, PayloadAssumption DEF InsertPayment, Codes
  <2>3. CASE AmountOf[r] <= IntMax /\ ~RefTaken(r)
    BY <1>8, <2>3, TypeGoto, PayloadAssumption
    DEF InsertPayment, Labels, Fits, TypeInv, Loaded
  <2> QED  BY <2>1, <2>2, <2>3, PayloadAssumption
<1>9. CASE UpdateRaised(r)  BY <1>9, TypeShared
<1>10. CASE InsertEvent(r)
  <2>1. CASE EventTaken(r)
    BY <1>10, <2>1, TypeReply DEF InsertEvent, Codes
  <2>2. CASE ~EventTaken(r)
    BY <1>10, <2>2, TypeGoto DEF InsertEvent, Labels, Fits, TypeInv, Loaded, RaisedBy
  <2> QED  BY <2>1, <2>2
<1>11. CASE CommitPayment(r)
  <2>1. CommitsMoney(r)  BY <1>11 DEF CommitPayment, CommitsMoney
  <2> QED
    <3>1. \A a \in audit' \ audit : a.target \in Requests
      BY <1>11 DEF CommitPayment, AuditRow
    <3>2. \A e \in events' \ events : e.by \in WebhookReqs /\ e.is_orphan \in BOOLEAN
      <4>1. \A e \in events' \ events : e = EventRow(r, FALSE)
        BY <1>11 DEF CommitPayment
      <4>2. EventRow(r, FALSE).by \in WebhookReqs /\ EventRow(r, FALSE).is_orphan \in BOOLEAN
        BY <1>0, Zenon DEF EventRow
      <4> QED  BY <4>1, <4>2
    <3>3. UNCHANGED idem
      BY <1>11 DEF CommitPayment
    <3> QED  BY <2>1, <3>1, <3>2, <3>3, TypeCommit
<1>12. CASE Refresh(r)  BY <1>12, TypeShared
<1>13. CASE InvalidateAndReply(r)
  BY <1>13, TypeShared, KindsAreDisjoint DEF Others
<1> QED
  BY <1>1, <1>3, <1>4, <1>5, <1>6, <1>7, <1>8, <1>9, <1>10, <1>11, <1>12, <1>13
  DEF ProcessPayment

\* The other services keep the shape.
LEMMA TypeOther ==
  ASSUME TypeInv, NEW r \in Requests,
         \/ CreatePledge(r) \/ CreateCampaign(r) \/ CloseCampaign(r)
         \/ ListCampaigns(r) \/ VerifyLedger(r)
  PROVE  TypeInv'
<1>1. CASE CreatePledge(r)
  <2> USE <1>1
  <2> DEFINE c == CampaignOf[r]
  <2>0. r \in PledgeReqs /\ r \notin Payments /\ c \in CampaignIds
    BY KindsAreDisjoint, PayloadAssumption DEF CreatePledge, Requests, Payments, Others
  <2>1. CASE FindMember(r)
    <3>1. CASE r \in HasProfile
      BY <2>1, <3>1, TypeGoto DEF FindMember, Labels, Fits
    <3>2. CASE r \notin HasProfile
      BY <2>1, <3>2, TypeReply DEF FindMember, Codes
    <3> QED  BY <3>1, <3>2
  <2>2. CASE ValidateCampaign(r)
    <3>1. CASE campaigns[c].status = "absent"
      BY <2>2, <3>1, TypeReply DEF ValidateCampaign, Codes
    <3>2. CASE campaigns[c].status = "closed"
      BY <2>2, <3>2, TypeReply DEF ValidateCampaign, Codes
    <3>3. CASE campaigns[c].status = "open"
      BY <2>0, <2>2, <3>3, TypeLoad DEF ValidateCampaign, Labels, Payments
    <3> QED  BY <2>0, <3>1, <3>2, <3>3 DEF TypeInv, TypeOK
  <2>3. CASE CommitPledge(r)
    <3>1. /\ Goto(r, "refresh")
          /\ UNCHANGED <<campaigns, donations, ledger, idem, events, seen>>
          /\ pledges' \subseteq PledgeReqs
      BY <2>0, <2>3 DEF CommitPledge, TypeInv, TypeOK
    <3>2. \A a \in audit' \ audit : a.target \in Requests
      BY <2>3 DEF CommitPledge, AuditRow
    <3>3. campaigns' \in [CampaignIds -> [status : {"absent", "open", "closed"},
                                          raised : 0..IntMax]]
      BY <3>1 DEF TypeInv, TypeOK
    <3> QED  BY <3>1, <3>2, <3>3, TypeWrite
  <2>4. CASE RefreshPledge(r)
    BY <2>4, TypeReply DEF RefreshPledge, Codes
  <2> QED  BY <2>1, <2>2, <2>3, <2>4 DEF CreatePledge
<1>2. CASE CreateCampaign(r) \/ CloseCampaign(r)
  <2> USE <1>2
  <2> DEFINE c == CampaignOf[r]
  <2>0. /\ r \in CreateReqs \cup CloseReqs /\ r \notin Payments /\ c \in CampaignIds
        /\ r \notin ListReqs \cup PledgeReqs \cup VerifyReqs
    BY KindsAreDisjoint, PayloadAssumption
    DEF CreateCampaign, CloseCampaign, Requests, Payments, Others
  <2>1. ASSUME CommitCampaign(r) \/ CommitClose(r)  PROVE TypeInv'
    <3>1. campaigns' \in [CampaignIds -> [status : {"absent", "open", "closed"},
                                          raised : 0..IntMax]]
      <4>1. CASE CommitCampaign(r)
        BY <2>0, <4>1, PayloadAssumption DEF CommitCampaign, TypeInv, TypeOK
      <4>2. CASE CommitClose(r)
        BY <2>0, <4>2 DEF CommitClose, TypeInv, TypeOK
      <4> QED  BY <2>1, <4>1, <4>2
    <3> QED
      <4>1. /\ Goto(r, "refresh")
            /\ UNCHANGED <<donations, ledger, idem, events, pledges, seen>>
        BY <2>1 DEF CommitCampaign, CommitClose
      <4>2. \A a \in audit' \ audit : a.target \in Requests
        BY <2>1 DEF CommitCampaign, CommitClose, AuditRow
      <4>3. pledges' \subseteq PledgeReqs
        BY <4>1 DEF TypeInv, TypeOK
      <4> QED  BY <3>1, <4>1, <4>2, <4>3, TypeWrite
  <2>2. CASE ReadToClose(r)
    <3>1. CASE campaigns[c].status = "absent"
      BY <2>2, <3>1, TypeReply DEF ReadToClose, Codes
    <3>2. CASE campaigns[c].status = "closed"
      BY <2>2, <3>2, TypeReply DEF ReadToClose, Codes
    <3>3. CASE campaigns[c].status = "open"
      BY <2>0, <2>2, <3>3, TypeGoto DEF ReadToClose, Labels, Fits
    <3> QED  BY <2>0, <3>1, <3>2, <3>3 DEF TypeInv, TypeOK
  <2> QED
    BY <2>0, <2>1, <2>2, TypeShared DEF CreateCampaign, CloseCampaign
<1>3. CASE ListCampaigns(r) \/ VerifyLedger(r)
  <2> USE <1>3
  <2>1. CASE ListCampaigns(r)
    <3>1. \/ \E code \in Codes : Reply(r, code, NoDonation)
          \/ \E label \in {"count", "items", "store"} : Goto(r, label)
      BY <2>1 DEF ListCampaigns, ServeCached, MissCache, CountCampaigns, ReadItems,
                  StorePage, Codes
    <3>2. UNCHANGED <<tables, seen>>
      BY <2>1 DEF ListCampaigns, ServeCached, MissCache, CountCampaigns, ReadItems,
                  StorePage
    <3> QED  BY <3>1, <3>2, TypeReply, TypeGoto DEF Labels, Fits
  <2>2. CASE VerifyLedger(r)
    <3>0. CampaignOf[r] \in CampaignIds
      BY <2>2, KindsAreDisjoint, PayloadAssumption DEF VerifyLedger, Payments, Others, Requests
    <3>1. CASE ReadToVerify(r)
      <4>1. CASE campaigns[CampaignOf[r]].status = "absent"
        BY <3>1, <4>1, TypeReply DEF ReadToVerify, Codes, tables
      <4>2. CASE campaigns[CampaignOf[r]].status # "absent"
        BY <3>0, <3>1, <4>2, TypeLoad DEF ReadToVerify, Labels
      <4> QED  BY <4>1, <4>2
    <3>2. CASE SumAndCompare(r)
      BY <3>2, TypeReply DEF SumAndCompare, Codes
    <3> QED  BY <2>2, <3>1, <3>2 DEF VerifyLedger
  <2> QED  BY <2>1, <2>2
<1> QED  BY <1>1, <1>2, <1>3

\* Every step of the system keeps the shape.
LEMMA TypeStep == TypeInv /\ [Next]_vars => TypeInv'
<1> SUFFICES ASSUME TypeInv, [Next]_vars  PROVE TypeInv'
  OBVIOUS
<1>1. ASSUME NEW r \in Requests, NEW w \in Workers, Arrive(r, w)  PROVE TypeInv'
  <2>1. Entry(r) \in Labels /\ Entry(r) \notin {"precheck", "raise", "ledger", "commit"}
    BY DEF Entry, Labels, Requests, Payments, Others
  <2>2. r \in Payments => Entry(r) # "insert"
    BY KindsAreDisjoint DEF Entry, Payments, Others
  <2>3. TypeOK'
    BY <1>1, <2>1 DEF Arrive, TypeInv, TypeOK, tables
  <2>4. Loaded'
    BY <1>1, <2>1, <2>2 DEF Arrive, TypeInv, TypeOK, Loaded, RaisedBy, Requests
  <2> QED  BY <2>3, <2>4 DEF TypeInv
<1>2. ASSUME NEW r \in Requests, Step(r)  PROVE TypeInv'
  BY <1>2, TypeRecord, TypePayment, TypeOther DEF Step
<1>3. ASSUME NEW r \in Requests, DbFails(r)  PROVE TypeInv'
  BY <1>3, TypeShared
<1>4. ASSUME NEW w \in Workers, Crash(w)  PROVE TypeInv'
  <2>1. TypeOK'
    BY <1>4 DEF Crash, TypeInv, TypeOK, tables, Labels, Ended
  <2>2. Loaded'
    BY <1>4 DEF Crash, TypeInv, TypeOK, Loaded, RaisedBy, Requests
  <2> QED  BY <2>1, <2>2 DEF TypeInv
<1>5. CASE UNCHANGED vars \/ Expire
  <2>1. UNCHANGED <<tables, pc, at, seen, resp>>
    BY <1>5 DEF vars, Expire
  <2> QED
    BY <2>1 DEF tables, TypeInv, TypeOK, Loaded, RaisedBy
<1> QED
  BY <1>1, <1>2, <1>3, <1>4, <1>5 DEF Next, Terminated

\* The tables, the requests and their answers keep their shape (TypeOK), and a
\* payment only ever commits a value of raised_amount that fits its column.
THEOREM TypeCorrect == Spec => []TypeOK
<1>1. Init => TypeInv  BY TypeInit
<1>2. TypeInv /\ [Next]_vars => TypeInv'  BY TypeStep
<1>3. TypeInv => TypeOK  BY DEF TypeInv
<1> QED  BY <1>1, <1>2, <1>3, PTL DEF Spec

-----------------------------------------------------------------------------
(* What a step can do: it is a step of one request that reads, waits or      *)
(* answers, or that commits, or it comes from outside.                       *)

\* What is left to do after the commit.
Committed == {"refresh", "invalidate"}

\* A request that goes on has not committed yet, or it has and goes to answer;
\* what it holds from now on was free.
GoesOn(r) ==
  /\ pc'[r] \notin Ended \cup {"refresh"} /\ resp' = resp
  /\ pc[r] \in Committed <=> pc'[r] = "invalidate"
  /\ r \in CreateReqs => pc'[r] # "insert"
  /\ r \in Payments /\ Flushed(r)' => Flushed(r) \/ (~RefHeld(r) /\ ~RefTaken(r))
  /\ r \in WebhookReqs /\ HoldsEvent(r)' => ~EventHeld(r) /\ ~EventTaken(r)
  /\ r \in CloseReqs /\ pc'[r] = "commit" => campaigns[CampaignOf[r]].status = "open"

\* What an answer says is so, when it is sent without a commit of its own.
Warranted(r, a) ==
  /\ a.code \in Refusals => pc[r] \notin Committed
  /\ a.code \in {"created", "payment_confirmed", "closed"} => pc[r] \in Committed
  /\ a.code \in {"closed", "already_closed"} => r \in CloseReqs
  /\ a.code = "replayed" => \E i \in idem : i.key = KeyOf[r] /\ a.donation = i.donation
  /\ r \in KnownMember /\ a.code = "duplicate" => RefTaken(r) \/ KeySaved(r)
  /\ a.code = "already_processed" => RefTaken(r) \/ EventTaken(r)
  /\ a.code = "duplicate_ignored" => EventTaken(r)
  /\ a.code = "already_closed" => campaigns[CampaignOf[r]].status = "closed"
  /\ a.code # "orphan_logged"

\* A step of one request that reads, waits or answers.
Asks(r) ==
  /\ InFlight(r) /\ UNCHANGED tables
  /\ \A q \in Requests \ {r} : pc'[q] = pc[q] /\ resp'[q] = resp[q]
  /\ GoesOn(r) \/ (pc'[r] = "done" /\ Warranted(r, resp'[r]))

\* A step that writes what a service writes.
Writes(r) ==
  \/ r \in DonationReqs /\ CommitDonation(r)
  \/ r \in WebhookReqs /\ CommitPayment(r)
  \/ r \in WebhookReqs /\ RecordOrphan(r) /\ ~EventTaken(r)
  \/ r \in PledgeReqs /\ CommitPledge(r)
  \/ r \in CreateReqs /\ CommitCampaign(r)
  \/ r \in CloseReqs /\ CommitClose(r)

\* A step that is not of a service.
Outside ==
  /\ UNCHANGED <<tables, resp>>
  /\ \A q \in Requests : \/ pc'[q] = pc[q] \/ pc'[q] = "lost"
                         \/ pc[q] = "idle" /\ pc'[q] = Entry(q)

\* A statement that moves a request on and writes nothing is a question, if the
\* label it leads to is one that its guard warrants.
LEMMA AskGoto ==
  ASSUME TypeOK, NEW r \in Requests, NEW label, Goto(r, label), InFlight(r),
         UNCHANGED tables, label \notin Ended \cup {"refresh"},
         pc[r] \in Committed <=> label = "invalidate",
         r \in CreateReqs => label # "insert",
         r \in Payments /\ label \in {"raise", "ledger", "commit"} =>
           Flushed(r) \/ (~RefHeld(r) /\ ~RefTaken(r)),
         r \in WebhookReqs /\ label = "commit" => ~EventHeld(r) /\ ~EventTaken(r),
         r \in CloseReqs /\ label = "commit" => campaigns[CampaignOf[r]].status = "open"
  PROVE  Asks(r)
<1>1. /\ \A q \in Requests \ {r} : pc'[q] = pc[q] /\ resp'[q] = resp[q]
      /\ pc'[r] = label /\ resp' = resp
  BY DEF TypeOK, Goto
<1> QED  BY <1>1 DEF Asks, GoesOn, Flushed, HoldsEvent

\* So is an answer that the tables warrant.
LEMMA AskReply ==
  ASSUME TypeOK, NEW r \in Requests, NEW code, NEW d, Reply(r, code, d), InFlight(r),
         UNCHANGED tables, Warranted(r, [code |-> code, donation |-> d])
  PROVE  Asks(r)
<1>1. /\ \A q \in Requests \ {r} : pc'[q] = pc[q] /\ resp'[q] = resp[q]
      /\ pc'[r] = "done" /\ resp'[r] = [code |-> code, donation |-> d]
  BY DEF TypeOK, Reply
<1> QED  BY <1>1 DEF Asks

\* Every step of the system is a fault outside, a question, or a write.
LEMMA Turn ==
  ASSUME TypeOK, [Next]_vars
  PROVE  Outside \/ \E r \in Requests : Asks(r) \/ Writes(r)
<1>1. ASSUME NEW r \in Requests, NEW w \in Workers, Arrive(r, w)  PROVE Outside
  BY <1>1 DEF Arrive, Outside, TypeOK
<1>2. ASSUME NEW r \in Requests, DbFails(r)  PROVE Asks(r)
  <2>1. Warranted(r, [code |-> "error", donation |-> NoDonation])
    BY DEF Warranted, Refusals
  <2> QED  BY <1>2, <2>1, AskReply DEF DbFails
<1>3. ASSUME NEW w \in Workers, Crash(w)  PROVE Outside
  BY <1>3 DEF Crash, Outside, TypeOK
<1>4. CASE UNCHANGED vars \/ Expire
  BY <1>4 DEF vars, Expire, Outside
<1>5. ASSUME NEW r \in Requests, Step(r)  PROVE Asks(r) \/ Writes(r)
  <2> USE <1>5
  <2>1. ASSUME NEW code \in {"not_found", "campaign_closed", "error", "cached", "listed",
                             "match", "mismatch"},
               Reply(r, code, NoDonation), InFlight(r), UNCHANGED tables,
               code \in {"not_found", "campaign_closed"} => pc[r] \notin Committed
        PROVE  Asks(r)
    BY <2>1, AskReply DEF Warranted, Refusals
  <2>2. ASSUME NEW label \in {"campaign", "precheck", "resolve", "general", "orphan",
                              "count", "items", "store", "sum", "insert"},
               Goto(r, label), InFlight(r), UNCHANGED tables, pc[r] \notin Committed,
               r \notin CreateReqs
        PROVE  Asks(r)
    BY <2>2, AskGoto DEF Ended, Committed
  <2>3. ASSUME Refresh(r), r \in Payments \cup CreateReqs \cup CloseReqs  PROVE Asks(r)
    BY <2>3, AskGoto DEF Refresh, Ended, Committed, InFlight, tables
  <2>4. ASSUME InvalidateAndReply(r), r \in Payments \cup CreateReqs \cup CloseReqs
        PROVE  Asks(r)
    <3>1. pc[r] = "invalidate" /\ InFlight(r) /\ UNCHANGED tables
      BY <2>4 DEF InvalidateAndReply, InFlight, Ended
    <3>2. Success(r) \in {"created", "payment_confirmed"} \/ (Success(r) = "closed" /\ r \in CloseReqs)
      BY <2>4, KindsAreDisjoint DEF Success, Payments, Others
    <3> DEFINE d == IF r \in Payments THEN r ELSE NoDonation
    <3>3. Warranted(r, [code |-> Success(r), donation |-> d])
      BY <3>1, <3>2 DEF Warranted, Refusals, Committed
    <3>4. Reply(r, Success(r), d)
      BY <2>4 DEF InvalidateAndReply
    <3> HIDE DEF d
    <3> QED  BY <3>1, <3>3, <3>4, AskReply
  <2>5. ASSUME UpdateRaised(r), r \in Payments  PROVE Asks(r)
    <3>1. pc[r] = "raise" /\ InFlight(r) /\ UNCHANGED tables /\ Flushed(r)
      BY <2>5 DEF UpdateRaised, InFlight, Ended, Flushed
    <3>2. Reply(r, "error", NoDonation) \/ Goto(r, "ledger")
      BY <2>5 DEF UpdateRaised
    <3>3. r \notin CreateReqs \cup CloseReqs
      BY <2>5, KindsAreDisjoint DEF Others
    <3> QED  BY <2>1, <3>1, <3>2, <3>3, AskGoto DEF Ended, Committed
  <2>6. ASSUME ValidateCampaign(r), r \in DonationReqs \cup PledgeReqs  PROVE Asks(r)
    <3>1. /\ pc[r] = "campaign" /\ InFlight(r) /\ UNCHANGED tables /\ r \notin CreateReqs
          /\ campaigns[CampaignOf[r]].status \in {"absent", "open", "closed"}
      BY <2>6, KindsAreDisjoint, PayloadAssumption
      DEF ValidateCampaign, InFlight, Ended, TypeOK, Payments, Others
    <3>2. \/ Reply(r, "not_found", NoDonation) \/ Reply(r, "campaign_closed", NoDonation)
          \/ Goto(r, IF r \in DonationReqs THEN "precheck" ELSE "insert")
      BY <2>6, <3>1 DEF ValidateCampaign
    <3> QED  BY <2>1, <2>2, <3>1, <3>2 DEF Committed
  <2>7. CASE RecordDonation(r)
    <3>0. r \in DonationReqs /\ r \in Payments /\ r \notin CreateReqs \cup CloseReqs \cup WebhookReqs
      BY <2>7, KindsAreDisjoint DEF RecordDonation, Payments, Others
    <3>1. CASE Replay(r)
      <4>1. PICK i \in idem : i.key = KeyOf[r] /\ Reply(r, "replayed", i.donation)
        BY <3>1 DEF Replay
      <4>2. pc[r] = "key" /\ InFlight(r) /\ UNCHANGED tables
        BY <3>1 DEF Replay, InFlight, Ended
      <4>3. Warranted(r, [code |-> "replayed", donation |-> i.donation])
        BY <4>1, <4>2 DEF Warranted, Refusals, Committed
      <4> QED  BY <4>1, <4>2, <4>3, AskReply
    <3>2. CASE NewKey(r)
      BY <2>2, <3>0, <3>2 DEF NewKey, InFlight, Ended, Committed
    <3>3. ASSUME Reply(r, "duplicate", NoDonation), InFlight(r), UNCHANGED tables,
                 pc[r] \notin Committed, r \in KnownMember => RefTaken(r) \/ KeySaved(r)
          PROVE  Asks(r)
      BY <3>3, AskReply DEF Warranted, Refusals
    <3>4. CASE PrecheckRef(r)
      <4>1. pc[r] = "precheck" /\ InFlight(r) /\ UNCHANGED tables /\ pc[r] \notin Committed
        BY <3>4 DEF PrecheckRef, InFlight, Ended, Committed
      <4>2. (RefTaken(r) /\ Reply(r, "duplicate", NoDonation)) \/ Goto(r, "insert")
        BY <3>4 DEF PrecheckRef
      <4> QED  BY <2>2, <3>0, <3>3, <4>1, <4>2
    <3>5. CASE InsertDonation(r)
      <4>1. /\ pc[r] = "insert" /\ InFlight(r) /\ UNCHANGED tables /\ pc[r] \notin Committed
        BY <3>5 DEF InsertDonation, InFlight, Ended, Committed
      <4>0. (AmountOf[r] > IntMax) <=> ~(AmountOf[r] <= IntMax)
        BY <3>0, PayloadAssumption
      <4>2. CASE ~(AmountOf[r] <= IntMax)
        BY <2>1, <3>5, <4>0, <4>1, <4>2 DEF InsertDonation
      <4>3. CASE AmountOf[r] <= IntMax /\ (r \notin KnownMember \/ RefTaken(r))
        BY <3>3, <3>5, <4>0, <4>1, <4>3 DEF InsertDonation
      <4>4. CASE AmountOf[r] <= IntMax /\ r \in KnownMember /\ ~RefTaken(r)
        <5>1. Goto(r, "raise") /\ ~RefHeld(r)
          BY <3>5, <4>0, <4>1, <4>4 DEF InsertDonation
        <5> QED  BY <3>0, <4>1, <4>4, <5>1, AskGoto DEF Ended, Committed
      <4> QED  BY <4>2, <4>3, <4>4
    <3>6. CASE InsertLedger(r)
      BY <3>0, <3>6, AskGoto DEF InsertLedger, InFlight, Ended, Committed, Flushed
    <3>7. CASE KeyClash(r)
      BY <3>3, <3>7 DEF KeyClash, InFlight, Ended, Committed
    <3> QED
      BY <2>3, <2>4, <2>5, <2>6, <2>7, <3>0, <3>1, <3>2, <3>4, <3>5, <3>6, <3>7
      DEF RecordDonation, Writes
  <2>8. CASE CreatePledge(r)
    <3>0. r \in PledgeReqs /\ r \notin CreateReqs
      BY <2>8, KindsAreDisjoint DEF CreatePledge
    <3>1. CASE FindMember(r)
      BY <2>1, <2>2, <3>0, <3>1 DEF FindMember, InFlight, Ended, Committed
    <3>2. CASE RefreshPledge(r)
      <4>1. pc[r] = "refresh" /\ InFlight(r) /\ UNCHANGED tables
            /\ Reply(r, "created", NoDonation)
        BY <3>2 DEF RefreshPledge, InFlight, Ended
      <4> QED  BY <4>1, AskReply DEF Warranted, Refusals, Committed
    <3> QED  BY <2>6, <2>8, <3>0, <3>1, <3>2 DEF CreatePledge, Writes
  <2>9. CASE ProcessPayment(r)
    <3>0. /\ r \in WebhookReqs /\ r \in Payments /\ r \notin CreateReqs \cup CloseReqs
          /\ r \notin DonationReqs
      BY <2>9, KindsAreDisjoint DEF ProcessPayment, Payments, Others
    <3>1. CASE CheckEvent(r)
      <4>1. pc[r] = "event" /\ InFlight(r) /\ UNCHANGED tables /\ pc[r] \notin Committed
        BY <3>1 DEF CheckEvent, InFlight, Ended, Committed
      <4>2. (EventTaken(r) /\ Reply(r, "duplicate_ignored", NoDonation)) \/ Goto(r, "resolve")
        BY <3>1 DEF CheckEvent
      <4>3. EventTaken(r) => Warranted(r, [code |-> "duplicate_ignored", donation |-> NoDonation])
        BY <4>1 DEF Warranted
      <4> QED  BY <2>2, <3>0, <4>1, <4>2, <4>3, AskReply
    <3>2. CASE ResolveNamed(r) \/ Unresolved(r) \/ ResolveGeneral(r) \/ NoneOpen(r)
      <4>1. pc[r] \in {"resolve", "general"} /\ UNCHANGED tables
        BY <3>2 DEF ResolveNamed, Unresolved, ResolveGeneral, NoneOpen
      <4>2. \E label \in {"general", "orphan", "insert"} : Goto(r, label)
        BY <3>2 DEF ResolveNamed, Unresolved, ResolveGeneral, NoneOpen, Settle
      <4> QED  BY <2>2, <3>0, <4>1, <4>2 DEF InFlight, Ended, Committed
    <3>3. CASE RecordOrphan(r) /\ EventTaken(r)
      BY <2>1, <3>3 DEF RecordOrphan, InFlight, Ended, tables
    <3>4. ASSUME Reply(r, "already_processed", NoDonation), InFlight(r), UNCHANGED tables,
                 pc[r] \notin Committed, RefTaken(r) \/ EventTaken(r)
          PROVE  Asks(r)
      BY <3>4, AskReply DEF Warranted, Refusals
    <3>5. CASE InsertPayment(r)
      <4>1. /\ pc[r] = "insert" /\ InFlight(r) /\ UNCHANGED tables /\ pc[r] \notin Committed
        BY <3>5 DEF InsertPayment, InFlight, Ended, Committed
      <4>0. (AmountOf[r] > IntMax) <=> ~(AmountOf[r] <= IntMax)
        BY <3>0, PayloadAssumption
      <4>2. CASE ~(AmountOf[r] <= IntMax)
        BY <2>1, <3>5, <4>0, <4>1, <4>2 DEF InsertPayment
      <4>3. CASE AmountOf[r] <= IntMax /\ RefTaken(r)
        BY <3>4, <3>5, <4>0, <4>1, <4>3 DEF InsertPayment
      <4>4. CASE AmountOf[r] <= IntMax /\ ~RefTaken(r)
        <5>1. Goto(r, "raise") /\ ~RefHeld(r)
          BY <3>5, <4>0, <4>1, <4>4 DEF InsertPayment
        <5> QED  BY <3>0, <4>1, <4>4, <5>1, AskGoto DEF Ended, Committed
      <4> QED  BY <4>2, <4>3, <4>4
    <3>6. CASE InsertEvent(r)
      <4>1. /\ pc[r] = "ledger" /\ InFlight(r) /\ UNCHANGED tables /\ pc[r] \notin Committed
            /\ Flushed(r) /\ ~EventHeld(r)
        BY <3>0, <3>6 DEF InsertEvent, InFlight, Ended, Committed, Flushed
      <4>2. \/ EventTaken(r) /\ Reply(r, "already_processed", NoDonation)
            \/ ~EventTaken(r) /\ Goto(r, "commit")
        BY <3>6 DEF InsertEvent
      <4> QED  BY <3>0, <3>4, <4>1, <4>2, AskGoto DEF Ended, Committed
    <3> QED
      BY <2>3, <2>4, <2>5, <2>9, <3>0, <3>1, <3>2, <3>3, <3>5, <3>6 DEF ProcessPayment, Writes
  <2>10. CASE CreateCampaign(r)
    BY <2>3, <2>4, <2>10 DEF CreateCampaign, Writes
  <2>11. CASE CloseCampaign(r)
    <3>1. CASE ReadToClose(r)
      <4>0. /\ r \in CloseReqs /\ r \notin Payments \cup CreateReqs
            /\ pc[r] = "campaign" /\ InFlight(r) /\ UNCHANGED tables /\ pc[r] \notin Committed
        BY <2>11, <3>1, KindsAreDisjoint
        DEF CloseCampaign, ReadToClose, InFlight, Ended, Committed, Payments, Others
      <4>1. campaigns[CampaignOf[r]].status \in {"absent", "open", "closed"}
        BY <4>0, PayloadAssumption, KindsAreDisjoint DEF TypeOK, Payments, Others
      <4>2. CASE campaigns[CampaignOf[r]].status = "absent"
        BY <2>1, <3>1, <4>0, <4>2 DEF ReadToClose
      <4>3. CASE campaigns[CampaignOf[r]].status = "closed"
        <5>1. Reply(r, "already_closed", NoDonation)
          BY <3>1, <4>3 DEF ReadToClose
        <5> QED  BY <4>0, <4>3, <5>1, AskReply DEF Warranted
      <4>4. CASE campaigns[CampaignOf[r]].status = "open"
        <5>1. Goto(r, "commit")
          BY <3>1, <4>4 DEF ReadToClose
        <5> QED  BY <4>0, <4>4, <5>1, AskGoto DEF Ended, Payments
      <4> QED  BY <4>1, <4>2, <4>3, <4>4
    <3> QED  BY <2>3, <2>4, <2>11, <3>1 DEF CloseCampaign, Writes
  <2>12. CASE ListCampaigns(r) \/ VerifyLedger(r)
    <3>1. /\ pc[r] \in {"lookup", "count", "items", "store", "campaign", "sum"}
          /\ UNCHANGED tables /\ r \notin CreateReqs
      BY <2>12, KindsAreDisjoint
      DEF ListCampaigns, ServeCached, MissCache, CountCampaigns, ReadItems, StorePage,
          VerifyLedger, ReadToVerify, SumAndCompare
    <3>2. \/ \E code \in {"cached", "listed", "match", "mismatch", "not_found"} :
               Reply(r, code, NoDonation)
          \/ \E label \in {"count", "items", "store", "sum"} : Goto(r, label)
      BY <2>12
      DEF ListCampaigns, ServeCached, MissCache, CountCampaigns, ReadItems, StorePage,
          VerifyLedger, ReadToVerify, SumAndCompare
    <3> QED  BY <2>1, <2>2, <3>1, <3>2 DEF InFlight, Ended, Committed
  <2> QED
    BY <2>7, <2>8, <2>9, <2>10, <2>11, <2>12 DEF Step
<1> QED
  BY <1>1, <1>2, <1>3, <1>4, <1>5 DEF Next, Terminated

-----------------------------------------------------------------------------
(* A bank reference is credited at most once.  What a payment does to the   *)
(* references is one of three moves: it leaves them alone or gives its own  *)
(* back, it reserves its own by the INSERT, or it commits it.               *)

Stays == UNCHANGED donations /\ \A q \in Payments : Flushed(q)' => Flushed(q)

Reserves(r) ==
  /\ r \in Payments /\ ~RefHeld(r) /\ ~RefTaken(r)
  /\ UNCHANGED donations
  /\ \A q \in Payments \ {r} : Flushed(q)' => Flushed(q)

Commits(r) ==
  /\ r \in Payments /\ Flushed(r) /\ ~Flushed(r)'
  /\ donations' = donations \cup {DonationRow(r)}
  /\ \A q \in Payments \ {r} : Flushed(q)' => Flushed(q)

Moves == Stays \/ \E r \in Payments : Reserves(r) \/ Commits(r)

\* For references alone, a step reserves one, commits one, or does neither.
LEMMA NextMoves == TypeOK /\ [Next]_vars => Moves
<1> SUFFICES ASSUME TypeOK, [Next]_vars  PROVE Moves
  OBVIOUS
<1>1. CASE Outside
  <2>1. \A q \in Payments : Entry(q) \notin {"raise", "ledger", "commit"}
    BY KindsAreDisjoint DEF Entry, Payments, Others
  <2>2. \A q \in Payments : pc'[q] = pc[q] \/ pc'[q] \notin {"raise", "ledger", "commit"}
    BY <1>1, <2>1 DEF Outside, Requests
  <2> QED  BY <1>1, <2>2 DEF Outside, tables, Moves, Stays, Flushed
<1>2. ASSUME NEW r \in Requests, Asks(r)  PROVE Moves
  <2>1. UNCHANGED donations /\ \A q \in Payments \ {r} : Flushed(q)' => Flushed(q)
    BY <1>2 DEF Asks, tables, Flushed, Requests
  <2>2. CASE r \in Payments /\ Flushed(r)' /\ ~Flushed(r)
    BY <1>2, <2>1, <2>2 DEF Asks, GoesOn, Flushed, Moves, Reserves
  <2> QED  BY <2>1, <2>2 DEF Moves, Stays
<1>3. ASSUME NEW r \in Payments, CommitsMoney(r)  PROVE Moves
  <2>1. Commits(r)
    BY <1>3 DEF TypeOK, CommitsMoney, Goto, Commits, Flushed, Requests
  <2> QED  BY <2>1 DEF Moves
<1>4. ASSUME NEW r \in Requests, Writes(r)  PROVE Moves
  <2>1. CASE \/ r \in DonationReqs /\ CommitDonation(r)
             \/ r \in WebhookReqs /\ CommitPayment(r)
    <3>1. r \in Payments /\ CommitsMoney(r)
      BY <2>1 DEF CommitDonation, CommitPayment, CommitsMoney, Payments
    <3> QED  BY <1>3, <3>1
  <2>2. CASE r \in WebhookReqs /\ RecordOrphan(r) /\ ~EventTaken(r)
    <3>1. UNCHANGED donations /\ Reply(r, "orphan_logged", NoDonation)
      BY <2>2 DEF RecordOrphan
    <3> QED  BY <3>1 DEF Reply, TypeOK, Moves, Stays, Flushed, Requests
  <2>3. CASE \/ r \in PledgeReqs /\ CommitPledge(r)
             \/ r \in CreateReqs /\ CommitCampaign(r)
             \/ r \in CloseReqs /\ CommitClose(r)
    <3>1. UNCHANGED donations /\ Goto(r, "refresh")
      BY <2>3 DEF CommitPledge, CommitCampaign, CommitClose
    <3> QED  BY <3>1 DEF Goto, TypeOK, Moves, Stays, Flushed, Requests
  <2> QED  BY <1>4, <2>1, <2>2, <2>3 DEF Writes
<1> QED  BY <1>1, <1>2, <1>4, Turn

\* A reference inserted and not committed is nobody else's, and not in the table.
Reserved ==
  \A q \in Payments : Flushed(q) =>
    ~RefTaken(q) /\ \A r \in Payments \ {q} : Flushed(r) => RefOf[r] # RefOf[q]

\* A reference that is reserved stays so until its commit, and no other gets it.
LEMMA ReservedStep ==
  ASSUME TypeInv, Reserved, ExactlyOnce, Moves
  PROVE  Reserved' /\ ExactlyOnce'
<1>1. CASE Stays
  BY <1>1 DEF Stays, Reserved, ExactlyOnce, RefTaken
<1>2. ASSUME NEW r \in Payments, Reserves(r)  PROVE Reserved' /\ ExactlyOnce'
  <2>1. \A q \in Payments \ {r} : Flushed(q)' => Flushed(q) /\ RefOf[q] # RefOf[r]
    BY <1>2 DEF Reserves, RefHeld
  <2> QED  BY <1>2, <2>1 DEF Reserves, Reserved, ExactlyOnce, RefTaken
<1>3. ASSUME NEW r \in Payments, Commits(r)  PROVE Reserved' /\ ExactlyOnce'
  <2>1. DonationRow(r).bank_ref = RefOf[r]
    BY DEF DonationRow
  <2>2. ~RefTaken(r)
    BY <1>3 DEF Commits, Reserved
  <2>3. ExactlyOnce'
    BY <1>3, <2>1, <2>2 DEF Commits, ExactlyOnce, RefTaken
  <2>4. ASSUME NEW q \in Payments, Flushed(q)'
        PROVE  /\ ~RefTaken(q)'
               /\ \A t \in Payments \ {q} : Flushed(t)' => RefOf[t] # RefOf[q]
    <3>1. q # r /\ Flushed(q) /\ Flushed(r)
      BY <1>3, <2>4 DEF Commits
    <3>2. ~RefTaken(q) /\ RefOf[q] # RefOf[r]
      BY <3>1 DEF Reserved
    <3>3. ~RefTaken(q)'
      BY <1>3, <2>1, <3>2 DEF Commits, RefTaken
    <3>4. \A t \in Payments \ {q} : Flushed(t)' => t # r /\ Flushed(t)
      BY <1>3 DEF Commits
    <3> QED  BY <3>1, <3>3, <3>4 DEF Reserved
  <2> QED  BY <2>3, <2>4 DEF Reserved
<1> QED  BY <1>1, <1>2, <1>3 DEF Moves

\* A bank reference is credited at most once (ExactlyOnce), by whichever route,
\* worker and retry: the UNIQUE constraint, with the wait for a transaction that
\* has inserted the value, is enough whatever the early checks have read.
THEOREM CreditedOnce == Spec => []ExactlyOnce
<1> DEFINE IInv == TypeInv /\ Reserved /\ ExactlyOnce
<1>1. Init => IInv
  <2>1. Init => Reserved /\ ExactlyOnce
    BY DEF Init, InitStore, Reserved, ExactlyOnce, Flushed, Requests
  <2> QED  BY <2>1, TypeInit
<1>2. IInv /\ [Next]_vars => IInv'
  BY TypeStep, NextMoves, ReservedStep DEF TypeInv
<1>3. IInv => ExactlyOnce
  OBVIOUS
<1> QED  BY <1>1, <1>2, <1>3, PTL DEF Spec
=============================================================================
