---------------------------- MODULE Books_proofs ----------------------------
(***************************************************************************)
(* Theorems about the rows that are committed together: the books of a     *)
(* payment, its Idempotency-Key and its event, and the state of campaigns. *)
(***************************************************************************)
EXTENDS GiveNaija_proofs

MoneyActions == {"RECORD_DONATION", "WEBHOOK_DONATION_RECORDED"}

\* A step that commits no payment touches neither the books nor the keys, and
\* records at most an orphan or a change that is not about money.
NoPayment ==
  /\ UNCHANGED <<donations, ledger, idem>>
  /\ audit \subseteq audit' /\ \A a \in audit' \ audit : a.action \notin MoneyActions

\* Rows of payments come only with the one commit of a payment.
LEMMA Effects ==
  ASSUME TypeOK, [Next]_vars
  PROVE  \/ NoPayment
         \/ \E r \in DonationReqs : CommitDonation(r)
         \/ \E r \in WebhookReqs : CommitPayment(r)
<1>1. CASE Outside \/ \E r \in Requests : Asks(r)
  BY <1>1 DEF Outside, Asks, tables, NoPayment
<1>2. ASSUME NEW r \in Requests,
             \/ r \in WebhookReqs /\ RecordOrphan(r) /\ ~EventTaken(r)
             \/ r \in PledgeReqs /\ CommitPledge(r)
             \/ r \in CreateReqs /\ CommitCampaign(r)
             \/ r \in CloseReqs /\ CommitClose(r)
      PROVE  NoPayment
  <2>1. UNCHANGED <<donations, ledger, idem>>
    BY <1>2 DEF RecordOrphan, CommitPledge, CommitCampaign, CommitClose
  <2>2. \E action \in {"ORPHAN_WEBHOOK_RECORDED", "CREATE_PLEDGE", "CREATE_CAMPAIGN",
                       "CLOSE_CAMPAIGN"} : audit' = audit \cup {AuditRow(r, action)}
    BY <1>2 DEF RecordOrphan, CommitPledge, CommitCampaign, CommitClose
  <2> QED  BY <2>1, <2>2 DEF AuditRow, NoPayment, MoneyActions
<1> QED  BY <1>1, <1>2, Turn DEF Writes

-----------------------------------------------------------------------------
\* Two requests with one Idempotency-Key never both record a donation
\* (OneDonationPerKey), for any keys and any retries: the key is a row of the
\* donation's own transaction, so a second one fails whatever its look-up has read.
THEOREM KeyUsedOnce == Spec => []OneDonationPerKey
<1> DEFINE Kept == \A d \in donations :
      d.id \in DonationReqs /\ KeyOf[d.id] # NoKey => \E i \in idem : i.key = KeyOf[d.id]
    IInv == Kept /\ OneDonationPerKey
<1>1. Init => TypeInv /\ IInv
  <2>1. Init => IInv
    BY DEF Init, InitStore, OneDonationPerKey
  <2> QED  BY <2>1, TypeInit
<1>2. ASSUME TypeInv, IInv, [Next]_vars  PROVE IInv'
  <2>1. CASE NoPayment
    BY <1>2, <2>1 DEF NoPayment, OneDonationPerKey
  <2>2. ASSUME NEW r \in DonationReqs, CommitDonation(r)  PROVE IInv'
    <3>1. /\ donations' = donations \cup {DonationRow(r)} /\ DonationRow(r).id = r
          /\ idem' = idem \cup (IF KeyOf[r] = NoKey THEN {} ELSE {IdemRow(r)})
          /\ IdemRow(r).key = KeyOf[r]
          /\ ~KeySaved(r)
      BY <2>2 DEF CommitDonation, DonationRow, IdemRow
    <3>2. Kept'
      BY <1>2, <3>1
    <3>3. \A d \in donations :
            d.id \in DonationReqs /\ KeyOf[d.id] # NoKey => KeyOf[d.id] # KeyOf[r]
      BY <1>2, <3>1 DEF KeySaved
    <3> QED  BY <1>2, <3>1, <3>2, <3>3 DEF OneDonationPerKey
  <2>3. ASSUME NEW r \in WebhookReqs, CommitPayment(r)  PROVE IInv'
    <3>1. /\ donations' = donations \cup {DonationRow(r)} /\ DonationRow(r).id = r
          /\ idem' = idem /\ r \notin DonationReqs
      BY <2>3, KindsAreDisjoint DEF CommitPayment, DonationRow
    <3> QED  BY <1>2, <3>1 DEF OneDonationPerKey
  <2> QED  BY <1>2, <2>1, <2>2, <2>3, Effects DEF TypeInv
<1>3. TypeInv /\ IInv /\ [Next]_vars => TypeInv' /\ IInv'
  BY <1>2, TypeStep
<1> QED  BY <1>1, <1>3, PTL DEF Spec

-----------------------------------------------------------------------------
\* A donation, its ledger entry and its audit row exist together or not at all,
\* one of each, for the same campaign and money (BooksAgree): the reservation of
\* the bank reference (Reserved) makes the donation a commit adds a new one.
THEOREM BooksStayWhole == Spec => []BooksAgree
<1> DEFINE Named == \A d \in donations : d.bank_ref = RefOf[d.id]
    IInv == TypeInv /\ Reserved /\ ExactlyOnce /\ Named /\ BooksAgree
<1>1. Init => IInv
  <2>1. Init => Reserved /\ ExactlyOnce /\ Named /\ BooksAgree
    BY DEF Init, InitStore, Reserved, ExactlyOnce, Flushed, Requests, BooksAgree
  <2> QED  BY <2>1, TypeInit
<1>2. ASSUME IInv, [Next]_vars  PROVE IInv'
  <2>1. TypeInv' /\ Reserved' /\ ExactlyOnce'
    BY <1>2, TypeStep, NextMoves, ReservedStep DEF TypeInv
  <2>2. CASE NoPayment
    BY <1>2, <2>1, <2>2 DEF NoPayment, MoneyActions, BooksAgree
  <2>3. ASSUME NEW r \in Payments, NEW action \in MoneyActions,
               pc[r] = "commit", donations' = donations \cup {DonationRow(r)},
               ledger' = ledger \cup {LedgerRow(r)},
               audit' = audit \cup {AuditRow(r, action)}
        PROVE  Named' /\ BooksAgree'
    <3> DEFINE d0 == DonationRow(r)
               l0 == LedgerRow(r)
               a0 == AuditRow(r, action)
    <3>1. /\ d0.id = r /\ d0.bank_ref = RefOf[r]
          /\ d0.campaign = seen[r].id /\ d0.amount = AmountOf[r]
      BY DEF DonationRow
    <3>2. l0.donation = r /\ l0.campaign = seen[r].id /\ l0.amount_ngn = Ngn(AmountOf[r])
      BY DEF LedgerRow
    <3>3. a0.target = r /\ a0.action = action
      BY DEF AuditRow
    <3>4. Hundredths(l0.amount_ngn) = AmountOf[r]
      <4>1. ASSUME NEW k \in Nat  PROVE Hundredths(Ngn(k)) = k
        <5>1. k = (k \div KoboPerNaira) * KoboPerNaira + (k % KoboPerNaira)
          BY PayloadAssumption
        <5>2. Ngn(k).naira = k \div KoboPerNaira /\ Ngn(k).kobo = k % KoboPerNaira
          BY DEF Ngn
        <5> QED  BY <5>1, <5>2 DEF Hundredths
      <4>2. AmountOf[r] \in Nat
        BY PayloadAssumption
      <4> QED  BY <3>2, <4>1, <4>2
    <3>5. \A d \in donations : d.id # r
      BY <1>2, <2>3 DEF Reserved, Flushed, RefTaken
    <3>6. \A l \in ledger : l.donation # r
      BY <1>2, <3>5 DEF BooksAgree
    <3>7. Named'
      BY <1>2, <2>3, <3>1
    <3>8. \A l \in ledger' : \E d \in donations' : d.id = l.donation
      BY <1>2, <2>3, <3>1, <3>2 DEF BooksAgree
    <3>9. \A k, l \in ledger' : k.donation = l.donation => k = l
      BY <1>2, <2>3, <3>2, <3>6 DEF BooksAgree
    <3>10. \A a \in audit' : a.action \in MoneyActions => \E d \in donations' : d.id = a.target
      BY <1>2, <2>3, <3>1, <3>3 DEF BooksAgree, MoneyActions
    <3>11. \A d \in donations' :
             /\ \E l \in ledger' : l.donation = d.id /\ l.campaign = d.campaign
                  /\ Hundredths(l.amount_ngn) = d.amount
             /\ \E a \in audit' : a.target = d.id /\ a.action \in MoneyActions
      <4>1. /\ \E l \in ledger' : l.donation = d0.id /\ l.campaign = d0.campaign
                 /\ Hundredths(l.amount_ngn) = d0.amount
            /\ \E a \in audit' : a.target = d0.id /\ a.action \in MoneyActions
        BY <2>3, <3>1, <3>2, <3>3, <3>4
      <4> QED  BY <1>2, <2>3, <4>1 DEF BooksAgree, MoneyActions
    <3> QED
      BY <3>7, <3>8, <3>9, <3>10, <3>11 DEF BooksAgree, MoneyActions, Hundredths
  <2>4. ASSUME NEW r \in DonationReqs, CommitDonation(r)  PROVE Named' /\ BooksAgree'
    BY <2>3, <2>4 DEF CommitDonation, MoneyActions, Payments
  <2>5. ASSUME NEW r \in WebhookReqs, CommitPayment(r)  PROVE Named' /\ BooksAgree'
    BY <2>3, <2>5 DEF CommitPayment, MoneyActions, Payments
  <2> QED  BY <1>2, <2>1, <2>2, <2>4, <2>5, Effects DEF NoPayment, TypeInv
<1>3. IInv => BooksAgree
  OBVIOUS
<1> QED  BY <1>1, <1>2, <1>3, PTL DEF Spec

-----------------------------------------------------------------------------
(* Campaigns are created once, closed for good, and the audit log tells.    *)

Status(c) == campaigns[c].status

\* A creation that has not committed will make a new campaign; a close that is
\* about to commit has seen its campaign, and one that has committed closed it.
Lives ==
  /\ \A r \in CreateReqs : pc[r] \in {"idle", "insert"} => Status(CampaignOf[r]) = "absent"
  /\ \A r \in CloseReqs : /\ pc[r] = "commit" => Status(CampaignOf[r]) # "absent"
                          /\ pc[r] \in Committed => Status(CampaignOf[r]) = "closed"

Grows(c) == /\ Status(c) = "closed" => Status(c)' = "closed"
            /\ Status(c) # "absent" => Status(c)' # "absent"

\* Lives is inductive, and with it campaigns only go on in their lives.
LEMMA LivesInductive ==
  /\ Init => Lives
  /\ TypeOK /\ Lives /\ [Next]_vars => Lives' /\ \A c \in CampaignIds : Grows(c)
<1>1. Init => Lives
  BY KindsAreDisjoint, PayloadAssumption
  DEF Init, InitStore, Lives, Status, Committed, Requests, Payments, Others
<1>2. ASSUME TypeOK, Lives, [Next]_vars
      PROVE  Lives' /\ \A c \in CampaignIds : Grows(c)
  <2> USE <1>2 DEF Status
  <2>0. \A r \in CreateReqs \cup CloseReqs :
          r \in Requests /\ r \notin Payments /\ CampaignOf[r] \in CampaignIds
    BY KindsAreDisjoint, PayloadAssumption DEF Requests, Payments, Others
  <2>1. CASE Outside
    <3>1. \A r \in CreateReqs : Entry(r) = "insert"
      BY KindsAreDisjoint DEF Entry, Payments, Others
    <3>2. \A r \in CloseReqs : Entry(r) = "campaign"
      BY KindsAreDisjoint DEF Entry, Payments, Others
    <3> QED  BY <2>0, <2>1, <3>1, <3>2 DEF Outside, tables, Lives, Grows, Committed
  <2>2. ASSUME NEW r \in Requests, Asks(r)  PROVE Lives' /\ \A c \in CampaignIds : Grows(c)
    <3>1. UNCHANGED campaigns
      BY <2>2 DEF Asks, tables
    <3>2. \A q \in CreateReqs : pc'[q] \in {"idle", "insert"} => pc'[q] = pc[q]
      BY <2>0, <2>2 DEF Asks, GoesOn, Ended
    <3>3. \A q \in CloseReqs :
            pc'[q] = "commit" => pc[q] = "commit" \/ Status(CampaignOf[q]) = "open"
      BY <2>0, <2>2 DEF Asks, GoesOn
    <3>4. \A q \in CloseReqs : pc'[q] \in Committed => pc[q] \in Committed
      BY <2>0, <2>2 DEF Asks, GoesOn, Committed
    <3> QED  BY <2>0, <3>1, <3>2, <3>3, <3>4 DEF Lives, Grows
  <2>3. ASSUME NEW r \in Requests,
               \/ r \in DonationReqs /\ CommitDonation(r)
               \/ r \in WebhookReqs /\ CommitPayment(r)
               \/ r \in WebhookReqs /\ RecordOrphan(r) /\ ~EventTaken(r)
               \/ r \in PledgeReqs /\ CommitPledge(r)
        PROVE  Lives' /\ \A c \in CampaignIds : Grows(c)
    <3>1. campaigns' = campaigns \/ campaigns' = SetRaised(r)
      BY <2>3 DEF CommitDonation, CommitPayment, RecordOrphan, CommitPledge
    <3>2. \A c \in CampaignIds : campaigns'[c].status = campaigns[c].status
      BY <3>1 DEF SetRaised, TypeOK
    <3>3. r \notin CreateReqs \cup CloseReqs
      BY <2>3, KindsAreDisjoint DEF Payments, Others
    <3>4. \A q \in Requests \ {r} : pc'[q] = pc[q]
      BY <2>3 DEF CommitDonation, CommitPayment, RecordOrphan, CommitPledge, Goto, Reply, TypeOK
    <3> QED  BY <2>0, <3>2, <3>3, <3>4 DEF Lives, Grows
  <2>4. ASSUME NEW r \in CreateReqs, CommitCampaign(r)
        PROVE  Lives' /\ \A c \in CampaignIds : Grows(c)
    <3>1. /\ pc[r] = "insert" /\ Status(CampaignOf[r]) = "absent"
          /\ campaigns' = [campaigns EXCEPT ![CampaignOf[r]] = [status |-> "open", raised |-> 0]]
      BY <2>4 DEF CommitCampaign, Lives
    <3>2. /\ \A c \in CampaignIds \ {CampaignOf[r]} : campaigns'[c] = campaigns[c]
          /\ campaigns'[CampaignOf[r]].status = "open"
      BY <2>0, <3>1 DEF TypeOK
    <3>3. pc'[r] = "refresh" /\ \A q \in Requests \ {r} : pc'[q] = pc[q]
      BY <2>0, <2>4 DEF CommitCampaign, Goto, TypeOK
    <3>4. \A q \in CreateReqs : CampaignOf[q] = CampaignOf[r] => q = r
      BY PayloadAssumption
    <3>5. r \notin CloseReqs
      BY KindsAreDisjoint
    <3> QED  BY <2>0, <3>1, <3>2, <3>3, <3>4, <3>5 DEF Lives, Grows, Committed
  <2>5. ASSUME NEW r \in CloseReqs, CommitClose(r)
        PROVE  Lives' /\ \A c \in CampaignIds : Grows(c)
    <3>1. /\ pc[r] = "commit" /\ Status(CampaignOf[r]) # "absent"
          /\ campaigns' = [campaigns EXCEPT ![CampaignOf[r]].status = "closed"]
      BY <2>5 DEF CommitClose, Lives
    <3>2. /\ \A c \in CampaignIds \ {CampaignOf[r]} : campaigns'[c] = campaigns[c]
          /\ campaigns'[CampaignOf[r]].status = "closed"
      BY <2>0, <3>1 DEF TypeOK
    <3>3. pc'[r] = "refresh" /\ \A q \in Requests \ {r} : pc'[q] = pc[q]
      BY <2>0, <2>5 DEF CommitClose, Goto, TypeOK
    <3>4. r \notin CreateReqs
      BY KindsAreDisjoint
    <3> QED  BY <2>0, <3>1, <3>2, <3>3, <3>4 DEF Lives, Grows, Committed
  <2> QED  BY <2>1, <2>2, <2>3, <2>4, <2>5, Turn DEF Writes
<1> QED  BY <1>1, <1>2

\* A campaign that is closed stays closed, and none is unmade, whatever payment
\* had loaded it before (ClosedStaysClosed).
THEOREM ClosedForGood == Spec => ClosedStaysClosed
<1>1. Init => TypeInv /\ Lives
  BY TypeInit, LivesInductive
<1>2. TypeInv /\ Lives /\ [Next]_vars => (TypeInv /\ Lives)'
  BY TypeStep, LivesInductive DEF TypeInv
<1>3. TypeInv /\ Lives /\ [Next]_vars =>
        [\A c \in CampaignIds :
           /\ campaigns[c].status = "closed" => campaigns'[c].status = "closed"
           /\ campaigns[c].status # "absent" => campaigns'[c].status # "absent"]_vars
  BY LivesInductive DEF TypeInv, Grows, Status
<1> QED  BY <1>1, <1>2, <1>3, PTL DEF Spec, ClosedStaysClosed

\* The audit log tells the state of every campaign and pledge, and no more
\* (AuditIsComplete): what changes a state commits its row with it.
THEOREM AuditTells == Spec => []AuditIsComplete
<1> DEFINE IInv == TypeInv /\ Lives /\ AuditIsComplete
<1>1. Init => IInv
  <2>1. Init => AuditIsComplete
    BY DEF Init, InitStore, AuditIsComplete, Audited
  <2> QED  BY <2>1, TypeInit, LivesInductive
<1>2. ASSUME IInv, [Next]_vars  PROVE AuditIsComplete'
  <2> USE DEF Audited
  <2>1. CASE Outside \/ \E r \in Requests : Asks(r)
    <3>1. UNCHANGED <<campaigns, audit, pledges>>
      BY <2>1 DEF Outside, Asks, tables
    <3> QED  BY <1>2, <3>1 DEF AuditIsComplete, AuditRow
  <2>2. ASSUME NEW r \in Requests,
               \/ r \in DonationReqs /\ CommitDonation(r)
               \/ r \in WebhookReqs /\ CommitPayment(r)
               \/ r \in WebhookReqs /\ RecordOrphan(r) /\ ~EventTaken(r)
        PROVE  AuditIsComplete'
    <3>1. campaigns' = campaigns \/ campaigns' = SetRaised(r)
      BY <2>2 DEF CommitDonation, CommitPayment, RecordOrphan
    <3>2. \A c \in CampaignIds : campaigns'[c].status = campaigns[c].status
      BY <1>2, <3>1 DEF SetRaised, TypeInv, TypeOK
    <3>3. PICK action \in MoneyActions \cup {"ORPHAN_WEBHOOK_RECORDED"} :
            audit' = audit \cup {AuditRow(r, action)} /\ UNCHANGED pledges
      BY <2>2 DEF CommitDonation, CommitPayment, RecordOrphan, MoneyActions
    <3>4. AuditRow(r, action).action \notin {"CLOSE_CAMPAIGN", "CREATE_CAMPAIGN", "CREATE_PLEDGE"}
      BY <3>3 DEF AuditRow, MoneyActions
    <3>5. \A q \in PledgeReqs : AuditRow(q, "CREATE_PLEDGE") # AuditRow(r, action)
      BY <3>4 DEF AuditRow
    <3> QED  BY <1>2, <3>2, <3>3, <3>4, <3>5 DEF AuditIsComplete
  <2>3. ASSUME NEW r \in PledgeReqs, CommitPledge(r)  PROVE AuditIsComplete'
    <3>1. /\ pledges' = pledges \cup {r} /\ UNCHANGED campaigns
          /\ audit' = audit \cup {AuditRow(r, "CREATE_PLEDGE")}
      BY <2>3 DEF CommitPledge
    <3>2. AuditRow(r, "CREATE_PLEDGE").action = "CREATE_PLEDGE"
      BY DEF AuditRow
    <3>3. \A q \in PledgeReqs :
            AuditRow(q, "CREATE_PLEDGE") = AuditRow(r, "CREATE_PLEDGE") <=> q = r
      BY DEF AuditRow
    <3> QED  BY <1>2, <3>1, <3>2, <3>3 DEF AuditIsComplete
  <2>4. ASSUME NEW r \in CreateReqs, CommitCampaign(r)  PROVE AuditIsComplete'
    <3> DEFINE c0 == CampaignOf[r]
               a0 == AuditRow(r, "CREATE_CAMPAIGN")
    <3>1. /\ UNCHANGED pledges /\ audit' = audit \cup {a0}
          /\ campaigns' = [campaigns EXCEPT ![c0] = [status |-> "open", raised |-> 0]]
          /\ campaigns[c0].status = "absent"
      BY <1>2, <2>4 DEF CommitCampaign, Lives, Status
    <3>2. /\ a0.action = "CREATE_CAMPAIGN" /\ a0.target = r
          /\ \A q \in PledgeReqs : AuditRow(q, "CREATE_PLEDGE") # a0
      BY DEF AuditRow
    <3>3. /\ c0 \in CampaignIds
          /\ \A c \in CampaignIds \ {c0} : campaigns'[c] = campaigns[c]
          /\ campaigns'[c0].status = "open"
      BY <1>2, <3>1, KindsAreDisjoint, PayloadAssumption
      DEF TypeInv, TypeOK, Requests, Payments, Others
    <3> QED  BY <1>2, <3>1, <3>2, <3>3 DEF AuditIsComplete
  <2>5. ASSUME NEW r \in CloseReqs, CommitClose(r)  PROVE AuditIsComplete'
    <3> DEFINE c0 == CampaignOf[r]
               a0 == AuditRow(r, "CLOSE_CAMPAIGN")
    <3>1. /\ UNCHANGED pledges /\ audit' = audit \cup {a0}
          /\ campaigns' = [campaigns EXCEPT ![c0].status = "closed"]
          /\ campaigns[c0].status # "absent"
      BY <1>2, <2>5 DEF CommitClose, Lives, Status
    <3>2. /\ a0.action = "CLOSE_CAMPAIGN" /\ a0.target = r
          /\ \A q \in PledgeReqs : AuditRow(q, "CREATE_PLEDGE") # a0
      BY DEF AuditRow
    <3>3. /\ c0 \in CampaignIds
          /\ \A c \in CampaignIds \ {c0} : campaigns'[c] = campaigns[c]
          /\ campaigns'[c0].status = "closed"
      BY <1>2, <3>1, KindsAreDisjoint, PayloadAssumption
      DEF TypeInv, TypeOK, Requests, Payments, Others
    <3> QED  BY <1>2, <3>1, <3>2, <3>3 DEF AuditIsComplete
  <2> QED  BY <1>2, <2>1, <2>2, <2>3, <2>4, <2>5, Turn DEF Writes, TypeInv
<1>3. IInv /\ [Next]_vars => IInv'
  BY <1>2, TypeStep, LivesInductive DEF TypeInv
<1> QED  BY <1>1, <1>3, PTL DEF Spec

-----------------------------------------------------------------------------
\* An event has one row, and that row tells whether it became a donation
\* (EventsMatchDonations): the INSERT of an event reserves its event_id as that of a
\* donation reserves its reference.
THEOREM EventsTell == Spec => []EventsMatchDonations
<1> DEFINE Fresh == \A q \in WebhookReqs : HoldsEvent(q) =>
      ~EventTaken(q) /\ \A r \in WebhookReqs \ {q} : HoldsEvent(r) => EventOf[r] # EventOf[q]
    IInv == Fresh /\ EventsMatchDonations
<1>1. Init => TypeInv /\ IInv
  <2>1. Init => IInv
    BY DEF Init, InitStore, EventsMatchDonations, HoldsEvent, Requests, Payments
  <2> QED  BY <2>1, TypeInit
<1>2. ASSUME TypeInv, IInv, [Next]_vars  PROVE IInv'
  <2> USE DEF HoldsEvent
  <2>0. \A q \in WebhookReqs : q \in Requests /\ q \in Payments /\ q \notin DonationReqs
    BY KindsAreDisjoint DEF Requests, Payments
  <2>1. CASE Outside
    <3>1. \A q \in WebhookReqs : Entry(q) = "event"
      BY KindsAreDisjoint DEF Entry, Payments, Others
    <3>2. \A q \in WebhookReqs : HoldsEvent(q)' => HoldsEvent(q)
      BY <2>0, <2>1, <3>1 DEF Outside
    <3>3. UNCHANGED <<events, donations>>
      BY <2>1 DEF Outside, tables
    <3> QED  BY <1>2, <3>2, <3>3 DEF EventsMatchDonations, EventTaken
  <2>2. ASSUME NEW r \in Requests, Asks(r)  PROVE IInv'
    <3>1. UNCHANGED <<events, donations>>
      BY <2>2 DEF Asks, tables
    <3>2. \A q \in WebhookReqs \ {r} : HoldsEvent(q)' => HoldsEvent(q)
      BY <2>0, <2>2 DEF Asks
    <3>3. r \in WebhookReqs /\ HoldsEvent(r)' => ~EventHeld(r) /\ ~EventTaken(r)
      BY <2>2 DEF Asks, GoesOn
    <3>4. Fresh'
      BY <1>2, <3>1, <3>2, <3>3 DEF EventTaken, EventHeld
    <3> QED  BY <1>2, <3>1, <3>4 DEF EventsMatchDonations
  <2>3. ASSUME NEW r \in Requests,
               \/ r \in PledgeReqs /\ CommitPledge(r)
               \/ r \in CreateReqs /\ CommitCampaign(r)
               \/ r \in CloseReqs /\ CommitClose(r)
        PROVE  IInv'
    <3>1. UNCHANGED <<events, donations>> /\ Goto(r, "refresh")
      BY <2>3 DEF CommitPledge, CommitCampaign, CommitClose
    <3>2. \A q \in WebhookReqs : HoldsEvent(q)' => HoldsEvent(q)
      BY <1>2, <2>0, <3>1 DEF Goto, TypeInv, TypeOK
    <3> QED  BY <1>2, <3>1, <3>2 DEF EventsMatchDonations, EventTaken
  <2>4. ASSUME NEW r \in DonationReqs, CommitDonation(r)  PROVE IInv'
    <3>1. /\ UNCHANGED events /\ donations' = donations \cup {DonationRow(r)}
          /\ DonationRow(r).id = r
      BY <2>4 DEF CommitDonation, DonationRow
    <3>2. \A q \in WebhookReqs : HoldsEvent(q)' => HoldsEvent(q)
      BY <1>2, <2>0, <2>4 DEF CommitDonation, Goto, TypeInv, TypeOK
    <3>3. r \notin WebhookReqs
      BY KindsAreDisjoint
    <3> QED  BY <1>2, <3>1, <3>2, <3>3 DEF EventsMatchDonations, EventTaken
  <2>5. ASSUME NEW r \in WebhookReqs, NEW orphan \in BOOLEAN, ~EventTaken(r),
               \A q \in WebhookReqs \ {r} : HoldsEvent(q) => EventOf[q] # EventOf[r],
               ~HoldsEvent(r)', \A q \in WebhookReqs \ {r} : HoldsEvent(q)' => HoldsEvent(q),
               events' = events \cup {EventRow(r, orphan)},
               donations' = donations \cup (IF orphan THEN {} ELSE {DonationRow(r)})
        PROVE  IInv'
    <3> DEFINE e0 == EventRow(r, orphan)
    <3>1. e0.event = EventOf[r] /\ e0.by = r
      BY DEF EventRow
    <3>2. e0.is_orphan = orphan
      BY Zenon DEF EventRow
    <3>3. DonationRow(r).id = r
      BY DEF DonationRow
    <3>4. Fresh'
      BY <1>2, <2>5, <3>1 DEF EventTaken
    <3>5. \A e, f \in events' : e.event = f.event => e = f
      BY <1>2, <2>5, <3>1 DEF EventsMatchDonations, EventTaken
    <3>6. ASSUME NEW q \in WebhookReqs
          PROVE  (\E e \in events' : e.by = q /\ ~e.is_orphan)
                    <=> (\E d \in donations' : d.id = q)
      <4>1. CASE orphan
        BY <1>2, <2>5, <3>2, <4>1 DEF EventsMatchDonations
      <4>2. CASE ~orphan /\ q = r
        BY <2>5, <3>1, <3>2, <3>3, <4>2
      <4>3. CASE ~orphan /\ q # r
        BY <1>2, <2>5, <3>1, <3>3, <4>3 DEF EventsMatchDonations
      <4> QED  BY <4>1, <4>2, <4>3
    <3> QED  BY <3>4, <3>5, <3>6 DEF EventsMatchDonations
  <2>6. ASSUME NEW r \in WebhookReqs, RecordOrphan(r), ~EventTaken(r)  PROVE IInv'
    <3>1. /\ \A q \in WebhookReqs \ {r} : HoldsEvent(q) => EventOf[q] # EventOf[r]
          /\ events' = events \cup {EventRow(r, TRUE)} /\ donations' = donations
          /\ Reply(r, "orphan_logged", NoDonation)
      BY <2>6 DEF RecordOrphan, EventHeld
    <3>2. ~HoldsEvent(r)' /\ \A q \in WebhookReqs \ {r} : HoldsEvent(q)' => HoldsEvent(q)
      BY <1>2, <2>0, <3>1 DEF Reply, TypeInv, TypeOK
    <3> QED  BY <2>5, <2>6, <3>1, <3>2
  <2>7. ASSUME NEW r \in WebhookReqs, CommitPayment(r)  PROVE IInv'
    <3>1. /\ HoldsEvent(r) /\ events' = events \cup {EventRow(r, FALSE)}
          /\ donations' = donations \cup {DonationRow(r)} /\ Goto(r, "refresh")
      BY <2>7 DEF CommitPayment
    <3>2. ~HoldsEvent(r)' /\ \A q \in WebhookReqs \ {r} : HoldsEvent(q)' => HoldsEvent(q)
      BY <1>2, <2>0, <3>1 DEF Goto, TypeInv, TypeOK
    <3>3. /\ ~EventTaken(r)
          /\ \A q \in WebhookReqs \ {r} : HoldsEvent(q) => EventOf[q] # EventOf[r]
      BY <1>2, <3>1
    <3> QED  BY <2>5, <3>1, <3>2, <3>3
  <2> QED  BY <1>2, <2>1, <2>2, <2>3, <2>4, <2>6, <2>7, Turn DEF Writes, TypeInv
<1>3. TypeInv /\ IInv /\ [Next]_vars => TypeInv' /\ IInv'
  BY <1>2, TypeStep
<1> QED  BY <1>1, <1>3, PTL DEF Spec

-----------------------------------------------------------------------------
(* What callers are told.                                                   *)

\* What AnswersAreTrue says of one answer.
Backing(r) ==
  LET code == resp[r].code IN
    /\ r \in Payments /\ code \in {"created", "payment_confirmed"} => Recorded(r)
    /\ code = "replayed" =>
         /\ Recorded(resp[r].donation)
         /\ KeyOf[resp[r].donation] = KeyOf[r]
    /\ r \in KnownMember /\ code = "duplicate" => RefTaken(r) \/ KeySaved(r)
    /\ code = "already_processed" => RefTaken(r) \/ EventTaken(r)
    /\ code = "orphan_logged" => EventRow(r, TRUE) \in events
    /\ code = "duplicate_ignored" => EventTaken(r)
    /\ code \in {"closed", "already_closed"} => campaigns[CampaignOf[r]].status = "closed"

\* Every answer is backed by the tables, when it is given and ever after
\* (AnswersAreTrue): what a service has read or committed is never taken back.
THEOREM ToldTheTruth == Spec => []AnswersAreTrue
<1> DEFINE Backed == /\ \A r \in Payments : pc[r] \in Committed => Recorded(r)
                     /\ \A i \in idem : Recorded(i.donation) /\ KeyOf[i.donation] = i.key
                     /\ \A r \in Requests :
                          resp[r].code \in {"closed", "already_closed"} => r \in CloseReqs
    IInv == Backed /\ AnswersAreTrue
    More == donations \subseteq donations' /\ idem \subseteq idem' /\ events \subseteq events'
<1> USE DEF RefTaken, KeySaved, EventTaken, Recorded
<1>1. Init => IInv
  BY DEF Init, InitStore, AnswersAreTrue, NotSent, Committed, Requests
<1>2. ASSUME TypeInv, Lives, IInv, [Next]_vars  PROVE IInv'
  <2>0. /\ \A r \in Payments : r \in Requests
        /\ \A r \in CloseReqs : r \in Requests /\ CampaignOf[r] \in CampaignIds
        /\ \A c \in CampaignIds :
             campaigns[c].status = "closed" => campaigns'[c].status = "closed"
    BY <1>2, LivesInductive, KindsAreDisjoint, PayloadAssumption
    DEF TypeInv, Grows, Status, Requests, Payments, Others
  <2>1. ASSUME More, NEW r \in Requests, resp'[r] = resp[r]  PROVE Backing(r)'
    <3>1. Backing(r)
      BY <1>2 DEF AnswersAreTrue, Backing
    <3>2. resp[r].code = "orphan_logged" => EventRow(r, TRUE) \in events'
      BY <2>1, <3>1, Zenon DEF Backing
    <3>3. /\ \A q : Recorded(q) => Recorded(q)'
          /\ RefTaken(r) => RefTaken(r)'
          /\ KeySaved(r) => KeySaved(r)'
          /\ EventTaken(r) => EventTaken(r)'
      BY <2>1
    <3>4. resp[r].code \in {"closed", "already_closed"} =>
            campaigns'[CampaignOf[r]].status = "closed"
      BY <1>2, <2>0, <3>1 DEF Backing
    <3> HIDE DEF RefTaken, KeySaved, EventTaken, Recorded
    <3> QED  BY <2>1, <3>1, <3>2, <3>3, <3>4 DEF Backing
  <2>2. CASE Outside
    <3>1. More /\ resp' = resp /\ UNCHANGED <<donations, idem>>
      BY <2>2 DEF Outside, tables
    <3>2. \A r \in Payments : pc'[r] \in Committed => pc[r] \in Committed
      <4>1. \A r \in Payments : Entry(r) \in {"key", "event"}
        BY KindsAreDisjoint DEF Entry, Payments, Others
      <4> QED  BY <2>0, <2>2, <4>1 DEF Outside, Committed
    <3>3. Backed'
      BY <1>2, <3>1, <3>2
    <3>4. AnswersAreTrue'
      BY <2>1, <3>1 DEF AnswersAreTrue, Backing
    <3> QED  BY <3>3, <3>4
  <2>3. ASSUME NEW r \in Requests, Asks(r)  PROVE IInv'
    <3>1. More /\ UNCHANGED <<campaigns, donations, idem, events>>
      BY <2>3 DEF Asks, tables
    <3>2. \A q \in Payments : pc'[q] \in Committed => pc[q] \in Committed
      BY <2>0, <2>3 DEF Asks, GoesOn, Committed
    <3>3. \A q \in Requests \ {r} : resp'[q] = resp[q]
      BY <2>3 DEF Asks
    <3>4. resp'[r] = resp[r] \/ Warranted(r, resp'[r])
      BY <2>3 DEF Asks, GoesOn
    <3>5. Backed'
      BY <1>2, <3>1, <3>2, <3>3, <3>4 DEF Warranted
    <3>6. ASSUME Warranted(r, resp'[r])  PROVE Backing(r)'
      <4>1. /\ Recorded(r) <=> Recorded(r)'
            /\ \A i \in idem : Recorded(i.donation)'
            /\ RefTaken(r) <=> RefTaken(r)'
            /\ KeySaved(r) <=> KeySaved(r)'
            /\ EventTaken(r) <=> EventTaken(r)'
        BY <1>2, <3>1
      <4>2. /\ r \in Payments /\ pc[r] \in Committed => Recorded(r)
            /\ \A i \in idem : KeyOf[i.donation] = i.key
            /\ r \in CloseReqs /\ pc[r] \in Committed => campaigns[CampaignOf[r]].status = "closed"
        BY <1>2 DEF Lives, Status
      <4> HIDE DEF RefTaken, KeySaved, EventTaken, Recorded
      <4> QED  BY <3>1, <3>6, <4>1, <4>2 DEF Warranted, Backing
    <3>7. AnswersAreTrue'
      <4>1. \A q \in Requests : Backing(q)'
        BY <2>1, <3>1, <3>3, <3>4, <3>6
      <4> QED  BY <4>1 DEF Backing, AnswersAreTrue
    <3> QED  BY <3>5, <3>7
  <2>4. ASSUME NEW r \in Requests, Goto(r, "refresh"), More,
               r \in Payments => Recorded(r)',
               \A i \in idem' \ idem : Recorded(i.donation)' /\ KeyOf[i.donation] = i.key
        PROVE  IInv'
    <3>1. resp' = resp /\ \A q \in Requests \ {r} : pc'[q] = pc[q]
      BY <1>2, <2>4 DEF Goto, TypeInv, TypeOK
    <3>2. Backed'
      BY <1>2, <2>0, <2>4, <3>1
    <3>3. AnswersAreTrue'
      BY <2>1, <2>4, <3>1 DEF AnswersAreTrue, Backing
    <3> QED  BY <3>2, <3>3
  <2>5. ASSUME NEW r \in DonationReqs, CommitDonation(r)  PROVE IInv'
    <3>1. /\ donations' = donations \cup {DonationRow(r)} /\ DonationRow(r).id = r
          /\ idem' = idem \/ idem' = idem \cup {IdemRow(r)}
          /\ IdemRow(r).donation = r /\ IdemRow(r).key = KeyOf[r]
          /\ UNCHANGED events /\ Goto(r, "refresh")
      BY <2>5 DEF CommitDonation, DonationRow, IdemRow
    <3> QED  BY <2>4, <3>1 DEF Requests, Payments
  <2>6. ASSUME NEW r \in WebhookReqs, CommitPayment(r)  PROVE IInv'
    <3>1. /\ donations' = donations \cup {DonationRow(r)} /\ DonationRow(r).id = r
          /\ UNCHANGED idem /\ events \subseteq events' /\ Goto(r, "refresh")
      BY <2>6 DEF CommitPayment, DonationRow
    <3> QED  BY <2>4, <3>1 DEF Requests, Payments
  <2>7. ASSUME NEW r \in Requests,
               \/ r \in PledgeReqs /\ CommitPledge(r)
               \/ r \in CreateReqs /\ CommitCampaign(r)
               \/ r \in CloseReqs /\ CommitClose(r)
        PROVE  IInv'
    <3>1. UNCHANGED <<donations, idem, events>> /\ Goto(r, "refresh") /\ r \notin Payments
      BY <2>7, KindsAreDisjoint DEF CommitPledge, CommitCampaign, CommitClose, Payments, Others
    <3> QED  BY <2>4, <3>1
  <2>8. ASSUME NEW r \in WebhookReqs, RecordOrphan(r), ~EventTaken(r)  PROVE IInv'
    <3>1. /\ UNCHANGED <<donations, idem>> /\ events' = events \cup {EventRow(r, TRUE)}
          /\ Reply(r, "orphan_logged", NoDonation)
      BY <2>8 DEF RecordOrphan
    <3>2. /\ resp'[r].code = "orphan_logged" /\ pc'[r] = "done" /\ r \in Requests
          /\ \A q \in Requests \ {r} : pc'[q] = pc[q] /\ resp'[q] = resp[q]
      BY <1>2, <3>1 DEF Reply, TypeInv, TypeOK, Requests, Payments
    <3>3. Backed'
      BY <1>2, <2>0, <3>1, <3>2 DEF Committed
    <3>4. AnswersAreTrue'
      <4>1. EventRow(r, TRUE) \in events'
        BY <3>1, Zenon
      <4>2. Backing(r)'
        BY <3>2, <4>1 DEF Backing
      <4>3. \A q \in Requests : Backing(q)'
        BY <2>1, <3>1, <3>2, <4>2
      <4> QED  BY <4>3 DEF AnswersAreTrue, Backing
    <3> QED  BY <3>3, <3>4
  <2> QED  BY <1>2, <2>2, <2>3, <2>5, <2>6, <2>7, <2>8, Turn DEF Writes, TypeInv
<1>3. TypeInv /\ Lives /\ IInv /\ [Next]_vars => (TypeInv /\ Lives)' /\ IInv'
  BY <1>2, TypeStep, LivesInductive DEF TypeInv
<1>4. Init => TypeInv /\ Lives /\ IInv
  BY <1>1, TypeInit, LivesInductive
<1> QED  BY <1>3, <1>4, PTL DEF Spec

\* No table has a row of the request.
NoRows(r) ==
  /\ ~Recorded(r) /\ r \notin pledges
  /\ \A a \in audit : a.target # r
  /\ \A l \in ledger : l.donation # r
  /\ \A i \in idem : i.donation # r
  /\ \A e \in events : e.by # r

\* A refused request, or one that is told that the work is done already, has left
\* no row in any table (RefusedLeavesNothing), whatever statement refused it: it
\* has none before its one commit, and is not refused after it.
THEOREM RefusalsLeaveNothing == Spec => []RefusedLeavesNothing
<1> DEFINE Untouched == \A r \in Requests : pc[r] \notin {"done", "lost"} =>
      /\ resp[r].code = "none"
      /\ pc[r] \notin Committed => NoRows(r)
    IInv == Untouched /\ RefusedLeavesNothing
<1>1. Init => IInv
  BY DEF Init, InitStore, RefusedLeavesNothing, NotSent, Refusals, NoRows, Recorded
<1>2. ASSUME TypeInv, IInv, [Next]_vars  PROVE IInv'
  <2> USE DEF Committed
  <2>1. CASE Outside
    <3>1. UNCHANGED <<tables, resp>> /\ \A q \in Requests : NoRows(q) => NoRows(q)'
      BY <2>1 DEF Outside, tables, NoRows, Recorded
    <3>2. \A q \in Requests : pc[q] \in {"done", "lost"} => pc'[q] \in {"done", "lost"}
      BY <2>1 DEF Outside
    <3>3. \A q \in Requests : pc[q] \in Committed /\ pc'[q] # "lost" => pc'[q] \in Committed
      BY <2>1 DEF Outside
    <3>4. Untouched'
      BY <1>2, <3>1, <3>2, <3>3
    <3> QED  BY <1>2, <3>1, <3>4 DEF RefusedLeavesNothing, tables, Recorded
  <2>2. ASSUME NEW r \in Requests, Asks(r)  PROVE IInv'
    <3>1. UNCHANGED tables /\ \A q \in Requests : NoRows(q) => NoRows(q)'
      BY <2>2 DEF Asks, tables, NoRows, Recorded
    <3>2. \A q \in Requests \ {r} : pc'[q] = pc[q] /\ resp'[q] = resp[q]
      BY <2>2 DEF Asks
    <3>3. pc[r] \notin {"done", "lost"}
      BY <2>2 DEF Asks, InFlight, Ended
    <3>4. \/ resp'[r] = resp[r] /\ (pc'[r] \in Committed <=> pc[r] \in Committed)
          \/ pc'[r] = "done" /\ (resp'[r].code \in Refusals => pc[r] \notin Committed)
      BY <2>2 DEF Asks, GoesOn, Warranted
    <3>5. Untouched'
      BY <1>2, <3>1, <3>2, <3>3, <3>4
    <3>6. \A q \in Requests : resp'[q].code \in Refusals => NoRows(q)'
      <4>1. \A q \in Requests : resp[q].code \in Refusals => NoRows(q)
        BY <1>2 DEF RefusedLeavesNothing, NoRows
      <4>2. resp[r].code \notin Refusals
        BY <1>2, <3>3 DEF Refusals
      <4> QED  BY <1>2, <3>1, <3>2, <3>3, <3>4, <4>1, <4>2
    <3> QED  BY <3>5, <3>6 DEF RefusedLeavesNothing, NoRows
  <2>3. ASSUME NEW r \in Requests, pc[r] \notin {"done", "lost"} \cup Committed,
               \/ Goto(r, "refresh")
               \/ Reply(r, "orphan_logged", NoDonation),
               \A d \in donations' \ donations : d.id = r,
               \A q \in pledges' \ pledges : q = r,
               \A a \in audit' \ audit : a.target = r,
               \A l \in ledger' \ ledger : l.donation = r,
               \A i \in idem' \ idem : i.donation = r,
               \A e \in events' \ events : e.by = r
        PROVE  IInv'
    <3>1. \A q \in Requests \ {r} : pc'[q] = pc[q] /\ resp'[q] = resp[q]
      BY <1>2, <2>3 DEF Goto, Reply, TypeInv, TypeOK
    <3>2. \A q \in Requests \ {r} : NoRows(q) => NoRows(q)'
      BY <2>3 DEF NoRows, Recorded
    <3>3. /\ resp'[r].code \notin Refusals
          /\ (pc'[r] \in Committed /\ resp'[r].code = "none") \/ pc'[r] = "done"
      BY <1>2, <2>3 DEF Goto, Reply, TypeInv, TypeOK, Refusals
    <3>4. Untouched'
      BY <1>2, <3>1, <3>2, <3>3
    <3>5. \A q \in Requests : resp'[q].code \in Refusals => NoRows(q)'
      <4>1. \A q \in Requests : resp[q].code \in Refusals => NoRows(q)
        BY <1>2 DEF RefusedLeavesNothing, NoRows
      <4> QED  BY <3>1, <3>2, <3>3, <4>1
    <3> QED  BY <3>4, <3>5 DEF RefusedLeavesNothing, NoRows
  <2>4. ASSUME NEW r \in Requests, Writes(r)  PROVE IInv'
    <3>1. /\ DonationRow(r).id = r /\ LedgerRow(r).donation = r /\ IdemRow(r).donation = r
          /\ \A action : AuditRow(r, action).target = r
      BY DEF DonationRow, LedgerRow, IdemRow, AuditRow
    <3>2. EventRow(r, TRUE).by = r /\ EventRow(r, FALSE).by = r
      BY Zenon DEF EventRow
    <3>3. CASE r \in DonationReqs /\ CommitDonation(r)
      <4>1. /\ pc[r] = "commit" /\ Goto(r, "refresh")
            /\ donations' = donations \cup {DonationRow(r)}
            /\ ledger' = ledger \cup {LedgerRow(r)}
            /\ audit' = audit \cup {AuditRow(r, "RECORD_DONATION")}
            /\ idem' \subseteq idem \cup {IdemRow(r)} /\ UNCHANGED <<events, pledges>>
        BY <3>3 DEF CommitDonation
      <4> QED  BY <2>3, <3>1, <4>1
    <3>4. CASE r \in WebhookReqs /\ CommitPayment(r)
      <4>1. /\ pc[r] = "commit" /\ Goto(r, "refresh")
            /\ donations' = donations \cup {DonationRow(r)}
            /\ ledger' = ledger \cup {LedgerRow(r)}
            /\ audit' = audit \cup {AuditRow(r, "WEBHOOK_DONATION_RECORDED")}
            /\ UNCHANGED <<idem, pledges>>
        BY <3>4 DEF CommitPayment
      <4>2. \A e \in events' \ events : e.by = r
        <5>1. events' = events \cup {EventRow(r, FALSE)}
          BY <3>4 DEF CommitPayment
        <5> QED  BY <3>2, <5>1
      <4> QED  BY <2>3, <3>1, <4>1, <4>2
    <3>5. CASE r \in WebhookReqs /\ RecordOrphan(r) /\ ~EventTaken(r)
      <4>1. /\ pc[r] = "orphan" /\ Reply(r, "orphan_logged", NoDonation)
            /\ audit' = audit \cup {AuditRow(r, "ORPHAN_WEBHOOK_RECORDED")}
            /\ UNCHANGED <<donations, ledger, idem, pledges>>
        BY <3>5 DEF RecordOrphan
      <4>2. \A e \in events' \ events : e.by = r
        <5>1. events' = events \cup {EventRow(r, TRUE)}
          BY <3>5 DEF RecordOrphan
        <5> QED  BY <3>2, <5>1
      <4> QED  BY <2>3, <3>1, <4>1, <4>2
    <3>6. CASE r \in PledgeReqs /\ CommitPledge(r)
      <4>1. /\ pc[r] = "insert" /\ Goto(r, "refresh") /\ pledges' = pledges \cup {r}
            /\ audit' = audit \cup {AuditRow(r, "CREATE_PLEDGE")}
            /\ UNCHANGED <<donations, ledger, idem, events>>
        BY <3>6 DEF CommitPledge
      <4> QED  BY <2>3, <3>1, <4>1
    <3>7. CASE \/ r \in CreateReqs /\ CommitCampaign(r)
               \/ r \in CloseReqs /\ CommitClose(r)
      <4>1. /\ pc[r] \in {"insert", "commit"} /\ Goto(r, "refresh")
            /\ \E action \in {"CREATE_CAMPAIGN", "CLOSE_CAMPAIGN"} :
                 audit' = audit \cup {AuditRow(r, action)}
            /\ UNCHANGED <<donations, ledger, idem, events, pledges>>
        BY <3>7 DEF CommitCampaign, CommitClose
      <4> QED  BY <2>3, <3>1, <4>1
    <3> QED  BY <2>4, <3>3, <3>4, <3>5, <3>6, <3>7 DEF Writes
  <2> QED  BY <1>2, <2>1, <2>2, <2>4, Turn DEF TypeInv
<1>3. TypeInv /\ IInv /\ [Next]_vars => TypeInv' /\ IInv'
  BY <1>2, TypeStep
<1> QED  BY <1>1, <1>3, TypeInit, PTL DEF Spec
=============================================================================
