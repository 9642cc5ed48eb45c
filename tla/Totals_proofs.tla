---------------------------- MODULE Totals_proofs ----------------------------
(***************************************************************************)
(* Theorems about money that is added up: raised_amount against the sum of *)
(* the ledger, with any number of workers and with one, and the services   *)
(* with one worker as an implementation of FundBook.                       *)
(***************************************************************************)
EXTENDS Books_proofs, FiniteSetTheorems, WellFoundedInduction

-----------------------------------------------------------------------------
(* Sums over finite sets.  The library's fold is the solution of an         *)
(* equation over all subsets: that it exists, and is one and the same for a *)
(* set and for a subset of it, is shown on a smallest subset where it would *)
(* not be.                                                                  *)

\* What the entries of a set are worth, and the worth of one.
Worth(S) == MapThenSumSet(LAMBDA l : Hundredths(l.amount_ngn), S)
Value(l) == Hundredths(l.amount_ngn)

\* The equation the library's sum over S is defined by.
Pick(s) == CHOOSE x \in s : TRUE
Solves(g, S) ==
  g = [s \in SUBSET S |-> IF s = {} THEN 0 ELSE Value(Pick(s)) + g[s \ {Pick(s)}]]

\* Induction over the subsets of a finite set.
LEMMA Smallest ==
  ASSUME NEW S, IsFiniteSet(S), NEW Z \in SUBSET SUBSET S, Z # {}
  PROVE  \E T \in Z : \A U \in Z : U \subseteq T => U = T
<1>1. IsWellFoundedOn(StrictSubsetOrdering(S), SUBSET S)
  BY FS_StrictSubsetOrderingWellFounded, FS_FiniteSubsetsOfFinite
<1>2. PICK T \in Z : \A U \in Z : <<U, T>> \notin StrictSubsetOrdering(S)
  BY <1>1, WFMin
<1> QED  BY <1>2 DEF StrictSubsetOrdering

\* The library's sum is the chosen solution of the equation.
LEMMA WorthIs == ASSUME NEW S  PROVE Worth(S) = (CHOOSE g : Solves(g, S))[S]
  BY DEF Worth, MapThenSumSet, MapThenFoldSet, Solves, Value, Pick

\* Solutions over a set and over a subset of it agree on the subset.
LEMMA SameWorth ==
  ASSUME NEW S, IsFiniteSet(S), NEW T \in SUBSET S,
         NEW g, Solves(g, S), NEW h, Solves(h, T)
  PROVE  g[T] = h[T]
<1> DEFINE Z == {s \in SUBSET T : g[s] # h[s]}
<1>1. ASSUME NEW s \in Z, \A U \in Z : U \subseteq s => U = s  PROVE FALSE
  <2>1. s \in SUBSET T /\ s \in SUBSET S /\ g[s] # h[s]
    OBVIOUS
  <2>2. CASE s = {}
    BY <2>1, <2>2 DEF Solves
  <2>3. CASE s # {}
    <3>1. Pick(s) \in s
      BY <2>3 DEF Pick
    <3>2. g[s \ {Pick(s)}] = h[s \ {Pick(s)}]
      BY <1>1, <2>1, <3>1
    <3>3. g[s] = Value(Pick(s)) + g[s \ {Pick(s)}]
      BY <2>1, <2>3 DEF Solves
    <3>4. h[s] = Value(Pick(s)) + h[s \ {Pick(s)}]
      BY <2>1, <2>3 DEF Solves
    <3> QED  BY <2>1, <3>2, <3>3, <3>4
  <2> QED  BY <2>2, <2>3
<1>2. IsFiniteSet(T) /\ Z \in SUBSET SUBSET T
  BY FS_Subset
<1>3. Z = {}
  <2> HIDE DEF Z
  <2> QED  BY <1>1, <1>2, Smallest
<1> QED  BY <1>3

\* The worth of a set is the value of one entry and the worth of the others.
LEMMA WorthStep ==
  ASSUME NEW S, IsFiniteSet(S)
  PROVE  Worth(S) = IF S = {} THEN 0 ELSE Value(Pick(S)) + Worth(S \ {Pick(S)})
<1> DEFINE Has(T) == \E g : Solves(g, T)
           Sum(T) == IF T = {} THEN 0 ELSE Value(Pick(T)) + Worth(T \ {Pick(T)})
<1>1. ASSUME NEW T \in SUBSET S, Has(T), \A U \in SUBSET T : Has(U)
      PROVE  Worth(T) = Sum(T)
  <2>1. PICK g : g = (CHOOSE f : Solves(f, T)) /\ Solves(g, T)
    BY <1>1
  <2>2. Worth(T) = g[T]
    BY <2>1, WorthIs
  <2>3. CASE T = {}
    BY <2>1, <2>2, <2>3 DEF Solves
  <2>4. CASE T # {}
    <3> DEFINE R == T \ {Pick(T)}
    <3>1. R \in SUBSET T /\ IsFiniteSet(T)
      BY FS_Subset
    <3>2. PICK h : h = (CHOOSE f : Solves(f, R)) /\ Solves(h, R)
      BY <1>1, <3>1
    <3>3. Worth(R) = h[R]
      BY <3>2, WorthIs
    <3>4. g[R] = h[R]
      BY <2>1, <3>1, <3>2, SameWorth
    <3>5. g[T] = Value(Pick(T)) + g[R]
      BY <2>1, <2>4 DEF Solves
    <3> QED  BY <2>2, <2>4, <3>3, <3>4, <3>5
  <2> QED  BY <2>3, <2>4
<1> DEFINE Z == {T \in SUBSET S : ~Has(T)}
<1>2. ASSUME NEW T \in Z, \A U \in Z : U \subseteq T => U = T  PROVE FALSE
  <2>1. \A U \in SUBSET T : U # T => Has(U) /\ Worth(U) = Sum(U)
    <3>1. \A U \in SUBSET T : U # T => Has(U)
      BY <1>2
    <3> SUFFICES ASSUME NEW U \in SUBSET T, U # T  PROVE Worth(U) = Sum(U)
      BY <3>1
    <3>2. \A R \in SUBSET U : R \in SUBSET T /\ R # T
      OBVIOUS
    <3> HIDE DEF Has
    <3>3. Has(U) /\ \A R \in SUBSET U : Has(R)
      BY <3>1, <3>2
    <3> QED  BY <1>1, <3>3
  <2> DEFINE h == [s \in SUBSET T |-> Sum(s)]
  <2>2. ASSUME NEW s \in SUBSET T, s # {}
        PROVE  h[s \ {Pick(s)}] = Worth(s \ {Pick(s)})
    <3>1. Pick(s) \in s
      BY <2>2 DEF Pick
    <3>2. s \ {Pick(s)} \in SUBSET T /\ s \ {Pick(s)} # T
      BY <3>1
    <3> HIDE DEF Sum
    <3> QED  BY <2>1, <3>2
  <2>3. \A s \in SUBSET T :
           h[s] = IF s = {} THEN 0 ELSE Value(Pick(s)) + h[s \ {Pick(s)}]
    BY <2>2
  <2>4. Solves(h, T)
    <3> HIDE DEF Sum
    <3>1. h = [s \in SUBSET T |-> h[s]]
      OBVIOUS
    <3> HIDE DEF h
    <3> QED  BY <2>3, <3>1 DEF Solves
  <2> QED  BY <2>4
<1>3. Z = {}
  <2>1. Z \in SUBSET SUBSET S
    OBVIOUS
  <2> HIDE DEF Z
  <2> QED  BY <1>2, <2>1, Smallest
<1>4. \A T \in SUBSET S : Has(T)
  BY <1>3
<1> HIDE DEF Has
<1> QED  BY <1>1, <1>4

\* The sum of a finite set of natural amounts is natural, and is the value of any
\* element and the sum of the others.
LEMMA WorthOf ==
  ASSUME NEW S, IsFiniteSet(S), \A l \in S : Value(l) \in Nat
  PROVE  /\ Worth(S) \in Nat
         /\ \A l \in S : Worth(S) = Value(l) + Worth(S \ {l})
<1>1. \A T \in SUBSET S : IsFiniteSet(T)
  BY FS_Subset
<1>2. \A T \in SUBSET S : T # {} =>
        /\ Pick(T) \in T /\ T \ {Pick(T)} \in SUBSET S
        /\ Worth(T) = Value(Pick(T)) + Worth(T \ {Pick(T)})
  BY <1>1, WorthStep DEF Pick
<1>3. Worth({}) = 0
  BY FS_EmptySet, WorthStep
<1>4. \A T \in SUBSET S : Worth(T) \in Nat
  <2> DEFINE Z == {T \in SUBSET S : Worth(T) \notin Nat}
  <2>1. ASSUME NEW T \in Z, \A U \in Z : U \subseteq T => U = T  PROVE FALSE
    <3>1. CASE T = {}
      BY <1>3, <2>1, <3>1
    <3>2. CASE T # {}
      <4>1. T \ {Pick(T)} \notin Z
        <5>1. T \ {Pick(T)} \subseteq T /\ T \ {Pick(T)} # T
          BY <1>2, <3>2
        <5> HIDE DEF Z
        <5> QED  BY <2>1, <5>1
      <4>2. Worth(T \ {Pick(T)}) \in Nat
        BY <1>2, <3>2, <4>1
      <4> QED  BY <1>2, <3>2, <4>2
    <3> QED  BY <3>1, <3>2
  <2>2. Z \in SUBSET SUBSET S
    OBVIOUS
  <2>3. Z = {}
    <3> HIDE DEF Z
    <3> QED  BY <2>1, <2>2, Smallest
  <2> QED  BY <2>3
<1>5. \A T \in SUBSET S : \A l \in T : Worth(T) = Value(l) + Worth(T \ {l})
  <2> DEFINE Fine(T) == \A l \in T : Worth(T) = Value(l) + Worth(T \ {l})
             Z == {T \in SUBSET S : ~Fine(T)}
  <2>1. ASSUME NEW T \in Z, \A U \in Z : U \subseteq T => U = T  PROVE FALSE
    <3>1. PICK l \in T : Worth(T) # Value(l) + Worth(T \ {l})
      BY <2>1
    <3>2. PICK p \in T : Worth(T) = Value(p) + Worth(T \ {p})
      BY <1>2, <3>1
    <3>4. ASSUME l # p  PROVE FALSE
      <4>1. T \ {p} \notin Z /\ T \ {l} \notin Z
        <5>1. /\ T \ {p} \subseteq T /\ T \ {p} # T
              /\ T \ {l} \subseteq T /\ T \ {l} # T
          BY <3>2
        <5> HIDE DEF Z
        <5> QED  BY <2>1, <5>1
      <4>2. Worth(T \ {p}) = Value(l) + Worth((T \ {p}) \ {l})
        BY <3>4, <4>1
      <4>3. Worth(T \ {l}) = Value(p) + Worth((T \ {l}) \ {p})
        BY <3>2, <3>4, <4>1
      <4>4. (T \ {p}) \ {l} = (T \ {l}) \ {p}
        OBVIOUS
      <4>5. Worth((T \ {p}) \ {l}) \in Nat /\ Value(p) \in Nat /\ Value(l) \in Nat
        BY <1>4, <3>2
      <4> HIDE DEF Z
      <4> QED  BY <3>1, <3>2, <4>2, <4>3, <4>4, <4>5
    <3> QED  BY <3>1, <3>2, <3>4
  <2>2. Z \in SUBSET SUBSET S
    OBVIOUS
  <2>3. Z = {}
    <3> HIDE DEF Z
    <3> QED  BY <2>1, <2>2, Smallest
  <2> QED  BY <2>3
<1> QED  BY <1>4, <1>5

-----------------------------------------------------------------------------
(* What a step does to the money.                                           *)

Credits(c) == {l \in ledger : l.campaign = c}

\* The ledger can be added up, and has no entry of a payment still to commit.
Summable ==
  /\ IsFiniteSet(ledger)
  /\ \A l \in ledger : Value(l) \in Nat
  /\ \A l \in ledger : pc[l.donation] \in Committed \cup {"done", "lost"}

\* The ledger's total is such a sum.
LEMMA TotalIsWorth == \A c : TotalCredited(c) = Worth(Credits(c))
  BY DEF TotalCredited, Worth, Credits

\* So is its total in the next state.
LEMMA NextTotal == \A c : TotalCredited(c)' = Worth(Credits(c)')
<1>1. (\A c : TotalCredited(c) = Worth(Credits(c)))'
  BY TotalIsWorth, PTL
<1> QED  BY <1>1

\* The total of a campaign is a natural number of kobo.
LEMMA TotalIsNatural ==
  ASSUME Summable, NEW c  PROVE TotalCredited(c) \in Nat
<1>1. IsFiniteSet(Credits(c)) /\ \A l \in Credits(c) : Value(l) \in Nat
  BY FS_Subset DEF Summable, Credits
<1> QED  BY <1>1, WorthOf, TotalIsWorth

\* An entry of the ledger is worth the amount of its payment, to the kobo.
LEMMA NaturalValue ==
  ASSUME NEW r \in Payments  PROVE Value(LedgerRow(r)) = AmountOf[r]
<1>1. AmountOf[r] \in Nat
  BY PayloadAssumption
<1>2. \A k \in Nat : k = (k \div KoboPerNaira) * KoboPerNaira + (k % KoboPerNaira)
  BY PayloadAssumption
<1>3. LedgerRow(r).amount_ngn.naira = AmountOf[r] \div KoboPerNaira
      /\ LedgerRow(r).amount_ngn.kobo = AmountOf[r] % KoboPerNaira
  BY DEF LedgerRow, Ngn
<1> QED  BY <1>1, <1>2, <1>3 DEF Value, Hundredths

\* A step that commits no payment leaves the ledger and every raised_amount, but
\* for the zero of a campaign it creates.
NoMoney ==
  /\ UNCHANGED <<donations, ledger>>
  /\ \A c \in CampaignIds :
       campaigns'[c].raised = campaigns[c].raised \/
         (campaigns'[c].raised = 0 /\ Status(c) = "absent" /\ Status(c)' # "absent")

\* Money moves only with the commit of a payment.
LEMMA MoneyMoves ==
  ASSUME TypeOK, Lives, [Next]_vars
  PROVE  NoMoney \/ \E r \in Payments : CommitsMoney(r)
<1>1. CASE Outside \/ \E r \in Requests : Asks(r)
  BY <1>1 DEF Outside, Asks, tables, NoMoney
<1>2. ASSUME NEW r \in Requests,
             \/ r \in WebhookReqs /\ RecordOrphan(r) /\ ~EventTaken(r)
             \/ r \in PledgeReqs /\ CommitPledge(r)
      PROVE  NoMoney
  BY <1>2 DEF RecordOrphan, CommitPledge, NoMoney
<1>3. ASSUME NEW r \in CreateReqs, CommitCampaign(r)  PROVE NoMoney
  <2>1. /\ UNCHANGED <<donations, ledger>> /\ Status(CampaignOf[r]) = "absent"
        /\ campaigns' = [campaigns EXCEPT ![CampaignOf[r]] = [status |-> "open", raised |-> 0]]
    BY <1>3 DEF CommitCampaign, Lives
  <2>2. \A c \in CampaignIds : campaigns'[c] =
          IF c = CampaignOf[r] THEN [status |-> "open", raised |-> 0] ELSE campaigns[c]
    BY <2>1 DEF TypeOK
  <2> QED  BY <2>1, <2>2 DEF NoMoney, Status
<1>4. ASSUME NEW r \in CloseReqs, CommitClose(r)  PROVE NoMoney
  BY <1>4 DEF CommitClose, NoMoney, TypeOK
<1>5. ASSUME NEW r \in Requests,
             (r \in DonationReqs /\ CommitDonation(r)) \/ (r \in WebhookReqs /\ CommitPayment(r))
      PROVE  r \in Payments /\ CommitsMoney(r)
  BY <1>5 DEF CommitDonation, CommitPayment, CommitsMoney, Payments
<1> QED  BY <1>1, <1>2, <1>3, <1>4, <1>5, Turn DEF Writes

\* A payment that is committed or over never comes before its commit again.
LEMMA NoWayBack ==
  ASSUME TypeOK, [Next]_vars, NEW q \in Payments,
         pc[q] \in Committed \cup {"done", "lost"}
  PROVE  pc'[q] \in Committed \cup {"done", "lost"}
<1> USE DEF Committed
<1>0. q \in Requests
  BY DEF Requests
<1>1. CASE Outside
  BY <1>0, <1>1 DEF Outside
<1>2. ASSUME NEW r \in Requests, Asks(r)  PROVE pc'[q] \in Committed \cup {"done", "lost"}
  BY <1>0, <1>2 DEF Asks, GoesOn, InFlight, Ended
<1>3. ASSUME NEW r \in Requests, Writes(r)  PROVE pc'[q] \in Committed \cup {"done", "lost"}
  <2>1. Goto(r, "refresh") \/ Reply(r, "orphan_logged", NoDonation)
    BY <1>3 DEF Writes, CommitDonation, CommitPayment, RecordOrphan, CommitPledge,
                CommitCampaign, CommitClose
  <2> QED  BY <1>0, <2>1 DEF Goto, Reply, TypeOK
<1> QED  BY <1>1, <1>2, <1>3, Turn

\* A commit adds the amount of the payment to the sum of its campaign, and to no
\* other.
LEMMA CommitAdds ==
  ASSUME TypeInv, Summable, [Next]_vars, NEW r \in Payments, CommitsMoney(r)
  PROVE  /\ Summable'
         /\ \A c : TotalCredited(c)' =
                TotalCredited(c) + (IF c = seen[r].id THEN AmountOf[r] ELSE 0)
<1> DEFINE l0 == LedgerRow(r)
<1>1. /\ pc[r] = "commit" /\ ledger' = ledger \cup {l0}
      /\ l0.donation = r /\ l0.campaign = seen[r].id /\ r \in Requests
      /\ AmountOf[r] \in Nat
  BY PayloadAssumption DEF CommitsMoney, LedgerRow, Requests
<1>2. Value(l0) = AmountOf[r]
  BY NaturalValue
<1>3. l0 \notin ledger
  BY <1>1 DEF Summable, Committed
<1>4. Summable'
  <2>1. IsFiniteSet(ledger')
    BY <1>1, FS_AddElement DEF Summable
  <2>2. \A l \in ledger' : Value(l) \in Nat
    BY <1>1, <1>2 DEF Summable
  <2>3. \A l \in ledger' : pc'[l.donation] \in Committed \cup {"done", "lost"}
    <3>1. pc'[r] \in Committed
      BY <1>1 DEF CommitsMoney, Goto, TypeInv, TypeOK, Committed
    <3>2. \A l \in ledger : l.donation \in Payments
      BY DEF TypeInv, TypeOK
    <3> QED  BY <1>1, <3>1, <3>2, NoWayBack DEF Summable, TypeInv
  <2> QED  BY <2>1, <2>2, <2>3 DEF Summable, Value
<1>5. ASSUME NEW c
      PROVE  TotalCredited(c)' = TotalCredited(c) + (IF c = seen[r].id THEN AmountOf[r] ELSE 0)
  <2>1. TotalCredited(c)' = Worth(Credits(c)')
    BY NextTotal
  <2>2. TotalCredited(c) = Worth(Credits(c)) /\ TotalCredited(c) \in Nat
    BY TotalIsWorth, TotalIsNatural
  <2>3. CASE c # seen[r].id
    <3>1. Credits(c)' = Credits(c)
      BY <1>1, <2>3 DEF Credits
    <3> QED  BY <2>1, <2>2, <2>3, <3>1
  <2>4. CASE c = seen[r].id
    <3>1. l0 \in Credits(c)' /\ Credits(c)' \ {l0} = Credits(c)
      BY <1>1, <1>3, <2>4 DEF Credits
    <3>2. IsFiniteSet(Credits(c)') /\ \A l \in Credits(c)' : Value(l) \in Nat
      <4>1. IsFiniteSet(ledger') /\ \A l \in ledger' : Value(l) \in Nat
        BY <1>4 DEF Summable, Value
      <4> QED  BY <4>1, FS_Subset DEF Credits
    <3>3. Worth(Credits(c)') = Value(l0) + Worth(Credits(c)' \ {l0})
      BY <3>1, <3>2, WorthOf
    <3>4. TotalCredited(c)' = AmountOf[r] + TotalCredited(c)
      BY <1>2, <2>1, <2>2, <3>1, <3>3
    <3> QED  BY <1>1, <2>2, <2>4, <3>4
  <2> QED  BY <2>3, <2>4
<1> QED  BY <1>4, <1>5

\* Any other step leaves the sums alone.
LEMMA OthersAddNothing ==
  ASSUME TypeInv, Summable, [Next]_vars, UNCHANGED ledger
  PROVE  Summable' /\ \A c : TotalCredited(c)' = TotalCredited(c)
<1>1. \A l \in ledger : l.donation \in Payments
  BY DEF TypeInv, TypeOK
<1>2. Summable'
  BY <1>1, NoWayBack DEF Summable, TypeInv, Value, Hundredths
<1>3. \A c : Credits(c)' = Credits(c)
  BY DEF Credits
<1> QED  BY <1>2, <1>3, TotalIsWorth, NextTotal

-----------------------------------------------------------------------------
(* Where a request runs and what it has loaded.                             *)

\* A step of a service is a step of one request in flight, on its own worker.
Alters(r) ==
  /\ InFlight(r)
  /\ \A q \in Requests \ {r} : pc'[q] = pc[q] /\ at'[q] = at[q]
  /\ at'[r] = at[r] \/ pc'[r] = "done"

\* A step of a request moves that request alone, and never to another worker.
LEMMA StepAlters ==
  ASSUME TypeOK, NEW r \in Requests, Step(r)  PROVE Alters(r)
<1>1. ASSUME NEW label, Goto(r, label), InFlight(r)  PROVE Alters(r)
  BY <1>1 DEF Goto, Alters, TypeOK
<1>2. ASSUME NEW code, NEW d, Reply(r, code, d), InFlight(r)  PROVE Alters(r)
  BY <1>2 DEF Reply, Alters, TypeOK
<1>3. CASE UpdateRaised(r) \/ Refresh(r) \/ InvalidateAndReply(r)
  BY <1>1, <1>2, <1>3 DEF UpdateRaised, Refresh, InvalidateAndReply, InFlight, Ended
<1>4. ASSUME ValidateCampaign(r), r \in DonationReqs \cup PledgeReqs  PROVE Alters(r)
  <2>1. campaigns[CampaignOf[r]].status \in {"absent", "open", "closed"}
    BY <1>4, KindsAreDisjoint, PayloadAssumption DEF TypeOK, Payments, Others
  <2>2. CASE campaigns[CampaignOf[r]].status = "open"
    <3>1. \E label \in {"precheck", "insert"} : Goto(r, label)
      BY <1>4, <2>2 DEF ValidateCampaign
    <3> QED  BY <1>1, <1>4, <3>1 DEF ValidateCampaign, InFlight, Ended
  <2>3. CASE campaigns[CampaignOf[r]].status \in {"absent", "closed"}
    BY <1>2, <1>4, <2>3 DEF ValidateCampaign, InFlight, Ended
  <2> QED  BY <2>1, <2>2, <2>3
<1>5. CASE RecordDonation(r)
  <2>1. CASE Replay(r) \/ NewKey(r) \/ PrecheckRef(r) \/ InsertLedger(r)
             \/ CommitDonation(r) \/ KeyClash(r)
    BY <1>1, <1>2, <2>1
    DEF Replay, NewKey, PrecheckRef, InsertLedger, CommitDonation, KeyClash, InFlight, Ended
  <2>2. CASE InsertDonation(r)
    <3>1. (AmountOf[r] > IntMax) <=> ~(AmountOf[r] <= IntMax)
      BY PayloadAssumption, <1>5 DEF RecordDonation, Payments
    <3>2. \/ \E code \in {"error", "duplicate"} : Reply(r, code, NoDonation)
          \/ Goto(r, "raise")
      BY <2>2, <3>1 DEF InsertDonation
    <3> QED  BY <1>1, <1>2, <2>2, <3>2 DEF InsertDonation, InFlight, Ended
  <2> QED  BY <1>3, <1>4, <1>5, <2>1, <2>2 DEF RecordDonation
<1>6. CASE ProcessPayment(r)
  <2>1. CASE CheckEvent(r) \/ Unresolved(r) \/ NoneOpen(r) \/ RecordOrphan(r)
             \/ InsertEvent(r) \/ CommitPayment(r)
    BY <1>1, <1>2, <2>1
    DEF CheckEvent, Unresolved, NoneOpen, RecordOrphan, InsertEvent, CommitPayment,
        InFlight, Ended
  <2>2. CASE ResolveNamed(r) \/ ResolveGeneral(r)
    BY <1>1, <2>2 DEF ResolveNamed, ResolveGeneral, Settle, InFlight, Ended
  <2>3. CASE InsertPayment(r)
    <3>1. (AmountOf[r] > IntMax) <=> ~(AmountOf[r] <= IntMax)
      BY PayloadAssumption, <1>6 DEF ProcessPayment, Payments
    <3>2. \/ \E code \in {"error", "already_processed"} : Reply(r, code, NoDonation)
          \/ Goto(r, "raise")
      BY <2>3, <3>1 DEF InsertPayment
    <3> QED  BY <1>1, <1>2, <2>3, <3>2 DEF InsertPayment, InFlight, Ended
  <2> QED  BY <1>3, <1>6, <2>1, <2>2, <2>3 DEF ProcessPayment
<1>7. CASE CreatePledge(r)
  BY <1>1, <1>2, <1>4, <1>7
  DEF CreatePledge, FindMember, CommitPledge, RefreshPledge, InFlight, Ended
<1>8. CASE CreateCampaign(r) \/ CloseCampaign(r)
  <2>1. CASE ReadToClose(r) /\ r \in CloseReqs
    <3>1. campaigns[CampaignOf[r]].status \in {"absent", "open", "closed"}
      BY <2>1, KindsAreDisjoint, PayloadAssumption DEF TypeOK, Payments, Others
    <3> QED  BY <1>1, <1>2, <2>1, <3>1 DEF ReadToClose, InFlight, Ended
  <2> QED
    BY <1>1, <1>3, <1>8, <2>1
    DEF CreateCampaign, CloseCampaign, CommitCampaign, CommitClose, InFlight, Ended
<1>9. CASE ListCampaigns(r) \/ VerifyLedger(r)
  BY <1>1, <1>2, <1>9
  DEF ListCampaigns, ServeCached, MissCache, CountCampaigns, ReadItems, StorePage,
      VerifyLedger, ReadToVerify, SumAndCompare, InFlight, Ended
<1> QED  BY <1>5, <1>6, <1>7, <1>8, <1>9 DEF Step

\* A worker runs one payment at a time: its routes are coroutines, and their
\* services never give the event loop back.
OnePerWorker ==
  \A q \in Payments : InFlight(q) =>
    at[q] \in Workers /\ \A r \in Payments \ {q} : InFlight(r) => at[r] # at[q]

\* A payment arrives at a worker that has none.
LEMMA OnePerWorkerStep ==
  ASSUME TypeOK, OnePerWorker, [Next]_vars  PROVE OnePerWorker'
<1>0. \A q \in Payments : q \in Requests
  BY DEF Requests
<1>1. ASSUME NEW r \in Requests, NEW w \in Workers, Arrive(r, w)  PROVE OnePerWorker'
  <2>1. /\ pc[r] = "idle" /\ (r \in Payments => LoopFree(w)) /\ at'[r] = w
        /\ \A q \in Requests \ {r} : pc'[q] = pc[q] /\ at'[q] = at[q]
    BY <1>1 DEF Arrive, TypeOK
  <2> QED  BY <1>0, <2>1 DEF OnePerWorker, InFlight, LoopFree
<1>2. ASSUME \A q \in Payments : InFlight(q)' => InFlight(q) /\ at'[q] = at[q]
      PROVE  OnePerWorker'
  BY <1>2 DEF OnePerWorker
<1>3. ASSUME NEW r \in Requests, Step(r) \/ DbFails(r)  PROVE OnePerWorker'
  <2>1. Alters(r)
    BY <1>3, StepAlters DEF DbFails, Reply, Alters, TypeOK
  <2> QED  BY <1>0, <1>2, <2>1 DEF Alters, InFlight, Ended
<1>4. ASSUME NEW w \in Workers, Crash(w)  PROVE OnePerWorker'
  BY <1>0, <1>2, <1>4 DEF Crash, InFlight, Ended
<1>5. CASE UNCHANGED vars \/ Expire
  BY <1>2, <1>5 DEF vars, Expire, InFlight
<1> QED  BY <1>1, <1>3, <1>4, <1>5 DEF Next, Terminated

\* From the load of an open campaign to the commit.
Working == {"precheck", "insert", "raise", "ledger", "commit"}

Keeps == UNCHANGED seen /\ \A q \in Payments : pc'[q] \in Working => pc[q] \in Working

Looks(r, c) ==
  /\ UNCHANGED tables /\ Load(r, c) /\ Status(c) # "absent"
  /\ \A q \in Requests \ {r} : pc'[q] = pc[q]

\* What a request has seen is what it has seen before, or what is there now.
LEMMA Loads ==
  ASSUME TypeOK, [Next]_vars
  PROVE  Keeps \/ \E r \in Requests : \E c \in CampaignIds : Looks(r, c)
<1>0. \A q \in Payments : q \in Requests
  BY DEF Requests
<1>1. ASSUME NEW r \in Requests, NEW w \in Workers, Arrive(r, w)  PROVE Keeps
  <2>1. \A q \in Payments : Entry(q) \in {"key", "event"}
    BY KindsAreDisjoint DEF Entry, Payments, Others
  <2> QED  BY <1>0, <1>1, <2>1 DEF Arrive, Keeps, TypeOK, Working
<1>2. ASSUME NEW w \in Workers, Crash(w)  PROVE Keeps
  BY <1>0, <1>2 DEF Crash, Keeps, Working
<1>3. CASE UNCHANGED vars \/ Expire
  BY <1>3 DEF vars, Expire, Keeps
<1>4. ASSUME NEW r \in Requests, DbFails(r)  PROVE Keeps
  BY <1>0, <1>4 DEF DbFails, Reply, Keeps, TypeOK, Working
<1>5. ASSUME NEW r \in Requests, Step(r)
      PROVE  Keeps \/ \E c \in CampaignIds : Looks(r, c)
  <2>1. \A q \in Requests \ {r} : pc'[q] = pc[q]
    BY <1>5, StepAlters DEF Alters
  <2>2. ASSUME UNCHANGED seen, r \in Payments => pc[r] \in Working \/ pc'[r] \notin Working
        PROVE  Keeps
    BY <1>0, <2>1, <2>2 DEF Keeps
  <2>3. ASSUME UNCHANGED seen, \E code, d : Reply(r, code, d)  PROVE Keeps
    BY <2>2, <2>3 DEF Reply, TypeOK, Working
  <2>4. ASSUME ValidateCampaign(r), r \in DonationReqs \cup PledgeReqs
        PROVE  Keeps \/ \E c \in CampaignIds : Looks(r, c)
    <3>1. /\ CampaignOf[r] \in CampaignIds
          /\ Status(CampaignOf[r]) \in {"absent", "open", "closed"}
      BY <2>4, KindsAreDisjoint, PayloadAssumption DEF TypeOK, Status, Payments, Others
    <3> QED  BY <2>1, <2>3, <2>4, <3>1 DEF ValidateCampaign, Looks, Status
  <2>5. CASE RecordDonation(r)
    <3>1. CASE NewKey(r)
      BY <2>2, <3>1 DEF NewKey, Goto, TypeOK, Working
    <3>2. CASE Replay(r)
      BY <2>3, <3>2 DEF Replay
    <3>3. CASE Refresh(r) \/ InvalidateAndReply(r)
      BY <2>2, <2>3, <3>3 DEF Refresh, InvalidateAndReply, Goto, TypeOK, Working
    <3>4. CASE PrecheckRef(r) \/ InsertDonation(r) \/ UpdateRaised(r) \/ InsertLedger(r)
               \/ CommitDonation(r) \/ KeyClash(r)
      BY <2>2, <3>4 DEF PrecheckRef, InsertDonation, UpdateRaised, InsertLedger,
                        CommitDonation, KeyClash, Working
    <3> QED  BY <2>4, <2>5, <3>1, <3>2, <3>3, <3>4 DEF RecordDonation
  <2>6. CASE ProcessPayment(r)
    <3>1. CASE CheckEvent(r) \/ Unresolved(r) \/ NoneOpen(r)
      BY <2>2, <2>3, <3>1 DEF CheckEvent, Unresolved, NoneOpen, Goto, TypeOK, Working
    <3>2. CASE RecordOrphan(r)
      BY <2>3, <3>2 DEF RecordOrphan
    <3>3. CASE Refresh(r) \/ InvalidateAndReply(r)
      BY <2>2, <2>3, <3>3 DEF Refresh, InvalidateAndReply, Goto, TypeOK, Working
    <3>4. CASE InsertPayment(r) \/ UpdateRaised(r) \/ InsertEvent(r) \/ CommitPayment(r)
      BY <2>2, <3>4 DEF InsertPayment, UpdateRaised, InsertEvent, CommitPayment, Working
    <3>5. CASE ResolveNamed(r) \/ ResolveGeneral(r)
      BY <2>1, <2>6, <3>5, PayloadAssumption
      DEF ProcessPayment, ResolveNamed, ResolveGeneral, Settle, Exists, IsOpen, Looks, Status
    <3> QED  BY <2>6, <3>1, <3>2, <3>3, <3>4, <3>5 DEF ProcessPayment
  <2>7. CASE CreatePledge(r)
    <3>1. r \notin Payments
      BY <2>7, KindsAreDisjoint DEF CreatePledge, Others
    <3> QED
      BY <2>2, <2>4, <2>7, <3>1 DEF CreatePledge, FindMember, CommitPledge, RefreshPledge
  <2>8. CASE CreateCampaign(r) \/ CloseCampaign(r)
    <3>1. r \notin Payments
      BY <2>8, KindsAreDisjoint DEF CreateCampaign, CloseCampaign, Others
    <3> QED
      BY <2>2, <2>8, <3>1 DEF CreateCampaign, CloseCampaign, CommitCampaign, CommitClose,
                              ReadToClose, Refresh, InvalidateAndReply
  <2>9. CASE ListCampaigns(r) \/ SumAndCompare(r)
    BY <2>2, <2>3, <2>9, KindsAreDisjoint
    DEF ListCampaigns, ServeCached, MissCache, CountCampaigns, ReadItems, StorePage,
        SumAndCompare, Others
  <2>10. CASE ReadToVerify(r) /\ r \in VerifyReqs
    <3>1. CampaignOf[r] \in CampaignIds
      BY <2>10, KindsAreDisjoint, PayloadAssumption DEF Payments, Others
    <3> QED  BY <2>1, <2>3, <2>10, <3>1 DEF ReadToVerify, Looks, Status
  <2> QED
    BY <1>5, <2>5, <2>6, <2>7, <2>8, <2>9, <2>10 DEF Step, VerifyLedger
<1> QED  BY <1>1, <1>2, <1>3, <1>4, <1>5 DEF Next, Terminated

-----------------------------------------------------------------------------
(* With any number of workers.                                              *)

\* Every value of raised_amount, in the table or loaded by a request however
\* long ago, is at most what the ledger adds up to now.
Covered ==
  /\ \A c \in CampaignIds : campaigns[c].raised <= TotalCredited(c)
  /\ \A r \in Requests : \A c \in CampaignIds \cup {NothingSeen.id} :
       seen[r].id = c => seen[r].raised <= TotalCredited(c)

\* An empty ledger adds up to nothing.
LEMMA EmptyLedger == Init => Summable /\ \A c : TotalCredited(c) = 0
<1>1. Worth({}) = 0
  BY FS_EmptySet, WorthStep
<1>2. Init => ledger = {}
  BY DEF Init, InitStore
<1>3. ledger = {} => Summable /\ \A c : Credits(c) = {}
  BY FS_EmptySet DEF Summable, Credits
<1> QED  BY <1>1, <1>2, <1>3, TotalIsWorth

\* A commit adds the same amount to the ledger as to the value its payment has
\* loaded, and that value was covered.
LEMMA CoveredStep ==
  ASSUME TypeInv, Lives, Summable, Covered, [Next]_vars
  PROVE  Summable' /\ Covered'
<1>1. ASSUME NEW r \in Payments, CommitsMoney(r)  PROVE Summable' /\ Covered'
  <2>1. Summable' /\ \A c : TotalCredited(c)' =
                        TotalCredited(c) + (IF c = seen[r].id THEN AmountOf[r] ELSE 0)
    BY <1>1, CommitAdds
  <2>2. AmountOf[r] \in Nat /\ \A c : TotalCredited(c) \in Nat
    BY PayloadAssumption, TotalIsNatural
  <2>3. /\ r \in Requests /\ seen[r].id \in CampaignIds /\ UNCHANGED seen
        /\ campaigns' = SetRaised(r)
    BY <1>1 DEF CommitsMoney, TypeInv, Loaded, Requests
  <2>4. \A q \in Requests : seen[q].raised \in Nat /\ \A c \in CampaignIds : campaigns[c].raised \in Nat
    BY PayloadAssumption DEF TypeInv, TypeOK, SeenOf
  <2>5. \A c \in CampaignIds : campaigns'[c].raised =
          IF c = seen[r].id THEN seen[r].raised + AmountOf[r] ELSE campaigns[c].raised
    BY <2>3 DEF SetRaised, RaisedBy, TypeInv, TypeOK
  <2>6. ASSUME NEW c \in CampaignIds  PROVE campaigns'[c].raised <= TotalCredited(c)'
    <3>1. CASE c = seen[r].id
      <4>1. seen[r].raised <= TotalCredited(c)
        BY <2>3, <3>1 DEF Covered
      <4> QED  BY <2>1, <2>2, <2>3, <2>4, <2>5, <3>1, <4>1
    <3>2. CASE c # seen[r].id
      BY <2>1, <2>2, <2>5, <3>2 DEF Covered
    <3> QED  BY <3>1, <3>2
  <2>7. ASSUME NEW q \in Requests, NEW c \in CampaignIds \cup {NothingSeen.id},
               seen'[q].id = c
        PROVE  seen'[q].raised <= TotalCredited(c)'
    <3>1. seen[q].raised <= TotalCredited(c)
      BY <2>3, <2>7 DEF Covered
    <3>2. TotalCredited(c)' \in {TotalCredited(c), TotalCredited(c) + AmountOf[r]}
      BY <2>1, <2>2
    <3> QED  BY <2>2, <2>3, <2>4, <3>1, <3>2
  <2> QED  BY <2>1, <2>6, <2>7 DEF Covered
<1>2. CASE NoMoney
  <2>1. Summable' /\ \A c : TotalCredited(c)' = TotalCredited(c) /\ TotalCredited(c) \in Nat
    BY <1>2, OthersAddNothing, TotalIsNatural DEF NoMoney
  <2>2. \A c \in CampaignIds : campaigns'[c].raised <= TotalCredited(c)'
    BY <1>2, <2>1 DEF NoMoney, Covered
  <2>3. CASE UNCHANGED seen
    BY <2>1, <2>2, <2>3 DEF Covered
  <2>4. ASSUME NEW r \in Requests, NEW c \in CampaignIds, Looks(r, c)  PROVE Covered'
    <3>1. seen'[r] = [id |-> c, raised |-> campaigns[c].raised]
          /\ \A q \in Requests \ {r} : seen'[q] = seen[q]
      BY <2>4 DEF Looks, Load, TypeInv, TypeOK
    <3>2. campaigns[c].raised <= TotalCredited(c)
      BY DEF Covered
    <3>3. \A q \in Requests : \A d \in CampaignIds \cup {NothingSeen.id} :
            seen'[q].id = d => seen'[q].raised <= TotalCredited(d)
      BY <3>1, <3>2 DEF Covered
    <3> QED  BY <2>1, <2>2, <3>3 DEF Covered
  <2> QED  BY <2>1, <2>3, <2>4, Loads DEF Keeps, TypeInv
<1> QED  BY <1>1, <1>2, MoneyMoves DEF TypeInv

\* What has been loaded is covered in every state.
LEMMA AlwaysCovered == Spec => []Covered
<1> DEFINE IInv == TypeInv /\ Lives /\ Summable /\ Covered
<1>1. Init => IInv
  <2>1. Init => /\ \A c \in CampaignIds : campaigns[c].raised = 0
                /\ \A r \in Requests : seen[r].raised = 0
    BY DEF Init, InitStore, NothingSeen
  <2>2. Init => Covered
    BY <2>1, EmptyLedger DEF Covered
  <2> QED  BY <2>2, TypeInit, LivesInductive, EmptyLedger
<1>2. IInv /\ [Next]_vars => IInv'
  BY TypeStep, LivesInductive, CoveredStep DEF TypeInv
<1> QED  BY <1>1, <1>2, PTL DEF Spec

\* raised_amount may miss a donation and never counts one twice
\* (RaisedNeverAboveLedger), with any number of workers: a value computed from a
\* stale object is too small, and never too large.
THEOREM NeverOvercounted == Spec => []RaisedNeverAboveLedger
<1>1. Covered => RaisedNeverAboveLedger
  BY DEF Covered, RaisedNeverAboveLedger
<1> QED  BY <1>1, AlwaysCovered, PTL

\* The reconciliation errs in one direction (AlarmHasOneDirection): a counter it
\* finds above the sum of the ledger is above it, whatever was committed between
\* its two reads.
THEOREM AlarmsAreReal == Spec => []AlarmHasOneDirection
<1>1. TypeOK /\ Covered => AlarmHasOneDirection
  BY DEF TypeOK, SeenOf, Covered, AlarmHasOneDirection, Requests, Others
<1> QED  BY <1>1, TypeCorrect, AlwaysCovered, PTL

-----------------------------------------------------------------------------
(* With one worker.                                                         *)

\* A payment works on the raised_amount the table has, and a campaign that is
\* not there yet has nothing.
UpToDate ==
  /\ \A r \in Payments : pc[r] \in Working =>
       /\ seen[r].id \in CampaignIds /\ Status(seen[r].id) # "absent"
       /\ seen[r].raised = campaigns[seen[r].id].raised
  /\ \A c \in CampaignIds : Status(c) = "absent" => campaigns[c].raised = 0

\* With one worker nobody changes the counter between the load and the commit of a
\* payment.
LEMMA UpToDateStep ==
  ASSUME TypeInv, Lives, OnePerWorker, UpToDate, [Next]_vars,
         NEW w, Workers = {w}
  PROVE  UpToDate'
<1>0. (\A q \in Payments : q \in Requests) /\ (\A c \in CampaignIds : Grows(c))
  BY LivesInductive DEF TypeInv, Requests
<1>1. ASSUME NEW r \in Payments, CommitsMoney(r)  PROVE UpToDate'
  <2>1. /\ pc[r] = "commit" /\ pc'[r] = "refresh" /\ UNCHANGED seen
        /\ \A q \in Payments \ {r} : pc'[q] = pc[q]
    BY <1>0, <1>1 DEF CommitsMoney, Goto, TypeInv, TypeOK
  <2>2. \A q \in Payments \ {r} : pc[q] \notin Working
    BY <2>1 DEF OnePerWorker, InFlight, Ended, Working
  <2>3. seen[r].id \in CampaignIds /\ Status(seen[r].id) # "absent"
    BY <2>1 DEF UpToDate, Working
  <2>4. \A c \in CampaignIds : /\ campaigns'[c].status = campaigns[c].status
                               /\ c # seen[r].id => campaigns'[c].raised = campaigns[c].raised
    BY <1>1, <2>3 DEF CommitsMoney, SetRaised, TypeInv, TypeOK
  <2> QED  BY <2>1, <2>2, <2>3, <2>4 DEF UpToDate, Working, Status
<1>2. CASE NoMoney
  <2>1. \A c \in CampaignIds : Status(c) # "absent" =>
          Status(c)' # "absent" /\ campaigns'[c].raised = campaigns[c].raised
    BY <1>0, <1>2 DEF NoMoney, Grows
  <2>2. \A c \in CampaignIds : Status(c)' = "absent" => campaigns'[c].raised = 0
    BY <1>0, <1>2 DEF NoMoney, Grows, UpToDate
  <2>3. CASE Keeps
    BY <2>1, <2>2, <2>3 DEF Keeps, UpToDate
  <2>4. ASSUME NEW r \in Requests, NEW c \in CampaignIds, Looks(r, c)  PROVE UpToDate'
    <3>1. /\ seen'[r] = [id |-> c, raised |-> campaigns[c].raised]
          /\ \A q \in Requests \ {r} : seen'[q] = seen[q] /\ pc'[q] = pc[q]
          /\ UNCHANGED campaigns /\ Status(c) # "absent"
      BY <2>4 DEF Looks, Load, tables, TypeInv, TypeOK
    <3> QED  BY <1>0, <2>2, <3>1 DEF UpToDate, Status
  <2> QED  BY <2>3, <2>4, Loads DEF TypeInv
<1> QED  BY <1>1, <1>2, MoneyMoves DEF TypeInv

\* A step of the books, or none: what a commit does to the table and to the sum.
LEMMA BooksMove ==
  ASSUME TypeInv, Lives, UpToDate, [Next]_vars
  PROVE  \/ /\ UNCHANGED <<donations, ledger>>
            /\ \A c \in CampaignIds : campaigns'[c].raised = campaigns[c].raised
         \/ \E r \in Payments :
              /\ CommitsMoney(r) /\ seen[r].id \in CampaignIds
              /\ \A c \in CampaignIds : campaigns'[c].raised =
                   IF c = seen[r].id THEN campaigns[c].raised + AmountOf[r]
                                     ELSE campaigns[c].raised
<1>1. CASE NoMoney
  BY <1>1 DEF NoMoney, UpToDate
<1>2. ASSUME NEW r \in Payments, CommitsMoney(r)
      PROVE  /\ seen[r].id \in CampaignIds
             /\ \A c \in CampaignIds : campaigns'[c].raised =
                  IF c = seen[r].id THEN campaigns[c].raised + AmountOf[r]
                                    ELSE campaigns[c].raised
  <2>1. /\ campaigns' = SetRaised(r) /\ seen[r].id \in CampaignIds
        /\ seen[r].raised = campaigns[seen[r].id].raised
    BY <1>2 DEF CommitsMoney, UpToDate, Working
  <2> QED  BY <2>1 DEF SetRaised, RaisedBy, TypeInv, TypeOK
<1> QED  BY <1>1, <1>2, MoneyMoves DEF TypeInv

\* What holds with one worker.
OneWorkerInv == TypeInv /\ Lives /\ OnePerWorker /\ UpToDate

\* The invariant of one worker is inductive.
LEMMA OneWorkerInductive ==
  ASSUME NEW w, Workers = {w}
  PROVE  /\ Init => OneWorkerInv
         /\ OneWorkerInv /\ [Next]_vars => OneWorkerInv'
<1>1. Init => OnePerWorker /\ UpToDate
  BY DEF Init, InitStore, OnePerWorker, UpToDate, InFlight, Ended, Working, Requests
<1>2. OneWorkerInv /\ [Next]_vars => OneWorkerInv'
  BY TypeStep, LivesInductive, OnePerWorkerStep, UpToDateStep DEF OneWorkerInv, TypeInv
<1> QED  BY <1>1, <1>2, TypeInit, LivesInductive DEF OneWorkerInv

\* The reconciliation identity (RaisedIsLedger) holds with one worker, for any
\* requests: the object a payment has loaded is the row until it commits.
THEOREM OneWorkerReconciles ==
  ASSUME NEW w, Workers = {w}  PROVE Spec => []RaisedIsLedger
<1> DEFINE IInv == OneWorkerInv /\ Summable /\ RaisedIsLedger
<1>1. Init => IInv
  <2>1. Init => \A c \in CampaignIds : campaigns[c].raised = 0
    BY DEF Init, InitStore
  <2> QED  BY <2>1, OneWorkerInductive, EmptyLedger DEF RaisedIsLedger
<1>2. ASSUME IInv, [Next]_vars  PROVE IInv'
  <2>1. OneWorkerInv'
    BY <1>2, OneWorkerInductive
  <2> USE DEF OneWorkerInv
  <2>2. CASE /\ UNCHANGED <<donations, ledger>>
             /\ \A c \in CampaignIds : campaigns'[c].raised = campaigns[c].raised
    <3>1. Summable' /\ \A c : TotalCredited(c)' = TotalCredited(c)
      BY <1>2, <2>2, OthersAddNothing
    <3> QED  BY <1>2, <2>1, <2>2, <3>1 DEF RaisedIsLedger
  <2>3. ASSUME NEW r \in Payments, CommitsMoney(r),
               \A c \in CampaignIds : campaigns'[c].raised =
                 IF c = seen[r].id THEN campaigns[c].raised + AmountOf[r]
                                   ELSE campaigns[c].raised
        PROVE  Summable' /\ RaisedIsLedger'
    <3>1. /\ Summable' /\ AmountOf[r] \in Nat
          /\ \A c : TotalCredited(c) \in Nat
          /\ \A c : TotalCredited(c)' =
                TotalCredited(c) + (IF c = seen[r].id THEN AmountOf[r] ELSE 0)
      BY <1>2, <2>3, CommitAdds, TotalIsNatural, PayloadAssumption
    <3> QED  BY <1>2, <2>3, <3>1 DEF RaisedIsLedger
  <2> QED  BY <1>2, <2>1, <2>2, <2>3, BooksMove
<1>3. IInv => RaisedIsLedger
  OBVIOUS
<1> QED  BY <1>1, <1>2, <1>3, PTL DEF Spec

\* With one worker the services implement FundBook (BookSpec): the commit of a
\* payment credits its reference for the first time and adds its amount to the
\* total of its campaign, and no other step changes the book or a total.
THEOREM OneWorkerKeepsBook ==
  ASSUME NEW w, Workers = {w}  PROVE Spec => BookSpec
<1> DEFINE IInv == OneWorkerInv /\ Reserved /\ ExactlyOnce
           total == [c \in CampaignIds |-> campaigns[c].raised]
<1>1. Init => IInv /\ Book!Init
  <2>1. Init => Reserved /\ ExactlyOnce
    BY DEF Init, InitStore, Reserved, ExactlyOnce, Flushed, Requests
  <2>2. Init => Book!Init
    BY DEF Init, InitStore, Book!Init
  <2> QED  BY <2>1, <2>2, OneWorkerInductive
<1>2. ASSUME IInv, [Next]_vars  PROVE IInv' /\ [Book!Next]_<<donations, total>>
  <2>1. IInv'
    BY <1>2, OneWorkerInductive, NextMoves, ReservedStep DEF OneWorkerInv, TypeInv
  <2>2. CASE /\ UNCHANGED <<donations, ledger>>
             /\ \A c \in CampaignIds : campaigns'[c].raised = campaigns[c].raised
    BY <2>1, <2>2
  <2>3. ASSUME NEW r \in Payments, CommitsMoney(r), seen[r].id \in CampaignIds,
               \A c \in CampaignIds : campaigns'[c].raised =
                 IF c = seen[r].id THEN campaigns[c].raised + AmountOf[r]
                                   ELSE campaigns[c].raised
        PROVE  Book!Next
    <3> DEFINE rows == {[id |-> q, campaign |-> c, amount |-> AmountOf[q],
                         bank_ref |-> RefOf[q]] : q \in Payments, c \in CampaignIds}
    <3>0. DonationRow(r) \in rows
      BY <2>3 DEF DonationRow
    <3>1. PICK d \in rows : d = DonationRow(r)
      <4> HIDE DEF rows
      <4> QED  BY <3>0
    <3>2. d.campaign = seen[r].id /\ d.amount = AmountOf[r] /\ d.bank_ref = RefOf[r]
      BY <3>1 DEF DonationRow
    <3>3. \A e \in donations : e.bank_ref # d.bank_ref
      BY <1>2, <2>3, <3>2 DEF CommitsMoney, Flushed, Reserved, RefTaken
    <3>4. donations' = donations \cup {d}
      BY <2>3, <3>1 DEF CommitsMoney
    <3>5. total' = [total EXCEPT ![d.campaign] = @ + d.amount]
      BY <2>3, <3>2
    <3>6. Book!Record(d)
      BY <3>3, <3>4, <3>5 DEF Book!Record
    <3> QED  BY <3>1, <3>6 DEF Book!Next
  <2> QED  BY <1>2, <2>1, <2>2, <2>3, BooksMove DEF OneWorkerInv
<1> QED  BY <1>1, <1>2, PTL DEF Spec, BookSpec, Book!Spec
=============================================================================
