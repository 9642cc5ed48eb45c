--------------------------- MODULE Members_proofs ---------------------------
(***************************************************************************)
(* Theorems about Members for every set of registrations and receipt       *)
(* requests, whatever they ask for.                                        *)
(***************************************************************************)
EXTENDS Members, TLAPS

\* A request that is past the lookup of the donation found it.
DonationIsThere ==
  \A r \in ReceiptReqs :
    stmt[r] \in {"owner", "receipt", "insert", "refetch", "refresh"} =>
      DonationOf[r] \in Donations

\* A request that has committed a receipt finds it again.
IssuedIsKept ==
  \A r \in ReceiptReqs : stmt[r] = "refresh" => ReceiptRow(r) \in receipts

\* The uncommitted INSERT of a user holds its e-mail: no account has it, and no
\* other transaction.
EmailIsHeld ==
  \A r \in RegisterReqs : stmt[r] = "profile" => ~EmailTaken(r) /\ ~EmailHeld(r)

MemberInv ==
  /\ MembersTypeOK /\ DonationIsThere /\ IssuedIsKept /\ EmailIsHeld
  /\ AccountsAreWhole /\ OneReceipt

\* Without accounts and receipts all of it holds.
LEMMA MemberInit == Init => MemberInv
  BY MembersAssumption
  DEF Init, MemberInv, MembersTypeOK, DonationIsThere, IssuedIsKept, EmailIsHeld,
      AccountsAreWhole, OneReceipt, NotSent, NoReceipt, AnswerCodes, Statements,
      Requests

\* A request moves on to a statement that holds nothing.
LEMMA GotoKeeps ==
  ASSUME MemberInv, NEW r \in Requests, NEW label \in Statements \ {"profile"},
         Goto(r, label), UNCHANGED rows,
         r \in ReceiptReqs => label # "refresh",
         r \in ReceiptReqs /\ label \in {"owner", "receipt", "insert", "refetch"} =>
           DonationOf[r] \in Donations
  PROVE  MemberInv'
<1> USE DEF MemberInv, Goto, rows
<1>1. MembersTypeOK'  BY DEF MembersTypeOK
<1>2. DonationIsThere'
  BY DEF MembersTypeOK, DonationIsThere, Requests
<1>3. IssuedIsKept'
  BY DEF MembersTypeOK, IssuedIsKept, Requests
<1>4. EmailIsHeld'
  BY DEF MembersTypeOK, EmailIsHeld, EmailTaken, EmailHeld, Requests
<1>5. AccountsAreWhole' /\ OneReceipt'
  BY DEF AccountsAreWhole, OneReceipt
<1> QED  BY <1>1, <1>2, <1>3, <1>4, <1>5

\* A request is answered; a receipt it is shown is its donation's, in the table.
LEMMA ReplyKeeps ==
  ASSUME MemberInv, NEW r \in Requests, NEW code \in AnswerCodes, NEW x,
         Reply(r, code, x), UNCHANGED rows,
         x = NoReceipt \/ x \in receipts,
         code = "receipt" => x \in receipts /\ x.donation = DonationOf[r]
  PROVE  MemberInv'
<1> USE DEF MemberInv, Reply, rows
<1>1. MembersTypeOK'  BY DEF MembersTypeOK, Statements
<1>2. DonationIsThere'
  BY DEF MembersTypeOK, DonationIsThere, Requests
<1>3. IssuedIsKept'
  BY DEF MembersTypeOK, IssuedIsKept, Requests
<1>4. EmailIsHeld'
  BY DEF MembersTypeOK, EmailIsHeld, EmailTaken, EmailHeld, Requests
<1>5. AccountsAreWhole'  BY DEF AccountsAreWhole
<1>6. OneReceipt'
  BY DEF MembersTypeOK, OneReceipt, Requests
<1> QED  BY <1>1, <1>2, <1>3, <1>4, <1>5, <1>6

\* The INSERT of an account waits for a holder of its e-mail and fails on a row.
LEMMA InsertKeeps ==
  ASSUME MemberInv, NEW r \in RegisterReqs, InsertUser(r)
  PROVE  MemberInv'
<1> USE DEF MemberInv
<1>1. CASE EmailTaken(r)
  BY <1>1, ReplyKeeps DEF InsertUser, AnswerCodes, Requests
<1>2. CASE ~EmailTaken(r)
  <2> USE <1>2 DEF InsertUser, Goto, rows
  <2>1. MembersTypeOK'  BY DEF MembersTypeOK, Statements
  <2>2. DonationIsThere' /\ IssuedIsKept'
    BY MembersAssumption
    DEF MembersTypeOK, DonationIsThere, IssuedIsKept, Requests
  <2>3. EmailIsHeld'
    BY DEF MembersTypeOK, EmailIsHeld, EmailTaken, EmailHeld, Requests
  <2>4. AccountsAreWhole' /\ OneReceipt'
    BY DEF AccountsAreWhole, OneReceipt
  <2> QED  BY <2>1, <2>2, <2>3, <2>4
<1> QED  BY <1>1, <1>2

\* The new account has an e-mail that no other has: it held it since its INSERT.
LEMMA CommitUserKeeps ==
  ASSUME MemberInv, NEW r \in RegisterReqs, CommitUser(r)
  PROVE  MemberInv'
<1> USE DEF MemberInv, CommitUser, Goto
<1>1. MembersTypeOK'  BY DEF MembersTypeOK, Statements
<1>2. DonationIsThere' /\ IssuedIsKept'
  BY MembersAssumption
  DEF MembersTypeOK, DonationIsThere, IssuedIsKept, Requests
<1>3. EmailIsHeld'
  BY DEF MembersTypeOK, EmailIsHeld, EmailTaken, EmailHeld, UserRow, Requests
<1>4. AccountsAreWhole'
  <2>1. \A t, u \in users' : t.email = u.email => t = u
    BY DEF EmailIsHeld, EmailTaken, UserRow, AccountsAreWhole
  <2> DEFINE row == UserRow(r)
             ids(U) == {u.id : u \in U}
             donors(U) == {u \in U : u.role = "donor"}
  <2>2. row.id = r /\ row.role = RoleOf[r]  BY DEF UserRow
  <2>3. users' = users \cup {row} /\ auditLog = ids(users) /\ members = ids(donors(users))
    BY DEF AccountsAreWhole
  <2> HIDE DEF row
  <2>4. auditLog' = ids(users')
    <3>1. ids(users \cup {row}) = ids(users) \cup {row.id}  OBVIOUS
    <3> QED  BY <3>1, <2>2, <2>3
  <2>5. members' = ids(donors(users'))
    <3>1. CASE RoleOf[r] = "donor"
      <4>1. donors(users') = donors(users) \cup {row}  BY <3>1, <2>2, <2>3
      <4>2. ids(donors(users) \cup {row}) = ids(donors(users)) \cup {row.id}
        OBVIOUS
      <4> QED  BY <3>1, <4>1, <4>2, <2>2, <2>3
    <3>2. CASE RoleOf[r] # "donor"
      <4>1. donors(users') = donors(users)  BY <3>2, <2>2, <2>3
      <4> QED  BY <3>2, <4>1, <2>3
    <3> QED  BY <3>1, <3>2
  <2> QED  BY <2>1, <2>4, <2>5 DEF AccountsAreWhole
<1>5. OneReceipt'  BY DEF OneReceipt
<1> QED  BY <1>1, <1>2, <1>3, <1>4, <1>5

\* The new receipt is the first one of its donation.
LEMMA IssueKeeps ==
  ASSUME MemberInv, NEW r \in ReceiptReqs, IssueReceipt(r)
  PROVE  MemberInv'
<1> USE DEF MemberInv, IssueReceipt, Goto
<1>1. MembersTypeOK'
  <2>1. ReceiptRow(r) \in ReceiptRows  BY DEF ReceiptRows
  <2>2. ReceiptRow(r).donation \in Donations
    BY DEF ReceiptRow, DonationIsThere
  <2> QED  BY <2>1, <2>2 DEF MembersTypeOK, Statements
<1>2. DonationIsThere'
  BY DEF MembersTypeOK, DonationIsThere, Requests
<1>3. IssuedIsKept'
  BY DEF MembersTypeOK, IssuedIsKept, Requests
<1>4. EmailIsHeld'
  BY MembersAssumption
  DEF MembersTypeOK, EmailIsHeld, EmailTaken, EmailHeld, Requests
<1>5. AccountsAreWhole'  BY DEF AccountsAreWhole
<1>6. OneReceipt'
  BY DEF OneReceipt, ReceiptTaken, Issued, ReceiptRow
<1> QED  BY <1>1, <1>2, <1>3, <1>4, <1>5, <1>6

\* Registration keeps the invariant.
LEMMA RegisterKeeps ==
  ASSUME MemberInv, NEW r \in Requests, StartRegister(r) \/ Register(r)
  PROVE  MemberInv'
<1> USE MembersAssumption DEF Requests
<1>1. CASE StartRegister(r)
  BY <1>1, GotoKeeps DEF StartRegister, Statements
<1>2. CASE Register(r) /\ CheckEmail(r)
  <2>1. r \in RegisterReqs /\ r \notin ReceiptReqs  BY <1>2 DEF Register
  <2>2. CASE EmailTaken(r)
    BY <1>2, <2>1, <2>2, ReplyKeeps DEF CheckEmail, AnswerCodes
  <2>3. CASE ~EmailTaken(r)
    BY <1>2, <2>1, <2>3, GotoKeeps DEF CheckEmail, Statements
  <2> QED  BY <2>2, <2>3
<1>3. CASE Register(r) /\ InsertUser(r)
  BY <1>3, InsertKeeps DEF Register
<1>4. CASE Register(r) /\ CommitUser(r)
  BY <1>4, CommitUserKeeps DEF Register
<1>5. CASE Register(r) /\ RefreshUser(r)
  BY <1>5, ReplyKeeps DEF RefreshUser, AnswerCodes
<1> QED  BY <1>1, <1>2, <1>3, <1>4, <1>5 DEF Register

\* Issuing a receipt keeps the invariant.
LEMMA ReceiptKeeps ==
  ASSUME MemberInv, NEW r \in Requests, StartReceipt(r) \/ GetReceipt(r)
  PROVE  MemberInv'
<1>1. CASE StartReceipt(r)
  BY <1>1, GotoKeeps DEF StartReceipt, Statements
<1>2. CASE GetReceipt(r)
  <2>1. r \in ReceiptReqs  BY <1>2 DEF GetReceipt
  <2>2. stmt[r] \in {"owner", "receipt", "insert", "refetch", "refresh"} =>
          DonationOf[r] \in Donations
    BY <2>1 DEF MemberInv, DonationIsThere
  <2>3. CASE GetDonation(r)
    <3>1. CASE Made(DonationOf[r])
      BY <3>1, <2>1, <2>3, GotoKeeps DEF GetDonation, Made, Statements
    <3>2. CASE ~Made(DonationOf[r])
      BY <3>2, <2>3, ReplyKeeps DEF GetDonation, AnswerCodes
    <3> QED  BY <3>1, <3>2
  <2>4. CASE CheckOwner(r)
    <3>1. CASE Owns(r)
      BY <3>1, <2>2, <2>4, GotoKeeps DEF CheckOwner, Statements
    <3>2. CASE ~Owns(r)
      BY <3>2, <2>4, ReplyKeeps DEF CheckOwner, AnswerCodes
    <3> QED  BY <3>1, <3>2
  <2>5. CASE FindReceipt(r)
    <3>1. CASE Issued(DonationOf[r]) = {}
      BY <3>1, <2>2, <2>5, GotoKeeps DEF FindReceipt, Statements
    <3>2. CASE Issued(DonationOf[r]) # {}
      BY <3>2, <2>5, ReplyKeeps DEF FindReceipt, Issued, AnswerCodes
    <3> QED  BY <3>1, <3>2
  <2>6. CASE IssueReceipt(r)
    BY <2>1, <2>6, IssueKeeps
  <2>7. CASE LoseRace(r)
    BY <2>2, <2>7, GotoKeeps DEF LoseRace, Statements
  <2>8. CASE RefetchReceipt(r)
    <3>1. CASE ReceiptTaken(r)
      BY <3>1, <2>8, ReplyKeeps DEF RefetchReceipt, Issued, AnswerCodes
    <3>2. CASE ~ReceiptTaken(r)
      BY <3>2, <2>8, ReplyKeeps DEF RefetchReceipt, AnswerCodes
    <3> QED  BY <3>1, <3>2
  <2>9. CASE RefreshReceipt(r)
    <3>1. ReceiptRow(r) \in receipts
      BY <2>1, <2>9 DEF RefreshReceipt, MemberInv, IssuedIsKept
    <3>2. ReceiptRow(r).donation = DonationOf[r]  BY DEF ReceiptRow
    <3> QED  BY <3>1, <3>2, <2>9, ReplyKeeps DEF RefreshReceipt, AnswerCodes
  <2> QED  BY <1>2, <2>3, <2>4, <2>5, <2>6, <2>7, <2>8, <2>9 DEF GetReceipt
<1> QED  BY <1>1, <1>2

\* Every step of the component keeps the invariant.
LEMMA MemberNext == MemberInv /\ [Next]_memberVars => MemberInv'
<1> SUFFICES ASSUME MemberInv, [Next]_memberVars PROVE MemberInv'
  OBVIOUS
<1>1. ASSUME NEW r \in Requests, StartRegister(r) \/ Register(r) PROVE MemberInv'
  BY <1>1, RegisterKeeps
<1>2. ASSUME NEW r \in Requests, StartReceipt(r) \/ GetReceipt(r) PROVE MemberInv'
  BY <1>2, ReceiptKeeps
<1>3. ASSUME NEW r \in Requests, StatementFails(r) PROVE MemberInv'
  BY <1>3, ReplyKeeps DEF StatementFails, AnswerCodes
<1>4. CASE ProcessDies
  <2> USE <1>4 DEF ProcessDies, MemberInv, rows
  <2>1. MembersTypeOK'  BY DEF MembersTypeOK, Statements
  <2>2. DonationIsThere'
    BY DEF DonationIsThere, MembersTypeOK, Requests
  <2>3. IssuedIsKept'
    BY DEF IssuedIsKept, MembersTypeOK, Requests
  <2>4. EmailIsHeld'
    BY DEF EmailIsHeld, EmailTaken, EmailHeld, MembersTypeOK, Requests
  <2>5. AccountsAreWhole' /\ OneReceipt'
    BY DEF AccountsAreWhole, OneReceipt
  <2> QED  BY <2>1, <2>2, <2>3, <2>4, <2>5
<1>5. CASE UNCHANGED memberVars
  BY <1>5
  DEF memberVars, rows, MemberInv, MembersTypeOK, DonationIsThere, IssuedIsKept,
      EmailIsHeld, EmailTaken, EmailHeld, AccountsAreWhole, OneReceipt, Made
<1> QED  BY <1>1, <1>2, <1>3, <1>4, <1>5 DEF Next, Step, Settled

\* Every table and request of registrations and receipts keeps its shape.
THEOREM MembersTypeCorrect == Spec => []MembersTypeOK
<1>1. MemberInv => MembersTypeOK  BY DEF MemberInv
<1> QED  BY <1>1, MemberInit, MemberNext, PTL DEF Spec

\* An e-mail has one account, and an account its profile and audit row, however
\* many register it at once and wherever they fail (auth/service.py:32-67).
THEOREM WholeAccounts == Spec => []AccountsAreWhole
<1>1. MemberInv => AccountsAreWhole  BY DEF MemberInv
<1> QED  BY <1>1, MemberInit, MemberNext, PTL DEF Spec

\* A donation has one receipt, and all who are shown a receipt of it are shown
\* that one (donations/service.py:188-215).
THEOREM SameReceipt == Spec => []OneReceipt
<1>1. MemberInv => OneReceipt  BY DEF MemberInv
<1> QED  BY <1>1, MemberInit, MemberNext, PTL DEF Spec

\* A request that has met the constraint finds the receipt that beat it, so that
\* no request for a receipt ends in the 500 of a lost race
\* (donations/service.py:207-214).
THEOREM RaceIsServed == Spec => []LoserIsServed
<1> DEFINE Beaten == \A r \in ReceiptReqs : stmt[r] = "refetch" => ReceiptTaken(r)
           Served == LoserIsServed /\ Beaten
<1>1. Init => Served
  BY DEF Init, LoserIsServed, NotSent, Requests
<1>2. ASSUME MemberInv, Served, [Next]_memberVars  PROVE Served'
  <2> USE <1>2, MembersAssumption DEF MemberInv, MembersTypeOK
  <2>1. ASSUME NEW r \in Requests, NEW label \in Statements \ {"refetch"},
               Goto(r, label), receipts \subseteq receipts'
        PROVE  Served'
    BY <2>1 DEF Goto, LoserIsServed, ReceiptTaken, Issued, Requests
  <2>2. ASSUME NEW r \in Requests, NEW code, NEW x, Reply(r, code, x),
               receipts \subseteq receipts', r \in ReceiptReqs => code # "error"
        PROVE  Served'
    BY <2>2 DEF Reply, LoserIsServed, ReceiptTaken, Issued, Requests
  <2>3. ASSUME NEW r \in Requests, StartRegister(r) \/ StartReceipt(r)
        PROVE  Served'
    BY <2>1, <2>3 DEF StartRegister, StartReceipt, rows, Statements
  <2>4. ASSUME NEW r \in Requests, Register(r)  PROVE Served'
    <3>1. r \notin ReceiptReqs  BY <2>4 DEF Register
    <3>2. CASE CheckEmail(r)
      BY <2>1, <2>2, <3>1, <3>2 DEF CheckEmail, rows, Statements
    <3>3. CASE InsertUser(r)
      BY <2>1, <2>2, <3>1, <3>3 DEF InsertUser, rows, Statements
    <3>4. CASE CommitUser(r)
      BY <2>1, <3>4 DEF CommitUser, Statements
    <3>5. CASE RefreshUser(r)
      BY <2>2, <3>1, <3>5 DEF RefreshUser, rows
    <3> QED  BY <2>4, <3>2, <3>3, <3>4, <3>5 DEF Register
  <2>5. ASSUME NEW r \in Requests, GetReceipt(r)  PROVE Served'
    <3>1. CASE GetDonation(r)
      BY <2>1, <2>2, <3>1 DEF GetDonation, rows, Statements
    <3>2. CASE CheckOwner(r)
      BY <2>1, <2>2, <3>2 DEF CheckOwner, rows, Statements
    <3>3. CASE FindReceipt(r)
      BY <2>1, <2>2, <3>3 DEF FindReceipt, rows, Statements
    <3>4. CASE IssueReceipt(r)
      BY <2>1, <3>4 DEF IssueReceipt, Statements
    <3>5. CASE LoseRace(r)
      BY <3>5 DEF LoseRace, Goto, rows, LoserIsServed, ReceiptTaken, Issued, Requests
    <3>6. CASE RefetchReceipt(r)
      <4>1. ReceiptTaken(r)
        BY <2>5, <3>6 DEF RefetchReceipt, GetReceipt
      <4> QED  BY <2>2, <3>6, <4>1 DEF RefetchReceipt, rows
    <3>7. CASE RefreshReceipt(r)
      BY <2>2, <3>7 DEF RefreshReceipt, rows
    <3> QED
      BY <2>5, <3>1, <3>2, <3>3, <3>4, <3>5, <3>6, <3>7 DEF GetReceipt
  <2>6. ASSUME NEW r \in Requests, StatementFails(r)  PROVE Served'
    BY <2>2, <2>6 DEF StatementFails, rows
  <2>7. CASE ProcessDies
    BY <2>7 DEF ProcessDies, rows, LoserIsServed, ReceiptTaken, Issued, Requests
  <2>8. CASE UNCHANGED memberVars
    BY <2>8 DEF memberVars, rows, LoserIsServed, ReceiptTaken, Issued
  <2> QED
    BY <2>3, <2>4, <2>5, <2>6, <2>7, <2>8 DEF Next, Step, Settled
<1>3. MemberInv /\ Served /\ [Next]_memberVars => MemberInv' /\ Served'
  BY <1>2, MemberNext
<1>4. Served => LoserIsServed  OBVIOUS
<1> QED  BY <1>1, <1>3, <1>4, MemberInit, PTL DEF Spec
=============================================================================
