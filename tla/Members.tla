------------------------------ MODULE Members ------------------------------
(***************************************************************************)
(* auth/service.py: register_user, and donations/service.py:               *)
(* get_or_create_receipt.  Both look a row up, insert it when there is     *)
(* none, and meet the request that has inserted it meanwhile at a UNIQUE   *)
(* constraint.  The routes run in threads: each statement is a step.       *)
(***************************************************************************)
EXTENDS Naturals

CONSTANTS
  RegisterReqs, \* POST /auth/register
  ReceiptReqs,  \* GET /receipts/{donation_id}
  EmailOf,      \* normalised e-mail of a registration
  RoleOf,       \* role a registration asks for
  CallerOf,     \* registration of the user who asks for a receipt
  DonationOf,   \* donation a receipt is asked for
  Donations,    \* donations that are made
  MemberOf,     \* registration of the member of a donation, or NoMember
  NoMember,
  MemberFaults  \* what may go wrong: a subset of {"crash", "database"}

Requests == RegisterReqs \cup ReceiptReqs
Roles    == {"donor", "finance", "admin"}

ASSUME MembersAssumption ==
  /\ RegisterReqs \cap ReceiptReqs = {}
  /\ RoleOf \in [RegisterReqs -> Roles]
  /\ CallerOf \in [ReceiptReqs -> RegisterReqs]
  /\ DOMAIN EmailOf = RegisterReqs /\ DOMAIN DonationOf = ReceiptReqs
  /\ MemberOf \in [Donations -> RegisterReqs \cup {NoMember}]
  /\ NoMember \notin RegisterReqs

VARIABLES
  users,     \* table: set of users; id is the registration that made them
  members,   \* table: registrations that have a member profile
  receipts,  \* table: set of receipts; id is the request that issued them
  auditLog,  \* the USER_REGISTERED rows, by registration
  stmt,      \* the statement a request has reached
  answer     \* the answer sent

rows       == <<users, members, receipts, auditLog>>
memberVars == <<rows, stmt, answer>>

NoReceipt == [id |-> "none", donation |-> "none", number |-> "none"]
NotSent   == [code |-> "none", receipt |-> NoReceipt]

Init ==
  /\ users = {} /\ members = {} /\ receipts = {} /\ auditLog = {}
  /\ stmt = [r \in Requests |-> "idle"]
  /\ answer = [r \in Requests |-> NotSent]

InFlight(r) == stmt[r] \notin {"idle", "done", "lost"}
Registered(r) == \E u \in users : u.id = r

Goto(r, label) == stmt' = [stmt EXCEPT ![r] = label] /\ UNCHANGED answer
Reply(r, code, receipt) ==
  /\ stmt' = [stmt EXCEPT ![r] = "done"]
  /\ answer' = [answer EXCEPT ![r] = [code |-> code, receipt |-> receipt]]

-----------------------------------------------------------------------------
(* register_user *)

\* UNIQUE(users.email): an INSERT waits for the transaction that has inserted
\* the same e-mail, and fails when it is committed.
EmailHeld(r) ==
  \E q \in RegisterReqs \ {r} : stmt[q] = "profile" /\ EmailOf[q] = EmailOf[r]
EmailTaken(r) == \E u \in users : u.email = EmailOf[r]

UserRow(r) == [id |-> r, email |-> EmailOf[r], role |-> RoleOf[r]]

StartRegister(r) ==
  /\ r \in RegisterReqs /\ stmt[r] = "idle"
  /\ Goto(r, "email")
  /\ UNCHANGED rows

CheckEmail(r) ==
  /\ stmt[r] = "email"
  /\ IF EmailTaken(r) THEN Reply(r, "email_exists", NoReceipt) ELSE Goto(r, "user")
  /\ UNCHANGED rows

\* The INSERT of the user, on its own, in the transaction of nothing else.
UserOutsideTxn(r) ==                                      \* mutant
  /\ stmt[r] = "user" /\ ~EmailHeld(r) /\ ~EmailTaken(r)
  /\ users' = users \cup {UserRow(r)}
  /\ Goto(r, "profile")
  /\ UNCHANGED <<members, receipts, auditLog>>

\* No handler turns this IntegrityError into a 409: it is raised again, a 500.
InsertUser(r) ==
  /\ stmt[r] = "user" /\ ~EmailHeld(r)
  /\ IF EmailTaken(r) THEN Reply(r, "error", NoReceipt) ELSE Goto(r, "profile")
  /\ UNCHANGED rows

\* INSERT members for a donor, INSERT audit_log, COMMIT.
CommitUser(r) ==
  /\ stmt[r] = "profile"
  /\ users' = users \cup {UserRow(r)}
  /\ members' = members \cup (IF RoleOf[r] = "donor" THEN {r} ELSE {})
  /\ auditLog' = auditLog \cup {r}
  /\ Goto(r, "refresh")
  /\ UNCHANGED receipts

RefreshUser(r) ==
  /\ stmt[r] = "refresh"
  /\ Reply(r, "created", NoReceipt)
  /\ UNCHANGED rows

Register(r) ==
  /\ r \in RegisterReqs
  /\ CheckEmail(r) \/ InsertUser(r) \/ CommitUser(r) \/ RefreshUser(r)

-----------------------------------------------------------------------------
(* get_or_create_receipt *)

Donor(r) == RoleOf[CallerOf[r]] = "donor"

\* The token names a user of the table (core/deps.py).
StartReceipt(r) ==
  /\ r \in ReceiptReqs /\ stmt[r] = "idle"
  /\ Registered(CallerOf[r])
  /\ Goto(r, "donation")
  /\ UNCHANGED rows

\* A donation of a member is made after the member exists (donations.member_id).
AnyDonation(d) == TRUE                                    \* mutant
Made(d) == d \in Donations /\ MemberOf[d] \in members \cup {NoMember}

GetDonation(r) ==
  /\ stmt[r] = "donation"
  /\ IF ~Made(DonationOf[r]) THEN Reply(r, "not_found", NoReceipt)
     ELSE Goto(r, IF Donor(r) THEN "owner" ELSE "receipt")
  /\ UNCHANGED rows

\* A donor sees the receipts of donations made in their own name.
Owns(r) == CallerOf[r] \in members /\ MemberOf[DonationOf[r]] = CallerOf[r]

CheckOwner(r) ==
  /\ stmt[r] = "owner"
  /\ IF Owns(r) THEN Goto(r, "receipt") ELSE Reply(r, "forbidden", NoReceipt)
  /\ UNCHANGED rows

Issued(d) == {x \in receipts : x.donation = d}

FindReceipt(r) ==
  /\ stmt[r] = "receipt"
  /\ IF Issued(DonationOf[r]) # {}
       THEN \E x \in Issued(DonationOf[r]) : Reply(r, "receipt", x)
       ELSE Goto(r, "insert")
  /\ UNCHANGED rows

\* The number is made of the donation's id and time: one per donation.
ReceiptRow(r) == [id |-> r, donation |-> DonationOf[r], number |-> DonationOf[r]]

\* INSERT receipts, COMMIT.  UNIQUE(donation_id) is met by whoever comes second:
\* rollback, and the winner's receipt is read.
NoUniqueReceipt(r) == FALSE                               \* mutant
ReceiptTaken(r) == Issued(DonationOf[r]) # {}

NoRefetch(r) ==                                           \* mutant
  /\ stmt[r] = "insert" /\ ReceiptTaken(r)
  /\ Reply(r, "error", NoReceipt)
  /\ UNCHANGED rows
LoseRace(r) ==
  /\ stmt[r] = "insert" /\ ReceiptTaken(r)
  /\ Goto(r, "refetch")
  /\ UNCHANGED rows

IssueReceipt(r) ==
  /\ stmt[r] = "insert" /\ ~ReceiptTaken(r)
  /\ receipts' = receipts \cup {ReceiptRow(r)}
  /\ Goto(r, "refresh")
  /\ UNCHANGED <<users, members, auditLog>>

RefetchReceipt(r) ==
  /\ stmt[r] = "refetch"
  /\ IF ReceiptTaken(r)
       THEN \E x \in Issued(DonationOf[r]) : Reply(r, "receipt", x)
       ELSE Reply(r, "error", NoReceipt)
  /\ UNCHANGED rows

RefreshReceipt(r) ==
  /\ stmt[r] = "refresh"
  /\ Reply(r, "receipt", ReceiptRow(r))
  /\ UNCHANGED rows

GetReceipt(r) ==
  /\ r \in ReceiptReqs
  /\ \/ GetDonation(r) \/ CheckOwner(r) \/ FindReceipt(r) \/ IssueReceipt(r)
     \/ LoseRace(r) \/ RefetchReceipt(r) \/ RefreshReceipt(r)

-----------------------------------------------------------------------------
\* A statement fails for a reason of its own: rollback, 500.
StatementFails(r) ==
  /\ "database" \in MemberFaults /\ InFlight(r)
  /\ Reply(r, "failed", NoReceipt)
  /\ UNCHANGED rows

\* The process dies: open transactions are rolled back, nobody is answered.
ProcessDies ==
  /\ "crash" \in MemberFaults /\ \E r \in Requests : InFlight(r)
  /\ stmt' = [r \in Requests |-> IF InFlight(r) THEN "lost" ELSE stmt[r]]
  /\ UNCHANGED <<rows, answer>>

\* Every request has ended, or is of a user who never comes to exist.
Settled ==
  /\ \A r \in Requests :
       \/ stmt[r] \in {"done", "lost"}
       \/ r \in ReceiptReqs /\ ~Registered(CallerOf[r])
  /\ UNCHANGED memberVars

Step(r) == Register(r) \/ GetReceipt(r)

Next ==
  \/ \E r \in Requests :
       StartRegister(r) \/ StartReceipt(r) \/ Step(r) \/ StatementFails(r)
  \/ ProcessDies
  \/ Settled

Spec == Init /\ [][Next]_memberVars /\ \A r \in Requests : WF_memberVars(Step(r))

-----------------------------------------------------------------------------
Statements == {"idle", "email", "user", "profile", "refresh", "donation", "owner",
               "receipt", "insert", "refetch", "done", "lost"}
AnswerCodes == {"none", "email_exists", "created", "error", "failed", "not_found",
                "forbidden", "receipt"}
ReceiptRows == {ReceiptRow(r) : r \in ReceiptReqs}

\* Shape of the tables and of the requests (models.py of auth and donations);
\* a receipt is of a donation of the table.
MembersTypeOK ==
  /\ users \subseteq {UserRow(r) : r \in RegisterReqs}
  /\ members \subseteq RegisterReqs /\ auditLog \subseteq RegisterReqs
  /\ receipts \subseteq ReceiptRows
  /\ \A x \in receipts : x.donation \in Donations
  /\ stmt \in [Requests -> Statements]
  /\ answer \in [Requests -> [code : AnswerCodes, receipt : ReceiptRows \cup {NoReceipt}]]

\* One account per e-mail, and what belongs to an account is there whenever the
\* account is: its audit row, and a member profile exactly for a donor
\* (register_user, one transaction), whichever of two registrations comes first
\* and wherever one dies.
AccountsAreWhole ==
  /\ \A t, u \in users : t.email = u.email => t = u
  /\ auditLog = {u.id : u \in users}
  /\ members = {u.id : u \in {v \in users : v.role = "donor"}}

\* "Requesting a receipt twice returns the exact same number"
\* (donations/service.py:167): all who are shown a receipt of a donation are shown
\* one, the one in the table, also those who ask at the same moment.
OneReceipt ==
  /\ \A x, y \in receipts : x.donation = y.donation => x = y
  /\ \A r \in ReceiptReqs : answer[r].code = "receipt" =>
       answer[r].receipt \in receipts /\ answer[r].receipt.donation = DonationOf[r]

\* Whoever loses the race for a receipt is given the winner's: the clash itself
\* never ends in a 500 (donations/service.py:207-214).
LoserIsServed == \A r \in ReceiptReqs : answer[r].code # "error"
=============================================================================
