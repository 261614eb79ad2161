--------------------------- MODULE StaffInvitation ---------------------------
(***************************************************************************)
(* The staff invitation service (src/src/staff/staff.service.ts) and the   *)
(* database tables it writes: staff_invitations, users, staff and          *)
(* staff_departments.                                                      *)
(*                                                                         *)
(* Several gRPC requests are served at once by one Node.js process.  Each  *)
(* Prisma call is one atomic step of the database and every await lets the *)
(* other requests run, so a handler is a sequence of actions and what it   *)
(* read before an await may be stale when it writes.                       *)
(*                                                                         *)
(* Invitees are taken to exist for good: what other parts of the program   *)
(* do to users, deleting them included (module Onboarding), is left out.   *)
(*                                                                         *)
(* Assumed of the organization service, which is not in the repository: a  *)
(* success answer carries the company asked for.  Without it the code's    *)
(* company?.companyId would look for a staff row of any company, and       *)
(* create one for ''.                                                      *)
(***************************************************************************)
EXTENDS Integers, Functions

CONSTANTS
  Codes,        \* invitation codes the generator can return
  Emails,       \* lower-cased e-mail addresses
  Companies,    \* companies of the organization service
  Departments,  \* departments an invitation may name
  Phones,       \* phone numbers
  Outsider,     \* any user whom nobody invites
  Requests,     \* slots for requests in progress
  Lifetime,     \* the 4 hours an invitation lives, in clock ticks
  MaxTime,      \* BOUND: the clock stops here
  MaxBatch,     \* BOUND: invitations in one send request (two may be for one e-mail)
  None          \* null, for an optional column and an unused request field

ASSUME ConstantsAssumption ==
  /\ Lifetime \in Nat \ {0}
  /\ MaxTime \in Nat
  /\ MaxBatch \in Nat \ {0}
  /\ None \notin Codes \cup Emails \cup Companies \cup Departments \cup Phones
  /\ Outsider \notin Emails
  /\ None \notin [email : Emails, company : Companies]

VARIABLES
  now,      \* the clock
  inv,      \* staff_invitations: code -> row ("FREE" when there is none)
  users,    \* users, by their unique e-mail
  phoneOf,  \* the unique users.phone_number: number -> its user, or None
  staff,    \* staff rows; no row is ever removed by this service
  placed,   \* staff_departments rows, by the staff member's e-mail
  req       \* the local state of each request

dbVars == <<inv, users, phoneOf, staff, placed>>
vars == <<now, inv, users, phoneOf, staff, placed, req>>

-----------------------------------------------------------------------------
(* Rows and request states *)

Status == {"PENDING", "VIEWED", "ACCEPTED", "DECLINED", "EXPIRED", "DELETED"}
Departmental == Departments \cup {None}
Item == [slot : 1..MaxBatch, email : Emails, dept : Departmental]
Batches == {b \in SUBSET Item : \A i, j \in b : i.slot = j.slot => i = j}

Row == [status : Status \cup {"FREE"}, email : Emails \cup {None},
        company : Companies \cup {None}, dept : Departmental,
        expires : Nat, responded : BOOLEAN]
FreeRow == [status |-> "FREE", email |-> None, company |-> None,
            dept |-> None, expires |-> 0, responded |-> FALSE]
StaffRow == [email : Emails, company : Companies]

AcceptSteps == {"acc_expire", "acc_user", "acc_newuser", "acc_lookup",
                "acc_staff", "acc_dept", "acc_mark"}
SendSteps == {"send_reads", "send_staff", "send_pending", "send_create"}
CodeSteps == AcceptSteps \cup {"resend", "decline", "delete", "get_expire", "get_view"}

Request == [pc : {"idle", "conflict"} \cup SendSteps \cup CodeSteps,
            code : Codes \cup {None}, company : Companies \cup {None},
            batch : Batches, until : Nat, phone : Phones \cup {None}]
Idle == [pc |-> "idle", code |-> None, company |-> None,
         batch |-> {}, until |-> 0, phone |-> None]

Free(r) == req[r].pc \in {"idle", "conflict"}
Known(c) == inv[c].status # "FREE"

(* The next local state of a request. *)
Begin(r, c, step, until) ==
  req' = [req EXCEPT ![r] = [Idle EXCEPT !.pc = step, !.code = c, !.until = until]]
Goto(r, step) == req' = [req EXCEPT ![r].pc = step]
Finish(r) == req' = [req EXCEPT ![r] = Idle]

(* The invitation, and the staff row, the request r is about. *)
Invitation(r) == inv[req[r].code]
SetRow(r, row) == inv' = [inv EXCEPT ![req[r].code] = row]

(* new Date() against expires_at, with the two comparisons the code uses. *)
Overdue(row) == row.expires < now
ActivePending(row) == row.status = "PENDING" /\ row.expires > now

Init ==
  /\ now = 0
  /\ inv = [c \in Codes |-> FreeRow]
  /\ users \in SUBSET Emails
  /\ phoneOf \in [Phones -> users \cup {None, Outsider}]
  /\ \A p, q \in Phones : phoneOf[p] \in users /\ phoneOf[p] = phoneOf[q] => p = q
  /\ staff = {}
  /\ placed = {}
  /\ req = [r \in Requests |-> Idle]

-----------------------------------------------------------------------------
(* sendStaffInvitations *)

(* Company, branches, departments and roles were verified by the           *)
(* organization service; the batch holds the invitations that passed.      *)
(* A request none of whose invitations passed changes nothing.             *)
SendStart(r) ==
  /\ Free(r)
  /\ \E b \in Batches \ {{}} : \E co \in Companies :
       req' = [req EXCEPT ![r] = [Idle EXCEPT !.pc = "send_reads",
                                              !.batch = b, !.company = co]]
  /\ UNCHANGED <<now, dbVars>>

(* The loop over the batch runs once both lookups have answered: it drops  *)
(* what a lookup refuses and dates the rest.                               *)
Keep(r, batch, otherStep) ==
  req' = [req EXCEPT ![r] =
    IF req[r].pc = "send_reads"
    THEN [req[r] EXCEPT !.pc = otherStep, !.batch = batch]
    ELSE IF batch = {} THEN Idle
    ELSE [req[r] EXCEPT !.pc = "send_create", !.batch = batch,
                        !.until = now + Lifetime]]

(* The two lookups are queries in flight together: either may come first.  *)
SendReadPending(r) ==
  /\ req[r].pc \in {"send_reads", "send_pending"}
  /\ LET unasked(item) == ~ \E c \in Codes :
                              /\ ActivePending(inv[c])
                              /\ inv[c].email = item.email
                              /\ inv[c].company = req[r].company
     IN  Keep(r, {item \in req[r].batch : unasked(item)}, "send_staff")
  /\ UNCHANGED <<now, dbVars>>

SendReadStaff(r) ==
  /\ req[r].pc \in {"send_reads", "send_staff"}
  /\ LET outsider(item) == [email |-> item.email, company |-> req[r].company] \notin staff
     IN  Keep(r, {item \in req[r].batch : outsider(item)}, "send_pending")
  /\ UNCHANGED <<now, dbVars>>

(* One transaction creates every row; invitation_code is unique.  The      *)
(* e-mails sent afterwards change nothing, whether they arrive or not.     *)
NewRow(item, company, until) ==
  [status |-> "PENDING", email |-> item.email, company |-> company,
   dept |-> item.dept, expires |-> until, responded |-> FALSE]

SendCreate(r) ==
  /\ req[r].pc = "send_create"
  /\ \E cs \in SUBSET {c \in Codes : ~Known(c)} :
     \E place \in Bijection(cs, req[r].batch) :
       inv' = [c \in Codes |->
                 IF c \in cs
                 THEN NewRow(place[c], req[r].company, req[r].until)
                 ELSE inv[c]]
  /\ Finish(r)
  /\ UNCHANGED <<now, users, phoneOf, staff, placed>>

-----------------------------------------------------------------------------
(* resendStaffInvitation *)

ResendRead(r, c) ==
  /\ Free(r)
  /\ inv[c].status \notin {"FREE", "ACCEPTED", "DECLINED"}
  /\ ~ActivePending(inv[c])
  /\ Begin(r, c, "resend", now + Lifetime)
  /\ UNCHANGED <<now, dbVars>>

(* Mutation: the old response timestamp is kept. *)
ResendWriteKept(r) ==
  /\ req[r].pc = "resend"
  /\ SetRow(r, [Invitation(r) EXCEPT !.status = "PENDING", !.expires = req[r].until])
  /\ Finish(r)
  /\ UNCHANGED <<now, users, phoneOf, staff, placed>>

(* The company lookup and the e-mail come after the update: their failure  *)
(* is reported to the caller but undoes nothing.                           *)
ResendWrite(r) ==
  /\ req[r].pc = "resend"
  /\ SetRow(r, [Invitation(r) EXCEPT !.status = "PENDING", !.expires = req[r].until,
                               !.responded = FALSE])
  /\ Finish(r)
  /\ UNCHANGED <<now, users, phoneOf, staff, placed>>

-----------------------------------------------------------------------------
(* acceptInvitation *)

AcceptRead(r, c) ==
  /\ Free(r)
  /\ inv[c].status \notin {"FREE", "DELETED", "ACCEPTED", "DECLINED"}
  /\ Begin(r, c, IF Overdue(inv[c]) THEN "acc_expire" ELSE "acc_user", 0)
  /\ UNCHANGED <<now, dbVars>>

AcceptExpire(r) ==
  /\ req[r].pc = "acc_expire"
  /\ SetRow(r, [Invitation(r) EXCEPT !.status = "EXPIRED"])
  /\ Finish(r)
  /\ UNCHANGED <<now, users, phoneOf, staff, placed>>

(* Mutations: a known user is taken for a staff member; a known user's     *)
(* staff row is not looked for.                                            *)
AcceptFindUserTrusting(r) ==
  /\ req[r].pc = "acc_user"
  /\ Goto(r, IF Invitation(r).email \in users THEN "acc_mark" ELSE "acc_newuser")
  /\ UNCHANGED <<now, dbVars>>
AcceptFindUserOnly(r) ==
  /\ req[r].pc = "acc_user"
  /\ Goto(r, IF Invitation(r).email \in users THEN "acc_staff" ELSE "acc_newuser")
  /\ UNCHANGED <<now, dbVars>>

AcceptFindUser(r) ==
  /\ req[r].pc = "acc_user"
  /\ Goto(r, IF Invitation(r).email \in users THEN "acc_lookup" ELSE "acc_newuser")
  /\ UNCHANGED <<now, dbVars>>

(* users.email and users.phone_number are unique; the phone number is the  *)
(* request's, and optional.  A refused request keeps it for the property.  *)
(* The address service is called after the insert; its failure is Fail.    *)
AcceptCreateUser(r) ==
  /\ req[r].pc = "acc_newuser"
  /\ \E phone \in Phones \cup {None} :
       IF Invitation(r).email \in users \/ (phone # None /\ phoneOf[phone] # None)
       THEN /\ req' = [req EXCEPT ![r].pc = "conflict", ![r].phone = phone]
            /\ UNCHANGED <<users, phoneOf>>
       ELSE /\ Goto(r, "acc_staff")
            /\ users' = users \cup {Invitation(r).email}
            /\ phoneOf' = [p \in Phones |-> IF p = phone THEN Invitation(r).email ELSE phoneOf[p]]
  /\ UNCHANGED <<now, inv, staff, placed>>

(* Mutation: the company id is left out. *)
MembershipNowhere(r) == [email |-> Invitation(r).email, company |-> None]

(* The company is the one the organization service answers with.           *)
Membership(r) == [email |-> Invitation(r).email, company |-> Invitation(r).company]

AcceptFindStaff(r) ==
  /\ req[r].pc = "acc_lookup"
  /\ Goto(r, IF Membership(r) \in staff THEN "acc_mark" ELSE "acc_staff")
  /\ UNCHANGED <<now, dbVars>>

(* staff.email is unique, and so is (user_id, is_active): an e-mail has at *)
(* most one staff row, whatever the company.                               *)
AcceptCreateStaff(r) ==
  /\ req[r].pc = "acc_staff"
  /\ IF \E s \in staff : s.email = Invitation(r).email
     THEN Goto(r, "conflict") /\ UNCHANGED staff
     ELSE /\ staff' = staff \cup {Membership(r)}
          /\ Goto(r, IF Invitation(r).dept = None THEN "acc_mark" ELSE "acc_dept")
  /\ UNCHANGED <<now, inv, users, phoneOf, placed>>

AcceptPlace(r) ==
  /\ req[r].pc = "acc_dept"
  /\ placed' = placed \cup {[email |-> Invitation(r).email, dept |-> Invitation(r).dept]}
  /\ Goto(r, "acc_mark")
  /\ UNCHANGED <<now, inv, users, phoneOf, staff>>

AcceptMark(r) ==
  /\ req[r].pc = "acc_mark"
  /\ SetRow(r, [Invitation(r) EXCEPT !.status = "ACCEPTED", !.responded = TRUE])
  /\ Finish(r)
  /\ UNCHANGED <<now, users, phoneOf, staff, placed>>

-----------------------------------------------------------------------------
(* declineInvitation, deleteStaffInvitation, getInvitationByCode *)

(* Mutation: an accepted invitation can be declined. *)
DeclineReadAny(r, c) ==
  /\ Free(r)
  /\ inv[c].status \notin {"FREE", "DELETED"}
  /\ Begin(r, c, "decline", 0)
  /\ UNCHANGED <<now, dbVars>>

DeclineRead(r, c) ==
  /\ Free(r)
  /\ inv[c].status \notin {"FREE", "DELETED", "ACCEPTED"}
  /\ Begin(r, c, "decline", 0)
  /\ UNCHANGED <<now, dbVars>>

DeclineWrite(r) ==
  /\ req[r].pc = "decline"
  /\ SetRow(r, [Invitation(r) EXCEPT !.status = "DECLINED", !.responded = TRUE])
  /\ Finish(r)
  /\ UNCHANGED <<now, users, phoneOf, staff, placed>>

DeleteRead(r, c) ==
  /\ Free(r)
  /\ Known(c)
  /\ Begin(r, c, "delete", 0)
  /\ UNCHANGED <<now, dbVars>>

(* The row stays, and only its status tells that it is deleted.            *)
DeleteWrite(r) ==
  /\ req[r].pc = "delete"
  /\ SetRow(r, [Invitation(r) EXCEPT !.status = "DELETED"])
  /\ Finish(r)
  /\ UNCHANGED <<now, users, phoneOf, staff, placed>>

(* Nothing is written for a row that is neither overdue nor unseen.        *)
GetRead(r, c) ==
  /\ Free(r)
  /\ Known(c)
  /\ \/ /\ Overdue(inv[c]) /\ inv[c].status # "EXPIRED"
        /\ Begin(r, c, "get_expire", 0)
     \/ /\ ~Overdue(inv[c]) /\ inv[c].status = "PENDING" /\ ~inv[c].responded
        /\ Begin(r, c, "get_view", 0)
  /\ UNCHANGED <<now, dbVars>>

GetExpire(r) ==
  /\ req[r].pc = "get_expire"
  /\ SetRow(r, [Invitation(r) EXCEPT !.status = "EXPIRED"])
  /\ Finish(r)
  /\ UNCHANGED <<now, users, phoneOf, staff, placed>>

GetView(r) ==
  /\ req[r].pc = "get_view"
  /\ SetRow(r, [Invitation(r) EXCEPT !.status = "VIEWED", !.responded = TRUE])
  /\ Finish(r)
  /\ UNCHANGED <<now, users, phoneOf, staff, placed>>

-----------------------------------------------------------------------------
(* An awaited query or service call fails, or the process restarts: the    *)
(* handler stops where it is and nothing it wrote is undone.               *)
Fail(r) ==
  /\ ~Free(r)
  /\ Finish(r)
  /\ UNCHANGED <<now, dbVars>>

Tick ==
  /\ now < MaxTime
  /\ now' = now + 1
  /\ UNCHANGED <<dbVars, req>>

SendStep(r) == SendStart(r) \/ SendReadPending(r) \/ SendReadStaff(r) \/ SendCreate(r)
AcceptStep(r) ==
  \/ \E c \in Codes : AcceptRead(r, c)
  \/ AcceptExpire(r) \/ AcceptFindUser(r) \/ AcceptCreateUser(r)
  \/ AcceptFindStaff(r) \/ AcceptCreateStaff(r) \/ AcceptPlace(r) \/ AcceptMark(r)
AnswerStep(r) ==
  \/ \E c \in Codes : \/ ResendRead(r, c) \/ DeclineRead(r, c)
                      \/ DeleteRead(r, c) \/ GetRead(r, c)
  \/ ResendWrite(r) \/ DeclineWrite(r) \/ DeleteWrite(r)
  \/ GetExpire(r) \/ GetView(r)

Next ==
  \/ Tick
  \/ \E r \in Requests : SendStep(r) \/ AcceptStep(r) \/ AnswerStep(r) \/ Fail(r)

Spec == Init /\ [][Next]_vars

-----------------------------------------------------------------------------
(* Properties *)

(* Every table and every request holds values of its kind: in particular,  *)
(* an accepted staff row names a company, never a null one.                *)
TypeOK ==
  /\ now \in 0..MaxTime
  /\ inv \in [Codes -> Row]
  /\ users \subseteq Emails
  /\ phoneOf \in [Phones -> Emails \cup {None, Outsider}]
  /\ staff \subseteq StaffRow
  /\ placed \subseteq [email : Emails, dept : Departments]
  /\ req \in [Requests -> Request]

(* STAFF_ONBOARDING.md: "ACCEPTED: User accepted and staff profile         *)
(* created".  However accepts, crashes and other requests interleave, an   *)
(* ACCEPTED invitation has its staff row at its own company.               *)
AcceptedHasStaff ==
  \A c \in Codes : inv[c].status = "ACCEPTED" =>
    [email |-> inv[c].email, company |-> inv[c].company] \in staff

(* responsed_at is set exactly when the status says somebody responded,    *)
(* although the status is overwritten by requests that read an older one.  *)
AnswerRecorded ==
  \A c \in Codes :
    /\ inv[c].status \in {"VIEWED", "ACCEPTED", "DECLINED"} => inv[c].responded
    /\ inv[c].status = "PENDING" => ~inv[c].responded

(* What a request in progress relies on at its next step: its invitation   *)
(* exists, and it completes an acceptance only for somebody who is staff.  *)
Sound(q) ==
  /\ q.pc \in SendSteps => q.company \in Companies
  /\ q.pc \in CodeSteps => q.code \in Codes /\ Known(q.code)
  /\ q.pc \in {"acc_dept", "acc_mark"} =>
       [email |-> inv[q.code].email, company |-> inv[q.code].company] \in staff
  /\ q.pc = "acc_dept" => inv[q.code].dept \in Departments

RequestOK ==
  /\ \A c \in Codes : Known(c) => inv[c].email \in Emails /\ inv[c].company \in Companies
  /\ \A r \in Requests : Sound(req[r])

(* The inductive invariant. *)
IInv == TypeOK /\ RequestOK /\ AcceptedHasStaff /\ AnswerRecorded

(* The service keeps the promises of InvitationLedger: terms never change, *)
(* only the invited join, and ACCEPTED is said of members only.            *)
TermsOf == [c \in Codes |->
  IF Known(c) THEN [email |-> inv[c].email, company |-> inv[c].company] ELSE None]
StatusOf == [c \in Codes |-> inv[c].status]
RespondedOf == {c \in Codes : inv[c].responded}
Ledger == INSTANCE InvitationLedger WITH
  terms <- TermsOf, status <- StatusOf, responded <- RespondedOf, members <- staff
LedgerSpec == Ledger!Spec

(* Why the database may refuse an insert of acceptInvitation: the invitee  *)
(* is staff elsewhere, or the number given is another user's.              *)
StaffElsewhere(r) ==
  \E s \in staff : s.email = Invitation(r).email /\ s.company # Invitation(r).company
NumberTaken(r) ==
  req[r].phone # None /\ phoneOf[req[r].phone] \notin {None, Invitation(r).email}

(* For requests served one at a time (any of which may stop half-way): an  *)
(* acceptance that was interrupted can be repeated with the same data.  A  *)
(* unique column never refuses it for what the interrupted one left: only  *)
(* because the invitee is staff elsewhere, or for another user's number.   *)
RetrySafe ==
  \A r \in Requests : req[r].pc = "conflict" => StaffElsewhere(r) \/ NumberTaken(r)

(* For requests served one at a time: the only changes of status.  An      *)
(* answered invitation is never answered again or reopened directly, and   *)
(* an expired one cannot be accepted.                                      *)
Lifecycle ==
  [old : {"FREE"}, new : {"PENDING"}]
  \cup [old : {"PENDING"}, new : {"VIEWED", "ACCEPTED", "DECLINED", "EXPIRED", "DELETED"}]
  \cup [old : {"VIEWED"}, new : {"PENDING", "ACCEPTED", "DECLINED", "EXPIRED", "DELETED"}]
  \cup [old : {"ACCEPTED", "DECLINED"}, new : {"EXPIRED", "DELETED"}]
  \cup [old : {"EXPIRED"}, new : {"PENDING", "DECLINED", "DELETED"}]
  \cup [old : {"DELETED"}, new : {"PENDING", "EXPIRED"}]
FollowsLifecycle ==
  [][\A c \in Codes : inv'[c].status # inv[c].status =>
       [old |-> inv[c].status, new |-> inv'[c].status] \in Lifecycle]_vars

(* STAFF_ONBOARDING.md, "Duplicate prevention: Can't invite same email     *)
(* twice if pending": one company has no two live pending invitations for  *)
(* one e-mail.                                                             *)
NoDuplicatePending ==
  \A c, d \in Codes :
    /\ ActivePending(inv[c]) /\ ActivePending(inv[d])
    /\ inv[c].email = inv[d].email /\ inv[c].company = inv[d].company
    => c = d

(* STAFF_ONBOARDING.md, "EXPIRED: 4 hours passed without acceptance": an   *)
(* invitation that was accepted does not become EXPIRED.                   *)
ExpiredWithoutAcceptance ==
  [][\A c \in Codes : ~(inv[c].status = "ACCEPTED" /\ inv'[c].status = "EXPIRED")]_vars

(* STAFF_ONBOARDING.md, "Multiple companies: One user can accept           *)
(* invitations from different companies": being staff of one company does  *)
(* not make an acceptance at another one fail.                             *)
MultipleCompanies == ~ \E r \in Requests : req[r].pc = "conflict" /\ StaffElsewhere(r)
=============================================================================
