------------------------------- MODULE Accounts -------------------------------
(***************************************************************************)
(* One person under several e-mail columns.  users.email, staff.email and  *)
(* business_users.email are written by different operations: register,     *)
(* the onboarding jobs, acceptInvitation and updateUser; and each of them, *)
(* and login, looks a person up by one of the columns.  Some lower the     *)
(* case of the address they are given and some do not.                     *)
(***************************************************************************)
EXTENDS Integers, FiniteSets

CONSTANTS
  Users,      \* user ids; an insert into users takes a new one
  Mailboxes,  \* addresses up to the case of their letters
  Spellings,  \* ways to write one address
  LowerCase,  \* the spelling that toLowerCase() gives
  Requests,   \* BOUND: register and accept requests in progress at once
  MaxChanged, \* BOUND: users that change their address, once each
  None

ASSUME AccountsAssumption ==
  /\ LowerCase \in Spellings /\ MaxChanged \in Nat
  /\ None \notin Users \cup [box : Mailboxes, case : Spellings]

VARIABLES
  email,       \* users.email; None without a row
  gone,        \* users that the organization job deleted
  staffEmail,  \* staff.email of the user's row; None without a row
  bizEmail,    \* business_users.email of the user's row; None without a row
  jobEmail,    \* the e-mail in the onboarding job of a user; None without a job
  invite,      \* mailbox -> its staff invitation (lower-case); BOUND: one each
  acc,         \* the register and accept requests
  changed      \* history: users whose address updateUser has changed

accountVars == <<email, gone, staffEmail, bizEmail, jobEmail, invite, acc, changed>>

Address == [box : Mailboxes, case : Spellings]
LowerOf(m) == [box |-> m, case |-> LowerCase]
Lower(a) == LowerOf(a.box)

Live(u) == email[u] # None
Fresh(u) == ~Live(u) /\ u \notin gone
EmailFree(a) == \A u \in Users : email[u] # a
StaffFree(a) == \A u \in Users : staffEmail[u] # a
BizFree(a) == \A u \in Users : bizEmail[u] # a

RoleNames == {"business", "staff", "other"}
NoInvite == [st |-> "none", by |-> None, user |-> None]
Invite == [st : {"none", "pending", "accepted"}, by : Users \cup {None},
           user : Users \cup {None}]
RegisterPCs == {"check", "insert", "enqueue", "staff"}
AcceptPCs == {"open", "member", "join", "mark"}
Request == [pc : {"idle"} \cup RegisterPCs \cup AcceptPCs, email : Address \cup {None},
            role : RoleNames \cup {None}, user : Users \cup {None}]
Idle == [pc |-> "idle", email |-> None, role |-> None, user |-> None]

AccountsInit ==
  /\ email = [u \in Users |-> None] /\ gone = {} /\ changed = {}
  /\ staffEmail = [u \in Users |-> None] /\ bizEmail = [u \in Users |-> None]
  /\ jobEmail = [u \in Users |-> None]
  /\ invite = [m \in Mailboxes |-> NoInvite]
  /\ acc = [r \in Requests |-> Idle]

(* The user that findUnique finds by address a, or None.                   *)
UserAt(a) == IF EmailFree(a) THEN None ELSE CHOOSE u \in Users : email[u] = a

(* Mutation: login does not fall back on business_users.                   *)
LoginTargetUsersOnly(a) == UserAt(Lower(a))

(* Mutation: login looks into business_users first.                        *)
LoginTargetBusinessFirst(a) ==
  IF BizFree(Lower(a)) THEN UserAt(Lower(a)) ELSE CHOOSE u \in Users : bizEmail[u] = Lower(a)

(* The user that login compares the password of: by users.email, else by   *)
(* business_users.email.                                                   *)
LoginTarget(a) ==
  IF ~EmailFree(Lower(a)) THEN UserAt(Lower(a))
  ELSE IF BizFree(Lower(a)) THEN None ELSE CHOOSE u \in Users : bizEmail[u] = Lower(a)

(* The user that GetUserByEmail answers with. *)
FetchByEmail(a) == UserAt(Lower(a))

(* register finds the address in use, in the tables it looks at for a role *)
KnownAs(a, role) ==
  \/ ~EmailFree(Lower(a))
  \/ role = "business" /\ ~BizFree(a)
  \/ role = "staff" /\ ~StaffFree(a)

End(r) == acc' = [acc EXCEPT ![r] = Idle]
Goto(r, pc) == acc' = [acc EXCEPT ![r].pc = pc]

-----------------------------------------------------------------------------
(* register: look-ups by the lower-case address, then by the address as    *)
(* given; the user row gets the lower-case one, the staff row the given.   *)

RegisterFind(r) ==
  /\ acc[r] = Idle
  /\ \E a \in Address, role \in RoleNames :
       /\ EmailFree(Lower(a))
       /\ acc' = [acc EXCEPT ![r] = [pc |-> IF role = "other" THEN "insert" ELSE "check",
                                     email |-> a, role |-> role, user |-> None]]
  /\ UNCHANGED <<email, gone, staffEmail, bizEmail, jobEmail, invite, changed>>

RegisterCheck(r) ==
  /\ acc[r].pc = "check"
  /\ acc[r].role = "business" => BizFree(acc[r].email)
  /\ acc[r].role = "staff" => StaffFree(acc[r].email)
  /\ Goto(r, "insert")
  /\ UNCHANGED <<email, gone, staffEmail, bizEmail, jobEmail, invite, changed>>

(* Mutation: the address is stored as it was given. *)
RegisterInsertRaw(r) ==
  /\ acc[r].pc = "insert"
  /\ EmailFree(acc[r].email)
  /\ \E u \in Users :
       /\ Fresh(u)
       /\ email' = [email EXCEPT ![u] = acc[r].email]
       /\ acc' = [acc EXCEPT ![r] =
                    CASE @.role = "other" -> Idle
                      [] @.role = "staff" -> [@ EXCEPT !.pc = "staff", !.user = u]
                      [] @.role = "business" -> [@ EXCEPT !.pc = "enqueue", !.user = u]]
  /\ UNCHANGED <<gone, staffEmail, bizEmail, jobEmail, invite, changed>>

(* users.email is unique. *)
RegisterInsert(r) ==
  /\ acc[r].pc = "insert"
  /\ EmailFree(Lower(acc[r].email))
  /\ \E u \in Users :
       /\ Fresh(u)
       /\ email' = [email EXCEPT ![u] = Lower(acc[r].email)]
       /\ acc' = [acc EXCEPT ![r] =
                    CASE @.role = "other" -> Idle
                      [] @.role = "staff" -> [@ EXCEPT !.pc = "staff", !.user = u]
                      [] @.role = "business" -> [@ EXCEPT !.pc = "enqueue", !.user = u]]
  /\ UNCHANGED <<gone, staffEmail, bizEmail, jobEmail, invite, changed>>

(* The job carries the address of the row that was inserted. *)
RegisterEnqueue(r) ==
  /\ acc[r].pc = "enqueue"
  /\ jobEmail' = [jobEmail EXCEPT ![acc[r].user] = Lower(acc[r].email)]
  /\ End(r)
  /\ UNCHANGED <<email, gone, staffEmail, bizEmail, invite, changed>>

(* staff.email is unique, (user_id, is_active) too, and the user must live. *)
CanJoin(u, a) == Live(u) /\ staffEmail[u] = None /\ StaffFree(a)

RegisterStaff(r) ==
  /\ acc[r].pc = "staff"
  /\ CanJoin(acc[r].user, acc[r].email)
  /\ staffEmail' = [staffEmail EXCEPT ![acc[r].user] = acc[r].email]
  /\ End(r)
  /\ UNCHANGED <<email, gone, bizEmail, jobEmail, invite, changed>>

-----------------------------------------------------------------------------
(* The onboarding jobs of a business user; module Onboarding has their     *)
(* steps, retries and crashes.                                             *)

(* The business_users row is inserted, unless one has that e-mail or the   *)
(* user is gone; then the job is over and has done nothing.                *)
JobOnboard(u) ==
  /\ jobEmail[u] # None
  /\ \/ /\ Live(u) /\ bizEmail[u] = None /\ BizFree(jobEmail[u])
        /\ bizEmail' = [bizEmail EXCEPT ![u] = jobEmail[u]]
     \/ UNCHANGED bizEmail
  /\ jobEmail' = [jobEmail EXCEPT ![u] = None]
  /\ UNCHANGED <<email, gone, staffEmail, invite, acc, changed>>

(* Mutation: the staff row stays when its user is deleted.                 *)
JobDeleteUserKeepsStaff(u) ==
  /\ jobEmail[u] # None /\ Live(u)
  /\ email' = [email EXCEPT ![u] = None] /\ gone' = gone \cup {u}
  /\ bizEmail' = [bizEmail EXCEPT ![u] = None]
  /\ jobEmail' = [jobEmail EXCEPT ![u] = None]
  /\ invite' = [m \in Mailboxes |-> IF invite[m].by = u THEN NoInvite ELSE invite[m]]
  /\ UNCHANGED <<staffEmail, acc, changed>>

(* The organization job fails and deletes its user; staff, business_users  *)
(* and the invitations the user sent go with it.                           *)
JobDeleteUser(u) ==
  /\ jobEmail[u] # None /\ Live(u)
  /\ email' = [email EXCEPT ![u] = None] /\ gone' = gone \cup {u}
  /\ staffEmail' = [staffEmail EXCEPT ![u] = None]
  /\ bizEmail' = [bizEmail EXCEPT ![u] = None]
  /\ jobEmail' = [jobEmail EXCEPT ![u] = None]
  /\ invite' = [m \in Mailboxes |-> IF invite[m].by = u THEN NoInvite ELSE invite[m]]
  /\ UNCHANGED <<acc, changed>>

-----------------------------------------------------------------------------
(* updateUser writes the address it is given, whatever its case.           *)
ChangeEmail(u) ==
  /\ Live(u) /\ u \notin changed /\ Cardinality(changed) < MaxChanged
  /\ \E a \in Address :
       /\ EmailFree(a)
       /\ email' = [email EXCEPT ![u] = a]
  /\ changed' = changed \cup {u}
  /\ UNCHANGED <<gone, staffEmail, bizEmail, jobEmail, invite, acc>>

-----------------------------------------------------------------------------
(* Invitations, of one company; module StaffInvitation has the whole life  *)
(* of one, and several companies.                                          *)

SendInvitation(u, m) ==
  /\ Live(u) /\ invite[m].st = "none"
  /\ StaffFree(LowerOf(m))
  /\ invite' = [invite EXCEPT ![m] = [st |-> "pending", by |-> u, user |-> None]]
  /\ UNCHANGED <<email, gone, staffEmail, bizEmail, jobEmail, acc, changed>>

(* acceptInvitation looks for a user by the invitation's e-mail.           *)
AcceptFind(r) ==
  /\ acc[r] = Idle
  /\ \E m \in Mailboxes :
       /\ invite[m].st = "pending"
       /\ LET u == UserAt(LowerOf(m))
          IN  acc' = [acc EXCEPT ![r] = [pc |-> IF u = None THEN "open" ELSE "member",
                                         email |-> LowerOf(m), role |-> None, user |-> u]]
  /\ UNCHANGED <<email, gone, staffEmail, bizEmail, jobEmail, invite, changed>>

AcceptOpen(r) ==
  /\ acc[r].pc = "open"
  /\ EmailFree(acc[r].email)
  /\ \E u \in Users :
       /\ Fresh(u)
       /\ email' = [email EXCEPT ![u] = acc[r].email]
       /\ acc' = [acc EXCEPT ![r] = [@ EXCEPT !.pc = "join", !.user = u]]
  /\ UNCHANGED <<gone, staffEmail, bizEmail, jobEmail, invite, changed>>

(* Mutation: a user that was found is taken for staff without looking.     *)
AcceptMemberAssumed(r) ==
  /\ acc[r].pc = "member"
  /\ Goto(r, "mark")
  /\ UNCHANGED <<email, gone, staffEmail, bizEmail, jobEmail, invite, changed>>

(* Is the user staff already? *)
AcceptMember(r) ==
  /\ acc[r].pc = "member"
  /\ Goto(r, IF staffEmail[acc[r].user] # None THEN "mark" ELSE "join")
  /\ UNCHANGED <<email, gone, staffEmail, bizEmail, jobEmail, invite, changed>>

AcceptJoin(r) ==
  /\ acc[r].pc = "join"
  /\ CanJoin(acc[r].user, acc[r].email)
  /\ staffEmail' = [staffEmail EXCEPT ![acc[r].user] = acc[r].email]
  /\ Goto(r, "mark")
  /\ UNCHANGED <<email, gone, bizEmail, jobEmail, invite, changed>>

(* The invitation row must still be there. *)
AcceptMark(r) ==
  /\ acc[r].pc = "mark"
  /\ LET m == acc[r].email.box
     IN  /\ invite[m].st # "none"
         /\ invite' = [invite EXCEPT ![m].st = "accepted", ![m].user = acc[r].user]
  /\ End(r)
  /\ UNCHANGED <<email, gone, staffEmail, bizEmail, jobEmail, changed>>

(* A query is refused or fails, or the process stops: what was written     *)
(* stays.                                                                  *)
Abandon(r) ==
  /\ acc[r] # Idle
  /\ End(r)
  /\ UNCHANGED <<email, gone, staffEmail, bizEmail, jobEmail, invite, changed>>

AccountsNext ==
  \/ \E r \in Requests :
       \/ RegisterFind(r) \/ RegisterCheck(r) \/ RegisterInsert(r)
       \/ RegisterEnqueue(r) \/ RegisterStaff(r)
       \/ AcceptFind(r) \/ AcceptOpen(r) \/ AcceptMember(r) \/ AcceptJoin(r)
       \/ AcceptMark(r) \/ Abandon(r)
  \/ \E u \in Users :
       \/ JobOnboard(u) \/ JobDeleteUser(u) \/ ChangeEmail(u)
       \/ \E m \in Mailboxes : SendInvitation(u, m)

AccountsSpec == AccountsInit /\ [][AccountsNext]_accountVars

-----------------------------------------------------------------------------
(* Properties *)

(* Rows belong to live users, and hold addresses; a request that has got   *)
(* as far as a user or an address knows which.                             *)
AccountsTypeOK ==
  /\ email \in [Users -> Address \cup {None}] /\ gone \subseteq Users /\ changed \subseteq Users
  /\ staffEmail \in [Users -> Address \cup {None}] /\ bizEmail \in [Users -> Address \cup {None}]
  /\ jobEmail \in [Users -> Address \cup {None}]
  /\ invite \in [Mailboxes -> Invite] /\ acc \in [Requests -> Request]
  /\ \A u \in Users : u \in gone => email[u] = None
  /\ \A u \in Users : email[u] = None => staffEmail[u] = None /\ bizEmail[u] = None
  /\ \A r \in Requests : acc[r].pc # "idle" => acc[r].email # None
  /\ \A r \in Requests :
       acc[r].pc \in {"enqueue", "staff", "member", "join", "mark"} => acc[r].user # None

(* Every address a user is known by, in whichever table.                   *)
KnownBy(u) == {Lower(a) : a \in {email[u], staffEmail[u], bizEmail[u]} \ {None}}

(* Two accounts never answer to one address, in whatever spelling and      *)
(* whichever table, unless one of them has changed its address: updateUser *)
(* changes users.email alone, and frees the old address for a registration *)
(* while the other tables still have it.                                   *)
AddressesApart ==
  \A u, v \in Users :
    u # v /\ KnownBy(u) \cap KnownBy(v) # {} => u \in changed \/ v \in changed

(* Whoever is live can sign in with the address its account shows, unless  *)
(* updateUser stored one that is not lower-case: login and GetUserByEmail  *)
(* never find that one.                                                    *)
FoundByOwnAddress ==
  \A u \in Users :
    Live(u) /\ (LoginTarget(email[u]) # u \/ FetchByEmail(email[u]) # u) =>
      u \in changed /\ email[u] # Lower(email[u])

(* register refuses a known address with "already exists, Proceed to       *)
(* login"; login then finds an account, unless what is known is the staff  *)
(* e-mail of somebody who has changed the address of the account.          *)
ToldToLogIn ==
  \A a \in Address, role \in RoleNames :
    KnownAs(a, role) /\ LoginTarget(a) = None =>
      role = "staff" /\ \E u \in changed : staffEmail[u] = a

(* An accepted invitation keeps its staff row, unless the organization job *)
(* of the person who accepted failed and deleted that user: the cascade    *)
(* takes the staff row, and the invitation stays accepted.                 *)
AcceptedKeepsStaff ==
  \A m \in Mailboxes :
    invite[m].st = "accepted" =>
      LET u == invite[m].user IN u \in gone \/ staffEmail[u] # None
=============================================================================
