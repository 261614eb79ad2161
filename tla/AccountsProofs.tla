---------------------------- MODULE AccountsProofs ----------------------------
(***************************************************************************)
(* Proofs about the e-mail columns, for any number of users, mailboxes,    *)
(* spellings, concurrent requests and changes of address.                  *)
(***************************************************************************)
EXTENDS Accounts, TLAPS

USE AccountsAssumption

-----------------------------------------------------------------------------
(* The inductive invariant *)

(* users.email is unique, and lower-case until updateUser has changed it.  *)
UniqueEmail == \A u, v \in Users : Live(u) /\ email[u] = email[v] => u = v
LowerEmail == \A u \in Users : Live(u) /\ u \notin changed => email[u] = Lower(email[u])

(* The other tables, and the job, have the address of the account, up to   *)
(* its spelling, until updateUser has changed it.                          *)
OtherEmails ==
  \A u \in Users :
    /\ bizEmail[u] # None => bizEmail[u] = Lower(bizEmail[u])
    /\ jobEmail[u] # None => jobEmail[u] = Lower(jobEmail[u])
    /\ Live(u) /\ u \notin changed =>
         /\ staffEmail[u] # None => Lower(staffEmail[u]) = email[u]
         /\ bizEmail[u] # None => bizEmail[u] = email[u]
         /\ jobEmail[u] # None => jobEmail[u] = email[u]

(* Only users that were inserted have a job or have changed their address. *)
NotFresh == \A u \in Users : jobEmail[u] # None \/ u \in changed => ~Fresh(u)

(* What a request has found out stays true of its user.                    *)
RequestKnows(q) ==
  /\ q.user # None =>
       /\ ~Fresh(q.user)
       /\ Live(q.user) /\ q.user \notin changed => email[q.user] = Lower(q.email)
  /\ q.pc \in RegisterPCs => q.role \in RoleNames
  /\ q.pc \in AcceptPCs => q.email = Lower(q.email)
  /\ q.pc = "mark" => q.user \in gone \/ staffEmail[q.user] # None
RequestsKnow == \A r \in Requests : RequestKnows(acc[r])

AcceptedByUser == \A m \in Mailboxes : invite[m].st = "accepted" => invite[m].user # None

AccountsInv ==
  /\ AccountsTypeOK /\ UniqueEmail /\ LowerEmail /\ OtherEmails /\ NotFresh
  /\ RequestsKnow /\ AcceptedByUser /\ AcceptedKeepsStaff

-----------------------------------------------------------------------------
(* Addresses *)

LEMMA LowerIsAddress ==
  /\ \A m \in Mailboxes : LowerOf(m) \in Address
  /\ \A a \in Address : Lower(a) \in Address /\ Lower(Lower(a)) = Lower(a)
  /\ \A m \in Mailboxes : Lower(LowerOf(m)) = LowerOf(m)
  BY DEF Lower, LowerOf, Address

LEMMA AddressIsSomething == None \notin Address /\ None \notin Users
  BY DEF Address

(* The user found by an address is the one that has it.                    *)
LEMMA UserAtFinds ==
  ASSUME NEW a, a # None
  PROVE  /\ EmailFree(a) <=> UserAt(a) = None
         /\ ~EmailFree(a) => UserAt(a) \in Users /\ email[UserAt(a)] = a
<1>1. CASE EmailFree(a)
  BY <1>1 DEF UserAt
<1>2. CASE ~EmailFree(a)
  <2>1. \E u \in Users : email[u] = a
    BY <1>2 DEF EmailFree
  <2>2. UserAt(a) = CHOOSE u \in Users : email[u] = a
    BY <1>2 DEF UserAt
  <2> QED
    BY <2>1, <2>2, <1>2, AddressIsSomething
<1> QED
  BY <1>1, <1>2

LEMMA AccountsInitially == AccountsInit => AccountsInv
  BY DEF AccountsInit, AccountsInv, AccountsTypeOK, UniqueEmail, LowerEmail, OtherEmails, NotFresh,
     RequestsKnow, RequestKnows, AcceptedByUser, AcceptedKeepsStaff, Live, Idle, NoInvite,
     Invite, Request, RegisterPCs, AcceptPCs

-----------------------------------------------------------------------------
(* Steps that change requests only *)

(* A request of the kind the type invariant allows. *)
WellFormed(q) ==
  /\ q \in Request
  /\ q.pc # "idle" => q.email # None
  /\ q.pc \in {"enqueue", "staff", "member", "join", "mark"} => q.user # None

Tables == <<email, gone, staffEmail, bizEmail, jobEmail, invite, changed>>

LEMMA IdleIsWellFormed == WellFormed(Idle) /\ RequestKnows(Idle)
  BY DEF WellFormed, Idle, Request, RequestKnows, RegisterPCs, AcceptPCs

LEMMA RequestStep ==
  ASSUME AccountsInv, NEW r \in Requests, UNCHANGED Tables,
         NEW q, acc' = [acc EXCEPT ![r] = q], WellFormed(q), RequestKnows(q)
  PROVE  AccountsInv'
<1>1. acc'[r] = q /\ \A s \in Requests : s # r => acc'[s] = acc[s]
  BY DEF AccountsInv, AccountsTypeOK
<1>2. AccountsTypeOK'
  BY <1>1 DEF AccountsInv, AccountsTypeOK, Tables, WellFormed
<1>3. RequestsKnow'
  <2>1. \A p : RequestKnows(p) => RequestKnows(p)'
    BY DEF RequestKnows, Tables, Fresh, Live, Lower, LowerOf
  <2>2. ASSUME NEW s \in Requests PROVE RequestKnows(acc'[s])
    BY <1>1 DEF AccountsInv, RequestsKnow
  <2> QED
    BY <2>2 DEF RequestsKnow, RequestKnows, Tables, Fresh, Live, Lower, LowerOf
<1> QED
  BY <1>2, <1>3 DEF AccountsInv, UniqueEmail, LowerEmail, OtherEmails, NotFresh, AcceptedByUser,
     AcceptedKeepsStaff, Tables, Fresh, Live, Lower, LowerOf

LEMMA RegisterFindPreserves == ASSUME AccountsInv, NEW r \in Requests, RegisterFind(r) PROVE AccountsInv'
<1>1. PICK a \in Address, role \in RoleNames :
        acc' = [acc EXCEPT ![r] = [pc |-> IF role = "other" THEN "insert" ELSE "check",
                                   email |-> a, role |-> role, user |-> None]]
  BY DEF RegisterFind
<1> DEFINE q == [pc |-> IF role = "other" THEN "insert" ELSE "check",
                 email |-> a, role |-> role, user |-> None]
<1>2. WellFormed(q)
  BY AddressIsSomething DEF WellFormed, Request, RegisterPCs
<1>3. RequestKnows(q)
  BY DEF RequestKnows, AcceptPCs
<1>4. UNCHANGED Tables
  BY DEF RegisterFind, Tables
<1>5. acc' = [acc EXCEPT ![r] = q]
  BY <1>1
<1> HIDE DEF q
<1> QED
  BY <1>2, <1>3, <1>4, <1>5, RequestStep

(* A request that only goes on to its next query.                          *)
LEMMA GotoStep ==
  ASSUME AccountsInv, NEW r \in Requests, UNCHANGED Tables, NEW pc, Goto(r, pc),
         \/ acc[r].pc = "check" /\ pc = "insert"
         \/ acc[r].pc \in {"member", "join"} /\ pc = "mark" /\ staffEmail[acc[r].user] # None
         \/ acc[r].pc = "member" /\ pc = "join"
  PROVE  AccountsInv'
<1> DEFINE q == [acc[r] EXCEPT !.pc = pc]
<1>1. acc[r] \in Request /\ WellFormed(acc[r]) /\ RequestKnows(acc[r])
  BY DEF AccountsInv, AccountsTypeOK, RequestsKnow, WellFormed
<1>2. /\ q.pc = pc /\ q.email = acc[r].email /\ q.role = acc[r].role /\ q.user = acc[r].user
  BY <1>1 DEF Request
<1>3. q \in Request
  BY <1>1 DEF Request, RegisterPCs, AcceptPCs
<1>4. acc' = [acc EXCEPT ![r] = q]
  BY DEF Goto
<1> HIDE DEF q
<1>5. WellFormed(q)
  BY <1>1, <1>2, <1>3 DEF WellFormed
<1>6. RequestKnows(q)
  BY <1>1, <1>2 DEF RequestKnows, RegisterPCs, AcceptPCs
<1> QED
  BY <1>4, <1>5, <1>6, RequestStep

LEMMA RegisterCheckPreserves == ASSUME AccountsInv, NEW r \in Requests, RegisterCheck(r) PROVE AccountsInv'
  BY GotoStep DEF RegisterCheck, Tables

LEMMA AcceptMemberPreserves == ASSUME AccountsInv, NEW r \in Requests, AcceptMember(r) PROVE AccountsInv'
  BY GotoStep DEF AcceptMember, Tables

LEMMA AbandonPreserves == ASSUME AccountsInv, NEW r \in Requests, Abandon(r) PROVE AccountsInv'
  BY RequestStep, IdleIsWellFormed DEF Abandon, End, Tables

LEMMA AcceptFindPreserves == ASSUME AccountsInv, NEW r \in Requests, AcceptFind(r) PROVE AccountsInv'
<1> DEFINE q(m) == [pc |-> IF UserAt(LowerOf(m)) = None THEN "open" ELSE "member",
                    email |-> LowerOf(m), role |-> None, user |-> UserAt(LowerOf(m))]
<1>1. PICK m \in Mailboxes : acc' = [acc EXCEPT ![r] = q(m)]
  BY DEF AcceptFind
<1>2. LowerOf(m) # None /\ LowerOf(m) \in Address /\ Lower(LowerOf(m)) = LowerOf(m)
  BY LowerIsAddress, AddressIsSomething
<1>3. UserAt(LowerOf(m)) # None => /\ UserAt(LowerOf(m)) \in Users
                                   /\ email[UserAt(LowerOf(m))] = LowerOf(m)
  BY <1>2, UserAtFinds
<1>4. WellFormed(q(m))
  BY <1>2, <1>3 DEF WellFormed, Request, AcceptPCs
<1>5. RequestKnows(q(m))
  BY <1>2, <1>3 DEF RequestKnows, RegisterPCs, Fresh, Live
<1>6. UNCHANGED Tables
  BY DEF AcceptFind, Tables
<1> HIDE DEF q
<1> QED
  BY <1>1, <1>4, <1>5, <1>6, RequestStep
-----------------------------------------------------------------------------
(* Steps that insert a user: register and acceptInvitation *)

LEMMA InsertStep ==
  ASSUME AccountsInv, NEW r \in Requests, NEW u \in Users, NEW a \in Address, Fresh(u), a = Lower(a),
         EmailFree(a), email' = [email EXCEPT ![u] = a],
         UNCHANGED <<gone, staffEmail, bizEmail, jobEmail, invite, changed>>,
         NEW q, acc' = [acc EXCEPT ![r] = q], WellFormed(q), RequestKnows(q)'
  PROVE  AccountsInv'
<1>1. /\ acc'[r] = q /\ \A s \in Requests : s # r => acc'[s] = acc[s]
      /\ email'[u] = a /\ \A v \in Users : v # u => email'[v] = email[v]
  BY DEF AccountsInv, AccountsTypeOK
<1>2. a # None /\ email[u] = None /\ u \notin gone /\ u \notin changed /\ jobEmail[u] = None
      /\ staffEmail[u] = None /\ bizEmail[u] = None
  BY AddressIsSomething DEF AccountsInv, AccountsTypeOK, Fresh, Live, NotFresh
<1>3. AccountsTypeOK'
  BY <1>1, <1>2 DEF AccountsInv, AccountsTypeOK, WellFormed
<1>4. UniqueEmail' /\ LowerEmail'
  BY <1>1, <1>2 DEF AccountsInv, UniqueEmail, LowerEmail, EmailFree, Live, Lower, LowerOf
<1>5. OtherEmails' /\ NotFresh'
  BY <1>1, <1>2 DEF AccountsInv, OtherEmails, NotFresh, Fresh, Live, Lower, LowerOf
<1>6. RequestsKnow'
  <2>1. ASSUME NEW s \in Requests, s # r PROVE RequestKnows(acc[s])'
    <3>1. RequestKnows(acc[s]) /\ acc[s].user \in Users \cup {None} /\ acc'[s] = acc[s]
      BY <1>1, <2>1 DEF AccountsInv, RequestsKnow, AccountsTypeOK, Request
    <3>2. acc[s].user # u
      BY <3>1, <1>2 DEF RequestKnows, Fresh, Live
    <3> QED
      BY <3>1, <3>2, <1>1 DEF RequestKnows, Fresh, Live, Lower, LowerOf
  <2>2. RequestKnows(acc[r])'
    BY <1>1
  <2> QED
    BY <2>1, <2>2 DEF RequestsKnow
<1> QED
  BY <1>3, <1>4, <1>5, <1>6 DEF AccountsInv, AcceptedByUser, AcceptedKeepsStaff

LEMMA RegisterInsertPreserves == ASSUME AccountsInv, NEW r \in Requests, RegisterInsert(r) PROVE AccountsInv'
<1>1. acc[r] \in Request /\ acc[r].email \in Address /\ acc[r].role \in RoleNames
      /\ acc[r].pc = "insert" /\ acc \in [Requests -> Request] /\ email \in [Users -> Address \cup {None}]
  BY DEF AccountsInv, AccountsTypeOK, RequestsKnow, RequestKnows, Request, RegisterInsert, RegisterPCs
<1> DEFINE a == Lower(acc[r].email)
<1>2. a \in Address /\ Lower(a) = a /\ a # None
  BY <1>1, LowerIsAddress, AddressIsSomething
<1>3. PICK u \in Users :
        /\ Fresh(u)
        /\ email' = [email EXCEPT ![u] = a]
        /\ acc' = [acc EXCEPT ![r] =
                    CASE acc[r].role = "other" -> Idle
                      [] acc[r].role = "staff" -> [acc[r] EXCEPT !.pc = "staff", !.user = u]
                      [] acc[r].role = "business" -> [acc[r] EXCEPT !.pc = "enqueue", !.user = u]]
  BY <1>1 DEF RegisterInsert
<1>4. EmailFree(a) /\ UNCHANGED <<gone, staffEmail, bizEmail, jobEmail, invite, changed>>
  BY DEF RegisterInsert
<1>5. CASE acc[r].role = "other"
  <2>1. acc' = [acc EXCEPT ![r] = Idle]
    BY <1>3, <1>5
  <2>2. RequestKnows(Idle)'
    BY DEF RequestKnows, Idle, RegisterPCs, AcceptPCs
  <2> HIDE DEF a
  <2> QED
    BY <1>2, <1>3, <1>4, <2>1, <2>2, InsertStep, IdleIsWellFormed
<1>6. CASE acc[r].role \in {"staff", "business"}
  <2> DEFINE next(pc) == [acc[r] EXCEPT !.pc = pc, !.user = u]
  <2>1. PICK pc \in {"staff", "enqueue"} : acc' = [acc EXCEPT ![r] = next(pc)]
    <3>1. \/ acc' = [acc EXCEPT ![r] = next("staff")]
          \/ acc' = [acc EXCEPT ![r] = next("enqueue")]
      BY <1>3, <1>6
    <3> HIDE DEF next
    <3> QED
      BY <3>1
  <2>2. PICK q : q = next(pc)
    OBVIOUS
  <2>3. q = [acc[r] EXCEPT !.pc = pc, !.user = u] /\ acc' = [acc EXCEPT ![r] = q]
    BY <2>1, <2>2
  <2>4. q \in Request /\ q.pc = pc /\ q.user = u /\ q.email = acc[r].email /\ q.role = acc[r].role
    BY <1>1, <2>3 DEF Request, RegisterPCs
  <2>5. email'[u] = a
    BY <1>1, <1>3
  <2>6. WellFormed(q)
    BY <2>4, <1>1, AddressIsSomething DEF WellFormed
  <2>7. RequestKnows(q)'
    BY <2>3, <2>4, <2>5, <1>1, <1>2 DEF RequestKnows, Fresh, Live, RegisterPCs, AcceptPCs
  <2> HIDE DEF a
  <2> QED
    BY <1>2, <1>3, <1>4, <2>3, <2>6, <2>7, InsertStep
<1> QED
  BY <1>1, <1>5, <1>6 DEF RoleNames

LEMMA AcceptOpenPreserves == ASSUME AccountsInv, NEW r \in Requests, AcceptOpen(r) PROVE AccountsInv'
<1>1. acc[r] \in Request /\ acc[r].email \in Address /\ acc[r].email = Lower(acc[r].email)
      /\ acc \in [Requests -> Request] /\ email \in [Users -> Address \cup {None}]
  BY DEF AccountsInv, AccountsTypeOK, RequestsKnow, RequestKnows, Request, AcceptOpen, AcceptPCs
<1>2. PICK u \in Users :
        /\ Fresh(u)
        /\ email' = [email EXCEPT ![u] = acc[r].email]
        /\ acc' = [acc EXCEPT ![r] = [acc[r] EXCEPT !.pc = "join", !.user = u]]
  BY DEF AcceptOpen
<1>. PICK q : q = [acc[r] EXCEPT !.pc = "join", !.user = u]
  OBVIOUS
<1>3. q.pc = "join" /\ q.user = u /\ q.email = acc[r].email /\ q.role = acc[r].role
  BY <1>1 DEF Request
<1>4. q \in Request
  BY <1>1 DEF Request, AcceptPCs
<1>5. email'[u] = acc[r].email /\ acc[r].email # None
  BY <1>1, <1>2, AddressIsSomething
<1>6. acc' = [acc EXCEPT ![r] = q]
  BY <1>2
<1>7. WellFormed(q)
  BY <1>3, <1>4, <1>5, AddressIsSomething DEF WellFormed
<1>8. RequestKnows(q)'
  BY <1>1, <1>3, <1>5 DEF RequestKnows, Fresh, Live, RegisterPCs, AcceptPCs, Lower, LowerOf
<1> QED
  BY <1>1, <1>2, <1>6, <1>7, <1>8, InsertStep DEF AcceptOpen
-----------------------------------------------------------------------------
(* Steps on the other tables *)

(* A staff row for the user of a request: register and acceptInvitation.   *)
LEMMA JoinStep ==
  ASSUME AccountsInv, NEW r \in Requests, NEW u \in Users, acc[r].user = u, acc[r].email # None,
         CanJoin(u, acc[r].email), staffEmail' = [staffEmail EXCEPT ![u] = acc[r].email],
         UNCHANGED <<email, gone, bizEmail, jobEmail, invite, changed>>,
         NEW q, acc' = [acc EXCEPT ![r] = q], WellFormed(q), RequestKnows(q)'
  PROVE  AccountsInv'
<1>1. /\ acc'[r] = q /\ \A s \in Requests : s # r => acc'[s] = acc[s]
      /\ acc[r].email \in Address
      /\ \A v \in Users : staffEmail'[v] = IF v = u THEN acc[r].email ELSE staffEmail[v]
  BY DEF AccountsInv, AccountsTypeOK, Request
<1>2. AccountsTypeOK'
  BY <1>1, AddressIsSomething DEF AccountsInv, AccountsTypeOK, WellFormed, CanJoin, Live
<1>3. OtherEmails'
  <2>1. Live(u) /\ u \notin changed => email[u] = Lower(acc[r].email)
    BY AddressIsSomething DEF AccountsInv, RequestsKnow, RequestKnows
  <2>2. ASSUME NEW v \in Users, Live(v), v \notin changed, staffEmail'[v] # None
        PROVE  Lower(staffEmail'[v]) = email[v]
    BY <1>1, <2>1, <2>2 DEF AccountsInv, OtherEmails
  <2> QED
    BY <2>2 DEF AccountsInv, OtherEmails, Live, Lower, LowerOf
<1>4. RequestsKnow'
  <2>1. ASSUME NEW s \in Requests, s # r PROVE RequestKnows(acc[s])'
    <3>1. RequestKnows(acc[s]) /\ acc[s].user \in Users \cup {None} /\ acc'[s] = acc[s]
      BY <1>1, <2>1 DEF AccountsInv, RequestsKnow, AccountsTypeOK, Request
    <3>2. acc[s].pc = "mark" => acc[s].user \in Users
      BY <3>1 DEF AccountsInv, AccountsTypeOK
    <3> QED
      BY <3>1, <3>2, <1>1, AddressIsSomething DEF RequestKnows, Fresh, Live, Lower, LowerOf
  <2>2. RequestKnows(acc[r])'
    BY <1>1
  <2> QED
    BY <2>1, <2>2 DEF RequestsKnow
<1>5. AcceptedKeepsStaff'
  <2>1. \A m \in Mailboxes : invite[m].st = "accepted" => invite[m].user \in Users
    BY DEF AccountsInv, AccountsTypeOK, AcceptedByUser, Invite
  <2> QED
    BY <1>1, <2>1, AddressIsSomething DEF AccountsInv, AcceptedKeepsStaff
<1> QED
  BY <1>2, <1>3, <1>4, <1>5 DEF AccountsInv, UniqueEmail, LowerEmail, NotFresh, AcceptedByUser, Fresh, Live,
     Lower, LowerOf

LEMMA RegisterStaffPreserves == ASSUME AccountsInv, NEW r \in Requests, RegisterStaff(r) PROVE AccountsInv'
<1>1. acc[r].user \in Users /\ acc[r].email # None
  BY DEF AccountsInv, AccountsTypeOK, Request, RegisterStaff
<1>2. RequestKnows(Idle)'
  BY DEF RequestKnows, Idle, RegisterPCs, AcceptPCs
<1> QED
  BY <1>1, <1>2, JoinStep, IdleIsWellFormed DEF RegisterStaff, End

LEMMA AcceptJoinPreserves == ASSUME AccountsInv, NEW r \in Requests, AcceptJoin(r) PROVE AccountsInv'
<1>1. /\ acc[r].user \in Users /\ acc[r].email # None /\ acc[r] \in Request
      /\ acc[r].pc = "join" /\ RequestKnows(acc[r]) /\ staffEmail \in [Users -> Address \cup {None}]
  BY DEF AccountsInv, AccountsTypeOK, Request, AcceptJoin, RequestsKnow
<1>2. PICK q : q = [acc[r] EXCEPT !.pc = "mark"]
  OBVIOUS
<1>3. q \in Request /\ q.pc = "mark" /\ q.user = acc[r].user /\ q.email = acc[r].email
  BY <1>1, <1>2 DEF Request, AcceptPCs
<1>4. acc' = [acc EXCEPT ![r] = q]
  BY <1>2 DEF AcceptJoin, Goto
<1>5. WellFormed(q)
  BY <1>1, <1>3, AddressIsSomething DEF WellFormed
<1>6. staffEmail'[acc[r].user] # None
  BY <1>1 DEF AcceptJoin
<1>7. RequestKnows(q)'
  BY <1>1, <1>3, <1>6 DEF AcceptJoin, RequestKnows, Fresh, Live, Lower, LowerOf, AcceptPCs, RegisterPCs
<1> QED
  BY <1>1, <1>4, <1>5, <1>7, JoinStep DEF AcceptJoin

LEMMA RegisterEnqueuePreserves == ASSUME AccountsInv, NEW r \in Requests, RegisterEnqueue(r) PROVE AccountsInv'
<1>1. /\ acc[r].user \in Users /\ acc[r].email \in Address /\ RequestKnows(acc[r])
      /\ Lower(acc[r].email) \in Address /\ Lower(Lower(acc[r].email)) = Lower(acc[r].email)
  BY LowerIsAddress DEF AccountsInv, AccountsTypeOK, Request, RegisterEnqueue, RequestsKnow
<1>2. /\ \A v \in Users : jobEmail'[v] = IF v = acc[r].user THEN Lower(acc[r].email) ELSE jobEmail[v]
      /\ jobEmail' \in [Users -> Address \cup {None}]
      /\ \A s \in Requests : acc'[s] = IF s = r THEN Idle ELSE acc[s]
      /\ acc' \in [Requests -> Request]
  BY <1>1, IdleIsWellFormed DEF AccountsInv, AccountsTypeOK, RegisterEnqueue, End, WellFormed
<1>3. AccountsTypeOK'
  BY <1>2, IdleIsWellFormed DEF AccountsInv, AccountsTypeOK, RegisterEnqueue, WellFormed
<1>4. OtherEmails'
  BY <1>1, <1>2, AddressIsSomething
     DEF AccountsInv, OtherEmails, RegisterEnqueue, RequestKnows, Live, Lower, LowerOf
<1>5. NotFresh'
  BY <1>1, <1>2, AddressIsSomething DEF AccountsInv, NotFresh, RegisterEnqueue, RequestKnows, Fresh, Live
<1>6. RequestsKnow'
  BY <1>2, IdleIsWellFormed
     DEF AccountsInv, RequestsKnow, RequestKnows, RegisterEnqueue, Fresh, Live, Lower, LowerOf
<1> QED
  BY <1>3, <1>4, <1>5, <1>6 DEF AccountsInv, UniqueEmail, LowerEmail, AcceptedByUser, AcceptedKeepsStaff,
     RegisterEnqueue, Live, Lower, LowerOf
LEMMA JobOnboardPreserves == ASSUME AccountsInv, NEW u \in Users, JobOnboard(u) PROVE AccountsInv'
<1>1. /\ jobEmail' \in [Users -> Address \cup {None}] /\ jobEmail'[u] = None
      /\ \A v \in Users : v # u => jobEmail'[v] = jobEmail[v]
  BY DEF AccountsInv, AccountsTypeOK, JobOnboard
<1>2. /\ bizEmail' \in [Users -> Address \cup {None}]
      /\ \A v \in Users : v # u => bizEmail'[v] = bizEmail[v]
      /\ \/ bizEmail'[u] = bizEmail[u]
         \/ Live(u) /\ bizEmail'[u] = jobEmail[u] /\ jobEmail[u] # None
  <2>1. CASE UNCHANGED bizEmail
    BY <2>1 DEF AccountsInv, AccountsTypeOK
  <2>2. CASE Live(u) /\ bizEmail' = [bizEmail EXCEPT ![u] = jobEmail[u]]
    BY <2>2 DEF AccountsInv, AccountsTypeOK, JobOnboard
  <2> QED
    BY <2>1, <2>2 DEF JobOnboard
<1>3. AccountsTypeOK'
  BY <1>1, <1>2 DEF AccountsInv, AccountsTypeOK, JobOnboard, Live
<1>4. OtherEmails' /\ NotFresh'
  BY <1>1, <1>2 DEF AccountsInv, OtherEmails, NotFresh, JobOnboard, Fresh, Live, Lower, LowerOf
<1> QED
  BY <1>3, <1>4 DEF AccountsInv, UniqueEmail, LowerEmail, RequestsKnow, RequestKnows, AcceptedByUser,
     AcceptedKeepsStaff, JobOnboard, Fresh, Live, Lower, LowerOf

LEMMA JobDeleteUserPreserves == ASSUME AccountsInv, NEW u \in Users, JobDeleteUser(u) PROVE AccountsInv'
<1>1. /\ email'[u] = None /\ staffEmail'[u] = None /\ bizEmail'[u] = None /\ jobEmail'[u] = None
      /\ \A v \in Users : v # u =>
           /\ email'[v] = email[v] /\ staffEmail'[v] = staffEmail[v]
           /\ bizEmail'[v] = bizEmail[v] /\ jobEmail'[v] = jobEmail[v]
      /\ gone' = gone \cup {u} /\ changed' = changed /\ acc' = acc
  BY DEF AccountsInv, AccountsTypeOK, JobDeleteUser
<1>2. \A m \in Mailboxes : invite'[m] = NoInvite \/ invite'[m] = invite[m]
  BY DEF AccountsInv, AccountsTypeOK, JobDeleteUser
<1>3. AccountsTypeOK'
  <2>1. invite' \in [Mailboxes -> Invite]
    BY DEF AccountsInv, AccountsTypeOK, JobDeleteUser, Invite, NoInvite
  <2>2. /\ email' \in [Users -> Address \cup {None}] /\ staffEmail' \in [Users -> Address \cup {None}]
        /\ bizEmail' \in [Users -> Address \cup {None}] /\ jobEmail' \in [Users -> Address \cup {None}]
    BY DEF AccountsInv, AccountsTypeOK, JobDeleteUser
  <2> QED
    BY <1>1, <2>1, <2>2 DEF AccountsInv, AccountsTypeOK
<1>4. UniqueEmail' /\ LowerEmail'
  BY <1>1 DEF AccountsInv, UniqueEmail, LowerEmail, Live, Lower, LowerOf
<1>5. OtherEmails' /\ NotFresh'
  BY <1>1 DEF AccountsInv, OtherEmails, NotFresh, Fresh, Live, Lower, LowerOf
<1>6. RequestsKnow'
  <2>1. ASSUME NEW s \in Requests PROVE RequestKnows(acc[s])'
    <3>1. RequestKnows(acc[s]) /\ acc[s].user \in Users \cup {None}
      BY DEF AccountsInv, RequestsKnow, AccountsTypeOK, Request
    <3>2. acc[s].pc = "mark" => acc[s].user \in Users
      BY <3>1 DEF AccountsInv, AccountsTypeOK
    <3> QED
      BY <1>1, <3>1, <3>2 DEF RequestKnows, Fresh, Live, Lower, LowerOf
  <2> QED
    BY <2>1 DEF RequestsKnow
<1>7. AcceptedByUser' /\ AcceptedKeepsStaff'
  <2>1. \A m \in Mailboxes : invite[m].st = "accepted" => invite[m].user \in Users
    BY DEF AccountsInv, AccountsTypeOK, AcceptedByUser, Invite
  <2> QED
    BY <1>1, <1>2, <2>1 DEF AccountsInv, AcceptedByUser, AcceptedKeepsStaff, NoInvite
<1> QED
  BY <1>3, <1>4, <1>5, <1>6, <1>7 DEF AccountsInv

LEMMA ChangeEmailPreserves == ASSUME AccountsInv, NEW u \in Users, ChangeEmail(u) PROVE AccountsInv'
<1>1. PICK a \in Address : EmailFree(a) /\ email' = [email EXCEPT ![u] = a]
  BY DEF ChangeEmail
<1>2. /\ email'[u] = a /\ a # None /\ Live(u) /\ changed' = changed \cup {u}
      /\ \A v \in Users : v # u => email'[v] = email[v]
  BY <1>1, AddressIsSomething DEF AccountsInv, AccountsTypeOK, ChangeEmail
<1>3. AccountsTypeOK'
  BY <1>1, <1>2 DEF AccountsInv, AccountsTypeOK, ChangeEmail, Live
<1>4. UniqueEmail' /\ LowerEmail'
  BY <1>1, <1>2 DEF AccountsInv, UniqueEmail, LowerEmail, EmailFree, Live, Lower, LowerOf
<1>5. OtherEmails' /\ NotFresh'
  BY <1>2 DEF AccountsInv, OtherEmails, NotFresh, ChangeEmail, Fresh, Live, Lower, LowerOf
<1>6. RequestsKnow'
  <2>1. ASSUME NEW s \in Requests PROVE RequestKnows(acc[s])'
    <3>1. RequestKnows(acc[s]) /\ acc[s].user \in Users \cup {None}
      BY DEF AccountsInv, RequestsKnow, AccountsTypeOK, Request
    <3> QED
      BY <1>2, <3>1 DEF RequestKnows, ChangeEmail, Fresh, Live, Lower, LowerOf
  <2> QED
    BY <2>1 DEF RequestsKnow, ChangeEmail
<1> QED
  BY <1>3, <1>4, <1>5, <1>6 DEF AccountsInv, AcceptedByUser, AcceptedKeepsStaff, ChangeEmail

LEMMA SendInvitationPreserves ==
  ASSUME AccountsInv, NEW u \in Users, NEW m \in Mailboxes, SendInvitation(u, m) PROVE AccountsInv'
<1>1. \A n \in Mailboxes :
        invite'[n] = IF n = m THEN [st |-> "pending", by |-> u, user |-> None] ELSE invite[n]
  BY DEF AccountsInv, AccountsTypeOK, SendInvitation
<1>2. AccountsTypeOK'
  BY DEF AccountsInv, AccountsTypeOK, SendInvitation, Invite
<1>3. AcceptedByUser' /\ AcceptedKeepsStaff'
  BY <1>1 DEF AccountsInv, AcceptedByUser, AcceptedKeepsStaff, SendInvitation
<1> QED
  BY <1>2, <1>3 DEF AccountsInv, UniqueEmail, LowerEmail, OtherEmails, NotFresh, RequestsKnow, RequestKnows,
     SendInvitation, Fresh, Live, Lower, LowerOf

LEMMA AcceptMarkPreserves == ASSUME AccountsInv, NEW r \in Requests, AcceptMark(r) PROVE AccountsInv'
<1> DEFINE m == acc[r].email.box
<1>1. /\ acc[r].email \in Address /\ acc[r].user \in Users /\ acc[r].pc = "mark"
      /\ RequestKnows(acc[r]) /\ acc \in [Requests -> Request]
  BY DEF AccountsInv, AccountsTypeOK, RequestsKnow, Request, AcceptMark
<1>2. m \in Mailboxes
  BY <1>1 DEF Address
<1>3. /\ invite' \in [Mailboxes -> Invite]
      /\ invite'[m].st = "accepted" /\ invite'[m].user = acc[r].user
      /\ \A n \in Mailboxes : n # m => invite'[n] = invite[n]
  BY <1>1, <1>2 DEF AccountsInv, AccountsTypeOK, AcceptMark, Invite
<1>4. acc' = [acc EXCEPT ![r] = Idle]
  BY DEF AcceptMark, End
<1> HIDE DEF m
<1>5. acc' \in [Requests -> Request] /\ \A s \in Requests : acc'[s] = IF s = r THEN Idle ELSE acc[s]
  BY <1>1, <1>4, IdleIsWellFormed DEF WellFormed
<1>6. AccountsTypeOK'
  BY <1>3, <1>5, IdleIsWellFormed DEF AccountsInv, AccountsTypeOK, AcceptMark, WellFormed
<1>7. RequestsKnow'
  BY <1>5, IdleIsWellFormed
     DEF AccountsInv, RequestsKnow, RequestKnows, AcceptMark, Fresh, Live, Lower, LowerOf
<1>8. AcceptedByUser' /\ AcceptedKeepsStaff'
  <2>1. acc[r].user \in gone \/ staffEmail[acc[r].user] # None
    BY <1>1 DEF RequestKnows
  <2>2. gone' = gone /\ staffEmail' = staffEmail
    BY DEF AcceptMark
  <2>3. \A n \in Mailboxes : n = m \/ invite'[n] = invite[n]
    BY <1>3
  <2> QED
    BY <1>1, <1>3, <2>1, <2>2, <2>3, AddressIsSomething DEF AccountsInv, AcceptedByUser, AcceptedKeepsStaff
<1> QED
  BY <1>6, <1>7, <1>8 DEF AccountsInv, UniqueEmail, LowerEmail, OtherEmails, NotFresh, AcceptMark,
     Fresh, Live, Lower, LowerOf

-----------------------------------------------------------------------------
(* The theorems *)

LEMMA AccountsPreserves == AccountsInv /\ [AccountsNext]_accountVars => AccountsInv'
<1>1. AccountsInv /\ UNCHANGED accountVars => AccountsInv'
  BY DEF AccountsInv, AccountsTypeOK, UniqueEmail, LowerEmail, OtherEmails, NotFresh, RequestsKnow,
     RequestKnows, AcceptedByUser, AcceptedKeepsStaff, accountVars, Fresh, Live, Lower, LowerOf
<1> QED
  BY <1>1, RegisterFindPreserves, RegisterCheckPreserves, RegisterInsertPreserves,
     RegisterEnqueuePreserves, RegisterStaffPreserves, AcceptFindPreserves, AcceptOpenPreserves,
     AcceptMemberPreserves, AcceptJoinPreserves, AcceptMarkPreserves, AbandonPreserves,
     JobOnboardPreserves, JobDeleteUserPreserves, ChangeEmailPreserves, SendInvitationPreserves
     DEF AccountsNext

(* In every reachable state the inductive invariant holds.                 *)
THEOREM AccountsInvariance == AccountsSpec => []AccountsInv
  BY AccountsInitially, AccountsPreserves, PTL DEF AccountsSpec

(* Rows are of live users and requests know whom they are about.           *)
THEOREM AccountsTypeCorrect == AccountsSpec => []AccountsTypeOK
<1>1. AccountsInv => AccountsTypeOK
  BY DEF AccountsInv
<1> QED
  BY AccountsInvariance, <1>1, PTL

(* Whatever a user was known by before, all its addresses are the one of   *)
(* its account as long as it has not changed that.                         *)
LEMMA KnownByEmailOnly ==
  ASSUME AccountsInv, NEW u \in Users, u \notin changed, NEW a \in KnownBy(u)
  PROVE  Live(u) /\ a = email[u]
<1>1. PICK b \in {email[u], staffEmail[u], bizEmail[u]} \ {None} : a = Lower(b)
  BY DEF KnownBy
<1>2. Live(u)
  BY <1>1 DEF AccountsInv, AccountsTypeOK, Live
<1> QED
  BY <1>1, <1>2 DEF AccountsInv, LowerEmail, OtherEmails

(* Two accounts never answer to one address, in any table and spelling,    *)
(* unless updateUser has changed one of them.                              *)
THEOREM AddressesStayApart == AccountsSpec => []AddressesApart
<1>1. AccountsInv => AddressesApart
  <2> SUFFICES ASSUME AccountsInv, NEW u \in Users, NEW v \in Users, u # v,
                      NEW a \in KnownBy(u) \cap KnownBy(v), u \notin changed, v \notin changed
               PROVE  FALSE
    BY DEF AddressesApart
  <2> QED
    BY KnownByEmailOnly DEF AccountsInv, UniqueEmail
<1> QED
  BY AccountsInvariance, <1>1, PTL

(* Whoever is live is found by the address the account shows, unless       *)
(* updateUser stored one that is not lower-case.                           *)
THEOREM OwnAddressFinds == AccountsSpec => []FoundByOwnAddress
<1>1. AccountsInv => FoundByOwnAddress
  <2> SUFFICES ASSUME AccountsInv, NEW u \in Users, Live(u),
                      LoginTarget(email[u]) # u \/ FetchByEmail(email[u]) # u
               PROVE  u \in changed /\ email[u] # Lower(email[u])
    BY DEF FoundByOwnAddress
  <2>1. ASSUME email[u] = Lower(email[u]) PROVE FALSE
    <3>1. ~EmailFree(Lower(email[u]))
      BY <2>1 DEF EmailFree
    <3>2. UserAt(Lower(email[u])) = u
      BY <2>1, <3>1, UserAtFinds DEF Live, AccountsInv, UniqueEmail
    <3> QED
      BY <3>1, <3>2 DEF LoginTarget, FetchByEmail
  <2> QED
    BY <2>1 DEF AccountsInv, LowerEmail
<1> QED
  BY AccountsInvariance, <1>1, PTL

(* Whoever register tells to log in has an account to log in to, unless    *)
(* only a staff row remembers the address of somebody who has changed it.  *)
THEOREM LogInIsPossible == AccountsSpec => []ToldToLogIn
<1>1. AccountsInv => ToldToLogIn
  <2> SUFFICES ASSUME AccountsInv, NEW a \in Address, NEW role \in RoleNames,
                      KnownAs(a, role), LoginTarget(a) = None
               PROVE  role = "staff" /\ \E u \in changed : staffEmail[u] = a
    BY DEF ToldToLogIn
  <2>1. EmailFree(Lower(a))
    BY UserAtFinds, LowerIsAddress, AddressIsSomething DEF LoginTarget
  <2>2. BizFree(Lower(a))
    <3>1. ASSUME ~BizFree(Lower(a)) PROVE LoginTarget(a) \in Users
      BY <2>1, <3>1 DEF LoginTarget, BizFree
    <3> QED
      BY <3>1, AddressIsSomething
  <2>3. BizFree(a)
    <3>1. ASSUME NEW u \in Users, bizEmail[u] = a PROVE FALSE
      BY <2>2, <3>1, AddressIsSomething DEF AccountsInv, OtherEmails, BizFree
    <3> QED
      BY <3>1 DEF BizFree
  <2>4. role = "staff" /\ ~StaffFree(a)
    BY <2>1, <2>3 DEF KnownAs
  <2>5. PICK u \in Users : staffEmail[u] = a
    BY <2>4 DEF StaffFree
  <2>6. Live(u) /\ email[u] # Lower(staffEmail[u])
    BY <2>1, <2>5, AddressIsSomething DEF AccountsInv, AccountsTypeOK, Live, EmailFree
  <2>7. u \in changed
    BY <2>5, <2>6, AddressIsSomething DEF AccountsInv, OtherEmails
  <2> QED
    BY <2>4, <2>5, <2>7
<1> QED
  BY AccountsInvariance, <1>1, PTL

(* An accepted invitation has a staff row as long as its user was not      *)
(* deleted by a failed organization job.                                   *)
THEOREM AcceptanceKeepsStaff == AccountsSpec => []AcceptedKeepsStaff
<1>1. AccountsInv => AcceptedKeepsStaff
  BY DEF AccountsInv
<1> QED
  BY AccountsInvariance, <1>1, PTL
=============================================================================
