------------------------------ MODULE Onboarding ------------------------------
(***************************************************************************)
(* From register to business user (src/src/auth/auth.service.ts and        *)
(* src/src/queues/organizations): register inserts the user and queues an  *)
(* "organization" job; its processor asks the organization service for an  *)
(* organization and queues a "business-user" job, or deletes the user      *)
(* again; the second processor inserts the business_users row.  Requests   *)
(* and processors interleave, a worker may stop at any step, and a user    *)
(* may change its address (updateUser) while its jobs carry the old one.   *)
(***************************************************************************)
EXTENDS Integers, FiniteSets

CONSTANTS
  Users,     \* user ids; a registration that inserts a user gets a new one
  Emails,    \* e-mail addresses
  EmailOf,   \* the e-mail each registration is made with
  Orgs,      \* what the organization service may answer as organizationId
  BuJobs,    \* BOUND: identities for jobs of the business-user queue
  Attempts,  \* attempts of an organization job (3)
  MaxStalls, \* maxStalledCount of both queues (1)
  Workers,   \* BOUND: jobs of one queue in progress at the same time
  MaxMoved,  \* BOUND: users that change their address
  None

ASSUME ConstantsAssumption ==
  /\ EmailOf \in [Users -> Emails]
  /\ Attempts \in Nat \ {0} /\ MaxStalls \in Nat /\ Workers \in Nat \ {0}
  /\ None \notin Users \cup Orgs \cup [user : Users, org : Orgs]

VARIABLES
  account, \* users: "new", then the role of a live user, then "gone"
  address, \* users.email, for a user that was inserted
  moved,   \* users that have changed their address
  staff,   \* users with a row in staff
  biz,     \* business_users
  reg,     \* the register request of each user
  orgJob,  \* the organization queue; a user has one job, for creatorId
  orgRun,  \* what the worker of that job is doing
  buJob,   \* the business-user queue
  buData,  \* the data of its jobs; its email is the one of the registration
  buRun    \* what the worker of each job is doing

mailVars == <<address, moved>>
orgVars == <<orgJob, orgRun>>
buVars == <<buJob, buData, buRun>>
vars == <<account, mailVars, staff, biz, reg, orgVars, buVars>>

OrgQueue == INSTANCE JobQueue WITH Jobs <- Users, job <- orgJob
(* The business-user job is added without options: it has one attempt.     *)
BuQueue == INSTANCE JobQueue WITH Jobs <- BuJobs, Attempts <- 1, job <- buJob

Roles == {"business", "staff", "other"}
Live(u) == account[u] \in Roles
EmailTaken(e) == \E u \in Users : Live(u) /\ address[u] = e
RowsOf(u) == {b \in biz : b.user = u}
RowsFor(e) == {b \in biz : b.email = e}

(* The step before the insert, by the role that was asked for.             *)
RoleAt == [create_business |-> "business", create_staff |-> "staff", create_other |-> "other"]
RegisterSteps == DOMAIN RoleAt \cup {"enqueue", "company", "staff", "otp"}
BusinessUser == [user : Users, org : Orgs, email : Emails, active : BOOLEAN]
OrgSteps == {"call", "enqueue", "compensate", "throw", "finish"}
OrgRun == [pc : {"idle"} \cup OrgSteps, org : Orgs \cup {None}]
BuSteps == {"user", "email", "pair", "create", "deactivate", "throw", "finish"}
BuData == [user : Users, org : Orgs]
NoRun == [pc |-> "idle", org |-> None]

Init ==
  /\ account = [u \in Users |-> "new"]
  /\ address = EmailOf /\ moved = {}
  /\ staff = {} /\ biz = {}
  /\ reg = [u \in Users |-> "none"]
  /\ OrgQueue!QueueInit /\ orgRun = [u \in Users |-> NoRun]
  /\ BuQueue!QueueInit /\ buRun = [j \in BuJobs |-> "idle"]
  /\ buData = [j \in BuJobs |-> None]

-----------------------------------------------------------------------------
(* register *)

RegGoto(u, step) == reg' = [reg EXCEPT ![u] = step]

RegisterCheck(u) ==
  /\ reg[u] = "none"
  /\ ~EmailTaken(EmailOf[u])
  /\ \E step \in DOMAIN RoleAt :
       /\ RoleAt[step] = "business" => RowsFor(EmailOf[u]) = {}
       /\ RoleAt[step] = "staff" => \A v \in staff : EmailOf[v] # EmailOf[u]
       /\ RegGoto(u, step)
  /\ UNCHANGED <<mailVars, account, staff, biz, orgVars, buVars>>

(* Mutation: users.email is not unique. *)
RegisterCreateAny(u) ==
  /\ reg[u] \in DOMAIN RoleAt
  /\ account' = [account EXCEPT ![u] = RoleAt[reg[u]]]
  /\ RegGoto(u, CASE RoleAt[reg[u]] = "business" -> "enqueue"
                  [] RoleAt[reg[u]] = "staff" -> "company"
                  [] RoleAt[reg[u]] = "other" -> "otp")
  /\ UNCHANGED <<mailVars, staff, biz, orgVars, buVars>>

(* users.email is unique.  Nothing but ChangeEmail writes address, which   *)
(* holds the e-mail of the registration when the row is inserted.          *)
RegisterCreate(u) ==
  /\ reg[u] \in DOMAIN RoleAt
  /\ ~EmailTaken(EmailOf[u])
  /\ account' = [account EXCEPT ![u] = RoleAt[reg[u]]]
  /\ RegGoto(u, CASE RoleAt[reg[u]] = "business" -> "enqueue"
                  [] RoleAt[reg[u]] = "staff" -> "company"
                  [] RoleAt[reg[u]] = "other" -> "otp")
  /\ UNCHANGED <<mailVars, staff, biz, orgVars, buVars>>

RegisterEnqueue(u) ==
  /\ reg[u] = "enqueue"
  /\ OrgQueue!Add(u)
  /\ RegGoto(u, "otp")
  /\ UNCHANGED <<mailVars, account, staff, biz, orgRun, buVars>>

(* The organization service knows the company. *)
RegisterCompany(u) ==
  /\ reg[u] = "company"
  /\ RegGoto(u, "staff")
  /\ UNCHANGED <<mailVars, account, staff, biz, orgVars, buVars>>

(* staff.email is unique and staff.user_id references users.               *)
RegisterStaff(u) ==
  /\ reg[u] = "staff"
  /\ Live(u) /\ \A v \in staff : EmailOf[v] # EmailOf[u]
  /\ staff' = staff \cup {u}
  /\ RegGoto(u, "otp")
  /\ UNCHANGED <<mailVars, account, biz, orgVars, buVars>>

(* _sendOtp inserts a code for the user (module OtpSession).               *)
RegisterOtp(u) ==
  /\ reg[u] = "otp"
  /\ Live(u)
  /\ RegGoto(u, "done")
  /\ UNCHANGED <<mailVars, account, staff, biz, orgVars, buVars>>

(* A query or call fails, or is refused, and register throws: the user     *)
(* row, once inserted, stays.                                              *)
RegisterFail(u) ==
  /\ reg[u] \in RegisterSteps
  /\ RegGoto(u, "failed")
  /\ UNCHANGED <<mailVars, account, staff, biz, orgVars, buVars>>

-----------------------------------------------------------------------------
(* updateUser: users.email is unique, and no other table is touched.       *)
ChangeEmail(u) ==
  /\ Live(u)
  /\ Cardinality(moved \cup {u}) <= MaxMoved
  /\ \E e \in Emails : ~EmailTaken(e) /\ address' = [address EXCEPT ![u] = e]
  /\ moved' = moved \cup {u}
  /\ UNCHANGED <<account, staff, biz, reg, orgVars, buVars>>

-----------------------------------------------------------------------------
(* OrganizationProcessor.handleCreateOrganization *)

OrgGoto(u, step) == orgRun' = [orgRun EXCEPT ![u] = [NoRun EXCEPT !.pc = step]]

OrgTake(u) ==
  /\ Cardinality({v \in Users : orgJob[v].st = "active"}) < Workers
  /\ OrgQueue!Take(u)
  /\ OrgGoto(u, "call")
  /\ UNCHANGED <<mailVars, account, staff, biz, reg, buVars>>

(* createOrganization answers with an organization, new or not; refuses;   *)
(* or fails, maybe after it made one.                                      *)
OrgCall(u) ==
  /\ orgRun[u].pc = "call"
  /\ \/ \E o \in Orgs : orgRun' = [orgRun EXCEPT ![u] = [pc |-> "enqueue", org |-> o]]
     \/ OrgGoto(u, "compensate")
  /\ UNCHANGED <<mailVars, account, staff, biz, reg, orgJob, buVars>>

(* Mutation: the job is queued without organizationId.                     *)
OrgEnqueueUnset(u) ==
  /\ orgRun[u].pc = "enqueue"
  /\ \E j \in BuJobs :
       /\ BuQueue!Add(j)
       /\ buData' = [buData EXCEPT ![j] = [user |-> u, org |-> None]]
  /\ OrgGoto(u, "finish")
  /\ UNCHANGED <<mailVars, account, staff, biz, reg, orgJob, buRun>>

(* The organization is handed on to the business-user queue.               *)
OrgEnqueue(u) ==
  /\ orgRun[u].pc = "enqueue"
  /\ \/ /\ \E j \in BuJobs :
             /\ BuQueue!Add(j)
             /\ buData' = [buData EXCEPT ![j] = [user |-> u, org |-> orgRun[u].org]]
        /\ OrgGoto(u, "finish")
        /\ UNCHANGED buRun
     \/ OrgGoto(u, "compensate") /\ UNCHANGED buVars
  /\ UNCHANGED <<mailVars, account, staff, biz, reg, orgJob>>

(* Mutation: the rows of the user stay when the user is deleted.           *)
OrgCompensateOnly(u) ==
  /\ orgRun[u].pc = "compensate"
  /\ account' \in {account} \cup (IF Live(u) THEN {[account EXCEPT ![u] = "gone"]} ELSE {})
  /\ OrgGoto(u, "throw")
  /\ UNCHANGED <<mailVars, staff, biz, reg, orgJob, buVars>>

(* The awaited user.delete of the catch block, which cascades; it may fail, *)
(* and does when the user is gone.  The delete that is not awaited is never *)
(* sent: a Prisma query runs when it is awaited.                            *)
OrgCompensate(u) ==
  /\ orgRun[u].pc = "compensate"
  /\ \/ /\ Live(u)
        /\ account' = [account EXCEPT ![u] = "gone"]
        /\ staff' = staff \ {u} /\ biz' = biz \ RowsOf(u)
     \/ UNCHANGED <<account, staff, biz>>
  /\ OrgGoto(u, "throw")
  /\ UNCHANGED <<mailVars, reg, orgJob, buVars>>

(* Mutation: the failure is swallowed, and the job counts as completed.    *)
OrgThrowSwallowed(u) ==
  /\ orgRun[u].pc = "throw"
  /\ OrgQueue!Complete(u)
  /\ orgRun' = [orgRun EXCEPT ![u] = NoRun]
  /\ UNCHANGED <<mailVars, account, staff, biz, reg, buVars>>

OrgThrow(u) ==
  /\ orgRun[u].pc = "throw"
  /\ OrgQueue!Throw(u)
  /\ orgRun' = [orgRun EXCEPT ![u] = NoRun]
  /\ UNCHANGED <<mailVars, account, staff, biz, reg, buVars>>

OrgFinish(u) ==
  /\ orgRun[u].pc = "finish"
  /\ OrgQueue!Complete(u)
  /\ orgRun' = [orgRun EXCEPT ![u] = NoRun]
  /\ UNCHANGED <<mailVars, account, staff, biz, reg, buVars>>

(* The worker stops before the job is reported. *)
OrgStall(u) ==
  /\ OrgQueue!Stall(u)
  /\ orgRun' = [orgRun EXCEPT ![u] = NoRun]
  /\ UNCHANGED <<mailVars, account, staff, biz, reg, buVars>>

-----------------------------------------------------------------------------
(* BusinessUserProcessor.handleCreateBusinessUser *)

BuGoto(j, step) == buRun' = [buRun EXCEPT ![j] = step]
BuUser(j) == buData[j].user
RowsMatching(j) == {b \in biz : b.user = BuUser(j) /\ b.org = buData[j].org}

BuTake(j) ==
  /\ Cardinality({i \in BuJobs : buJob[i].st = "active"}) < Workers
  /\ BuQueue!Take(j)
  /\ BuGoto(j, "user")
  /\ UNCHANGED <<mailVars, account, staff, biz, reg, orgVars, buData>>

BuReadUser(j) ==
  /\ buRun[j] = "user"
  /\ BuGoto(j, IF Live(BuUser(j)) THEN "email" ELSE "throw")
  /\ UNCHANGED <<mailVars, account, staff, biz, reg, orgVars, buJob, buData>>

(* Mutation: the look-up by e-mail is left out. *)
BuReadEmailSkipped(j) ==
  /\ buRun[j] = "email"
  /\ BuGoto(j, "pair")
  /\ UNCHANGED <<mailVars, account, staff, biz, reg, orgVars, buJob, buData>>

BuReadEmail(j) ==
  /\ buRun[j] = "email"
  /\ BuGoto(j, IF RowsFor(EmailOf[BuUser(j)]) # {} THEN "finish" ELSE "pair")
  /\ UNCHANGED <<mailVars, account, staff, biz, reg, orgVars, buJob, buData>>

BuReadPair(j) ==
  /\ buRun[j] = "pair"
  /\ BuGoto(j, IF RowsMatching(j) # {} THEN "deactivate" ELSE "create")
  /\ UNCHANGED <<mailVars, account, staff, biz, reg, orgVars, buJob, buData>>

(* Only is_active changes; a user has one inactive row at most.            *)
BuDeactivate(j) ==
  /\ buRun[j] = "deactivate"
  /\ \A b \in RowsOf(BuUser(j)) \ RowsMatching(j) : b.active
  /\ RowsMatching(j) # {}
  /\ biz' = (biz \ RowsMatching(j)) \cup {[b EXCEPT !.active = FALSE] : b \in RowsMatching(j)}
  /\ BuGoto(j, "finish")
  /\ UNCHANGED <<mailVars, account, staff, reg, orgVars, buJob, buData>>

(* Mutation: business_users.email is not unique, nor (user_id, is_active). *)
BuCreateTwice(j) ==
  /\ buRun[j] = "create"
  /\ Live(BuUser(j)) /\ RowsMatching(j) = {}
  /\ biz' = biz \cup {[user |-> BuUser(j), org |-> buData[j].org,
                       email |-> EmailOf[BuUser(j)], active |-> TRUE]}
  /\ BuGoto(j, "finish")
  /\ UNCHANGED <<mailVars, account, staff, reg, orgVars, buJob, buData>>

(* email, (user_id, is_active) and (user_id, organization_id) are unique,  *)
(* and user_id references users.                                           *)
BuCreate(j) ==
  /\ buRun[j] = "create"
  /\ Live(BuUser(j)) /\ RowsMatching(j) = {}
  /\ RowsFor(EmailOf[BuUser(j)]) = {} /\ \A b \in RowsOf(BuUser(j)) : ~b.active
  /\ biz' = biz \cup {[user |-> BuUser(j), org |-> buData[j].org,
                       email |-> EmailOf[BuUser(j)], active |-> TRUE]}
  /\ BuGoto(j, "finish")
  /\ UNCHANGED <<mailVars, account, staff, reg, orgVars, buJob, buData>>

(* Mutation: the catch block does not rethrow. *)
BuFailQuietly(j) ==
  /\ buRun[j] \in BuSteps \ {"throw", "finish"}
  /\ BuGoto(j, "finish")
  /\ UNCHANGED <<mailVars, account, staff, biz, reg, orgVars, buJob, buData>>

(* A query fails, or a constraint refuses it. *)
BuFail(j) ==
  /\ buRun[j] \in BuSteps \ {"throw", "finish"}
  /\ BuGoto(j, "throw")
  /\ UNCHANGED <<mailVars, account, staff, biz, reg, orgVars, buJob, buData>>

BuThrow(j) ==
  /\ buRun[j] = "throw"
  /\ BuQueue!Throw(j)
  /\ BuGoto(j, "idle")
  /\ UNCHANGED <<mailVars, account, staff, biz, reg, orgVars, buData>>

BuFinish(j) ==
  /\ buRun[j] = "finish"
  /\ BuQueue!Complete(j)
  /\ BuGoto(j, "idle")
  /\ UNCHANGED <<mailVars, account, staff, biz, reg, orgVars, buData>>

BuStall(j) ==
  /\ BuQueue!Stall(j)
  /\ BuGoto(j, "idle")
  /\ UNCHANGED <<mailVars, account, staff, biz, reg, orgVars, buData>>

-----------------------------------------------------------------------------
OrgWork(u) ==
  \/ OrgTake(u) \/ OrgCall(u) \/ OrgEnqueue(u)
  \/ OrgCompensate(u) \/ OrgThrow(u) \/ OrgFinish(u)
BuWork(j) ==
  \/ BuTake(j) \/ BuReadUser(j) \/ BuReadEmail(j) \/ BuReadPair(j) \/ BuDeactivate(j)
  \/ BuCreate(j) \/ BuFail(j) \/ BuThrow(j) \/ BuFinish(j)

Next ==
  \/ \E u \in Users :
       \/ RegisterCheck(u) \/ RegisterCreate(u) \/ RegisterEnqueue(u) \/ RegisterCompany(u)
       \/ RegisterStaff(u) \/ RegisterOtp(u) \/ RegisterFail(u) \/ ChangeEmail(u)
       \/ OrgWork(u) \/ OrgStall(u)
  \/ \E j \in BuJobs : BuWork(j) \/ BuStall(j)

Spec == Init /\ [][Next]_vars

(* Bull keeps taking jobs and a handler keeps running until it returns.    *)
(* Nothing is assumed of register, of crashes, or of how calls turn out.   *)
Fairness ==
  /\ \A u \in Users : WF_vars(OrgWork(u))
  /\ \A j \in BuJobs : WF_vars(BuWork(j))

FairSpec == Spec /\ Fairness

-----------------------------------------------------------------------------
(* Properties *)

(* Tables, queues and runs hold values of their kind; a job has a worker   *)
(* exactly while the queue says it is active.                              *)
TypeOK ==
  /\ account \in [Users -> {"new", "gone"} \cup Roles]
  /\ address \in [Users -> Emails] /\ moved \subseteq Users
  /\ staff \subseteq Users /\ biz \subseteq BusinessUser
  /\ reg \in [Users -> {"none", "done", "failed"} \cup RegisterSteps]
  /\ orgJob \in [Users -> OrgQueue!Job] /\ orgRun \in [Users -> OrgRun]
  /\ buJob \in [BuJobs -> BuQueue!Job] /\ buData \in [BuJobs -> BuData \cup {None}]
  /\ buRun \in [BuJobs -> {"idle"} \cup BuSteps]
  /\ \A u \in Users : orgJob[u].st = "active" <=> orgRun[u].pc # "idle"
  /\ \A j \in BuJobs : buJob[j].st = "active" <=> buRun[j] # "idle"

(* However often the jobs of a registration run, its user is the business  *)
(* user of one organization, and no e-mail has two business users.         *)
OneBusinessUser ==
  \A b, c \in biz : b.user = c.user \/ b.email = c.email => b = c

(* A deleted user leaves no row behind, whichever job was half-way.        *)
NothingOfGoneUsers ==
  /\ \A b \in biz : Live(b.user)
  /\ \A u \in staff : Live(u)

(* A row carries the e-mail its user registered with; a job that may run   *)
(* has attempts left, and its data once it was added; an organization to   *)
(* hand on is one of the organization service.                             *)
RowsOK == \A b \in biz : b.email = EmailOf[b.user]

JobsOK ==
  /\ \A u \in Users :
       /\ orgJob[u].st \in {"absent", "waiting", "active"} => orgJob[u].tries < Attempts
       /\ orgRun[u].pc = "enqueue" => orgRun[u].org \in Orgs
  /\ \A j \in BuJobs :
       /\ buJob[j].st \in {"absent", "waiting", "active"} => buJob[j].tries < 1
       /\ buJob[j].st # "absent" => buData[j] \in BuData

(* The inductive invariant. *)
IInv == TypeOK /\ JobsOK /\ RowsOK /\ OneBusinessUser /\ NothingOfGoneUsers

(* Another user v registered with the address of u, one of the two having  *)
(* changed its own in between, and v's row took the address in             *)
(* business_users (it goes when v is deleted).                             *)
Supplanted(u) ==
  \E v \in Users \ {u} : /\ EmailOf[v] = EmailOf[u]
                         /\ u \in moved \/ v \in moved
                         /\ RowsOf(v) # {} \/ account[v] = "gone"

(* A business user that register accepted is never lost in silence: it has *)
(* its row, or a job that will still run, or one of its jobs is in a       *)
(* failed state where an operator finds it.  The one exception is a user   *)
(* whose job found, by e-mail, the row of another that shares its address. *)
NoSilentLoss ==
  \A u \in Users :
    account[u] = "business" /\ reg[u] \in {"otp", "done"} /\ RowsOf(u) = {} =>
      \/ orgJob[u].st \in {"waiting", "active", "failed"}
      \/ \E j \in BuJobs : buData[j] # None /\ BuUser(j) = u
                           /\ buJob[j].st \in {"waiting", "active", "failed"}
      \/ Supplanted(u)

(* A job that runs again does not switch off the business user an earlier  *)
(* run made.  It needs one worker per queue: two may pass the look-up by   *)
(* e-mail together, and the slower finds the pair and deactivates it.      *)
ActiveOnceOnboarded == \A b \in biz : b.active

(* Every organization job comes to an end for its user, by whichever mix   *)
(* of failures, retries, crashes and changes of address: a business user,  *)
(* a deleted user, a job in a failed state, or a supplanted user.          *)
Settles ==
  \A u \in Users :
    orgJob[u].st = "waiting" ~>
      \/ RowsOf(u) # {} \/ account[u] = "gone" \/ orgJob[u].st = "failed" \/ Supplanted(u)
      \/ \E j \in BuJobs : buData[j] # None /\ BuUser(j) = u /\ buJob[j].st = "failed"
=============================================================================
