--------------------------- MODULE OnboardingProofs ---------------------------
(***************************************************************************)
(* Proofs about onboarding, for any number of registrations, jobs,         *)
(* attempts and workers.  The inductive invariant falls into four parts,   *)
(* and most actions touch one or two of them.                              *)
(***************************************************************************)
EXTENDS Onboarding, FiniteSetTheorems, TLAPS

USE ConstantsAssumption

Tables ==
  /\ account \in [Users -> {"new", "gone"} \cup Roles]
  /\ address \in [Users -> Emails] /\ moved \subseteq Users
  /\ staff \subseteq Users /\ biz \subseteq BusinessUser
  /\ RowsOK /\ OneBusinessUser /\ NothingOfGoneUsers

Registers == reg \in [Users -> {"none", "done", "failed"} \cup RegisterSteps]

OrgSide ==
  /\ orgJob \in [Users -> OrgQueue!Job] /\ orgRun \in [Users -> OrgRun]
  /\ \A u \in Users :
       /\ orgJob[u].st = "active" <=> orgRun[u].pc # "idle"
       /\ orgJob[u].st \in {"absent", "waiting", "active"} => orgJob[u].tries < Attempts
       /\ orgRun[u].pc = "enqueue" => orgRun[u].org \in Orgs

BuSide ==
  /\ buJob \in [BuJobs -> BuQueue!Job] /\ buData \in [BuJobs -> BuData \cup {None}]
  /\ buRun \in [BuJobs -> {"idle"} \cup BuSteps]
  /\ \A j \in BuJobs :
       /\ buJob[j].st = "active" <=> buRun[j] # "idle"
       /\ buJob[j].st \in {"absent", "waiting", "active"} => buJob[j].tries < 1
       /\ buJob[j].st # "absent" => buData[j] \in BuData

LEMMA Parts == IInv <=> Tables /\ Registers /\ OrgSide /\ BuSide
  BY DEF IInv, TypeOK, JobsOK, Tables, Registers, OrgSide, BuSide

LEMMA InitIInv == Init => IInv
<1> SUFFICES ASSUME Init PROVE IInv
  OBVIOUS
<1>1. Tables
  BY DEF Init, Tables, RowsOK, OneBusinessUser, NothingOfGoneUsers
<1>2. Registers
  BY DEF Init, Registers
<1>3. OrgSide
  BY DEF Init, OrgSide, NoRun, OrgRun, OrgQueue!QueueInit, OrgQueue!Absent, OrgQueue!Job
<1>4. BuSide
  BY DEF Init, BuSide, BuQueue!QueueInit, BuQueue!Absent, BuQueue!Job
<1> QED
  BY <1>1, <1>2, <1>3, <1>4, Parts

LEMMA TablesKept ==
  ASSUME Tables, UNCHANGED <<account, mailVars, staff, biz>> PROVE Tables'
  BY DEF mailVars, Tables, RowsOK, OneBusinessUser, NothingOfGoneUsers, Live

LEMMA OrgSideKept == ASSUME OrgSide, UNCHANGED orgVars PROVE OrgSide'
  BY DEF OrgSide, orgVars, OrgQueue!Job, OrgRun

LEMMA BuSideKept == ASSUME BuSide, UNCHANGED buVars PROVE BuSide'
  BY DEF BuSide, buVars, BuQueue!Job, BuData

-----------------------------------------------------------------------------
(* The rows *)

(* A user row is inserted: whoever was live is live. *)
LEMMA RegisterCreateTables ==
  ASSUME Tables, NEW u \in Users, RegisterCreate(u) PROVE Tables'
<1>1. PICK role \in Roles : account' = [account EXCEPT ![u] = role]
  <2>1. \A step \in DOMAIN RoleAt : RoleAt[step] \in Roles
    BY DEF RoleAt, Roles
  <2> QED
    BY <2>1 DEF RegisterCreate
<1>2. UNCHANGED <<address, moved, staff, biz>>
  BY DEF RegisterCreate, mailVars
<1>3. account' \in [Users -> {"new", "gone"} \cup Roles]
  BY <1>1 DEF Tables
<1>4. \A v \in Users : Live(v) => Live(v)'
  BY <1>1 DEF Tables, Live
<1>5. NothingOfGoneUsers'
  BY <1>2, <1>4 DEF Tables, NothingOfGoneUsers, BusinessUser
<1> QED
  BY <1>2, <1>3, <1>5 DEF Tables, RowsOK, OneBusinessUser

LEMMA RegisterStaffTables ==
  ASSUME Tables, NEW u \in Users, RegisterStaff(u) PROVE Tables'
  BY DEF RegisterStaff, mailVars, Tables, RowsOK, OneBusinessUser, NothingOfGoneUsers, Live

LEMMA ChangeEmailTables ==
  ASSUME Tables, NEW u \in Users, ChangeEmail(u) PROVE Tables'
<1>1. PICK e \in Emails : address' = [address EXCEPT ![u] = e]
  BY DEF ChangeEmail
<1>2. UNCHANGED <<account, staff, biz>> /\ moved' = moved \cup {u}
  BY DEF ChangeEmail
<1> QED
  BY <1>1, <1>2 DEF Tables, RowsOK, OneBusinessUser, NothingOfGoneUsers, Live

(* The cascade removes exactly the rows of the deleted user. *)
LEMMA OrgCompensateTables ==
  ASSUME Tables, NEW u \in Users, OrgCompensate(u) PROVE Tables'
<1>0. UNCHANGED mailVars
  BY DEF OrgCompensate
<1>1. CASE UNCHANGED <<account, staff, biz>>
  BY <1>0, <1>1, TablesKept
<1>2. CASE /\ account' = [account EXCEPT ![u] = "gone"]
           /\ staff' = staff \ {u} /\ biz' = biz \ RowsOf(u)
  <2>1. \A b \in biz' : b \in biz /\ b.user # u /\ b.user \in Users
    BY <1>2 DEF RowsOf, Tables, BusinessUser
  <2>2. \A v \in Users \ {u} : Live(v) => Live(v)'
    BY <1>2 DEF Tables, Live
  <2>3. NothingOfGoneUsers'
    BY <1>2, <2>1, <2>2 DEF Tables, NothingOfGoneUsers
  <2>4. account' \in [Users -> {"new", "gone"} \cup Roles]
    BY <1>2 DEF Tables
  <2> QED
    BY <1>0, <1>2, <2>1, <2>3, <2>4 DEF Tables, RowsOK, OneBusinessUser, mailVars
<1> QED
  BY <1>1, <1>2 DEF OrgCompensate

(* Switching a row off neither adds a row nor changes whose it is.         *)
LEMMA BuDeactivateTables ==
  ASSUME Tables, NEW j \in BuJobs, BuDeactivate(j) PROVE Tables'
<1> DEFINE off(b) == [b EXCEPT !.active = FALSE]
<1>1. /\ biz' = (biz \ RowsMatching(j)) \cup {off(b) : b \in RowsMatching(j)}
      /\ UNCHANGED <<account, address, moved, staff>>
  BY DEF BuDeactivate, mailVars
<1>2. \A b \in RowsMatching(j) :
        b \in biz /\ off(b) \in BusinessUser /\ off(b).user = b.user /\ off(b).email = b.email
  BY DEF RowsMatching, BusinessUser, Tables
<1> HIDE DEF off
<1>3. \A b \in biz' : \E c \in biz : /\ b.user = c.user /\ b.email = c.email
                                     /\ \/ b = c /\ c \notin RowsMatching(j)
                                        \/ b = off(c) /\ c \in RowsMatching(j)
  BY <1>1, <1>2
<1>4. biz' \subseteq BusinessUser
  BY <1>1, <1>2 DEF Tables
<1>5. OneBusinessUser'
  BY <1>3 DEF Tables, OneBusinessUser
<1>6. RowsOK' /\ NothingOfGoneUsers'
  BY <1>1, <1>3 DEF Tables, RowsOK, NothingOfGoneUsers, Live
<1> QED
  BY <1>1, <1>4, <1>5, <1>6 DEF Tables

(* The unique e-mail keeps a second row of the user out.                   *)
LEMMA BuCreateTables ==
  ASSUME Tables, NEW j \in BuJobs, buData[j] \in BuData, BuCreate(j) PROVE Tables'
<1> DEFINE row == [user |-> BuUser(j), org |-> buData[j].org,
                   email |-> EmailOf[BuUser(j)], active |-> TRUE]
<1>1. row \in BusinessUser /\ row.user = BuUser(j) /\ row.email = EmailOf[BuUser(j)]
  BY DEF BuData, BuUser, BusinessUser
<1>2. biz' = biz \cup {row} /\ UNCHANGED <<account, address, moved, staff>> /\ Live(BuUser(j))
  BY DEF BuCreate, mailVars
<1>3. \A b \in biz : b.email # EmailOf[BuUser(j)]
  BY DEF BuCreate, RowsFor
<1> HIDE DEF row
<1>4. \A b \in biz : b.user # row.user /\ b.email # row.email
  BY <1>1, <1>3 DEF Tables, RowsOK
<1>5. OneBusinessUser'
  BY <1>2, <1>4 DEF Tables, OneBusinessUser
<1>6. RowsOK' /\ NothingOfGoneUsers'
  BY <1>1, <1>2 DEF Tables, RowsOK, NothingOfGoneUsers, Live
<1> QED
  BY <1>1, <1>2, <1>5, <1>6 DEF Tables

-----------------------------------------------------------------------------
(* The queues *)

JobStates == {"absent", "waiting", "active", "completed", "failed"}
JobOf(A) == [st : JobStates, tries : 0..A, stalls : 0..MaxStalls]

LEMMA JobsOfQueues == OrgQueue!Job = JobOf(Attempts) /\ BuQueue!Job = JobOf(1)
  BY DEF OrgQueue!Job, BuQueue!Job, JobOf, JobStates

(* What a change of status makes of a job. *)
LEMMA JobMoved ==
  ASSUME NEW A \in Nat, NEW r \in JobOf(A), NEW s \in JobStates
  PROVE  LET after == [r EXCEPT !.st = s]
         IN  after \in JobOf(A) /\ after.st = s /\ after.tries = r.tries
  BY DEF JobOf

LEMMA EnqueueOrgSide ==
  ASSUME OrgSide, NEW u \in Users, RegisterEnqueue(u) PROVE OrgSide'
<1> DEFINE job == [orgJob[u] EXCEPT !.st = "waiting"]
<1>1. orgJob[u] \in JobOf(Attempts) /\ orgJob[u].st = "absent"
  BY JobsOfQueues DEF RegisterEnqueue, OrgSide, OrgQueue!Add
<1>2. orgJob' = [orgJob EXCEPT ![u] = job] /\ orgRun' = orgRun
  BY DEF RegisterEnqueue, OrgQueue!Add
<1>3. job \in JobOf(Attempts) /\ job.st = "waiting" /\ job.tries = orgJob[u].tries
  BY <1>1, JobMoved DEF JobStates
<1>4. job.tries < Attempts
  BY <1>1, <1>3 DEF OrgSide
<1> HIDE DEF job
<1> QED
  BY <1>1, <1>2, <1>3, <1>4, JobsOfQueues DEF OrgSide

LEMMA OrgTakeOrgSide == ASSUME OrgSide, NEW u \in Users, OrgTake(u) PROVE OrgSide'
  BY DEF OrgTake, OrgGoto, NoRun, OrgSide, OrgQueue!Take, OrgQueue!Job, OrgRun, OrgSteps

(* A run goes on to its next step. *)
LEMMA OrgStepOrgSide ==
  ASSUME OrgSide, NEW u \in Users, OrgCall(u) \/ OrgEnqueue(u) \/ OrgCompensate(u)
  PROVE  OrgSide'
<1>1. orgRun[u].pc # "idle" /\ UNCHANGED orgJob
  BY DEF OrgCall, OrgEnqueue, OrgCompensate
<1>2. PICK run \in OrgRun : /\ orgRun' = [orgRun EXCEPT ![u] = run] /\ run.pc # "idle"
                            /\ run.pc = "enqueue" => run.org \in Orgs
  <2>1. \A step \in OrgSteps \ {"enqueue"} :
          LET run == [NoRun EXCEPT !.pc = step]
          IN  run \in OrgRun /\ run.pc \notin {"idle", "enqueue"}
    BY DEF NoRun, OrgRun, OrgSteps
  <2>2. CASE OrgCall(u) /\ ~OrgGoto(u, "compensate")
    <3>1. PICK o \in Orgs : orgRun' = [orgRun EXCEPT ![u] = [pc |-> "enqueue", org |-> o]]
      BY <2>2 DEF OrgCall
    <3>2. [pc |-> "enqueue", org |-> o] \in OrgRun
      BY DEF OrgRun, OrgSteps
    <3> QED
      BY <3>1, <3>2
  <2>3. CASE \E step \in OrgSteps \ {"enqueue"} : OrgGoto(u, step)
    BY <2>1, <2>3 DEF OrgGoto
  <2>4. "compensate" \in OrgSteps \ {"enqueue"} /\ "finish" \in OrgSteps \ {"enqueue"}
        /\ "throw" \in OrgSteps \ {"enqueue"}
    BY DEF OrgSteps
  <2> QED
    BY <2>2, <2>3, <2>4 DEF OrgEnqueue, OrgCompensate
<1> QED
  BY <1>1, <1>2 DEF OrgSide

(* A run ends, in one of the ways the queue knows. *)
LEMMA OrgEndOrgSide ==
  ASSUME OrgSide, NEW u \in Users, OrgThrow(u) \/ OrgFinish(u) \/ OrgStall(u)
  PROVE  OrgSide'
<1>1. NoRun \in OrgRun /\ NoRun.pc = "idle" /\ orgRun' = [orgRun EXCEPT ![u] = NoRun]
  BY DEF OrgThrow, OrgFinish, OrgStall, NoRun, OrgRun
<1>2. orgJob[u] \in JobOf(Attempts) /\ orgJob[u].st = "active" /\ orgJob[u].tries < Attempts
  BY JobsOfQueues DEF OrgSide, OrgThrow, OrgFinish, OrgStall, OrgQueue!Throw, OrgQueue!Complete, OrgQueue!Stall
<1>3. PICK job \in JobOf(Attempts) :
        /\ orgJob' = [orgJob EXCEPT ![u] = job] /\ job.st \notin {"active", "absent"}
        /\ job.st = "waiting" => job.tries < Attempts
  <2> DEFINE try == orgJob[u].tries + 1
             end == IF try < Attempts THEN "waiting" ELSE "failed"
             again == [orgJob[u] EXCEPT !.tries = try, !.st = end]
             stalled == [orgJob[u] EXCEPT !.stalls = @ + 1, !.st = "waiting"]
  <2>1. CASE OrgThrow(u)
    <3>1. orgJob' = [orgJob EXCEPT ![u] = again]
      BY <2>1 DEF OrgThrow, OrgQueue!Throw, OrgSide
    <3>2. try \in 0..Attempts /\ end \in JobStates \ {"active", "absent"}
          /\ (end = "waiting" => try < Attempts)
      BY <1>2 DEF JobOf, JobStates
    <3> HIDE DEF try, end
    <3>3. again \in JobOf(Attempts) /\ again.st = end /\ again.tries = try
      BY <1>2, <3>2 DEF JobOf
    <3> QED
      BY <3>1, <3>2, <3>3
  <2>2. CASE OrgFinish(u)
    BY <1>2, <2>2, JobMoved DEF OrgFinish, OrgQueue!Complete, JobStates
  <2>3. CASE OrgStall(u) /\ orgJob[u].stalls < MaxStalls
    <3>1. orgJob' = [orgJob EXCEPT ![u] = stalled]
      BY <2>3 DEF OrgStall, OrgQueue!Stall, OrgSide
    <3>2. orgJob[u].stalls + 1 \in 0..MaxStalls /\ "waiting" \in JobStates
      BY <1>2, <2>3 DEF JobOf, JobStates
    <3>3. stalled \in JobOf(Attempts) /\ stalled.st = "waiting" /\ stalled.tries = orgJob[u].tries
      BY <1>2, <3>2 DEF JobOf
    <3> QED
      BY <1>2, <3>1, <3>3
  <2>4. CASE OrgStall(u) /\ ~(orgJob[u].stalls < MaxStalls)
    BY <1>2, <2>4, JobMoved DEF OrgStall, OrgQueue!Stall, JobStates
  <2> QED
    BY <2>1, <2>2, <2>3, <2>4
<1> QED
  BY <1>1, <1>3, JobsOfQueues DEF OrgSide

LEMMA OrgEnqueueBuSide ==
  ASSUME OrgSide, BuSide, NEW u \in Users, OrgEnqueue(u) PROVE BuSide'
<1>1. CASE UNCHANGED buVars
  BY <1>1, BuSideKept
<1>2. ASSUME NEW j \in BuJobs, BuQueue!Add(j), UNCHANGED buRun,
             buData' = [buData EXCEPT ![j] = [user |-> u, org |-> orgRun[u].org]]
      PROVE  BuSide'
  <2>1. [user |-> u, org |-> orgRun[u].org] \in BuData
    BY DEF OrgEnqueue, OrgSide, BuData
  <2> DEFINE job == [buJob[j] EXCEPT !.st = "waiting"]
  <2>2. buJob[j] \in JobOf(1) /\ buJob[j].st = "absent" /\ buJob' = [buJob EXCEPT ![j] = job]
    BY <1>2, JobsOfQueues DEF BuSide, BuQueue!Add
  <2>3. job \in JobOf(1) /\ job.st = "waiting" /\ job.tries = buJob[j].tries
    BY <2>2 DEF JobOf, JobStates
  <2> HIDE DEF job
  <2> QED
    BY <1>2, <2>1, <2>2, <2>3, JobsOfQueues DEF BuSide
<1> QED
  BY <1>1, <1>2 DEF OrgEnqueue

LEMMA BuTakeBuSide == ASSUME BuSide, NEW j \in BuJobs, BuTake(j) PROVE BuSide'
  BY DEF BuTake, BuGoto, BuSide, BuQueue!Take, BuQueue!Job, BuSteps

LEMMA BuStepBuSide ==
  ASSUME BuSide, NEW j \in BuJobs,
         BuReadUser(j) \/ BuReadEmail(j) \/ BuReadPair(j) \/ BuDeactivate(j) \/ BuCreate(j) \/ BuFail(j)
  PROVE  BuSide'
<1>1. buRun[j] # "idle" /\ UNCHANGED <<buJob, buData>>
  BY DEF BuReadUser, BuReadEmail, BuReadPair, BuDeactivate, BuCreate, BuFail, BuSteps
<1>2. PICK step \in BuSteps : buRun' = [buRun EXCEPT ![j] = step] /\ step # "idle"
  BY DEF BuReadUser, BuReadEmail, BuReadPair, BuDeactivate, BuCreate, BuFail, BuGoto, BuSteps
<1> QED
  BY <1>1, <1>2 DEF BuSide

LEMMA BuEndBuSide ==
  ASSUME BuSide, NEW j \in BuJobs, BuThrow(j) \/ BuFinish(j) \/ BuStall(j)
  PROVE  BuSide'
<1>1. buRun' = [buRun EXCEPT ![j] = "idle"] /\ UNCHANGED buData
  BY DEF BuThrow, BuFinish, BuStall, BuGoto
<1>2. buJob[j] \in JobOf(1) /\ buJob[j].st = "active" /\ buJob[j].tries < 1
  BY JobsOfQueues DEF BuSide, BuThrow, BuFinish, BuStall, BuQueue!Throw, BuQueue!Complete, BuQueue!Stall
<1>3. PICK job \in JobOf(1) :
        /\ buJob' = [buJob EXCEPT ![j] = job] /\ job.st \notin {"active", "absent"}
        /\ job.st = "waiting" => job.tries < 1
  <2> DEFINE try == buJob[j].tries + 1
             end == IF try < 1 THEN "waiting" ELSE "failed"
             again == [buJob[j] EXCEPT !.tries = try, !.st = end]
             stalled == [buJob[j] EXCEPT !.stalls = @ + 1, !.st = "waiting"]
  <2>1. CASE BuThrow(j)
    <3>1. buJob' = [buJob EXCEPT ![j] = again]
      BY <2>1 DEF BuThrow, BuQueue!Throw, BuSide
    <3>2. try \in 0..1 /\ end \in JobStates \ {"active", "absent"}
          /\ (end = "waiting" => try < 1)
      BY <1>2 DEF JobOf, JobStates
    <3> HIDE DEF try, end
    <3>3. again \in JobOf(1) /\ again.st = end /\ again.tries = try
      BY <1>2, <3>2 DEF JobOf
    <3> QED
      BY <3>1, <3>2, <3>3
  <2>2. CASE BuFinish(j)
    BY <1>2, <2>2, JobMoved DEF BuFinish, BuQueue!Complete, JobStates
  <2>3. CASE BuStall(j) /\ buJob[j].stalls < MaxStalls
    <3>1. buJob' = [buJob EXCEPT ![j] = stalled]
      BY <2>3 DEF BuStall, BuQueue!Stall, BuSide
    <3>2. buJob[j].stalls + 1 \in 0..MaxStalls /\ "waiting" \in JobStates
      BY <1>2, <2>3 DEF JobOf, JobStates
    <3>3. stalled \in JobOf(1) /\ stalled.st = "waiting" /\ stalled.tries = buJob[j].tries
      BY <1>2, <3>2 DEF JobOf
    <3> QED
      BY <1>2, <3>1, <3>3
  <2>4. CASE BuStall(j) /\ ~(buJob[j].stalls < MaxStalls)
    BY <1>2, <2>4, JobMoved DEF BuStall, BuQueue!Stall, JobStates
  <2> QED
    BY <2>1, <2>2, <2>3, <2>4
<1> QED
  BY <1>1, <1>2, <1>3, JobsOfQueues DEF BuSide

-----------------------------------------------------------------------------
LEMMA NextPreserves == IInv /\ [Next]_vars => IInv'
<1> SUFFICES ASSUME Tables, Registers, OrgSide, BuSide, [Next]_vars
             PROVE  Tables' /\ Registers' /\ OrgSide' /\ BuSide'
  <2>1. Tables' /\ Registers' /\ OrgSide' /\ BuSide' => IInv'
    BY DEF IInv, TypeOK, JobsOK, Tables, Registers, OrgSide, BuSide
  <2> QED
    BY <2>1, Parts
<1>1. CASE UNCHANGED vars
  BY <1>1, TablesKept, OrgSideKept, BuSideKept DEF vars, Registers
<1>2. ASSUME NEW u \in Users,
             \/ RegisterCheck(u) \/ RegisterCreate(u) \/ RegisterEnqueue(u) \/ RegisterCompany(u)
             \/ RegisterStaff(u) \/ RegisterOtp(u) \/ RegisterFail(u) \/ ChangeEmail(u)
      PROVE  Tables' /\ Registers' /\ OrgSide' /\ BuSide'
  <2> USE DEF RegisterCheck, RegisterCompany, RegisterOtp, RegisterFail
  <2>1. Registers'
    <3>1. CASE ChangeEmail(u)
      BY <3>1 DEF ChangeEmail, Registers
    <3>2. CASE ~ChangeEmail(u)
      <4>1. PICK step \in {"none", "done", "failed"} \cup RegisterSteps :
              reg' = [reg EXCEPT ![u] = step]
        BY <1>2, <3>2 DEF RegisterCreate, RegisterEnqueue, RegisterStaff, RegGoto, RegisterSteps, RoleAt
      <4> QED
        BY <4>1 DEF Registers
    <3> QED
      BY <3>1, <3>2
  <2>2. Tables'
    BY <1>2, TablesKept, RegisterCreateTables, RegisterStaffTables, ChangeEmailTables
       DEF RegisterEnqueue
  <2>3. OrgSide'
    BY <1>2, OrgSideKept, EnqueueOrgSide DEF RegisterCreate, RegisterStaff, ChangeEmail
  <2>4. BuSide'
    BY <1>2, BuSideKept DEF RegisterCreate, RegisterEnqueue, RegisterStaff, ChangeEmail
  <2> QED
    BY <2>1, <2>2, <2>3, <2>4
<1>3. ASSUME NEW u \in Users, OrgWork(u) \/ OrgStall(u)
      PROVE  Tables' /\ Registers' /\ OrgSide' /\ BuSide'
  <2>1. Registers'
    BY <1>3 DEF OrgWork, OrgTake, OrgCall, OrgEnqueue, OrgCompensate, OrgThrow, OrgFinish,
       OrgStall, Registers
  <2>2. Tables'
    BY <1>3, TablesKept, OrgCompensateTables
       DEF OrgWork, OrgTake, OrgCall, OrgEnqueue, OrgThrow, OrgFinish, OrgStall
  <2>3. OrgSide'
    BY <1>3, OrgTakeOrgSide, OrgStepOrgSide, OrgEndOrgSide DEF OrgWork
  <2>4. BuSide'
    BY <1>3, BuSideKept, OrgEnqueueBuSide
       DEF OrgWork, OrgTake, OrgCall, OrgCompensate, OrgThrow, OrgFinish, OrgStall
  <2> QED
    BY <2>1, <2>2, <2>3, <2>4
<1>4. ASSUME NEW j \in BuJobs, BuWork(j) \/ BuStall(j)
      PROVE  Tables' /\ Registers' /\ OrgSide' /\ BuSide'
  <2>1. Registers' /\ OrgSide'
    BY <1>4, OrgSideKept DEF BuWork, BuTake, BuReadUser, BuReadEmail, BuReadPair, BuDeactivate,
       BuCreate, BuFail, BuThrow, BuFinish, BuStall, Registers
  <2>2. Tables'
    <3>1. CASE BuCreate(j)
      <4>1. buData[j] \in BuData
        BY <3>1 DEF BuCreate, BuSide
      <4> QED
        BY <3>1, <4>1, BuCreateTables
    <3> QED
      BY <1>4, <3>1, TablesKept, BuDeactivateTables
         DEF BuWork, BuTake, BuReadUser, BuReadEmail, BuReadPair, BuFail, BuThrow, BuFinish, BuStall
  <2>3. BuSide'
    BY <1>4, BuTakeBuSide, BuStepBuSide, BuEndBuSide DEF BuWork
  <2> QED
    BY <2>1, <2>2, <2>3
<1> QED
  BY <1>1, <1>2, <1>3, <1>4 DEF Next

(* In every reachable state the inductive invariant holds. *)
THEOREM OnboardingInvariance == Spec => []IInv
<1>1. IInv /\ [Next]_vars => IInv'
  BY NextPreserves
<1> QED
  BY InitIInv, <1>1, PTL DEF Spec

(* Tables, queues and runs always hold values of their kind, and a job has *)
(* a worker exactly while its queue says so.                               *)
THEOREM OnboardingTypeCorrect == Spec => []TypeOK
<1>1. IInv => TypeOK
  BY DEF IInv
<1> QED
  BY OnboardingInvariance, <1>1, PTL

(* However often jobs are repeated, no user and no e-mail gets a second    *)
(* business user.                                                          *)
THEOREM NeverTwoBusinessUsers == Spec => []OneBusinessUser
<1>1. IInv => OneBusinessUser
  BY DEF IInv
<1> QED
  BY OnboardingInvariance, <1>1, PTL

(* A deleted user never keeps or regains a row, whichever job was half-way *)
(* when it was deleted.                                                    *)
THEOREM DeletedUsersLeaveNothing == Spec => []NothingOfGoneUsers
<1>1. IInv => NothingOfGoneUsers
  BY DEF IInv
<1> QED
  BY OnboardingInvariance, <1>1, PTL
-----------------------------------------------------------------------------
(* No business user is lost in silence.  What the inductive invariant      *)
(* above lacks: how far each registration, job and run has got.            *)

(* A user has jobs only after register has inserted it.                    *)
Inserted == {"enqueue", "company", "staff", "otp", "done"}
NewUsers ==
  \A u \in Users :
    /\ reg[u] \in {"none"} \cup DOMAIN RoleAt => account[u] = "new"
    /\ reg[u] \in Inserted => account[u] # "new"
    /\ account[u] = "new" => /\ orgJob[u].st = "absent"
                             /\ \A j \in BuJobs : buJob[j].st # "absent" => BuUser(j) # u

(* A user still has the address it registered with unless it has moved, so *)
(* two live users registered with one address only if one of them has.     *)
AddressOK == \A u \in Users : u \in moved \/ address[u] = EmailOf[u]
EmailsApart ==
  \A u, v \in Users : Live(u) /\ Live(v) /\ EmailOf[u] = EmailOf[v] =>
                        u = v \/ u \in moved \/ v \in moved

(* Registration hands a business user to the first queue, ...              *)
Queued ==
  \A u \in Users :
    /\ reg[u] \in {"company", "staff"} => account[u] # "business"
    /\ reg[u] \in {"otp", "done"} /\ account[u] = "business" => orgJob[u].st # "absent"

(* ... a job of the first queue that is completed to the second, ...       *)
Handed ==
  \A u \in Users :
    orgRun[u].pc = "finish" \/ orgJob[u].st = "completed" =>
      \E j \in BuJobs : buJob[j].st # "absent" /\ BuUser(j) = u

(* ... and a job of the second leaves a row, unless its user is gone or    *)
(* was supplanted.                                                         *)
Rowed(u) == (\E b \in biz : b.user = u) \/ ~Live(u) \/ Supplanted(u)
Settled == \A j \in BuJobs : buRun[j] = "finish" \/ buJob[j].st = "completed" => Rowed(BuUser(j))

Progress == NewUsers /\ AddressOK /\ EmailsApart /\ Queued /\ Handed /\ Settled

LEMMA RegisterRoles ==
  /\ DOMAIN RoleAt = {"create_business", "create_staff", "create_other"}
  /\ RoleAt["create_business"] = "business" /\ RoleAt["create_staff"] = "staff"
  /\ RoleAt["create_other"] = "other"
  BY DEF RoleAt

LEMMA InitProgress == Init => Progress
  BY RegisterRoles DEF Init, Progress, NewUsers, AddressOK, EmailsApart, Queued, Handed, Settled, NoRun, Live,
     Roles, Inserted, OrgQueue!QueueInit, OrgQueue!Absent, BuQueue!QueueInit, BuQueue!Absent

LEMMA Types ==
  ASSUME IInv
  PROVE  /\ account \in [Users -> {"new", "gone"} \cup Roles]
         /\ reg \in [Users -> {"none", "done", "failed"} \cup RegisterSteps]
         /\ orgJob \in [Users -> OrgQueue!Job] /\ orgRun \in [Users -> OrgRun]
         /\ buJob \in [BuJobs -> BuQueue!Job] /\ buRun \in [BuJobs -> {"idle"} \cup BuSteps]
         /\ \A u \in Users : orgJob[u].st = "active" <=> orgRun[u].pc # "idle"
         /\ \A j \in BuJobs : buJob[j].st = "active" <=> buRun[j] # "idle"
  BY DEF IInv, TypeOK

(* Rows go only with their users, and what has moved has moved.            *)
LEMMA RowedKept ==
  ASSUME NEW u \in Users, Rowed(u), ~Live(u) => ~Live(u)', moved \subseteq moved',
         \A v \in Users : account[v] = "gone" => account'[v] = "gone",
         \A v \in Users : (\E b \in biz : b.user = v) =>
                          (\E b \in biz' : b.user = v) \/ account'[v] = "gone"
  PROVE  Rowed(u)'
<1>1. CASE \E b \in biz : b.user = u
  BY <1>1 DEF Rowed, Live, Roles
<1>2. CASE ~Live(u)
  BY <1>2 DEF Rowed
<1>3. CASE Supplanted(u)
  BY <1>3 DEF Rowed, Supplanted, RowsOf
<1> QED
  BY <1>1, <1>2, <1>3 DEF Rowed

(* A change of address separates no users that shared one and had not      *)
(* moved.                                                                  *)
LEMMA ChangeEmailProgress ==
  ASSUME IInv, Progress, NEW u \in Users, ChangeEmail(u) PROVE Progress'
<1>1. UNCHANGED <<account, biz, reg, orgVars, buVars>> /\ moved' = moved \cup {u}
      /\ \A v \in Users : v # u => address'[v] = address[v]
  BY DEF ChangeEmail, IInv, TypeOK
<1>2. NewUsers' /\ Queued' /\ Handed'
  BY <1>1 DEF Progress, NewUsers, Queued, Handed, orgVars, buVars, BuUser
<1>3. AddressOK' /\ EmailsApart'
  BY <1>1 DEF Progress, AddressOK, EmailsApart, Live
<1>4. Settled'
  <2>1. ASSUME NEW j \in BuJobs, buRun[j] = "finish" \/ buJob[j].st = "completed"
        PROVE  Rowed(BuUser(j))'
    <3>1. Rowed(BuUser(j)) /\ BuUser(j) \in Users /\ BuUser(j)' = BuUser(j)
      BY <1>1, <2>1, Types DEF Progress, Settled, IInv, JobsOK, BuData, BuUser, buVars
    <3>2. Live(BuUser(j))' = Live(BuUser(j))
      BY <1>1, <3>1 DEF Live
    <3> QED
      BY <1>1, <3>1, <3>2, RowedKept
  <2> QED
    BY <1>1, <2>1 DEF Settled, buVars
<1> QED
  BY <1>2, <1>3, <1>4 DEF Progress

(* Steps of register that insert no user and queue no job.                 *)
LEMMA RegisterMoves ==
  ASSUME IInv, Progress, NEW u \in Users,
         \/ RegisterCheck(u) \/ RegisterCompany(u) \/ RegisterStaff(u) \/ RegisterOtp(u)
         \/ RegisterFail(u)
  PROVE  Progress'
<1>1. UNCHANGED <<account, mailVars, biz, orgVars, buVars>>
  BY DEF RegisterCheck, RegisterCompany, RegisterStaff, RegisterOtp, RegisterFail
<1>2. PICK step :
        /\ RegGoto(u, step)
        /\ \/ reg[u] = "none" /\ step \in DOMAIN RoleAt
           \/ reg[u] = "company" /\ step = "staff"
           \/ reg[u] = "staff" /\ step = "otp"
           \/ reg[u] = "otp" /\ step = "done"
           \/ step = "failed"
  BY DEF RegisterCheck, RegisterCompany, RegisterStaff, RegisterOtp, RegisterFail
<1>3. \A v \in Users : reg'[v] = IF v = u THEN step ELSE reg[v]
  BY <1>2, Types DEF RegGoto
<1>4. NewUsers'
  BY <1>1, <1>2, <1>3, RegisterRoles DEF Progress, NewUsers, Inserted, orgVars, buVars, BuUser
<1>5. Queued'
  BY <1>1, <1>2, <1>3, RegisterRoles DEF Progress, Queued, orgVars
<1> QED
  BY <1>1, <1>4, <1>5 DEF Progress, AddressOK, EmailsApart, Handed, Settled, Rowed, Supplanted, RowsOf, mailVars, orgVars, buVars, BuUser, Live

LEMMA RegisterCreateProgress ==
  ASSUME IInv, Progress, NEW u \in Users, RegisterCreate(u) PROVE Progress'
<1> DEFINE role == RoleAt[reg[u]]
<1>1. /\ UNCHANGED <<mailVars, biz, orgVars, buVars>> /\ account[u] = "new" /\ role \in Roles
      /\ ~EmailTaken(EmailOf[u])
  BY RegisterRoles DEF RegisterCreate, Progress, NewUsers, Roles
<1>2. \A v \in Users : account'[v] = IF v = u THEN role ELSE account[v]
  BY Types DEF RegisterCreate
<1>3. /\ \A v \in Users : v # u => reg'[v] = reg[v]
      /\ \/ role = "business" /\ reg'[u] = "enqueue"
         \/ role = "staff" /\ reg'[u] = "company"
         \/ role = "other" /\ reg'[u] = "otp"
  BY Types, RegisterRoles DEF RegisterCreate, RegGoto
<1> HIDE DEF role
<1>4. NewUsers'
  BY <1>1, <1>2, <1>3, RegisterRoles DEF Progress, NewUsers, Inserted, Roles, orgVars, buVars, BuUser
<1>5. AddressOK' /\ EmailsApart'
  BY <1>1, <1>2 DEF Progress, AddressOK, EmailsApart, EmailTaken, Live, mailVars
<1>6. Queued'
  BY <1>1, <1>2, <1>3 DEF Progress, Queued, orgVars
<1>7. Settled'
  <2>1. ASSUME NEW j \in BuJobs, buRun[j] = "finish" \/ buJob[j].st = "completed"
        PROVE  Rowed(BuUser(j))'
    <3>1. buJob[j].st # "absent" /\ Rowed(BuUser(j)) /\ BuUser(j) \in Users
      BY <2>1, Types DEF Progress, Settled, IInv, JobsOK, BuData, BuUser
    <3>2. BuUser(j) # u
      BY <1>1, <3>1 DEF Progress, NewUsers
    <3> QED
      <4>1. Live(BuUser(j))' = Live(BuUser(j)) /\ BuUser(j)' = BuUser(j)
        BY <1>1, <1>2, <3>1, <3>2 DEF Live, BuUser, buVars
      <4>2. \A v \in Users : account[v] = "gone" => account'[v] = "gone"
        BY <1>1, <1>2
      <4> QED
        BY <1>1, <3>1, <4>1, <4>2, RowedKept DEF mailVars
  <2> QED
    BY <1>1, <2>1 DEF Settled, buVars
<1> QED
  BY <1>1, <1>4, <1>5, <1>6, <1>7 DEF Progress, Handed, orgVars, buVars, BuUser

LEMMA RegisterEnqueueProgress ==
  ASSUME IInv, Progress, NEW u \in Users, RegisterEnqueue(u) PROVE Progress'
<1>1. UNCHANGED <<account, mailVars, biz, orgRun, buVars>> /\ reg[u] = "enqueue"
  BY DEF RegisterEnqueue
<1>2. /\ \A v \in Users : reg'[v] = IF v = u THEN "otp" ELSE reg[v]
      /\ \A v \in Users : v # u => orgJob'[v] = orgJob[v]
      /\ orgJob'[u].st = "waiting"
  BY Types DEF RegisterEnqueue, RegGoto, OrgQueue!Add, OrgQueue!Job
<1>3. NewUsers' /\ Queued'
  BY <1>1, <1>2, RegisterRoles DEF Progress, NewUsers, Queued, Inserted, buVars, BuUser
<1>4. Handed'
  BY <1>1, <1>2, Types DEF Progress, Handed, RegisterEnqueue, OrgQueue!Add, buVars, BuUser
<1> QED
  BY <1>1, <1>3, <1>4 DEF Progress, AddressOK, EmailsApart, Settled, Rowed, Supplanted, RowsOf, mailVars, buVars, BuUser, Live

(* Steps of the organization job that leave tables and the other queue.    *)
LEMMA OrgMoves ==
  ASSUME IInv, Progress, NEW u \in Users,
         \/ OrgTake(u) \/ OrgCall(u) \/ OrgThrow(u) \/ OrgFinish(u) \/ OrgStall(u)
  PROVE  Progress'
<1>1. UNCHANGED <<account, mailVars, biz, reg, buVars>>
  BY DEF OrgTake, OrgCall, OrgThrow, OrgFinish, OrgStall
<1>2. /\ \A v \in Users : v # u => orgJob'[v] = orgJob[v] /\ orgRun'[v] = orgRun[v]
      /\ orgJob[u].st # "absent" /\ orgJob'[u].st # "absent"
      /\ orgRun'[u].pc = "finish" \/ orgJob'[u].st = "completed" => orgRun[u].pc = "finish"
  <2>1. CASE OrgTake(u)
    BY <2>1, Types DEF OrgTake, OrgGoto, NoRun, OrgQueue!Take, OrgQueue!Job
  <2>2. CASE OrgCall(u)
    <3>1. orgJob' = orgJob /\ orgJob[u].st = "active"
      BY <2>2, Types DEF OrgCall
    <3>2. PICK run : orgRun' = [orgRun EXCEPT ![u] = run] /\ run.pc # "finish"
      BY <2>2 DEF OrgCall, OrgGoto, NoRun
    <3> QED
      BY <3>1, <3>2, Types
  <2>3. CASE OrgThrow(u)
    BY <2>3, Types DEF OrgThrow, NoRun, OrgQueue!Throw, OrgQueue!Job
  <2>4. CASE OrgFinish(u)
    BY <2>4, Types DEF OrgFinish, NoRun, OrgQueue!Complete, OrgQueue!Job
  <2>5. CASE OrgStall(u)
    BY <2>5, Types DEF OrgStall, NoRun, OrgQueue!Stall, OrgQueue!Job
  <2> QED
    BY <2>1, <2>2, <2>3, <2>4, <2>5
<1>3. NewUsers' /\ Queued' /\ Handed'
  BY <1>1, <1>2 DEF Progress, NewUsers, Queued, Handed, buVars, BuUser
<1> QED
  BY <1>1, <1>3 DEF Progress, AddressOK, EmailsApart, Settled, Rowed, Supplanted, RowsOf, mailVars, buVars, BuUser, Live

LEMMA OrgEnqueueProgress ==
  ASSUME IInv, Progress, NEW u \in Users, OrgEnqueue(u) PROVE Progress'
<1>1. /\ UNCHANGED <<account, mailVars, biz, reg, orgJob, buRun>> /\ orgRun[u].pc = "enqueue"
      /\ orgJob[u].st = "active" /\ account[u] # "new"
  BY Types DEF OrgEnqueue, Progress, NewUsers, buVars
<1>2. CASE OrgGoto(u, "compensate") /\ UNCHANGED buVars
  <2>1. /\ \A v \in Users : v # u => orgRun'[v] = orgRun[v]
        /\ orgRun'[u].pc = "compensate"
    BY <1>2, Types DEF OrgGoto, NoRun
  <2> QED
    BY <1>1, <1>2, <2>1
       DEF Progress, NewUsers, AddressOK, EmailsApart, Queued, Handed, Settled, Rowed, Supplanted, RowsOf, mailVars, buVars, BuUser, Live
<1>3. ASSUME NEW j \in BuJobs, BuQueue!Add(j),
             buData' = [buData EXCEPT ![j] = [user |-> u, org |-> orgRun[u].org]],
             OrgGoto(u, "finish")
      PROVE  Progress'
  <2>1. /\ buJob[j].st = "absent" /\ buJob'[j].st = "waiting" /\ BuUser(j)' = u
        /\ \A i \in BuJobs : i # j => buJob'[i] = buJob[i] /\ BuUser(i)' = BuUser(i)
    BY <1>3, Types DEF BuQueue!Add, BuQueue!Job, BuUser, IInv, TypeOK
  <2>2. \A v \in Users : v # u => orgRun'[v] = orgRun[v]
    BY <1>3, Types DEF OrgGoto
  <2>3. NewUsers'
    BY <1>1, <2>1 DEF Progress, NewUsers
  <2>4. Handed'
    BY <1>1, <2>1, <2>2 DEF Progress, Handed
  <2>5. Settled'
    <3>1. buRun[j] = "idle"
      BY <2>1, Types
    <3> QED
      BY <1>1, <2>1, <3>1 DEF Progress, Settled, Rowed, Supplanted, RowsOf, mailVars, Live
  <2> QED
    BY <1>1, <2>3, <2>4, <2>5 DEF Progress, AddressOK, EmailsApart, Queued, Live, mailVars
<1> QED
  BY <1>2, <1>3 DEF OrgEnqueue

LEMMA OrgCompensateProgress ==
  ASSUME IInv, Progress, NEW u \in Users, OrgCompensate(u) PROVE Progress'
<1>1. /\ UNCHANGED <<mailVars, reg, orgJob, buVars>> /\ orgRun[u].pc = "compensate"
      /\ orgJob[u].st = "active" /\ account[u] # "new"
  BY Types DEF OrgCompensate, Progress, NewUsers
<1>2. /\ \A v \in Users : v # u => orgRun'[v] = orgRun[v]
      /\ orgRun'[u].pc = "throw"
  BY Types DEF OrgCompensate, OrgGoto, NoRun
<1>3. /\ \A v \in Users : v # u => account'[v] = account[v]
      /\ account'[u] = account[u] \/ account'[u] = "gone"
      /\ \A b \in biz : b \in biz' \/ (b.user = u /\ account'[u] = "gone")
  BY Types DEF OrgCompensate, RowsOf
<1>4. NewUsers' /\ Queued' /\ Handed'
  BY <1>1, <1>2, <1>3 DEF Progress, NewUsers, Queued, Handed, buVars, BuUser, Inserted
<1>5. AddressOK' /\ EmailsApart'
  BY <1>1, <1>3 DEF Progress, AddressOK, EmailsApart, Live, Roles, mailVars
<1>6. Settled'
  <2>1. ASSUME NEW j \in BuJobs, buRun[j] = "finish" \/ buJob[j].st = "completed"
        PROVE  Rowed(BuUser(j))'
    <3>1. Rowed(BuUser(j)) /\ BuUser(j) \in Users /\ BuUser(j)' = BuUser(j)
      BY <1>1, <2>1, Types DEF Progress, Settled, IInv, JobsOK, BuData, BuUser, buVars
    <3> QED
      <4>1. ~Live(BuUser(j)) => ~Live(BuUser(j))'
        BY <1>3, <3>1 DEF Live, Roles
      <4>2. \A v \in Users : (\E b \in biz : b.user = v) =>
                              (\E b \in biz' : b.user = v) \/ account'[v] = "gone"
        BY <1>3
      <4> QED
        BY <1>1, <1>3, <3>1, <4>1, <4>2, RowedKept DEF mailVars
  <2> QED
    BY <1>1, <2>1 DEF Settled, buVars
<1> QED
  BY <1>4, <1>5, <1>6 DEF Progress

(* Whatever the business-user job does with rows, users keep having one.   *)
LEMMA BuMoves ==
  ASSUME IInv, Progress, NEW j \in BuJobs,
         UNCHANGED <<account, mailVars, reg, orgVars, buData>>,
         \A b \in biz : \E c \in biz' : c.user = b.user,
         \A i \in BuJobs : i # j => buJob'[i] = buJob[i] /\ buRun'[i] = buRun[i],
         buJob[j].st # "absent", buJob'[j].st # "absent",
         buRun'[j] = "finish" \/ buJob'[j].st = "completed" =>
           \/ buRun[j] = "finish" \/ Supplanted(BuUser(j))
           \/ (\E b \in biz' : b.user = BuUser(j)) \/ ~Live(BuUser(j))
  PROVE  Progress'
<1>1. NewUsers' /\ Queued' /\ Handed'
  BY DEF Progress, NewUsers, Queued, Handed, orgVars, BuUser
<1>2. Settled'
  BY DEF Progress, Settled, Rowed, Supplanted, RowsOf, mailVars, BuUser, Live
<1> QED
  BY <1>1, <1>2 DEF Progress, AddressOK, EmailsApart, Live, mailVars

LEMMA BuProgress ==
  ASSUME IInv, Progress, NEW j \in BuJobs, BuWork(j) \/ BuStall(j) PROVE Progress'
<1>1. UNCHANGED <<account, mailVars, reg, orgVars, buData>>
  BY DEF BuWork, BuTake, BuReadUser, BuReadEmail, BuReadPair, BuDeactivate, BuCreate, BuFail,
     BuThrow, BuFinish, BuStall
<1>2. CASE BuTake(j)
  <2>1. /\ \A i \in BuJobs : i # j => buJob'[i] = buJob[i] /\ buRun'[i] = buRun[i]
        /\ buJob[j].st # "absent" /\ buJob'[j].st = "active" /\ buRun'[j] = "user" /\ biz' = biz
    BY <1>2, Types DEF BuTake, BuGoto, BuQueue!Take, BuQueue!Job
  <2> QED
    BY <1>1, <2>1, BuMoves
<1>3. CASE BuReadUser(j) \/ BuReadPair(j) \/ BuFail(j)
  <2>1. /\ \A i \in BuJobs : i # j => buRun'[i] = buRun[i]
        /\ buJob[j].st = "active" /\ buJob' = buJob /\ buRun'[j] # "finish" /\ biz' = biz
    BY <1>3, Types DEF BuReadUser, BuReadPair, BuFail, BuGoto, BuSteps
  <2> QED
    BY <1>1, <2>1, BuMoves
<1>4. CASE BuReadEmail(j)
  <2>1. /\ \A i \in BuJobs : i # j => buRun'[i] = buRun[i]
        /\ buJob[j].st = "active" /\ buJob' = buJob /\ biz' = biz
        /\ buRun'[j] = "finish" => RowsFor(EmailOf[BuUser(j)]) # {}
    BY <1>4, Types DEF BuReadEmail, BuGoto, BuSteps
  <2>2. ASSUME NEW b \in biz, b.email = EmailOf[BuUser(j)], Live(BuUser(j))
        PROVE  b.user = BuUser(j) \/ Supplanted(BuUser(j))
    <3>1. BuUser(j) \in Users
      BY <2>1 DEF IInv, JobsOK, BuData, BuUser
    <3>2. b.user \in Users /\ Live(b.user) /\ b.email = EmailOf[b.user]
      BY DEF IInv, TypeOK, RowsOK, NothingOfGoneUsers, BusinessUser
    <3>3. b.user = BuUser(j) \/ b.user \in moved \/ BuUser(j) \in moved
      BY <2>2, <3>1, <3>2 DEF Progress, EmailsApart
    <3>4. RowsOf(b.user) # {}
      BY DEF RowsOf
    <3> QED
      BY <2>2, <3>1, <3>2, <3>3, <3>4 DEF Supplanted
  <2>3. buRun'[j] = "finish" => \/ Supplanted(BuUser(j)) \/ ~Live(BuUser(j))
                               \/ \E b \in biz' : b.user = BuUser(j)
    BY <2>1, <2>2 DEF RowsFor
  <2> QED
    BY <1>1, <2>1, <2>3, BuMoves
<1>5. CASE BuDeactivate(j)
  <2> DEFINE off(b) == [b EXCEPT !.active = FALSE]
  <2>1. /\ \A i \in BuJobs : i # j => buRun'[i] = buRun[i]
        /\ buJob[j].st = "active" /\ buJob' = buJob
        /\ biz' = (biz \ RowsMatching(j)) \cup {off(b) : b \in RowsMatching(j)}
        /\ RowsMatching(j) # {}
    BY <1>5, Types DEF BuDeactivate, BuGoto, BuSteps
  <2>2. \A b \in biz : off(b).user = b.user
    BY DEF IInv, TypeOK, BusinessUser
  <2> HIDE DEF off
  <2>3. \A b \in biz : \E c \in biz' : c.user = b.user
    BY <2>1, <2>2 DEF RowsMatching
  <2>4. \E b \in biz' : b.user = BuUser(j)
    BY <2>1, <2>3 DEF RowsMatching
  <2> QED
    BY <1>1, <2>1, <2>3, <2>4, BuMoves
<1>6. CASE BuCreate(j)
  <2> DEFINE row == [user |-> BuUser(j), org |-> buData[j].org,
                     email |-> EmailOf[BuUser(j)], active |-> TRUE]
  <2>1. /\ \A i \in BuJobs : i # j => buRun'[i] = buRun[i]
        /\ buJob[j].st = "active" /\ buJob' = buJob /\ biz' = biz \cup {row}
    BY <1>6, Types DEF BuCreate, BuGoto, BuSteps
  <2>2. row.user = BuUser(j)
    OBVIOUS
  <2> HIDE DEF row
  <2> QED
    BY <1>1, <2>1, <2>2, BuMoves
<1>7. CASE BuThrow(j) \/ BuStall(j)
  <2>1. /\ \A i \in BuJobs : i # j => buJob'[i] = buJob[i] /\ buRun'[i] = buRun[i]
        /\ buJob[j].st = "active" /\ buJob'[j].st \in {"waiting", "failed"}
        /\ buRun'[j] = "idle" /\ biz' = biz
    BY <1>7, Types DEF BuThrow, BuStall, BuGoto, BuQueue!Throw, BuQueue!Stall, BuQueue!Job
  <2> QED
    BY <1>1, <2>1, BuMoves
<1>8. CASE BuFinish(j)
  <2>1. /\ \A i \in BuJobs : i # j => buJob'[i] = buJob[i] /\ buRun'[i] = buRun[i]
        /\ buJob[j].st = "active" /\ buJob'[j].st = "completed"
        /\ buRun[j] = "finish" /\ biz' = biz
    BY <1>8, Types DEF BuFinish, BuGoto, BuQueue!Complete, BuQueue!Job
  <2> QED
    BY <1>1, <2>1, BuMoves
<1> QED
  BY <1>2, <1>3, <1>4, <1>5, <1>6, <1>7, <1>8 DEF BuWork

LEMMA NextProgress == IInv /\ Progress /\ [Next]_vars => Progress'
<1>1. IInv /\ Progress /\ UNCHANGED vars => Progress'
  BY DEF Progress, NewUsers, AddressOK, EmailsApart, Queued, Handed, Settled, Rowed,
     Supplanted, RowsOf, mailVars, vars, orgVars, buVars, BuUser, Live
<1>2. ASSUME IInv, Progress, NEW u \in Users, OrgWork(u) \/ OrgStall(u) PROVE Progress'
  BY <1>2, OrgMoves, OrgEnqueueProgress, OrgCompensateProgress DEF OrgWork
<1> QED
  BY <1>1, <1>2, RegisterMoves, RegisterCreateProgress, RegisterEnqueueProgress,
     ChangeEmailProgress, BuProgress DEF Next

(* Every business user that register accepted has its row, a job that will *)
(* still run, a failed job where an operator finds it, or was supplanted   *)
(* under its address by another, which takes a change of address.          *)
THEOREM NobodyLostInSilence == Spec => []NoSilentLoss
<1>1. IInv /\ Progress => NoSilentLoss
  <2> SUFFICES ASSUME IInv, Progress, NEW u \in Users, account[u] = "business",
                      reg[u] \in {"otp", "done"}, RowsOf(u) = {},
                      orgJob[u].st \notin {"waiting", "active", "failed"}, ~Supplanted(u)
               PROVE  \E j \in BuJobs : /\ buData[j] # None /\ BuUser(j) = u
                                       /\ buJob[j].st \in {"waiting", "active", "failed"}
    BY DEF NoSilentLoss
  <2>1. orgJob[u].st = "completed"
    BY Types DEF Progress, Queued, OrgQueue!Job
  <2>2. PICK j \in BuJobs : buJob[j].st # "absent" /\ BuUser(j) = u
    BY <2>1 DEF Progress, Handed
  <2>3. ~Rowed(u)
    BY DEF Rowed, RowsOf, Live, Roles
  <2>4. buJob[j].st \in {"waiting", "active", "failed"}
    BY <2>2, <2>3, Types DEF Progress, Settled, BuQueue!Job
  <2>5. buData[j] # None
    BY <2>2 DEF IInv, JobsOK, BuData
  <2> QED
    BY <2>2, <2>4, <2>5
<1>2. IInv /\ [Next]_vars => IInv'
  BY NextPreserves
<1> QED
  BY <1>1, <1>2, InitIInv, InitProgress, NextProgress, PTL DEF Spec
-----------------------------------------------------------------------------
(* One worker per queue.  A run that has looked up the e-mail and found no *)
(* business user finds none later either, for nobody else inserts one: it  *)
(* never comes to the pair of an earlier run, which it would switch off.   *)

OneRun == \A i, j \in BuJobs : buRun[i] # "idle" /\ buRun[j] # "idle" => i = j
LookUpHolds ==
  \A j \in BuJobs : /\ buRun[j] # "deactivate"
                    /\ buRun[j] \in {"pair", "create"} => RowsFor(EmailOf[BuUser(j)]) = {}
OneWorkerInv == ActiveOnceOnboarded /\ OneRun /\ LookUpHolds

LEMMA InitOneWorker == Init => OneWorkerInv
  BY DEF Init, OneWorkerInv, ActiveOnceOnboarded, OneRun, LookUpHolds

(* What neither takes a job of the queue nor inserts a row.                *)
LEMMA OthersOneWorker ==
  ASSUME OneWorkerInv, biz' \subseteq biz, UNCHANGED buRun,
         \A j \in BuJobs : buRun[j] # "idle" => buData'[j] = buData[j]
  PROVE  OneWorkerInv'
<1>1. ActiveOnceOnboarded' /\ OneRun'
  BY DEF OneWorkerInv, ActiveOnceOnboarded, OneRun
<1>2. LookUpHolds'
  BY DEF OneWorkerInv, LookUpHolds, RowsFor, BuUser
<1> QED
  BY <1>1, <1>2 DEF OneWorkerInv

(* A worker takes a job only when no other job has one.                    *)
LEMMA TakenAlone ==
  ASSUME IInv, Workers = 1, IsFiniteSet(BuJobs), NEW j \in BuJobs, BuTake(j)
  PROVE  \A i \in BuJobs : buRun[i] = "idle"
<1> DEFINE busy == {i \in BuJobs : buJob[i].st = "active"}
<1>1. IsFiniteSet(busy) /\ Cardinality(busy) < 1
  BY FS_Subset DEF BuTake
<1> HIDE DEF busy
<1>2. busy = {}
  BY <1>1, FS_EmptySet, FS_CardinalityType
<1> QED
  BY <1>2, Types DEF busy

(* A step of the only run.                                                 *)
LEMMA BuOneWorker ==
  ASSUME IInv, OneWorkerInv, NEW j \in BuJobs, BuWork(j) \/ BuStall(j), ~BuTake(j)
  PROVE  OneWorkerInv'
<1>1. UNCHANGED buData /\ buRun[j] # "idle"
  BY Types DEF BuWork, BuReadUser, BuReadEmail, BuReadPair, BuDeactivate, BuCreate, BuFail, BuThrow,
     BuFinish, BuStall, BuQueue!Stall, BuSteps
<1>2. \A i \in BuJobs : i # j => buRun[i] = "idle" /\ buRun'[i] = buRun[i]
  BY <1>1, Types DEF OneWorkerInv, OneRun, BuWork, BuReadUser, BuReadEmail, BuReadPair, BuDeactivate,
     BuCreate, BuFail, BuThrow, BuFinish, BuStall, BuGoto
<1>3. OneRun'
  BY <1>2 DEF OneRun
<1>4. buRun[j] # "deactivate" /\ (buRun[j] \in {"pair", "create"} => RowsFor(EmailOf[BuUser(j)]) = {})
  BY DEF OneWorkerInv, LookUpHolds
<1>5. ActiveOnceOnboarded'
  BY <1>4 DEF OneWorkerInv, ActiveOnceOnboarded, BuWork, BuReadUser, BuReadEmail, BuReadPair,
     BuDeactivate, BuCreate, BuFail, BuThrow, BuFinish, BuStall
<1>6. buRun'[j] # "deactivate" /\ (buRun'[j] \in {"pair", "create"} => RowsFor(EmailOf[BuUser(j)])' = {})
  <2>1. CASE BuReadEmail(j)
    BY <1>1, <2>1, Types DEF BuReadEmail, BuGoto, RowsFor, BuUser
  <2>2. CASE BuReadPair(j)
    <3>1. RowsFor(EmailOf[BuUser(j)]) = {} /\ BuUser(j) \in Users
      BY <1>1, <1>4, <2>2, Types DEF BuReadPair, IInv, JobsOK, BuData, BuUser
    <3>2. RowsMatching(j) = {}
      BY <3>1 DEF IInv, RowsOK, RowsFor, RowsMatching
    <3> QED
      BY <1>1, <2>2, <3>1, <3>2, Types DEF BuReadPair, BuGoto, RowsFor, BuUser
  <2>3. CASE ~BuReadEmail(j) /\ ~BuReadPair(j)
    <3>1. buRun'[j] \in {"idle", "email", "throw", "finish"}
      BY <1>4, <2>3, Types DEF BuWork, BuReadUser, BuDeactivate, BuCreate, BuFail, BuThrow, BuFinish,
         BuStall, BuGoto
    <3> QED
      BY <3>1
  <2> QED
    BY <2>1, <2>2, <2>3
<1>7. LookUpHolds'
  BY <1>2, <1>6 DEF LookUpHolds
<1> QED
  BY <1>3, <1>5, <1>7 DEF OneWorkerInv

LEMMA NextOneWorker ==
  ASSUME Workers = 1, IsFiniteSet(BuJobs)
  PROVE  IInv /\ OneWorkerInv /\ [Next]_vars => OneWorkerInv'
<1> SUFFICES ASSUME IInv, OneWorkerInv, [Next]_vars PROVE OneWorkerInv'
  OBVIOUS
<1>1. CASE UNCHANGED vars
  BY <1>1, OthersOneWorker DEF vars, buVars
<1>2. ASSUME NEW u \in Users,
             \/ RegisterCheck(u) \/ RegisterCreate(u) \/ RegisterEnqueue(u) \/ RegisterCompany(u)
             \/ RegisterStaff(u) \/ RegisterOtp(u) \/ RegisterFail(u) \/ ChangeEmail(u)
      PROVE  OneWorkerInv'
  BY <1>2, OthersOneWorker DEF RegisterCheck, RegisterCreate, RegisterEnqueue, RegisterCompany,
     RegisterStaff, RegisterOtp, RegisterFail, ChangeEmail, buVars
<1>3. ASSUME NEW u \in Users, OrgWork(u) \/ OrgStall(u) PROVE OneWorkerInv'
  <2>1. CASE OrgEnqueue(u)
    <3>1. UNCHANGED <<biz, buRun>>
      BY <2>1 DEF OrgEnqueue, buVars
    <3>2. \A j \in BuJobs : buRun[j] # "idle" => buData'[j] = buData[j]
      BY <2>1, Types DEF OrgEnqueue, buVars, BuQueue!Add, IInv, TypeOK
    <3> QED
      BY <3>1, <3>2, OthersOneWorker
  <2>2. CASE ~OrgEnqueue(u)
    <3>1. biz' \subseteq biz /\ UNCHANGED <<buRun, buData>>
      BY <1>3, <2>2 DEF OrgWork, OrgTake, OrgCall, OrgCompensate, OrgThrow, OrgFinish, OrgStall, buVars
    <3> QED
      BY <3>1, OthersOneWorker
  <2> QED
    BY <2>1, <2>2
<1>4. ASSUME NEW j \in BuJobs, BuTake(j) PROVE OneWorkerInv'
  <2>1. \A i \in BuJobs : buRun[i] = "idle"
    BY <1>4, TakenAlone
  <2>2. UNCHANGED <<biz, buData>> /\ \A i \in BuJobs : buRun'[i] = IF i = j THEN "user" ELSE "idle"
    BY <1>4, <2>1, Types DEF BuTake, BuGoto
  <2> QED
    BY <2>2 DEF OneWorkerInv, ActiveOnceOnboarded, OneRun, LookUpHolds
<1> QED
  BY <1>1, <1>2, <1>3, <1>4, BuOneWorker DEF Next

(* With one worker per queue, as the service runs when it has one process, *)
(* no repetition of a job ever switches a business user off.               *)
THEOREM OneWorkerKeepsActive ==
  ASSUME Workers = 1, IsFiniteSet(BuJobs)
  PROVE  Spec => []ActiveOnceOnboarded
<1>1. OneWorkerInv => ActiveOnceOnboarded
  BY DEF OneWorkerInv
<1>2. IInv /\ [Next]_vars => IInv'
  BY NextPreserves
<1>3. IInv /\ OneWorkerInv /\ [Next]_vars => OneWorkerInv'
  BY NextOneWorker
<1> QED
  BY <1>1, <1>2, <1>3, InitIInv, InitOneWorker, PTL DEF Spec
=============================================================================
