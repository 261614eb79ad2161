----------------------------- MODULE ServicesProofs -----------------------------
(***************************************************************************)
(* Proofs about the circuit breaker, the delivery of codes, the start of a *)
(* container and the verification of a batch, each by itself, and about    *)
(* the specification MCServices makes of them: for any number of calls,    *)
(* codes, failures, stops, roles and invitations the constants allow.      *)
(***************************************************************************)
EXTENDS MCServices, FiniteSetTheorems, WellFoundedInduction, TLAPS

-----------------------------------------------------------------------------
(* One circuit *)

USE CircuitAssumption

LEMMA CircuitInitially == CircuitInit => CircuitInv
  BY DEF CircuitInit, CircuitInv, CircuitTypeOK, StateMatchesCount, NoCallSinceOpened, Ages, Oldest

(* Growing older keeps an age an age and never reverses two of them.       *)
LEMMA OlderAge ==
  \A a, b \in Ages : /\ Older(a) \in Ages
                     /\ a <= b => Older(a) <= Older(b)
  BY DEF Ages, Older, Oldest

LEMMA TickPreserves == CircuitInv /\ Tick => CircuitInv'
<1> SUFFICES ASSUME CircuitInv, Tick PROVE CircuitInv'
  OBVIOUS
<1>1. since \in Ages /\ age \in [Calls -> Ages] /\ running \subseteq Calls
  BY DEF CircuitInv, CircuitTypeOK
<1>2. since' \in Ages /\ age' \in [Calls -> Ages]
  BY <1>1, OlderAge DEF Tick
<1>3. CircuitTypeOK'
  BY <1>2 DEF CircuitInv, CircuitTypeOK, Tick
<1>4. NoCallSinceOpened'
  <2>1. \A c \in running : since <= age[c] => since' <= age'[c]
    BY <1>1, OlderAge DEF Tick
  <2> QED
    BY <2>1 DEF CircuitInv, NoCallSinceOpened, Tick
<1> QED
  BY <1>3, <1>4 DEF CircuitInv, StateMatchesCount, Tick

LEMMA BeginPreserves == ASSUME CircuitInv, NEW c \in Calls, Begin(c) PROVE CircuitInv'
<1>1. CircuitTypeOK'
  BY DEF CircuitInv, CircuitTypeOK, Begin, Ages, Oldest
<1>2. StateMatchesCount'
  BY DEF CircuitInv, CircuitTypeOK, StateMatchesCount, Begin
<1>3. state' # "OPEN"
  BY DEF Begin
<1> QED
  BY <1>1, <1>2, <1>3 DEF CircuitInv, NoCallSinceOpened

LEMMA SucceedPreserves == ASSUME CircuitInv, NEW c \in Calls, Succeed(c) PROVE CircuitInv'
<1>1. CircuitTypeOK'
  BY DEF CircuitInv, CircuitTypeOK, Succeed
<1>2. StateMatchesCount'
  BY DEF CircuitInv, CircuitTypeOK, StateMatchesCount, Succeed
<1>3. NoCallSinceOpened'
  BY DEF CircuitInv, CircuitTypeOK, NoCallSinceOpened, Succeed
<1> QED
  BY <1>1, <1>2, <1>3 DEF CircuitInv

LEMMA FailurePreserves == ASSUME CircuitInv, NEW c \in Calls, CountFailure(c) PROVE CircuitInv'
<1>1. failures' \in 0..MaxFailures /\ (failures >= Threshold => failures' >= Threshold)
  BY DEF CircuitInv, CircuitTypeOK, CountFailure
<1>2. CircuitTypeOK'
  BY <1>1 DEF CircuitInv, CircuitTypeOK, CountFailure, Ages, Oldest
<1>3. StateMatchesCount'
  BY <1>1 DEF CircuitInv, CircuitTypeOK, StateMatchesCount, CountFailure
<1>4. NoCallSinceOpened'
  BY DEF CircuitInv, CircuitTypeOK, NoCallSinceOpened, CountFailure, Ages
<1> QED
  BY <1>2, <1>3, <1>4 DEF CircuitInv

LEMMA CircuitPreserves == CircuitInv /\ [CircuitNext]_circuitVars => CircuitInv'
<1>1. CircuitInv /\ UNCHANGED circuitVars => CircuitInv'
  BY DEF CircuitInv, CircuitTypeOK, StateMatchesCount, NoCallSinceOpened, circuitVars
<1> QED
  BY <1>1, TickPreserves, BeginPreserves, SucceedPreserves, FailurePreserves
     DEF CircuitNext, Reject, TimeOut

(* The invariant holds in every reachable state of the circuit. *)
THEOREM CircuitInvariance == CircuitSpec => []CircuitInv
  BY CircuitInitially, CircuitPreserves, PTL DEF CircuitSpec

(* The circuit's record and its calls always hold values of their kind. *)
THEOREM CircuitTypeCorrect == CircuitSpec => []CircuitTypeOK
<1>1. CircuitInv => CircuitTypeOK
  BY DEF CircuitInv
<1> QED
  BY CircuitInvariance, <1>1, PTL

(* For every threshold and any interleaving of late answers, the circuit   *)
(* is closed exactly while the count is below the threshold.               *)
THEOREM StateAlwaysMatchesCount == CircuitSpec => []StateMatchesCount
<1>1. CircuitInv => StateMatchesCount
  BY DEF CircuitInv
<1> QED
  BY CircuitInvariance, <1>1, PTL

(* No operation awaited by an open circuit was started after the last      *)
(* failure.                                                                *)
THEOREM OpenAlwaysProtects == CircuitSpec => []NoCallSinceOpened
<1>1. CircuitInv => NoCallSinceOpened
  BY DEF CircuitInv
<1> QED
  BY CircuitInvariance, <1>1, PTL

HIDE CircuitAssumption

-----------------------------------------------------------------------------
(* The delivery of codes *)

USE DeliveryAssumption

(* The inductive invariant: every table is of its kind, and each code by   *)
(* itself is in order.                                                     *)

DeliveryTyped ==
  /\ request \in [Codes -> Request] /\ adding \subseteq Codes
  /\ job \in [Codes -> Comms!Job] /\ worker \in [Codes -> {"none", "sending", "sent"}]
  /\ mails \in [Codes -> Nat] /\ calls \in [Codes -> Nat] /\ errors \in [Codes -> Nat]
  /\ crashes \in 0..MaxCrashes

(* A call that got past queue.add has left a job; a job has a worker       *)
(* unless the process stopped under it.                                    *)
JobOK(k) ==
  /\ k \in adding \/ job[k].st # "absent" =>
       request[k].kind = "queued" /\ request[k].pc \notin {"idle", "store", "add"}
  /\ worker[k] # "none" => job[k].st = "active"
  /\ k \in adding => job[k].st = "absent"
  /\ request[k].kind = "none" => request[k].pc = "idle"
  /\ request[k].kind = "queued" /\ request[k].pc \in {"token", "answered"} =>
       k \in adding \/ job[k].st # "absent" \/ crashes > 0
  /\ job[k].st = "active" /\ worker[k] = "none" => crashes > 0
  /\ job[k].st = "failed" => crashes > 0

(* A call that is over has sent a mail or seen an error; and there is no   *)
(* mail before that unless the process stopped.                            *)
MailOK(k) ==
  /\ request[k].kind = "direct" /\ request[k].pc = "answered" => mails[k] > 0
  /\ worker[k] = "sent" \/ job[k].st = "completed" => mails[k] > 0 \/ errors[k] > 0
  /\ crashes = 0 => mails[k] <= 1
  /\ crashes = 0 /\ mails[k] > 0 =>
       \/ request[k].kind = "direct" /\ request[k].pc \in {"answered", "error"}
       \/ request[k].kind = "queued" /\ (worker[k] = "sent" \/ job[k].st = "completed")

CodeOK(k) == JobOK(k) /\ MailOK(k)

DeliveryInv == DeliveryTyped /\ \A k \in Codes : CodeOK(k)

LEMMA DeliveryInitially == DeliveryInit => DeliveryInv
  BY DEF DeliveryInit, DeliveryInv, DeliveryTyped, CodeOK, JobOK, MailOK, Idle, Request, Steps,
     Comms!QueueInit, Comms!Absent, Comms!Job

-----------------------------------------------------------------------------
(* A step of one code *)

OthersKept(k) ==
  \A o \in Codes \ {k} :
    /\ request'[o] = request[o] /\ job'[o] = job[o] /\ worker'[o] = worker[o]
    /\ mails'[o] = mails[o] /\ errors'[o] = errors[o] /\ (o \in adding' <=> o \in adding)

LEMMA CodeStep ==
  ASSUME DeliveryInv, NEW k \in Codes, DeliveryTyped', OthersKept(k), crashes' = crashes, CodeOK(k)'
  PROVE  DeliveryInv'
<1>1. ASSUME NEW o \in Codes \ {k} PROVE CodeOK(o)'
  BY <1>1 DEF DeliveryInv, OthersKept, CodeOK, JobOK, MailOK
<1> QED
  BY <1>1 DEF DeliveryInv

(* The request goes on, and nothing else changes but that it may be adding.*)
LEMMA MoveStep ==
  ASSUME DeliveryInv, NEW k \in Codes, NEW pc \in Steps \cup {"answered", "error"}, Move(k, pc)
  PROVE  /\ request' \in [Codes -> Request]
         /\ \A o \in Codes \ {k} : request'[o] = request[o]
         /\ request'[k].pc = pc /\ request'[k].kind = request[k].kind
  BY DEF DeliveryInv, DeliveryTyped, Move, Request, Steps

LEMMA AskPreserves ==
  ASSUME DeliveryInv, NEW k \in Codes, NEW kind \in {"queued", "direct"}, Ask(k, kind) PROVE DeliveryInv'
<1>1. DeliveryTyped'
  BY DEF DeliveryInv, DeliveryTyped, Ask, Request, Steps
<1>2. OthersKept(k)
  BY DEF DeliveryInv, DeliveryTyped, Ask, OthersKept
<1>3. request[k] = Idle /\ request'[k] = [kind |-> kind, pc |-> "store"] /\ CodeOK(k)
  BY DEF DeliveryInv, DeliveryTyped, Ask
<1>4. CodeOK(k)'
  BY <1>3 DEF Ask, CodeOK, JobOK, MailOK, Idle
<1> QED
  BY <1>1, <1>2, <1>4, CodeStep DEF Ask

LEMMA StorePreserves == ASSUME DeliveryInv, NEW k \in Codes, Store(k) PROVE DeliveryInv'
<1>1. PICK pc \in {"add", "send", "error"} :
        Move(k, pc) /\ (pc = "add" => request[k].kind = "queued")
                    /\ (pc = "send" => request[k].kind # "queued")
  BY DEF Store
<1>2. /\ request' \in [Codes -> Request]
      /\ \A o \in Codes \ {k} : request'[o] = request[o]
      /\ request'[k].pc = pc /\ request'[k].kind = request[k].kind
  BY <1>1, MoveStep DEF Steps
<1>3. DeliveryTyped' /\ OthersKept(k) /\ CodeOK(k)
  BY <1>2 DEF DeliveryInv, DeliveryTyped, Store, OthersKept
<1>4. CodeOK(k)'
  BY <1>1, <1>2, <1>3 DEF Store, CodeOK, JobOK, MailOK
<1> QED
  BY <1>3, <1>4, CodeStep DEF Store

LEMMA AddJobPreserves == ASSUME DeliveryInv, NEW k \in Codes, AddJob(k) PROVE DeliveryInv'
<1>1. /\ request' \in [Codes -> Request]
      /\ \A o \in Codes \ {k} : request'[o] = request[o]
      /\ request'[k].pc = "token" /\ request'[k].kind = request[k].kind
      /\ request[k].pc = "add" /\ request[k].kind = "queued"
  BY MoveStep DEF AddJob, Steps, At
<1>2. DeliveryTyped' /\ OthersKept(k) /\ CodeOK(k)
  BY <1>1 DEF DeliveryInv, DeliveryTyped, AddJob, OthersKept
<1>3. CodeOK(k)'
  BY <1>1, <1>2 DEF AddJob, CodeOK, JobOK, MailOK
<1> QED
  BY <1>2, <1>3, CodeStep DEF AddJob

LEMMA SignTokenPreserves == ASSUME DeliveryInv, NEW k \in Codes, SignToken(k) PROVE DeliveryInv'
<1>1. /\ request' \in [Codes -> Request]
      /\ \A o \in Codes \ {k} : request'[o] = request[o]
      /\ request'[k].pc = "answered" /\ request'[k].kind = request[k].kind
      /\ request[k].pc = "token" /\ request[k].kind = "queued"
  BY MoveStep DEF SignToken, Steps, At
<1>2. DeliveryTyped' /\ OthersKept(k) /\ CodeOK(k)
  BY <1>1 DEF DeliveryInv, DeliveryTyped, SignToken, OthersKept
<1>3. CodeOK(k)'
  BY <1>1, <1>2 DEF SignToken, CodeOK, JobOK, MailOK
<1> QED
  BY <1>2, <1>3, CodeStep DEF SignToken

-----------------------------------------------------------------------------
(* The job *)

(* The state of the job is all that changes of it.                         *)
LEMMA JobStep ==
  ASSUME DeliveryInv, NEW k \in Codes, NEW st \in {"waiting", "active", "completed", "failed"},
         job' = [job EXCEPT ![k].st = st]
  PROVE  /\ job' \in [Codes -> Comms!Job] /\ job'[k].st = st
         /\ \A o \in Codes \ {k} : job'[o] = job[o]
<1>1. job \in [Codes -> Comms!Job] /\ job[k] \in Comms!Job
  BY DEF DeliveryInv, DeliveryTyped
<1>2. [job[k] EXCEPT !.st = st] \in Comms!Job /\ [job[k] EXCEPT !.st = st].st = st
  BY <1>1 DEF Comms!Job
<1>3. job' = [job EXCEPT ![k] = [job[k] EXCEPT !.st = st]]
  BY <1>1
<1> QED
  BY <1>1, <1>2, <1>3

LEMMA AddLandsPreserves == ASSUME DeliveryInv, NEW k \in Codes, AddLands(k) PROVE DeliveryInv'
<1>1. /\ job' \in [Codes -> Comms!Job] /\ job'[k].st = "waiting"
      /\ \A o \in Codes \ {k} : job'[o] = job[o]
  BY JobStep DEF AddLands, Comms!Add
<1>2. DeliveryTyped' /\ OthersKept(k) /\ CodeOK(k) /\ job[k].st = "absent"
  BY <1>1 DEF DeliveryInv, DeliveryTyped, AddLands, Comms!Add, OthersKept
<1>3. CodeOK(k)'
  BY <1>1, <1>2 DEF AddLands, CodeOK, JobOK, MailOK
<1> QED
  BY <1>2, <1>3, CodeStep DEF AddLands

LEMMA TakeJobPreserves == ASSUME DeliveryInv, NEW k \in Codes, TakeJob(k) PROVE DeliveryInv'
<1>1. /\ job' \in [Codes -> Comms!Job] /\ job'[k].st = "active"
      /\ \A o \in Codes \ {k} : job'[o] = job[o]
  BY JobStep DEF TakeJob, Comms!Take
<1>2. /\ DeliveryTyped' /\ OthersKept(k) /\ CodeOK(k)
      /\ job[k].st = "waiting" /\ worker'[k] = "sending"
  BY <1>1 DEF DeliveryInv, DeliveryTyped, TakeJob, Comms!Take, OthersKept
<1>3. CodeOK(k)'
  BY <1>1, <1>2 DEF TakeJob, CodeOK, JobOK, MailOK
<1> QED
  BY <1>2, <1>3, CodeStep DEF TakeJob

LEMMA FinishJobPreserves == ASSUME DeliveryInv, NEW k \in Codes, FinishJob(k) PROVE DeliveryInv'
<1>1. /\ job' \in [Codes -> Comms!Job] /\ job'[k].st = "completed"
      /\ \A o \in Codes \ {k} : job'[o] = job[o]
  BY JobStep DEF FinishJob, Comms!Complete
<1>2. /\ DeliveryTyped' /\ OthersKept(k) /\ CodeOK(k)
      /\ job[k].st = "active" /\ worker[k] = "sent" /\ worker'[k] = "none"
  BY <1>1 DEF DeliveryInv, DeliveryTyped, FinishJob, Comms!Complete, OthersKept
<1>3. CodeOK(k)'
  BY <1>1, <1>2 DEF FinishJob, CodeOK, JobOK, MailOK
<1> QED
  BY <1>2, <1>3, CodeStep DEF FinishJob

(* A stalled job goes back to the queue, or has stalled too often.         *)
LEMMA FindStalledPreserves == ASSUME DeliveryInv, NEW k \in Codes, FindStalled(k) PROVE DeliveryInv'
<1>1. job[k] \in Comms!Job /\ job[k].st = "active" /\ job \in [Codes -> Comms!Job]
  BY DEF DeliveryInv, DeliveryTyped, FindStalled, Comms!Stall
<1>2. /\ job' \in [Codes -> Comms!Job] /\ job'[k].st \in {"waiting", "failed"}
      /\ \A o \in Codes \ {k} : job'[o] = job[o]
  <2>1. CASE job[k].stalls < MaxStalls
    <3> DEFINE again == [job[k] EXCEPT !.stalls = @ + 1, !.st = "waiting"]
    <3>1. job' = [job EXCEPT ![k] = again]
      BY <1>1, <2>1 DEF FindStalled, Comms!Stall
    <3>2. job[k].stalls + 1 \in 0..MaxStalls
      BY <1>1, <2>1 DEF Comms!Job
    <3>3. again \in Comms!Job /\ again.st = "waiting"
      BY <1>1, <3>2 DEF Comms!Job
    <3> HIDE DEF again
    <3> QED
      BY <1>1, <3>1, <3>3
  <2>2. CASE ~(job[k].stalls < MaxStalls)
    BY <2>2, JobStep DEF FindStalled, Comms!Stall
  <2> QED
    BY <2>1, <2>2
<1>3. DeliveryTyped' /\ OthersKept(k) /\ CodeOK(k)
  BY <1>2 DEF DeliveryInv, DeliveryTyped, FindStalled, OthersKept
<1>4. CodeOK(k)'
  BY <1>1, <1>2, <1>3 DEF FindStalled, CodeOK, JobOK, MailOK
<1> QED
  BY <1>3, <1>4, CodeStep DEF FindStalled

-----------------------------------------------------------------------------
(* The mail *)

(* A call to the communication service sends a mail or is an error.        *)
LEMMA SendStep ==
  ASSUME DeliveryInv, NEW k \in Codes, Mail(k) \/ MailFails(k)
  PROVE  /\ mails' \in [Codes -> Nat] /\ calls' \in [Codes -> Nat] /\ errors' \in [Codes -> Nat]
         /\ \A o \in Codes \ {k} : mails'[o] = mails[o] /\ errors'[o] = errors[o]
         /\ mails'[k] \in {mails[k], mails[k] + 1}
         /\ \/ Mail(k) /\ mails'[k] = mails[k] + 1 /\ errors' = errors
            \/ MailFails(k) /\ errors'[k] = errors[k] + 1
<1>1. CASE Mail(k)
  BY <1>1 DEF DeliveryInv, DeliveryTyped, Mail
<1>2. CASE MailFails(k)
  BY <1>2 DEF DeliveryInv, DeliveryTyped, MailFails
<1> QED
  BY <1>1, <1>2

LEMMA SendDirectPreserves == ASSUME DeliveryInv, NEW k \in Codes, SendDirect(k) PROVE DeliveryInv'
<1>1. PICK pc \in {"answered", "error"} :
        Move(k, pc) /\ IF pc = "answered" THEN Mail(k) ELSE MailFails(k)
  BY DEF SendDirect
<1>2. /\ request' \in [Codes -> Request]
      /\ \A o \in Codes \ {k} : request'[o] = request[o]
      /\ request'[k].pc = pc /\ request'[k].kind = request[k].kind
      /\ request[k].pc = "send" /\ request[k].kind = "direct"
  BY <1>1, MoveStep DEF SendDirect, At, Steps
<1>3. /\ mails' \in [Codes -> Nat] /\ calls' \in [Codes -> Nat] /\ errors' \in [Codes -> Nat]
      /\ \A o \in Codes \ {k} : mails'[o] = mails[o] /\ errors'[o] = errors[o]
      /\ mails'[k] \in {mails[k], mails[k] + 1}
      /\ pc = "answered" => mails'[k] = mails[k] + 1
  BY <1>1, SendStep DEF MailFails, Mail, DeliveryInv, DeliveryTyped
<1>4. DeliveryTyped' /\ OthersKept(k) /\ CodeOK(k) /\ mails[k] \in Nat
  BY <1>2, <1>3 DEF DeliveryInv, DeliveryTyped, SendDirect, OthersKept
<1>5. CodeOK(k)'
  BY <1>2, <1>3, <1>4 DEF SendDirect, CodeOK, JobOK, MailOK
<1> QED
  BY <1>4, <1>5, CodeStep DEF SendDirect

LEMMA SendQueuedPreserves == ASSUME DeliveryInv, NEW k \in Codes, SendQueued(k) PROVE DeliveryInv'
<1>1. /\ mails' \in [Codes -> Nat] /\ calls' \in [Codes -> Nat] /\ errors' \in [Codes -> Nat]
      /\ \A o \in Codes \ {k} : mails'[o] = mails[o] /\ errors'[o] = errors[o]
      /\ mails'[k] \in {mails[k], mails[k] + 1}
      /\ mails'[k] = mails[k] + 1 \/ errors'[k] = errors[k] + 1
  BY SendStep DEF SendQueued
<1>2. DeliveryTyped' /\ OthersKept(k) /\ CodeOK(k) /\ mails[k] \in Nat /\ errors[k] \in Nat
  BY <1>1 DEF DeliveryInv, DeliveryTyped, SendQueued, OthersKept
<1>3. worker[k] = "sending" /\ worker'[k] = "sent" /\ job[k].st = "active" /\ request[k].kind = "queued"
  BY <1>2 DEF DeliveryInv, DeliveryTyped, SendQueued, CodeOK, JobOK
<1>4. CodeOK(k)'
  BY <1>1, <1>2, <1>3 DEF SendQueued, CodeOK, JobOK, MailOK
<1> QED
  BY <1>2, <1>4, CodeStep DEF SendQueued

-----------------------------------------------------------------------------
(* The process stops *)

LEMMA StopPreserves == DeliveryInv /\ Stop => DeliveryInv'
<1> SUFFICES ASSUME DeliveryInv, Stop PROVE DeliveryInv'
  OBVIOUS
<1>1. \A k \in Codes : /\ request'[k] \in Request /\ request'[k].kind = request[k].kind
                       /\ request'[k].pc = request[k].pc \/ request'[k].pc = "dropped"
                       /\ request'[k].pc = "dropped" => request[k].pc \in Steps \cup {"dropped"}
  BY DEF DeliveryInv, DeliveryTyped, Stop, InProgress, Request, Steps
<1>2. request' \in [Codes -> Request]
  BY <1>1 DEF Stop
<1>3. DeliveryTyped' /\ crashes' > 0
  BY <1>2 DEF DeliveryInv, DeliveryTyped, Stop
<1>4. ASSUME NEW k \in Codes PROVE CodeOK(k)'
  <2>1. CodeOK(k) /\ worker'[k] = "none"
    BY DEF DeliveryInv, Stop
  <2> QED
    BY <1>1, <1>3, <2>1 DEF Stop, CodeOK, JobOK, MailOK, Steps, Request
<1> QED
  BY <1>3, <1>4 DEF DeliveryInv

LEMMA DeliveryPreserves == DeliveryInv /\ [DeliveryNext]_deliveryVars => DeliveryInv'
<1>1. DeliveryInv /\ UNCHANGED deliveryVars => DeliveryInv'
  BY DEF DeliveryInv, DeliveryTyped, CodeOK, JobOK, MailOK, deliveryVars
<1>2. ASSUME DeliveryInv, NEW k \in Codes, DeliveryStep(k) PROVE DeliveryInv'
  BY <1>2, StorePreserves, AddJobPreserves, SignTokenPreserves, AddLandsPreserves,
     SendDirectPreserves, TakeJobPreserves, SendQueuedPreserves, FinishJobPreserves,
     FindStalledPreserves DEF DeliveryStep
<1> QED
  BY <1>1, <1>2, AskPreserves, StopPreserves DEF DeliveryNext, AddRefused

(* In every reachable state the inductive invariant holds.                 *)
THEOREM DeliveryInvariance == DeliverySpec => []DeliveryInv
  BY DeliveryInitially, DeliveryPreserves, PTL DEF DeliverySpec

(* Only codes of the queue have jobs, and a worker has an active one.      *)
THEOREM DeliveryTypeCorrect == DeliverySpec => []DeliveryTypeOK
<1>1. DeliveryInv => DeliveryTypeOK
  BY DEF DeliveryInv, DeliveryTyped, CodeOK, JobOK, DeliveryTypeOK
<1> QED
  BY DeliveryInvariance, <1>1, PTL

(* Whatever stops and fails, a code that was promised and is neither on    *)
(* its way nor mailed has an error or a stop of the process behind it.     *)
THEOREM SentOrExplained == DeliverySpec => []CodeSentOrExplained
<1>1. DeliveryInv => CodeSentOrExplained
  <2> SUFFICES ASSUME DeliveryInv, NEW k \in Codes, Answered(k), Over(k), mails[k] = 0
               PROVE  request[k].kind = "queued" /\ (errors[k] > 0 \/ crashes > 0)
    BY DEF CodeSentOrExplained
  <2>1. CodeOK(k) /\ request[k] \in Request /\ job[k] \in Comms!Job
    BY DEF DeliveryInv, DeliveryTyped
  <2>2. request[k].kind = "queued"
    BY <2>1 DEF Request, CodeOK, JobOK, MailOK, Answered
  <2>3. crashes > 0 \/ job[k].st \in {"completed", "failed"}
    BY <2>1, <2>2 DEF CodeOK, JobOK, Answered, Over, Comms!Job
  <2> QED
    BY <2>1, <2>2, <2>3 DEF CodeOK, JobOK, MailOK
<1> QED
  BY DeliveryInvariance, <1>1, PTL

(* As long as the process does not stop, no code is mailed twice, for any  *)
(* number of attempts.                                                     *)
THEOREM NeverMailedTwice == DeliverySpec => []MailedOnce
<1>1. DeliveryInv => MailedOnce
  BY DEF DeliveryInv, CodeOK, MailOK, MailedOnce
<1> QED
  BY DeliveryInvariance, <1>1, PTL

HIDE DeliveryAssumption

-----------------------------------------------------------------------------
(* The start of a container *)

USE StartupAssumption

(* The script gets past a command only by doing its work, whichever boot   *)
(* did it: from "generate" on the database is migrated, the running seed   *)
(* has every role before it or behind it, and after it none is missing.    *)
Prepared ==
  /\ boot \in {"generate", "seed", "proto", "app", "serving", "watching"} => migrations = "done"
  /\ boot = "seed" => RoleNames \ roleTable \subseteq todo
  /\ boot \in {"proto", "app", "serving", "watching"} => roleTable = RoleNames

StartupInv == StartupTypeOK /\ Prepared

LEMMA StartupInitially == StartupInit => StartupInv
  BY DEF StartupInit, StartupInv, StartupTypeOK, Prepared

LEMMA BootPreserves == ASSUME StartupInv, NEW from, Boot(from) PROVE StartupInv'
  BY DEF StartupInv, StartupTypeOK, Prepared, Boot, Goto, tables, Commands

LEMMA ScriptPreserves ==
  ASSUME StartupInv, CheckDb \/ Generate \/ ProtoUpdate \/ StartApp \/ DatabaseUp
  PROVE  StartupInv'
<1>1. CASE CheckDb
  BY <1>1 DEF StartupInv, StartupTypeOK, Prepared, CheckDb, Goto, tables, Commands
<1>2. CASE Generate
  BY <1>2 DEF StartupInv, StartupTypeOK, Prepared, Generate, Goto, tables, Commands
<1>3. CASE ProtoUpdate \/ StartApp
  BY <1>3 DEF StartupInv, StartupTypeOK, Prepared, ProtoUpdate, StartApp, Goto, tables, Commands
<1>4. CASE DatabaseUp
  BY <1>4 DEF StartupInv, StartupTypeOK, Prepared, DatabaseUp, tables
<1> QED
  BY <1>1, <1>2, <1>3, <1>4

LEMMA MigratePreserves ==
  ASSUME StartupInv, MigrateBegin \/ MigrateDone \/ MigrateRefused PROVE StartupInv'
  BY DEF StartupInv, StartupTypeOK, Prepared, MigrateBegin, MigrateDone, MigrateRefused,
     Migrated, Goto, tables, Commands

LEMMA SeedRolePreserves ==
  ASSUME StartupInv, NEW name \in RoleNames, SeedRole(name) PROVE StartupInv'
<1>1. /\ roleTable' \subseteq RoleNames /\ todo' \subseteq RoleNames
      /\ RoleNames \ roleTable' \subseteq todo'
  BY DEF StartupInv, StartupTypeOK, Prepared, SeedRole
<1>2. StartupTypeOK'
  BY <1>1 DEF StartupInv, StartupTypeOK, SeedRole, Seeded, Goto, Commands
<1> QED
  BY <1>1, <1>2 DEF StartupInv, Prepared, SeedRole, Seeded, Goto

LEMMA FaultPreserves == StartupInv /\ Fault => StartupInv'
  BY DEF StartupInv, StartupTypeOK, Prepared, Fault, Goto, tables, Commands

LEMMA StartupPreserves == StartupInv /\ [StartupNext]_startupVars => StartupInv'
<1>1. StartupInv /\ UNCHANGED startupVars => StartupInv'
  BY DEF StartupInv, StartupTypeOK, Prepared, startupVars
<1> QED
  BY <1>1, BootPreserves, ScriptPreserves, MigratePreserves, SeedRolePreserves, FaultPreserves
     DEF StartupNext, StartupStep, Restart

(* In every reachable state the inductive invariant holds.                 *)
THEOREM StartupInvariance == StartupSpec => []StartupInv
  BY StartupInitially, StartupPreserves, PTL DEF StartupSpec

(* Whatever fails and however often the container is restarted, one that   *)
(* serves has a migrated database and every role of the seed.              *)
THEOREM AlwaysServesPrepared == StartupSpec => []ServesPrepared
<1>1. StartupInv => ServesPrepared
  BY DEF StartupInv, Prepared, ServesPrepared
<1> QED
  BY StartupInvariance, <1>1, PTL

HIDE StartupAssumption

-----------------------------------------------------------------------------
(* The verification of a batch *)

USE BatchAssumption

(* A non-empty set of positions has a first one.                           *)
LEMMA FirstExists ==
  ASSUME NEW S \in SUBSET Nat, S # {}
  PROVE  \E n \in S : \A m \in S : n <= m
<1>1. PICK n \in S : \A m \in S : ~ (<<m, n>> \in OpToRel(<, Nat))
  BY NatLessThanWellFounded, WFMin
<1>2. \A m \in S : ~ (m < n)
  BY <1>1, Zenon DEF OpToRel
<1> QED
  BY <1>2

LEMMA IdsFinite ==
  ASSUME BatchTypeOK, NEW k \in 1..3
  PROVE  /\ IdsOf(k) \subseteq Nat \ {0} /\ IsFiniteSet(IdsOf(k))
         /\ \A S : S \subseteq IdsOf(k) => IsFiniteSet(S) /\ Cardinality(S) \in Nat
<1>1. DOMAIN batch = 1..Len(batch) /\ Len(batch) \in Nat
  BY DEF BatchTypeOK
<1>2. IsFiniteSet(1..Len(batch)) /\ IdsOf(k) \subseteq 1..Len(batch)
  BY <1>1, FS_Interval DEF IdsOf
<1> QED
  BY <1>1, <1>2, FS_Subset, FS_CardinalityType

(* Every id that is given stands somewhere for the first time.             *)
LEMMA GivenFirst ==
  ASSUME BatchTypeOK, NEW k \in 1..3, NEW i \in DOMAIN batch, Given(k, i) # NoId
  PROVE  \E j \in IdsOf(k) : Given(k, j) = Given(k, i)
<1> DEFINE S == {j \in DOMAIN batch : Given(k, j) = Given(k, i)}
<1>1. DOMAIN batch = 1..Len(batch) /\ Len(batch) \in Nat
  BY DEF BatchTypeOK
<1>2. PICK j \in S : \A m \in S : j <= m
  <2>1. S \in SUBSET Nat /\ i \in S
    BY <1>1
  <2> QED
    BY <2>1, FirstExists
<1>3. \A m \in 1..(j - 1) : Given(k, m) # Given(k, j)
  BY <1>1, <1>2
<1> QED
  BY <1>2, <1>3 DEF IdsOf

(* As long as no kind without ids stands before one with ids, the answers  *)
(* about a kind are in the list of its own place.                          *)
LEMMA AlignedAnswers ==
  ASSUME Aligned, NEW j \in 1..3, NEW k \in 1..3, IdsOf(k) # {}
  PROVE  AnsweredIn(k, j) <=> j = k
<1>1. ASSUME NEW m \in 1..3, IdsOf(m) # {} PROVE Cardinality({a \in 1..m : IdsOf(a) # {}}) = m
  <2>1. {a \in 1..m : IdsOf(a) # {}} = 1..m
    BY <1>1 DEF Aligned
  <2>2. Cardinality(1..m) = m
    <3>1. Cardinality(1..m) = IF 1 > m THEN 0 ELSE m - 1 + 1
      BY <1>1, FS_Interval
    <3> QED
      BY <1>1, <3>1
  <2> QED
    BY <2>1, <2>2, Zenon
<1> QED
  BY <1>1 DEF AnsweredIn

LEMMA AlignedFailures ==
  ASSUME BatchTypeOK, Aligned, NEW k \in 1..3, IdsOf(k) # {}
  PROVE  Failures(k) = {i \in IdsOf(k) : Given(k, i) \in invalid}
<1>1. IdsOf(k) \subseteq DOMAIN batch
  BY DEF IdsOf
<1> QED
  BY <1>1, AlignedAnswers DEF Failures

(* The ids that failed are then the first of their kind, as many as there  *)
(* are failed answers: their indexes are those below the count.            *)
LEMMA IndexCounts ==
  ASSUME BatchTypeOK, Aligned, FailuresFirst, NEW k \in 1..3, NEW i \in IdsOf(k)
  PROVE  Index(k, i) <= Cardinality(Failures(k)) <=> Given(k, i) \in invalid
<1> DEFINE below == {j \in IdsOf(k) : j <= i}
           bad == {j \in IdsOf(k) : Given(k, j) \in invalid}
<1>1. /\ IsFiniteSet(below) /\ Cardinality(below) \in Nat
      /\ IsFiniteSet(bad) /\ Cardinality(bad) \in Nat /\ IdsOf(k) \subseteq Nat
  BY IdsFinite
<1>2. Failures(k) = bad /\ Index(k, i) = Cardinality(below)
  BY AlignedFailures DEF Index
<1>3. ASSUME Given(k, i) \in invalid PROVE Cardinality(below) <= Cardinality(bad)
  <2>1. below \subseteq bad
    BY <1>1, <1>3 DEF FailuresFirst
  <2> QED
    BY <1>1, <2>1, FS_Subset
<1>4. ASSUME Given(k, i) \notin invalid PROVE Cardinality(bad) < Cardinality(below)
  <2>1. bad \subseteq below
    BY <1>1, <1>4 DEF FailuresFirst
  <2>2. i \in below /\ i \notin bad
    BY <1>1, <1>4
  <2> QED
    BY <1>1, <2>1, <2>2, FS_Subset
<1> HIDE DEF below, bad
<1> QED
  BY <1>1, <1>2, <1>3, <1>4

LEMMA AlignedFailed ==
  ASSUME BatchTypeOK, Aligned, FailuresFirst, NEW k \in 1..3, NEW i \in DOMAIN batch
  PROVE  Given(k, i) \in Failed(k) <=> Given(k, i) \in invalid
<1>1. Failed(k) = {Given(k, j) : j \in {m \in IdsOf(k) : Given(k, m) \in invalid}}
  BY IndexCounts DEF Failed
<1>2. ASSUME Given(k, i) \in invalid PROVE Given(k, i) \in Failed(k)
  <2>1. PICK j \in IdsOf(k) : Given(k, j) = Given(k, i)
    BY <1>2, GivenFirst DEF BatchTypeOK
  <2> QED
    BY <1>1, <1>2, <2>1
<1> QED
  BY <1>1, <1>2

Refused == {i \in DOMAIN batch : \E k \in 1..3 : Given(k, i) \in Failed(k)}
BatchInv == BatchTypeOK /\ refusedAt \in {NoId, Refused}

LEMMA BatchInitially == BatchInit => BatchInv
<1> SUFFICES ASSUME BatchInit PROVE BatchInv
  OBVIOUS
<1>1. PICK n \in 1..MaxBatch : batch \in [1..n -> Item]
  BY DEF BatchInit
<1>2. batch \in Seq(Item)
  BY <1>1
<1> QED
  BY <1>2 DEF BatchInit, BatchInv, BatchTypeOK

LEMMA BatchPreserves == BatchInv /\ [VerifyBatch]_batchVars => BatchInv'
<1> SUFFICES ASSUME BatchInv, [VerifyBatch]_batchVars PROVE BatchInv'
  OBVIOUS
<1>1. batch' = batch /\ invalid' = invalid /\ refusedAt' \in {refusedAt, Refused}
  BY DEF VerifyBatch, batchVars, Refused
<1>2. Refused' = Refused
  <2>1. \A k, i : Given(k, i)' = Given(k, i)
    BY <1>1 DEF Given, IdKinds
  <2>2. \A k : IdsOf(k)' = IdsOf(k)
    BY <1>1, <2>1 DEF IdsOf
  <2>3. \A k : Failures(k)' = Failures(k) /\ \A i : Index(k, i)' = Index(k, i)
    BY <1>1, <2>1, <2>2 DEF Failures, AnsweredIn, Index
  <2>4. \A k : Failed(k)' = Failed(k)
    BY <2>1, <2>2, <2>3 DEF Failed
  <2> QED
    BY <1>1, <2>1, <2>4 DEF Refused
<1> QED
  BY <1>1, <1>2 DEF BatchInv, BatchTypeOK, Refused

(* A batch of any size is answered by the positions of its failed ids.    *)
THEOREM BatchInvariance == BatchSpec => []BatchInv
  BY BatchInitially, BatchPreserves, PTL DEF BatchSpec

(* For a batch of any size, in any of whose kinds any ids were refused: as *)
(* long as the answers stand where their ids do, an invitation is refused  *)
(* exactly when one of its own ids is.                                     *)
THEOREM RefusalsAreRight == BatchSpec => []RefusedWhenAligned
<1>1. BatchInv => RefusedWhenAligned
  BY AlignedFailed DEF BatchInv, Refused, RefusedWhenAligned
<1> QED
  BY BatchInvariance, <1>1, PTL

HIDE BatchAssumption

-----------------------------------------------------------------------------
(* The parts together *)

PartsInv == CircuitInv /\ DeliveryInv /\ StartupInv /\ BatchInv

LEMMA PartsInitially == Init => PartsInv
<1> SUFFICES ASSUME Init PROVE PartsInv
  OBVIOUS
<1>1. CircuitInit /\ DeliveryInit /\ StartupInit
  BY DEF Init
<1>2. CASE part = "batch"
  BY <1>1, <1>2, CircuitInitially, DeliveryInitially, StartupInitially, BatchInitially
     DEF Init, PartsInv
<1>3. CASE part # "batch"
  <2>1. batch = <<>> /\ invalid = {} /\ refusedAt = NoId
    BY <1>3 DEF Init
  <2>2. BatchInv
    BY <2>1 DEF BatchInv, BatchTypeOK
  <2> QED
    BY <1>1, <2>2, CircuitInitially, DeliveryInitially, StartupInitially DEF PartsInv
<1> QED
  BY <1>2, <1>3

(* A step is a step of one part, or none of it, for every part.            *)
LEMMA PartsPreserve == PartsInv /\ [Next]_servicesVars => PartsInv'
<1> SUFFICES ASSUME PartsInv, [Next]_servicesVars PROVE PartsInv'
  OBVIOUS
<1>1. [CircuitNext]_circuitVars
  BY DEF Next, Circuit, Delivery, Container, Batch, servicesVars
<1>2. [DeliveryNext]_deliveryVars
  BY DEF Next, Circuit, Delivery, Container, Batch, servicesVars
<1>3. [StartupNext]_startupVars
  BY DEF Next, Circuit, Delivery, Container, Batch, servicesVars
<1>4. [VerifyBatch]_batchVars
  BY DEF Next, Circuit, Delivery, Container, Batch, servicesVars
<1> QED
  BY <1>1, <1>2, <1>3, <1>4, CircuitPreserves, DeliveryPreserves, StartupPreserves,
     BatchPreserves DEF PartsInv

(* Whichever part runs, every part keeps its inductive invariant.          *)
THEOREM PartsInvariance == Spec => []PartsInv
  BY PartsInitially, PartsPreserve, PTL DEF Spec

(* Records, tables, requests and histories always hold values of their     *)
(* kind, whichever part runs.                                              *)
THEOREM ServicesTypeCorrect == Spec => []TypeOK
<1>1. DeliveryInv => DeliveryTypeOK
  BY DEF DeliveryInv, DeliveryTyped, CodeOK, JobOK, DeliveryTypeOK
<1>2. PartsInv => TypeOK
  BY <1>1 DEF PartsInv, CircuitInv, StartupInv, BatchInv, TypeOK
<1> QED
  BY PartsInvariance, <1>2, PTL

=============================================================================
