----------------------------- MODULE CodeDelivery -----------------------------
(***************************************************************************)
(* How a one-time code reaches its user.  register and login leave it to   *)
(* the communication queue and do not wait for the queue's answer          *)
(* (_sendOtp of src/src/auth/auth.service.ts); sendOtp mails it itself and *)
(* waits.  CommsProcessor (src/src/queues/communication/comms.processor.ts)*)
(* swallows the errors of the communication service.  The gRPC server and  *)
(* the processor are one process.                                          *)
(***************************************************************************)
EXTENDS Integers

CONSTANTS
  Codes,      \* one per call of register, login or sendOtp
  Attempts,   \* the attempts option of the job, 3
  MaxStalls,  \* maxStalledCount of the queue, 1 by default
  MaxCrashes  \* BOUND: times the process stops

ASSUME DeliveryAssumption ==
  /\ Attempts \in Nat \ {0} /\ MaxStalls \in Nat /\ MaxCrashes \in Nat

VARIABLES
  request,  \* the call that made the code
  adding,   \* codes whose queue.add has not been answered
  job,      \* the jobs in Redis
  worker,   \* what the processor of the running process does for a code
  mails,    \* mails with the code that the communication service sent
  calls,    \* history: sendOtp calls to the communication service, and
  errors,   \* history: how many of them were answered with an error
  crashes   \* times the process stopped

deliveryVars == <<request, adding, job, worker, mails, calls, errors, crashes>>

Comms == INSTANCE JobQueue WITH Jobs <- Codes

Steps == {"store", "add", "token", "send"}
Request == [kind : {"none", "queued", "direct"},
            pc : {"idle"} \cup Steps \cup {"answered", "error", "dropped"}]
Idle == [kind |-> "none", pc |-> "idle"]
At(k, kind, pc) == request[k] = [kind |-> kind, pc |-> pc]
Move(k, pc) == request' = [request EXCEPT ![k].pc = pc]
InProgress(k) == request[k].pc \in Steps

DeliveryInit ==
  /\ request = [k \in Codes |-> Idle] /\ adding = {}
  /\ Comms!QueueInit /\ worker = [k \in Codes |-> "none"]
  /\ mails = [k \in Codes |-> 0] /\ calls = [k \in Codes |-> 0]
  /\ errors = [k \in Codes |-> 0] /\ crashes = 0

Ask(k, kind) ==
  /\ request[k] = Idle
  /\ request' = [request EXCEPT ![k] = [kind |-> kind, pc |-> "store"]]
  /\ UNCHANGED <<adding, job, worker, mails, calls, errors, crashes>>

(* The row with the code is inserted, or that query fails.                 *)
Store(k) ==
  /\ InProgress(k) /\ request[k].pc = "store"
  /\ \/ Move(k, IF request[k].kind = "queued" THEN "add" ELSE "send")
     \/ Move(k, "error")
  /\ UNCHANGED <<adding, job, worker, mails, calls, errors, crashes>>

(* queue.add is called and not awaited.                                    *)
AddJob(k) ==
  /\ At(k, "queued", "add")
  /\ adding' = adding \cup {k}
  /\ Move(k, "token")
  /\ UNCHANGED <<job, worker, mails, calls, errors, crashes>>

(* The auth token is signed: "OTP SENT".                                   *)
SignToken(k) ==
  /\ At(k, "queued", "token")
  /\ Move(k, "answered")
  /\ UNCHANGED <<adding, job, worker, mails, calls, errors, crashes>>

(* Redis takes the job.                                                    *)
AddLands(k) ==
  /\ k \in adding
  /\ Comms!Add(k)
  /\ adding' = adding \ {k}
  /\ UNCHANGED <<request, worker, mails, calls, errors, crashes>>

(* The process stops: its calls are never answered, and the commands it    *)
(* had sent to Redis are lost.                                             *)
Stop ==
  /\ crashes < MaxCrashes
  /\ crashes' = crashes + 1
  /\ request' = [k \in Codes |-> IF InProgress(k) THEN [request[k] EXCEPT !.pc = "dropped"]
                                 ELSE request[k]]
  /\ adding' = {} /\ worker' = [k \in Codes |-> "none"]
  /\ UNCHANGED <<job, mails, calls, errors>>

(* Redis refuses the job: nobody handles the rejected promise, and Node    *)
(* stops the process.                                                      *)
AddRefused(k) == k \in adding /\ Stop

-----------------------------------------------------------------------------
(* The communication service mails the code and answers; or fails, maybe   *)
(* after the mail has gone.                                                *)
Mail(k) ==
  /\ mails' = [mails EXCEPT ![k] = @ + 1] /\ UNCHANGED errors
  /\ calls' = [calls EXCEPT ![k] = @ + 1]
MailFails(k) ==
  /\ mails' \in {mails, [mails EXCEPT ![k] = @ + 1]}
  /\ errors' = [errors EXCEPT ![k] = @ + 1]
  /\ calls' = [calls EXCEPT ![k] = @ + 1]

SendDirect(k) ==
  /\ At(k, "direct", "send")
  /\ \/ Mail(k) /\ Move(k, "answered")
     \/ MailFails(k) /\ Move(k, "error")
  /\ UNCHANGED <<adding, job, worker, crashes>>

TakeJob(k) ==
  /\ Comms!Take(k)
  /\ worker' = [worker EXCEPT ![k] = "sending"]
  /\ UNCHANGED <<request, adding, mails, calls, errors, crashes>>

(* Mutation: the call is not awaited, and is lost.                         *)
SendQueuedUnawaited(k) ==
  /\ worker[k] = "sending"
  /\ worker' = [worker EXCEPT ![k] = "sent"]
  /\ UNCHANGED <<request, adding, job, mails, calls, errors, crashes>>

(* Mutation: the catch block throws, and the job is tried again.           *)
SendQueuedOrThrow(k) ==
  /\ worker[k] = "sending"
  /\ \/ Mail(k) /\ worker' = [worker EXCEPT ![k] = "sent"] /\ UNCHANGED job
     \/ MailFails(k) /\ worker' = [worker EXCEPT ![k] = "none"] /\ Comms!Throw(k)
  /\ UNCHANGED <<request, adding, crashes>>

SendQueued(k) ==
  /\ worker[k] = "sending"
  /\ Mail(k) \/ MailFails(k)
  /\ worker' = [worker EXCEPT ![k] = "sent"]
  /\ UNCHANGED <<request, adding, job, crashes>>

(* The processor returns, whatever became of the mail.                     *)
FinishJob(k) ==
  /\ worker[k] = "sent"
  /\ Comms!Complete(k)
  /\ worker' = [worker EXCEPT ![k] = "none"]
  /\ UNCHANGED <<request, adding, mails, calls, errors, crashes>>

(* Mutation: nobody looks for stalled jobs. *)
FindStalledNever(k) == worker[k] # "none" /\ Comms!Stall(k) /\ UNCHANGED deliveryVars

(* The queue finds a job whose process is gone.                            *)
FindStalled(k) ==
  /\ worker[k] = "none"
  /\ Comms!Stall(k)
  /\ UNCHANGED <<request, adding, worker, mails, calls, errors, crashes>>

DeliveryStep(k) ==
  \/ Store(k) \/ AddJob(k) \/ SignToken(k) \/ AddLands(k) \/ SendDirect(k)
  \/ TakeJob(k) \/ SendQueued(k) \/ FinishJob(k) \/ FindStalled(k)

DeliveryNext ==
  \/ \E k \in Codes : DeliveryStep(k) \/ AddRefused(k) \/ \E kind \in {"queued", "direct"} : Ask(k, kind)
  \/ Stop

(* Code that runs goes on, and the queue hands out its jobs; the clients   *)
(* may do nothing, and nothing has to fail.                                *)
DeliverySpec ==
  /\ DeliveryInit /\ [][DeliveryNext]_deliveryVars
  /\ \A k \in Codes : WF_deliveryVars(DeliveryStep(k))

-----------------------------------------------------------------------------
(* Properties *)

(* Only codes of the queue have jobs; a worker has an active one.          *)
DeliveryTypeOK ==
  /\ request \in [Codes -> Request] /\ adding \subseteq Codes
  /\ job \in [Codes -> Comms!Job] /\ worker \in [Codes -> {"none", "sending", "sent"}]
  /\ {mails, calls, errors} \subseteq [Codes -> Nat] /\ crashes \in 0..MaxCrashes
  /\ \A k \in Codes :
       /\ k \in adding \/ job[k].st # "absent" =>
            request[k].kind = "queued" /\ request[k].pc \notin {"idle", "store", "add"}
       /\ worker[k] # "none" => job[k].st = "active"
       /\ k \in adding => job[k].st = "absent"

Answered(k) == request[k].pc = "answered"
Over(k) == k \notin adding /\ job[k].st \notin {"waiting", "active"}

(* "OTP SENT" is true once the delivery is over, unless the communication  *)
(* service failed: once is enough, for the job of a queued code is done    *)
(* then; or the process stopped, which a refused queue.add brings about.   *)
CodeSentOrExplained ==
  \A k \in Codes :
    Answered(k) /\ Over(k) /\ mails[k] = 0 =>
      request[k].kind = "queued" /\ (errors[k] > 0 \/ crashes > 0)

(* Without a stop of the process a code is mailed at most once, although   *)
(* its job has three attempts: a failure may come after the mail has gone. *)
MailedOnce == \A k \in Codes : crashes = 0 => mails[k] <= 1

(* Every delivery comes to an end: no job is left in the queue for ever,   *)
(* even when the process stops half-way.                                   *)
DeliveryEnds == \A k \in Codes : [](Answered(k) => <>Over(k))

(* "attempts: 3, // retry 3 times" (auth.service.ts:373): a code that the  *)
(* process gave up, without stopping, has been tried that often.           *)
TriedThreeTimes ==
  \A k \in Codes :
    job[k].st \in {"completed", "failed"} /\ crashes = 0 /\ errors[k] = calls[k] =>
      calls[k] = Attempts
=============================================================================
