------------------------------- MODULE JobQueue -------------------------------
(***************************************************************************)
(* A Bull queue in Redis, as the processors of src/src/queues see it: a    *)
(* job is handed to one worker, runs again after a failure while it has    *)
(* attempts left, and runs again when its worker stops half-way, which     *)
(* Bull notices as a stalled job.                                          *)
(***************************************************************************)
EXTENDS Integers

CONSTANTS
  Jobs,      \* job identities
  Attempts,  \* the attempts option; 1 when a producer gives none
  MaxStalls  \* maxStalledCount, 1 by default

VARIABLE job  \* job -> its record in Redis

Job == [st : {"absent", "waiting", "active", "completed", "failed"},
        tries : 0..Attempts, stalls : 0..MaxStalls]
Absent == [st |-> "absent", tries |-> 0, stalls |-> 0]

QueueInit == job = [j \in Jobs |-> Absent]

Add(j) ==
  /\ job[j].st = "absent"
  /\ job' = [job EXCEPT ![j].st = "waiting"]

Take(j) ==
  /\ job[j].st = "waiting"
  /\ job' = [job EXCEPT ![j].st = "active"]

(* The processor's promise resolves; or it is rejected.                    *)
Complete(j) ==
  /\ job[j].st = "active"
  /\ job' = [job EXCEPT ![j].st = "completed"]

Throw(j) ==
  /\ job[j].st = "active"
  /\ job' = [job EXCEPT ![j].tries = @ + 1,
                        ![j].st = IF job[j].tries + 1 < Attempts THEN "waiting" ELSE "failed"]

(* The worker stops and its lock runs out.                                 *)
Stall(j) ==
  /\ job[j].st = "active"
  /\ job' = IF job[j].stalls < MaxStalls
            THEN [job EXCEPT ![j].stalls = @ + 1, ![j].st = "waiting"]
            ELSE [job EXCEPT ![j].st = "failed"]
=============================================================================
