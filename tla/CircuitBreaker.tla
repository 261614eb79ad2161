---------------------------- MODULE CircuitBreaker ----------------------------
(***************************************************************************)
(* One circuit of src/src/services/circuit-breaker.service.ts.  The        *)
(* service keeps one such record per downstream service, and they do not   *)
(* interact.  Calls run concurrently: each reads the circuit, awaits the   *)
(* operation raced against a timer, then changes the shared record.        *)
(*                                                                         *)
(* No code of the repository calls the service: any calls, in any order,   *)
(* are taken for its clients, and none is taken for granted.               *)
(*                                                                         *)
(* Time is kept as ages, capped where the code no longer tells them apart, *)
(* so that behaviours may go on for ever.                                  *)
(***************************************************************************)
EXTENDS Integers

CONSTANTS
  Calls,         \* slots for calls in progress
  Threshold,     \* failureThreshold, 5 in the code
  Timeout,       \* timeout, 30 s, in clock ticks
  RetryTimeout,  \* retryTimeout, 60 s, in clock ticks
  MaxFailures    \* BOUND: the counter is not counted beyond this

ASSUME CircuitAssumption ==
  /\ Threshold \in Nat \ {0}
  /\ Timeout \in Nat
  /\ RetryTimeout \in Nat
  /\ Timeout <= RetryTimeout
  /\ MaxFailures \in Nat
  /\ Threshold <= MaxFailures

VARIABLES
  state,     \* circuit.state
  failures,  \* circuit.failures
  since,     \* time since circuit.lastFailureTime
  running,   \* the calls whose operation is awaited
  age        \* time since each of them started

circuitVars == <<state, failures, since, running, age>>

Oldest == RetryTimeout + 1
Ages == 0..Oldest
Older(a) == IF a < Oldest THEN a + 1 ELSE a

(* getCircuit: a circuit first asked for is closed, and lastFailureTime is *)
(* 0, long ago.                                                            *)
CircuitInit ==
  /\ state = "CLOSED"
  /\ failures = 0
  /\ since = Oldest
  /\ running = {}
  /\ age = [c \in Calls |-> 0]

(* Mutation: an open circuit lets calls through.                           *)
BeginAlways(c) ==
  /\ c \notin running
  /\ running' = running \cup {c}
  /\ age' = [age EXCEPT ![c] = 0]
  /\ UNCHANGED <<state, failures, since>>

(* executeWithCircuitBreaker up to the await.  A call refused by an open   *)
(* circuit takes the fallback and changes nothing.                         *)
Begin(c) ==
  /\ c \notin running
  /\ \/ state # "OPEN" /\ UNCHANGED state
     \/ state = "OPEN" /\ since > RetryTimeout /\ state' = "HALF_OPEN"
  /\ running' = running \cup {c}
  /\ age' = [age EXCEPT ![c] = 0]
  /\ UNCHANGED <<failures, since>>

(* Mutations: a success while half-open leaves the counter; a success      *)
(* takes one failure off it, unguarded.                                    *)
SucceedUncounted(c) ==
  /\ c \in running
  /\ state' = "CLOSED"
  /\ failures' = IF state = "HALF_OPEN" THEN failures ELSE 0
  /\ running' = running \ {c}
  /\ UNCHANGED <<since, age>>

SucceedDecrement(c) ==
  /\ c \in running
  /\ state' = "CLOSED"
  /\ failures' = failures - 1
  /\ running' = running \ {c}
  /\ UNCHANGED <<since, age>>

(* The operation answers.  A circuit with a failure on its count is reset, *)
(* whatever its state is by now.                                           *)
Succeed(c) ==
  /\ c \in running
  /\ IF state = "HALF_OPEN" \/ failures > 0
     THEN state' = "CLOSED" /\ failures' = 0
     ELSE UNCHANGED <<state, failures>>
  /\ running' = running \ {c}
  /\ UNCHANGED <<since, age>>

(* handleFailure. *)
CountFailure(c) ==
  /\ failures' = IF failures < MaxFailures THEN failures + 1 ELSE failures
  /\ since' = 0
  /\ state' = IF failures' >= Threshold THEN "OPEN" ELSE state
  /\ running' = running \ {c}
  /\ UNCHANGED age

(* The operation is rejected, or the timer of executeWithTimeout fires.    *)
Reject(c) == c \in running /\ CountFailure(c)
TimeOut(c) == c \in running /\ age[c] >= Timeout /\ CountFailure(c)

Tick ==
  /\ since' = Older(since)
  /\ age' = [c \in Calls |-> Older(age[c])]
  /\ UNCHANGED <<state, failures, running>>

CircuitNext ==
  \/ Tick
  \/ \E c \in Calls : Begin(c) \/ Succeed(c) \/ Reject(c) \/ TimeOut(c)

CircuitSpec == CircuitInit /\ [][CircuitNext]_circuitVars

-----------------------------------------------------------------------------
(* Properties *)

(* The circuit's record and the calls in progress hold values of their     *)
(* kind.                                                                   *)
CircuitTypeOK ==
  /\ state \in {"CLOSED", "OPEN", "HALF_OPEN"}
  /\ failures \in 0..MaxFailures
  /\ since \in Ages
  /\ running \subseteq Calls
  /\ age \in [Calls -> Ages]

(* The state and the counter tell the same story, although calls started   *)
(* in one state end in another: the circuit is closed exactly while fewer  *)
(* than failureThreshold failures are on the count.                        *)
StateMatchesCount == state = "CLOSED" <=> failures < Threshold

(* An open circuit protects the service: every operation still awaited was *)
(* started no later than the last failure.                                 *)
NoCallSinceOpened ==
  state = "OPEN" => \A c \in running : since <= age[c]

CircuitInv == CircuitTypeOK /\ StateMatchesCount /\ NoCallSinceOpened
=============================================================================
