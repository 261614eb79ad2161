------------------------------ MODULE MCServices ------------------------------
(***************************************************************************)
(* The parts of the service that run apart: the circuit breaker, the       *)
(* delivery of codes, the start of a container and the verification of a   *)
(* batch.  They share no variable, so a behaviour runs one of them and     *)
(* leaves the others as they start.                                        *)
(***************************************************************************)
EXTENDS CircuitBreaker, CodeDelivery, Startup, InvitationBatch

VARIABLE part

servicesVars == <<part, circuitVars, deliveryVars, startupVars, batchVars>>

Init ==
  /\ part \in {"circuit", "delivery", "startup", "batch"}
  /\ CircuitInit /\ DeliveryInit
  /\ IF part = "startup" THEN StartupInit
     ELSE StartupInit /\ image = "dev" /\ db
  /\ IF part = "batch" THEN BatchInit
     ELSE batch = <<>> /\ invalid = {} /\ refusedAt = NoId

Circuit(A) == part = "circuit" /\ A /\ UNCHANGED <<part, deliveryVars, startupVars, batchVars>>
Delivery(A) == part = "delivery" /\ A /\ UNCHANGED <<part, circuitVars, startupVars, batchVars>>
Container(A) == part = "startup" /\ A /\ UNCHANGED <<part, circuitVars, deliveryVars, batchVars>>
Batch(A) == part = "batch" /\ A /\ UNCHANGED <<part, circuitVars, deliveryVars, startupVars>>

Next ==
  \/ Circuit(CircuitNext) \/ Delivery(DeliveryNext) \/ Container(StartupNext) \/ Batch(VerifyBatch)

(* The fairness of DeliverySpec and StartupSpec, for the part that runs.   *)
Spec ==
  /\ Init /\ [][Next]_servicesVars
  /\ \A k \in Codes : WF_servicesVars(Delivery(DeliveryStep(k)))
  /\ WF_servicesVars(Container(StartupStep))

(* Records, tables, requests and histories hold values of their kind.      *)
TypeOK == CircuitTypeOK /\ DeliveryTypeOK /\ StartupTypeOK /\ BatchTypeOK
=============================================================================
