--------------------------- MODULE InvitationBatch ---------------------------
(***************************************************************************)
(* How sendStaffInvitations (src/src/staff/staff.service.ts) verifies the  *)
(* branch, department and role ids of a batch before module                *)
(* StaffInvitation takes over: the distinct ids of each kind are asked     *)
(* about together, and the answers are matched to ids by position.         *)
(***************************************************************************)
EXTENDS Integers, Sequences, FiniteSets

CONSTANTS
  Branches, Departments, Roles,  \* ids of each kind
  MaxBatch,                      \* BOUND: invitations in one request
  NoId                           \* an id that is left out

ASSUME BatchAssumption ==
  MaxBatch \in Nat \ {0} /\ NoId \notin Branches \cup Departments \cup Roles

VARIABLES
  batch,     \* the invitations of the request
  invalid,   \* ids the organization service refuses
  refusedAt  \* positions of the invitations that were refused; NoId before

batchVars == <<batch, invalid, refusedAt>>

IdKinds == <<"branch", "department", "role">>
Item == [branch : Branches \cup {NoId}, department : Departments \cup {NoId},
         role : Roles \cup {NoId}]

Given(k, i) == batch[i][IdKinds[k]]

(* [...new Set(ids)] keeps the order of first appearance: the ids of a     *)
(* kind are known by the positions where they appear first, in order.      *)
IdsOf(k) ==
  {i \in DOMAIN batch : Given(k, i) # NoId /\ \A j \in 1..(i - 1) : Given(k, j) # Given(k, i)}
Index(k, i) == Cardinality({j \in IdsOf(k) : j <= i})

(* A list of answers is pushed for each kind that has an id, so answers    *)
(* move up when a kind has none; a missing list counts as empty.  What     *)
(* list k says of kind j.                                                  *)
AnsweredIn(k, j) ==
  IdsOf(j) # {} /\ Cardinality({a \in 1..j : IdsOf(a) # {}}) = k

(* filter: where the ids with a failed answer in list k stand, of whatever *)
(* kind they are.                                                          *)
Failures(k) ==
  {i \in DOMAIN batch :
     \E j \in 1..3 : AnsweredIn(k, j) /\ i \in IdsOf(j) /\ Given(j, i) \in invalid}

(* Mutation: the index is counted from 1.                                  *)
FailedFromOne(k) ==
  {Given(k, i) : i \in {j \in IdsOf(k) : Index(k, j) - 1 \in 1..Cardinality(Failures(k))}}

(* filter, then map by index: the index counts the failed answers only,    *)
(* and points nowhere when the kind has fewer ids.                         *)
Failed(k) ==
  {Given(k, i) : i \in {j \in IdsOf(k) : Index(k, j) <= Cardinality(Failures(k))}}

BatchInit ==
  /\ batch \in UNION {[1..n -> Item] : n \in 1..MaxBatch}
  /\ invalid \in SUBSET (Branches \cup Departments \cup Roles)
  /\ refusedAt = NoId

VerifyBatch ==
  /\ refusedAt = NoId
  /\ refusedAt' = {i \in DOMAIN batch : \E k \in 1..3 : Given(k, i) \in Failed(k)}
  /\ UNCHANGED <<batch, invalid>>

BatchSpec == BatchInit /\ [][VerifyBatch]_batchVars

-----------------------------------------------------------------------------
(* Properties *)

BatchTypeOK ==
  /\ batch \in Seq(Item) /\ invalid \subseteq Branches \cup Departments \cup Roles
  /\ refusedAt = NoId \/ refusedAt \subseteq DOMAIN batch

(* No kind without ids stands before one with ids, and the ids that failed *)
(* stand before the others of their kind.                                  *)
Aligned == \A j, k \in 1..3 : j < k /\ IdsOf(j) = {} => IdsOf(k) = {}
FailuresFirst ==
  \A k \in 1..3 : \A i, j \in IdsOf(k) :
    i < j /\ Given(k, j) \in invalid => Given(k, i) \in invalid

(* The comment "Create lookup maps for failed verifications" at its best:  *)
(* an invitation is refused exactly when one of its own ids is, as long as *)
(* the answers stand where their ids do.  Otherwise a refused id can pass, *)
(* and another be refused in its place.                                    *)
RefusedWhenAligned ==
  refusedAt # NoId /\ Aligned /\ FailuresFirst =>
    refusedAt = {i \in DOMAIN batch : \E k \in 1..3 : Given(k, i) \in invalid}
=============================================================================
