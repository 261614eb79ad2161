------------------------ MODULE BusinessUserRolesProofs ------------------------
(***************************************************************************)
(* Proofs about the roles of business users, for any number of concurrent  *)
(* changes and any lists of ids.                                           *)
(***************************************************************************)
EXTENDS BusinessUserRoles, TLAPS

USE RolesAssumption

(* The row a change has left behind keeps its role, whatever its flag.     *)
RoleKept ==
  \A c \in Changes : \A i \in DOMAIN change[c].ids :
    LET b == change[c].ids[i]
    IN  i < change[c].at \/ change[c].pc = "ok" =>
          HasRole(b, change[c].role) \/ entry[b] = "deleted"

(* The three are inductive together: a row that exists keeps its role, and *)
(* only a change that stands at a business user behind its updateMany, or  *)
(* broke off there, leaves its row inactive.                               *)
RolesInv == RolesTypeOK /\ HolderListed /\ RoleKept

LEMMA NoIds == <<>> \in Ids /\ DOMAIN <<>> = {}
<1>1. <<>> \in [1..0 -> BusinessUsers]
  OBVIOUS
<1> QED
  BY <1>1 DEF Ids

LEMMA RolesInitially == RolesInit => RolesInv
  BY NoIds DEF RolesInit, RolesInv, RolesTypeOK, HolderListed, RoleKept, InLoop, Change, Unsettled

LEMMA IdsAreBusinessUsers ==
  ASSUME NEW ids \in Ids, NEW i \in DOMAIN ids PROVE ids[i] \in BusinessUsers
  BY DEF Ids

(* A loop stands at a business user, and the next place is one or none.    *)
LEMMA LoopPlace ==
  ASSUME RolesInv, NEW c \in Changes, InLoop(c)
  PROVE  /\ Current(c) \in BusinessUsers
         /\ change[c] \in Change /\ change[c].at \in DOMAIN change[c].ids
         /\ \E n \in 0..MaxIds : DOMAIN change[c].ids = 1..n
  BY DEF RolesInv, RolesTypeOK, Current, Change, Ids

-----------------------------------------------------------------------------
(* How the calls go on *)

LEMMA NextIdMoves ==
  ASSUME RolesInv, NEW c \in Changes, InLoop(c), NextId(c)
  PROVE  /\ change' \in [Changes -> Change]
         /\ \A d \in Changes : d # c => change'[d] = change[d]
         /\ change'[c].ids = change[c].ids /\ change'[c].role = change[c].role
         /\ change'[c].pc \in {"deactivate", "ok"}
         /\ change'[c].pc = "deactivate" => /\ change'[c].at = change[c].at + 1
                                            /\ change'[c].at \in DOMAIN change'[c].ids
         /\ change'[c].pc = "ok" =>
              change'[c].at = change[c].at /\ \A i \in DOMAIN change[c].ids : i <= change[c].at
<1>1. PICK n \in 0..MaxIds : DOMAIN change[c].ids = 1..n
  BY LoopPlace
<1>2. change[c] \in Change /\ change[c].at \in 1..n /\ change \in [Changes -> Change]
  BY <1>1, LoopPlace DEF RolesInv, RolesTypeOK
<1>3. CASE change[c].at + 1 \in DOMAIN change[c].ids
  <2>1. change' = [change EXCEPT ![c].at = @ + 1, ![c].pc = "deactivate"]
    BY <1>3 DEF NextId
  <2>2. change[c].at + 1 \in 0..MaxIds
    BY <1>1, <1>3
  <2>3. change' \in [Changes -> Change]
    BY <1>2, <2>1, <2>2 DEF Change
  <2> QED
    BY <1>2, <1>3, <2>1, <2>3 DEF Change
<1>4. CASE change[c].at + 1 \notin DOMAIN change[c].ids
  <2>1. change' = [change EXCEPT ![c].pc = "ok"]
    BY <1>4 DEF NextId
  <2>2. change[c].at = n /\ \A i \in 1..n : i <= change[c].at
    BY <1>1, <1>2, <1>4
  <2>3. change' \in [Changes -> Change]
    BY <1>2, <2>1 DEF Change
  <2> QED
    BY <1>1, <1>2, <2>1, <2>2, <2>3 DEF Change
<1> QED
  BY <1>3, <1>4

(* The place and the role of a call that does not go on are kept.          *)
LEMMA PcOnly ==
  ASSUME RolesInv, NEW c \in Changes, NEW pc \in {"find", "update", "create", "failed"},
         change' = [change EXCEPT ![c].pc = pc]
  PROVE  /\ change' \in [Changes -> Change]
         /\ \A d \in Changes : d # c => change'[d] = change[d]
         /\ change'[c].pc = pc /\ change'[c].ids = change[c].ids
         /\ change'[c].role = change[c].role /\ change'[c].at = change[c].at
  BY DEF RolesInv, RolesTypeOK, Change

-----------------------------------------------------------------------------
(* The steps *)

(* The rows may change their active flag, and a row may come; a row of     *)
(* another business user than that of the step is left alone.              *)
RowsGrow(b) ==
  /\ \A a \in BusinessUsers : a # b => roleRow'[a] = roleRow[a]
  /\ roleRow[b] # NoRole => roleRow'[b] # NoRole /\ roleRow'[b].role = roleRow[b].role

LEMMA StayStep ==
  ASSUME RolesInv, NEW c \in Changes, InLoop(c),
         NEW pc \in {"find", "update", "create", "failed"}, change' = [change EXCEPT ![c].pc = pc],
         RowsGrow(Current(c)), UNCHANGED entry,
         roleRow' \in [BusinessUsers -> RoleRow \cup {NoRole}],
         \A b \in BusinessUsers : roleRow'[b] # NoRole => entry[b] = "there",
         pc = "failed" => roleRow' = roleRow,
         brokenOff' = IF pc = "failed" /\ HasDeactivated(c) THEN brokenOff \cup {Current(c)}
                      ELSE brokenOff
  PROVE  RolesInv'
<1>1. /\ Current(c) \in BusinessUsers /\ change[c] \in Change
      /\ change[c].at \in DOMAIN change[c].ids
  BY LoopPlace
<1>2. /\ change' \in [Changes -> Change]
      /\ \A d \in Changes : d # c => change'[d] = change[d]
      /\ change'[c].pc = pc /\ change'[c].ids = change[c].ids
      /\ change'[c].role = change[c].role /\ change'[c].at = change[c].at
  BY PcOnly
<1>3. RolesTypeOK'
  BY <1>1, <1>2 DEF RolesInv, RolesTypeOK, InLoop
<1>4. HolderListed'
  <2> SUFFICES ASSUME NEW b \in BusinessUsers, roleRow'[b] # NoRole,
                      ~(roleRow'[b].role = roleRow'[b].role /\ roleRow'[b].active)
               PROVE  Unsettled(b)'
    BY DEF HolderListed, Holders, HasRole
  <2>1. CASE b = Current(c) /\ pc # "failed"
    BY <1>2, <2>1 DEF HasDeactivated, Current, Unsettled
  <2>2. CASE b = Current(c) /\ pc = "failed" /\ HasDeactivated(c)
    BY <2>2 DEF Unsettled
  <2>3. CASE b # Current(c) \/ (pc = "failed" /\ ~HasDeactivated(c))
    <3>1. Unsettled(b)
      BY <2>3 DEF RowsGrow, RolesInv, HolderListed, Holders, HasRole
    <3> QED
      BY <3>1, <2>3, <1>2 DEF HasDeactivated, Current, Unsettled
  <2> QED
    BY <2>1, <2>2, <2>3
<1>5. RoleKept'
  <2> SUFFICES ASSUME NEW d \in Changes, NEW i \in DOMAIN change'[d].ids,
                      i < change'[d].at \/ change'[d].pc = "ok",
                      NEW b, b = change'[d].ids[i]
               PROVE  \/ roleRow'[b] # NoRole /\ roleRow'[b].role = change'[d].role
                      \/ entry'[b] = "deleted"
    BY DEF RoleKept, HasRole
  <2>1. /\ change'[d].ids = change[d].ids /\ change'[d].role = change[d].role
        /\ i < change[d].at \/ change[d].pc = "ok"
    BY <1>2
  <2>2. b \in BusinessUsers
    BY <1>2, IdsAreBusinessUsers DEF Change
  <2>3. HasRole(b, change[d].role) \/ entry[b] = "deleted"
    BY <2>1 DEF RolesInv, RoleKept
  <2> QED
    BY <2>1, <2>2, <2>3, <1>1 DEF HasRole, RowsGrow
<1> QED
  BY <1>3, <1>4, <1>5 DEF RolesInv

(* The step that leaves a business user behind leaves it a holder.         *)
LEMMA NextIdStep ==
  ASSUME RolesInv, NEW c \in Changes, InLoop(c), NextId(c), RowsGrow(Current(c)),
         roleRow'[Current(c)] # NoRole, roleRow'[Current(c)].role = change[c].role,
         roleRow'[Current(c)].active, roleRow' \in [BusinessUsers -> RoleRow \cup {NoRole}],
         \A b \in BusinessUsers : roleRow'[b] # NoRole => entry[b] = "there",
         brokenOff' = brokenOff \ {Current(c)}, UNCHANGED entry
  PROVE  RolesInv'
<1>1. /\ Current(c) \in BusinessUsers /\ change[c] \in Change
      /\ change[c].at \in DOMAIN change[c].ids
      /\ \E n \in 0..MaxIds : DOMAIN change[c].ids = 1..n
  BY LoopPlace
<1>2. /\ change' \in [Changes -> Change]
      /\ \A d \in Changes : d # c => change'[d] = change[d]
      /\ change'[c].ids = change[c].ids /\ change'[c].role = change[c].role
      /\ change'[c].pc \in {"deactivate", "ok"}
      /\ change'[c].pc = "deactivate" => /\ change'[c].at = change[c].at + 1
                                         /\ change'[c].at \in DOMAIN change'[c].ids
      /\ change'[c].pc = "ok" =>
           change'[c].at = change[c].at /\ \A i \in DOMAIN change[c].ids : i <= change[c].at
  BY NextIdMoves
<1>3. RolesTypeOK'
  BY <1>1, <1>2 DEF RolesInv, RolesTypeOK, InLoop
<1>4. HolderListed'
  <2> SUFFICES ASSUME NEW b \in BusinessUsers, roleRow'[b] # NoRole, ~roleRow'[b].active
               PROVE  Unsettled(b)'
    BY DEF HolderListed, Holders, HasRole
  <2>1. b # Current(c) /\ roleRow'[b] = roleRow[b]
    BY DEF RowsGrow
  <2>2. Unsettled(b)
    BY <2>1 DEF RolesInv, HolderListed, Holders, HasRole
  <2> QED
    BY <2>1, <2>2, <1>2 DEF HasDeactivated, Current, Unsettled
<1>5. RoleKept'
  <2> SUFFICES ASSUME NEW d \in Changes, NEW i \in DOMAIN change'[d].ids,
                      i < change'[d].at \/ change'[d].pc = "ok",
                      NEW b, b = change'[d].ids[i]
               PROVE  \/ roleRow'[b] # NoRole /\ roleRow'[b].role = change'[d].role
                      \/ entry'[b] = "deleted"
    BY DEF RoleKept, HasRole
  <2>1. change'[d].ids = change[d].ids /\ change'[d].role = change[d].role
    BY <1>2
  <2>2. b \in BusinessUsers
    BY <1>2, IdsAreBusinessUsers DEF Change
  <2>3. ASSUME i < change[d].at \/ change[d].pc = "ok"
        PROVE  HasRole(b, change[d].role) \/ entry[b] = "deleted"
    BY <2>1, <2>3 DEF RolesInv, RoleKept
  <2>4. i < change[d].at \/ change[d].pc = "ok" \/ (d = c /\ i = change[c].at)
    BY <1>1, <1>2, <2>1
  <2>5. d = c /\ i = change[c].at => b = Current(c)
    BY <2>1 DEF Current
  <2> QED
    BY <2>1, <2>2, <2>3, <2>4, <2>5, <1>1 DEF HasRole, RowsGrow
<1> QED
  BY <1>3, <1>4, <1>5 DEF RolesInv

(* A step that leaves the rows as they are and fails, or reads. *)
LEMMA ReadRolesStep ==
  ASSUME RolesInv, NEW c \in Changes, InLoop(c), NEW pc \in {"find", "update", "create", "failed"},
         change' = [change EXCEPT ![c].pc = pc], UNCHANGED <<entry, roleRow>>,
         brokenOff' = IF pc = "failed" /\ HasDeactivated(c) THEN brokenOff \cup {Current(c)}
                      ELSE brokenOff
  PROVE  RolesInv'
<1>1. /\ roleRow' \in [BusinessUsers -> RoleRow \cup {NoRole}]
      /\ \A b \in BusinessUsers : roleRow'[b] # NoRole => entry[b] = "there"
      /\ RowsGrow(Current(c))
  BY DEF RolesInv, RolesTypeOK, RowsGrow
<1> QED
  BY <1>1, StayStep

LEMMA FailStep ==
  ASSUME RolesInv, NEW c \in Changes, InLoop(c), FailAt(c), UNCHANGED <<entry, roleRow>> PROVE RolesInv'
  BY ReadRolesStep DEF FailAt

LEMMA DeactivatePreserves == ASSUME RolesInv, NEW c \in Changes, Deactivate(c) PROVE RolesInv'
<1>1. InLoop(c)
  BY DEF Deactivate, InLoop
<1>2. Current(c) \in BusinessUsers
  BY <1>1, LoopPlace
<1>3. /\ roleRow' \in [BusinessUsers -> RoleRow \cup {NoRole}]
      /\ \A b \in BusinessUsers : roleRow'[b] # NoRole => entry[b] = "there"
      /\ RowsGrow(Current(c))
  <2>1. CASE roleRow[Current(c)] = NoRole
    BY <1>2, <2>1 DEF RolesInv, RolesTypeOK, RowsGrow, Deactivate
  <2>2. CASE roleRow[Current(c)] # NoRole
    <3>1. roleRow[Current(c)] \in RoleRow /\ roleRow \in [BusinessUsers -> RoleRow \cup {NoRole}]
      BY <1>2, <2>2 DEF RolesInv, RolesTypeOK
    <3>2. roleRow' = [roleRow EXCEPT ![Current(c)] = [@ EXCEPT !.active = FALSE]]
      BY <2>2 DEF Deactivate
    <3>3. [roleRow[Current(c)] EXCEPT !.active = FALSE] \in RoleRow
      BY <3>1 DEF RoleRow
    <3>4. [roleRow[Current(c)] EXCEPT !.active = FALSE].role = roleRow[Current(c)].role
      BY <3>1 DEF RoleRow
    <3> QED
      BY <1>2, <2>2, <3>1, <3>2, <3>3, <3>4 DEF RolesInv, RolesTypeOK, RowsGrow, RoleRow
  <2> QED
    BY <2>1, <2>2
<1> QED
  BY <1>1, <1>3, StayStep DEF Deactivate

LEMMA FindRolePreserves == ASSUME RolesInv, NEW c \in Changes, FindRole(c) PROVE RolesInv'
<1>1. InLoop(c)
  BY DEF FindRole, InLoop
<1>2. CASE HasRole(Current(c), change[c].role)
  BY <1>1, <1>2, ReadRolesStep DEF FindRole
<1>3. CASE ~HasRole(Current(c), change[c].role)
  BY <1>1, <1>3, ReadRolesStep DEF FindRole
<1> QED
  BY <1>2, <1>3

LEMMA ActivatePreserves == ASSUME RolesInv, NEW c \in Changes, Activate(c) PROVE RolesInv'
<1>1. InLoop(c)
  BY DEF Activate, InLoop
<1>2. Current(c) \in BusinessUsers
  BY <1>1, LoopPlace
<1>3. CASE HasRole(Current(c), change[c].role)
  <2>1. /\ roleRow' \in [BusinessUsers -> RoleRow \cup {NoRole}]
        /\ \A b \in BusinessUsers : roleRow'[b] # NoRole => entry[b] = "there"
        /\ RowsGrow(Current(c)) /\ roleRow'[Current(c)].active
        /\ roleRow'[Current(c)] # NoRole /\ roleRow'[Current(c)].role = change[c].role
    <3> DEFINE row == [roleRow[Current(c)] EXCEPT !.active = TRUE]
    <3>1. roleRow[Current(c)] \in RoleRow /\ roleRow \in [BusinessUsers -> RoleRow \cup {NoRole}]
      BY <1>2, <1>3 DEF RolesInv, RolesTypeOK, HasRole
    <3>2. roleRow' = [roleRow EXCEPT ![Current(c)] = row]
      BY <1>3 DEF Activate
    <3>3. row \in RoleRow /\ row.active /\ row.role = change[c].role
      BY <1>3, <3>1 DEF RoleRow, HasRole
    <3> HIDE DEF row
    <3> QED
      BY <1>2, <1>3, <3>1, <3>2, <3>3 DEF RolesInv, RolesTypeOK, RowsGrow, RoleRow, HasRole
  <2> QED
    BY <1>1, <1>3, <2>1, NextIdStep DEF Activate
<1>4. CASE ~HasRole(Current(c), change[c].role)
  BY <1>1, <1>4, FailStep DEF Activate
<1> QED
  BY <1>3, <1>4

LEMMA CreateRolePreserves == ASSUME RolesInv, NEW c \in Changes, CreateRole(c) PROVE RolesInv'
<1>1. InLoop(c)
  BY DEF CreateRole, InLoop
<1>2. Current(c) \in BusinessUsers /\ change[c] \in Change
  BY <1>1, LoopPlace
<1>3. CASE entry[Current(c)] = "there" /\ roleRow[Current(c)] = NoRole
  <2>1. change[c].role \in OrgRoles
    BY <1>1 DEF RolesInv, RolesTypeOK
  <2>2. /\ roleRow' \in [BusinessUsers -> RoleRow \cup {NoRole}]
        /\ \A b \in BusinessUsers : roleRow'[b] # NoRole => entry[b] = "there"
        /\ RowsGrow(Current(c)) /\ roleRow'[Current(c)].active
        /\ roleRow'[Current(c)] # NoRole /\ roleRow'[Current(c)].role = change[c].role
    <3> DEFINE row == [role |-> change[c].role, active |-> TRUE]
    <3>1. row \in RoleRow /\ row.role = change[c].role /\ row.active
      BY <2>1 DEF RoleRow
    <3>2. roleRow' = [roleRow EXCEPT ![Current(c)] = row]
      BY <1>3 DEF CreateRole
    <3> HIDE DEF row
    <3> QED
      BY <1>2, <1>3, <3>1, <3>2 DEF RolesInv, RolesTypeOK, RowsGrow, RoleRow
  <2> QED
    BY <1>1, <1>3, <2>2, NextIdStep DEF CreateRole
<1>4. CASE ~(entry[Current(c)] = "there" /\ roleRow[Current(c)] = NoRole)
  BY <1>1, <1>4, FailStep DEF CreateRole
<1> QED
  BY <1>3, <1>4

LEMMA ChangeStartPreserves ==
  ASSUME RolesInv, NEW c \in Changes, NEW role \in OrgRoles, NEW ids \in Ids, ChangeStart(c, role, ids)
  PROVE  RolesInv'
<1>1. PICK n \in 0..MaxIds : DOMAIN ids = 1..n
  BY DEF Ids
<1> DEFINE started == [pc |-> "deactivate", role |-> role, ids |-> ids, at |-> 1]
           nothing == [pc |-> "ok", role |-> role, ids |-> ids, at |-> 0]
<1>2. /\ change' \in [Changes -> Change]
      /\ \A d \in Changes : d # c => change'[d] = change[d]
      /\ \/ change'[c] = started /\ 1 \in DOMAIN ids
         \/ change'[c] = nothing /\ 1 \notin DOMAIN ids
  <2>1. started \in Change /\ nothing \in Change
    BY DEF Change
  <2> QED
    BY <2>1 DEF RolesInv, RolesTypeOK, ChangeStart
<1>3. RolesTypeOK'
  BY <1>2 DEF RolesInv, RolesTypeOK, ChangeStart, InLoop
<1>4. HolderListed'
  <2>1. ~InLoop(c)
    BY DEF ChangeStart, InLoop
  <2>2. \A d \in Changes : HasDeactivated(d) => HasDeactivated(d)' /\ Current(d)' = Current(d)
    BY <1>2, <2>1 DEF HasDeactivated, InLoop, Current
  <2> QED
    BY <2>2 DEF RolesInv, HolderListed, Holders, HasRole, Unsettled, ChangeStart
<1>5. RoleKept'
  BY <1>1, <1>2 DEF RolesInv, RoleKept, HasRole, ChangeStart
<1> QED
  BY <1>3, <1>4, <1>5 DEF RolesInv

LEMMA EnlistPreserves == ASSUME RolesInv, NEW b \in BusinessUsers, Enlist(b) PROVE RolesInv'
<1>1. \A a \in BusinessUsers : a # b => entry'[a] = entry[a]
  BY DEF RolesInv, RolesTypeOK, Enlist
<1>2. RolesTypeOK'
  BY DEF RolesInv, RolesTypeOK, Enlist, InLoop
<1>3. HolderListed'
  BY DEF RolesInv, HolderListed, Holders, HasRole, Enlist, Unsettled, HasDeactivated, Current
<1>4. RoleKept'
  <2> SUFFICES ASSUME NEW d \in Changes, NEW i \in DOMAIN change[d].ids,
                      i < change[d].at \/ change[d].pc = "ok",
                      NEW a, a = change[d].ids[i]
               PROVE  HasRole(a, change[d].role) \/ entry'[a] = "deleted"
    BY DEF RoleKept, HasRole, Enlist
  <2>1. a \in BusinessUsers
    BY IdsAreBusinessUsers DEF RolesInv, RolesTypeOK, Change
  <2>2. HasRole(a, change[d].role) \/ entry[a] = "deleted"
    BY DEF RolesInv, RoleKept
  <2> QED
    BY <1>1, <2>1, <2>2 DEF Enlist
<1> QED
  BY <1>2, <1>3, <1>4 DEF RolesInv

LEMMA DelistPreserves == ASSUME RolesInv, NEW b \in BusinessUsers, Delist(b) PROVE RolesInv'
<1>1. /\ \A a \in BusinessUsers : a # b => entry'[a] = entry[a] /\ roleRow'[a] = roleRow[a]
      /\ entry'[b] = "deleted" /\ roleRow'[b] = NoRole
  BY DEF RolesInv, RolesTypeOK, Delist
<1>2. RolesTypeOK'
  BY <1>1 DEF RolesInv, RolesTypeOK, Delist, InLoop
<1>3. HolderListed'
  BY <1>1 DEF RolesInv, HolderListed, Holders, HasRole, Delist, Unsettled, HasDeactivated, Current
<1>4. RoleKept'
  <2> SUFFICES ASSUME NEW d \in Changes, NEW i \in DOMAIN change[d].ids,
                      i < change[d].at \/ change[d].pc = "ok",
                      NEW a, a = change[d].ids[i]
               PROVE  \/ roleRow'[a] # NoRole /\ roleRow'[a].role = change[d].role
                      \/ entry'[a] = "deleted"
    BY DEF RoleKept, HasRole, Delist
  <2>1. a \in BusinessUsers
    BY IdsAreBusinessUsers DEF RolesInv, RolesTypeOK, Change
  <2>2. HasRole(a, change[d].role) \/ entry[a] = "deleted"
    BY DEF RolesInv, RoleKept
  <2> QED
    BY <1>1, <2>1, <2>2 DEF HasRole
<1> QED
  BY <1>2, <1>3, <1>4 DEF RolesInv

-----------------------------------------------------------------------------
(* The theorems *)

LEMMA RolesPreserves == RolesInv /\ [RolesNext]_roleVars => RolesInv'
<1> SUFFICES ASSUME RolesInv, [RolesNext]_roleVars PROVE RolesInv'
  OBVIOUS
<1>1. CASE UNCHANGED roleVars
  BY <1>1 DEF RolesInv, RolesTypeOK, HolderListed, RoleKept, Holders, HasRole, InLoop, Current,
     Unsettled, HasDeactivated, roleVars
<1>2. ASSUME NEW c \in Changes, Abort(c) PROVE RolesInv'
  BY <1>2, FailStep DEF Abort
<1> QED
  BY <1>1, <1>2, ChangeStartPreserves, DeactivatePreserves, FindRolePreserves, ActivatePreserves,
     CreateRolePreserves, EnlistPreserves, DelistPreserves DEF RolesNext

(* In every reachable state the inductive invariant holds.                 *)
THEOREM RolesInvariance == RolesSpec => []RolesInv
  BY RolesInitially, RolesPreserves, PTL DEF RolesSpec

(* Roles are of business users that are there, and a loop stands at an id. *)
THEOREM RolesTypeCorrect == RolesSpec => []RolesTypeOK
<1>1. RolesInv => RolesTypeOK
  BY DEF RolesInv
<1> QED
  BY RolesInvariance, <1>1, PTL

(* However changes interleave, a business user with a role is listed under *)
(* it unless one of them stands between its queries there, or the last to  *)
(* end there broke off.                                                    *)
THEOREM HoldersAreListed == RolesSpec => []HolderListed
<1>1. RolesInv => HolderListed
  BY DEF RolesInv
<1> QED
  BY RolesInvariance, <1>1, PTL

(* The business user a change has gone past is listed under its role, until *)
(* it is deleted or a change deactivates the row without coming through.   *)
THEOREM SuccessIsKept == RolesSpec => []SuccessGivesRole
<1>1. RolesInv => SuccessGivesRole
  <2> SUFFICES ASSUME RolesInv, NEW c \in Changes, NEW i \in DOMAIN change[c].ids,
                      i < change[c].at \/ change[c].pc = "ok",
                      NEW b, b = change[c].ids[i], entry[b] # "deleted"
               PROVE  /\ HasRole(b, change[c].role)
                      /\ b \in Holders(change[c].role) \/ Unsettled(b)
    BY DEF SuccessGivesRole
  <2>1. b \in BusinessUsers
    BY IdsAreBusinessUsers DEF RolesInv, RolesTypeOK, Change
  <2>2. HasRole(b, change[c].role)
    BY DEF RolesInv, RoleKept
  <2>3. b \notin Holders(change[c].role) => Unsettled(b)
    BY <2>1, <2>2 DEF RolesInv, HolderListed, Holders, HasRole
  <2> QED
    BY <2>2, <2>3
<1> QED
  BY RolesInvariance, <1>1, PTL
=============================================================================
