--------------------------- MODULE BusinessUserRoles ---------------------------
(***************************************************************************)
(* Roles of business users: createOrUpdateBusinessUserRole of              *)
(* src/src/user/business-user.service.ts and the queries of                *)
(* src/src/roles/roles.service.ts.  A change runs three queries for each   *)
(* id, one after the other and in no transaction.  The key of the table is *)
(* business_user_id alone: a business user has one row, of one role.       *)
(***************************************************************************)
EXTENDS Integers, Sequences

CONSTANTS
  BusinessUsers,  \* ids; business_user_id, of a business_users row or of none
  OrgRoles,       \* organization_role_id of another service
  Changes,        \* BOUND: calls of createOrUpdateBusinessUserRole
  MaxIds,         \* BOUND: ids in one call
  NoRole

ASSUME RolesAssumption ==
  MaxIds \in Nat \ {0} /\ NoRole \notin OrgRoles \cup [role : OrgRoles, active : BOOLEAN]

VARIABLES
  entry,    \* the business_users row: not yet inserted, there, or deleted
  roleRow,  \* business_user_roles: business user -> its row, or NoRole
  change,   \* the calls
  brokenOff \* history: ids at which the last call to end failed, or stopped, half-way

roleVars == <<entry, roleRow, change, brokenOff>>

RoleRow == [role : OrgRoles, active : BOOLEAN]
Ids == UNION {[1..n -> BusinessUsers] : n \in 0..MaxIds}
Change == [pc : {"idle", "deactivate", "find", "update", "create", "ok", "failed"},
           role : OrgRoles \cup {NoRole}, ids : Ids, at : 0..MaxIds]
Current(c) == change[c].ids[change[c].at]
InLoop(c) == change[c].pc \in {"deactivate", "find", "update", "create"}
HasDeactivated(c) == change[c].pc \in {"find", "update", "create"}

RolesInit ==
  /\ entry = [b \in BusinessUsers |-> "new"]
  /\ roleRow = [b \in BusinessUsers |-> NoRole]
  /\ change = [c \in Changes |-> [pc |-> "idle", role |-> NoRole, ids |-> <<>>, at |-> 0]]
  /\ brokenOff = {}

(* The loop over the ids goes on with the next one, or is over.            *)
NextId(c) ==
  change' = IF change[c].at + 1 \in DOMAIN change[c].ids
            THEN [change EXCEPT ![c].at = @ + 1, ![c].pc = "deactivate"]
            ELSE [change EXCEPT ![c].pc = "ok"]

(* An error leaves the loop: later ids are not touched, earlier ones stay  *)
(* as they are, and nothing is activated again.                            *)
FailAt(c) ==
  /\ change' = [change EXCEPT ![c].pc = "failed"]
  /\ brokenOff' = IF HasDeactivated(c) THEN brokenOff \cup {Current(c)} ELSE brokenOff

ChangeStart(c, role, ids) ==
  /\ change[c].pc = "idle"
  /\ change' = [change EXCEPT ![c] =
       IF 1 \in DOMAIN ids THEN [pc |-> "deactivate", role |-> role, ids |-> ids, at |-> 1]
       ELSE [pc |-> "ok", role |-> role, ids |-> ids, at |-> 0]]
  /\ UNCHANGED <<entry, roleRow, brokenOff>>

(* updateMany: no row is no error. *)
Deactivate(c) ==
  LET b == Current(c)
  IN  /\ change[c].pc = "deactivate"
      /\ roleRow' = IF roleRow[b] = NoRole THEN roleRow ELSE [roleRow EXCEPT ![b].active = FALSE]
      /\ change' = [change EXCEPT ![c].pc = "find"]
      /\ UNCHANGED <<entry, brokenOff>>

HasRole(b, role) == roleRow[b] # NoRole /\ roleRow[b].role = role

FindRole(c) ==
  /\ change[c].pc = "find"
  /\ change' = [change EXCEPT ![c].pc = IF HasRole(Current(c), change[c].role) THEN "update" ELSE "create"]
  /\ UNCHANGED <<entry, roleRow, brokenOff>>

(* Mutation: a row that is there is left as it is. *)
ActivateNothing(c) ==
  /\ change[c].pc = "update"
  /\ NextId(c)
  /\ UNCHANGED <<entry, roleRow, brokenOff>>

(* update of the row of that id and that role; an error without one. *)
Activate(c) ==
  LET b == Current(c)
  IN  /\ change[c].pc = "update"
      /\ IF HasRole(b, change[c].role)
         THEN /\ roleRow' = [roleRow EXCEPT ![b].active = TRUE]
              /\ NextId(c) /\ brokenOff' = brokenOff \ {b}
         ELSE FailAt(c) /\ UNCHANGED roleRow
      /\ UNCHANGED entry

(* Mutation: the row is written over. *)
CreateRoleOver(c) ==
  LET b == Current(c)
  IN  /\ change[c].pc = "create"
      /\ IF entry[b] = "there"
         THEN /\ roleRow' = [roleRow EXCEPT ![b] = [role |-> change[c].role, active |-> TRUE]]
              /\ NextId(c) /\ brokenOff' = brokenOff \ {b}
         ELSE FailAt(c) /\ UNCHANGED roleRow
      /\ UNCHANGED entry

(* The key refuses a second row, the foreign key an id without an entry.   *)
CreateRole(c) ==
  LET b == Current(c)
  IN  /\ change[c].pc = "create"
      /\ IF entry[b] = "there" /\ roleRow[b] = NoRole
         THEN /\ roleRow' = [roleRow EXCEPT ![b] = [role |-> change[c].role, active |-> TRUE]]
              /\ NextId(c) /\ brokenOff' = brokenOff \ {b}
         ELSE FailAt(c) /\ UNCHANGED roleRow
      /\ UNCHANGED entry

(* A query fails for another reason, or the process stops.                 *)
Abort(c) == InLoop(c) /\ FailAt(c) /\ UNCHANGED <<entry, roleRow>>

(* The onboarding jobs insert business users; deleting the user cascades,  *)
(* and its id is never given again.                                        *)
Enlist(b) ==
  /\ entry[b] = "new"
  /\ entry' = [entry EXCEPT ![b] = "there"]
  /\ UNCHANGED <<roleRow, change, brokenOff>>

Delist(b) ==
  /\ entry[b] = "there"
  /\ entry' = [entry EXCEPT ![b] = "deleted"]
  /\ roleRow' = [roleRow EXCEPT ![b] = NoRole]
  /\ UNCHANGED <<change, brokenOff>>

RolesNext ==
  \/ \E c \in Changes :
       \/ \E role \in OrgRoles, ids \in Ids : ChangeStart(c, role, ids)
       \/ Deactivate(c) \/ FindRole(c) \/ Activate(c) \/ CreateRole(c) \/ Abort(c)
  \/ \E b \in BusinessUsers : Enlist(b) \/ Delist(b)

RolesSpec == RolesInit /\ [][RolesNext]_roleVars

-----------------------------------------------------------------------------
(* Properties *)

(* What findAllByOrganization lists, and findAllCountByOrganization counts. *)
Holders(role) == {b \in BusinessUsers : HasRole(b, role) /\ roleRow[b].active}

(* Rows are of business users that are there; a loop stands at one of its ids. *)
RolesTypeOK ==
  /\ entry \in [BusinessUsers -> {"new", "there", "deleted"}] /\ brokenOff \subseteq BusinessUsers
  /\ roleRow \in [BusinessUsers -> RoleRow \cup {NoRole}]
  /\ change \in [Changes -> Change]
  /\ \A b \in BusinessUsers : roleRow[b] # NoRole => entry[b] = "there"
  /\ \A c \in Changes :
       InLoop(c) => change[c].at \in DOMAIN change[c].ids /\ change[c].role \in OrgRoles

(* A change that stands at b and has set its row inactive, or the last one *)
(* to end at b having done so and no more.                                 *)
Unsettled(b) == b \in brokenOff \/ \E c \in Changes : HasDeactivated(c) /\ Current(c) = b

(* A business user that has a role is listed and counted under it, except  *)
(* while a change stands between its queries at that business user, or     *)
(* when the last one to end there broke off: the change deactivates first, *)
(* and does not undo that.  A change to a second role always fails so.  It *)
(* ends with the next change that comes through, even beside others.       *)
HolderListed ==
  \A b \in BusinessUsers :
    roleRow[b] # NoRole /\ b \notin Holders(roleRow[b].role) => Unsettled(b)

(* After "Business user role handled successfully", and after each id the  *)
(* loop has passed, that business user is listed under that role.  It ends *)
(* with the deletion of the business user, and is suspended only by a      *)
(* later or overlapping change: by its updateMany, until it comes to its   *)
(* last query, or for as long as a change that broke off was the last.  No *)
(* change, whatever the order, makes it a holder of another role.          *)
SuccessGivesRole ==
  \A c \in Changes : \A i \in DOMAIN change[c].ids :
    LET b == change[c].ids[i]
    IN  i < change[c].at \/ change[c].pc = "ok" =>
          \/ entry[b] = "deleted"
          \/ HasRole(b, change[c].role) /\ (b \in Holders(change[c].role) \/ Unsettled(b))
=============================================================================
