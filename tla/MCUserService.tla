---------------------------- MODULE MCUserService ----------------------------
(***************************************************************************)
(* The parts of the service around users, with small sets of users, rows   *)
(* and requests.  They share no variable, so a behaviour runs one of them  *)
(* and leaves the others as they start: what is true of each alone is true *)
(* of all together.                                                        *)
(***************************************************************************)
EXTENDS Accounts, Profiles, BusinessUserRoles, Listing, Activity, TLC

VARIABLE part

Init ==
  /\ part \in {"accounts", "profiles", "roles", "listing", "activity"}
  /\ AccountsInit /\ ProfilesInit /\ RolesInit /\ ActivityInit
  /\ ListingInit
  /\ part # "listing" => table = <<>> /\ walk.endpoint = "users" /\ walk.order = "asc" /\ walk.moves

Next ==
  /\ UNCHANGED part
  /\ \/ part = "accounts" /\ AccountsNext
        /\ UNCHANGED <<profileVars, roleVars, listingVars, activityVars>>
     \/ part = "profiles" /\ ProfilesNext
        /\ UNCHANGED <<accountVars, roleVars, listingVars, activityVars>>
     \/ part = "roles" /\ RolesNext
        /\ UNCHANGED <<accountVars, profileVars, listingVars, activityVars>>
     \/ part = "listing" /\ ListingNext
        /\ UNCHANGED <<accountVars, profileVars, roleVars, activityVars>>
     \/ part = "activity" /\ ActivityNext
        /\ UNCHANGED <<accountVars, profileVars, roleVars, listingVars>>

Spec == Init /\ [][Next]_<<part, accountVars, profileVars, roleVars, listingVars, activityVars>>

(* Every table, request and history holds values of its kind.              *)
TypeOK ==
  AccountsTypeOK /\ ProfilesTypeOK /\ RolesTypeOK /\ ListingTypeOK /\ ActivityTypeOK

(* Ids are names only: nothing is ordered by them or treats one apart.     *)
(* The parts take their users and their requests from the same sets.       *)
Symmetry == Permutations(Users) \cup Permutations(Mailboxes) \cup Permutations(Requests)
=============================================================================
