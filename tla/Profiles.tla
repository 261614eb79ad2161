------------------------------- MODULE Profiles -------------------------------
(***************************************************************************)
(* A profile lies in three places: the users row here, the home address in *)
(* the address service and the avatar in the files service.  updateUser    *)
(* (src/src/user/user.service.ts) writes them one after the other and      *)
(* swallows what the two services answer; findOne reads them one after the *)
(* other, for one user or, in a loop, for the rows of a listing.           *)
(***************************************************************************)

CONSTANTS
  People,   \* user ids
  Updates,  \* BOUND: calls of updateUser
  Reads,    \* BOUND: calls that read profiles
  Original, \* the data before any update
  Nothing   \* the row of a deleted user; a profile that is null; a call's user before it has one

VARIABLES
  row,        \* the update whose data the users row shows
  held,       \* the update whose data each of the services holds for a user
  update,     \* the calls of updateUser
  reading,    \* the calls that read
  disturbed,  \* history: users with overlapping updates, or a failed call to a service or the database
  crossed     \* history: reads of a user that was being updated meanwhile

profileVars == <<row, held, update, reading, disturbed, crossed>>

Parts == {"address", "avatar"}
Data == Updates \cup {Original}
(* lost: answered with an error, although the row was written.             *)
Update == [pc : {"idle", "address", "avatar", "ok", "error", "lost"},
           user : People \cup {Nothing}, gives : SUBSET Parts]
(* one: getUser, validateAccount and getStaffDetails; many:                *)
(* getManyStaffDetails; business: getOrganizationBusinessUsers.            *)
ReadKinds == {"one", "many", "business"}
Profile == [row : Data, address : Data \cup {Nothing}, avatar : Data \cup {Nothing}]

ASSUME ProfilesAssumption ==
  /\ Original \notin Updates
  /\ Nothing \notin Data \cup People \cup Profile

Reading == [pc : {"idle", "row", "address", "avatar", "ok", "error"}, kind : ReadKinds,
            todo : SUBSET People, user : People \cup {Nothing}, asked : SUBSET People]

ProfilesInit ==
  /\ row = [u \in People |-> Original]
  /\ held = [u \in People |-> [p \in Parts |-> Original]]
  /\ update = [c \in Updates |-> [pc |-> "idle", user |-> Nothing, gives |-> {}]]
  /\ reading = [r \in Reads |-> [pc |-> "idle", kind |-> "one", todo |-> {}, user |-> Nothing,
                                 asked |-> {}, got |-> [u \in People |-> Nothing]]]
  /\ disturbed = {} /\ crossed = {}

Updating(u) == {c \in Updates : update[c].user = u /\ update[c].pc \in Parts}
ReadersOf(u) == {r \in Reads : u \in reading[r].asked /\ reading[r].pc \in {"row", "address", "avatar"}}

-----------------------------------------------------------------------------
(* updateUser *)

(* The parts the request names, in the order of the code; then the answer, *)
(* which is success whatever became of the two calls.                      *)
NextPart(gives, done) ==
  IF "address" \in gives \ done THEN "address"
  ELSE IF "avatar" \in gives \ done THEN "avatar" ELSE "ok"

UpdateRow(c, u, gives) ==
  /\ update[c].pc = "idle"
  /\ \/ /\ row[u] # Nothing
        /\ row' = [row EXCEPT ![u] = c]
        /\ crossed' = crossed \cup ReadersOf(u)
        /\ \/ /\ update' = [update EXCEPT ![c] = [pc |-> NextPart(gives, {}), user |-> u, gives |-> gives]]
              /\ disturbed' = IF Updating(u) = {} THEN disturbed ELSE disturbed \cup {u}
           \/ (* the row is written, the answer of the database is lost *)
              /\ update' = [update EXCEPT ![c] = [pc |-> "lost", user |-> u, gives |-> gives]]
              /\ disturbed' = disturbed \cup {u}
     \/ (* no such user, or a constraint refuses the row *)
        /\ update' = [update EXCEPT ![c] = [pc |-> "error", user |-> u, gives |-> gives]]
        /\ UNCHANGED <<row, disturbed, crossed>>
  /\ UNCHANGED <<held, reading>>

(* Mutation: a service that fails makes the whole call fail.               *)
UpdatePartOrFail(c, p, done) ==
  LET u == update[c].user
  IN  /\ update[c].pc = p
      /\ \/ /\ held' = [held EXCEPT ![u][p] = c]
            /\ update' = [update EXCEPT ![c].pc = NextPart(update[c].gives, done)]
            /\ UNCHANGED disturbed
         \/ /\ disturbed' = disturbed \cup {u}
            /\ update' = [update EXCEPT ![c].pc = "error"]
            /\ UNCHANGED held
      /\ UNCHANGED <<row, reading, crossed>>

(* Mutation: the avatar is left out when the address was given.            *)
UpdatePartFirstOnly(c, p, done) ==
  LET u == update[c].user
  IN  /\ update[c].pc = p
      /\ held' = [held EXCEPT ![u][p] = c]
      /\ update' = [update EXCEPT ![c].pc = "ok"]
      /\ UNCHANGED <<row, reading, disturbed, crossed>>

(* A service stores its part, or fails, maybe after it stored it.          *)
UpdatePart(c, p, done) ==
  LET u == update[c].user
  IN  /\ update[c].pc = p
      /\ \/ held' = [held EXCEPT ![u][p] = c] /\ UNCHANGED disturbed
         \/ held' \in {held, [held EXCEPT ![u][p] = c]} /\ disturbed' = disturbed \cup {u}
      /\ update' = [update EXCEPT ![c].pc = NextPart(update[c].gives, done)]
      /\ UNCHANGED <<row, reading, crossed>>

UpdateAddress(c) == UpdatePart(c, "address", {"address"})
UpdateAvatar(c) == UpdatePart(c, "avatar", Parts)

(* The organization job deletes the user; the services are not told.       *)
DeletePerson(u) ==
  /\ row[u] # Nothing
  /\ row' = [row EXCEPT ![u] = Nothing]
  /\ UNCHANGED <<held, update, reading, disturbed, crossed>>

-----------------------------------------------------------------------------
(* findOne *)

ReadStart(r, kind, us) ==
  /\ reading[r].pc = "idle"
  /\ reading' = [reading EXCEPT ![r].pc = "row", ![r].kind = kind, ![r].todo = us, ![r].asked = us]
  /\ crossed' = IF \A u \in us : Updating(u) = {} THEN crossed ELSE crossed \cup {r}
  /\ UNCHANGED <<row, held, update, disturbed>>

(* getUser and validateAccount: whether the user of the request, or of the *)
(* token, is there is left to findOne.                                     *)
GetUser(r, u) == ReadStart(r, "one", {u})
ValidateAccount(r, u) == ReadStart(r, "one", {u})

(* The others first read rows of staff or business_users, which a deleted  *)
(* user has none of.                                                       *)
GetStaffDetails(r, u) == row[u] # Nothing /\ ReadStart(r, "one", {u})

GetManyStaffDetails(r, us) ==
  /\ us # {} /\ \A u \in us : row[u] # Nothing
  /\ ReadStart(r, "many", us)

GetOrganizationBusinessUsers(r, us) ==
  /\ us # {} /\ \A u \in us : row[u] # Nothing
  /\ ReadStart(r, "business", us)

Give(r, u, profile, pc) ==
  reading' = [reading EXCEPT ![r].got[u] = profile, ![r].user = u, ![r].pc = pc]
Answer(r, pc) == reading' = [reading EXCEPT ![r].pc = pc]

(* A profile is done: on to the next one, or to the answer.                *)
Done(r, u, profile) ==
  reading' = [reading EXCEPT ![r].got[u] = profile, ![r].todo = @ \ {u}, ![r].user = Nothing,
                             ![r].pc = IF reading[r].todo = {u} THEN "ok" ELSE "row"]

(* Mutation: a null profile is kept in every kind of answer.               *)
ReadRowKeepsNull(r) ==
  /\ reading[r].pc = "row"
  /\ \E u \in reading[r].todo :
       IF row[u] # Nothing
       THEN Give(r, u, [row |-> row[u], address |-> Nothing, avatar |-> Nothing], "address")
       ELSE Done(r, u, Nothing)
  /\ UNCHANGED <<row, held, update, disturbed, crossed>>

(* findOne answers null for a user that is gone: getUser and its like      *)
(* throw then, getOrganizationBusinessUsers fails on null.password, and    *)
(* getManyStaffDetails puts the null into its answer.                      *)
ReadRow(r) ==
  /\ reading[r].pc = "row"
  /\ \E u \in reading[r].todo :
       IF row[u] # Nothing
       THEN Give(r, u, [row |-> row[u], address |-> Nothing, avatar |-> Nothing], "address")
       ELSE IF reading[r].kind = "many" THEN Done(r, u, Nothing) ELSE Answer(r, "error")
  /\ UNCHANGED <<row, held, update, disturbed, crossed>>

(* verifyAddress and verifyFile answer, or fail and findOne throws.        *)
ReadAddress(r) ==
  LET u == reading[r].user
  IN  /\ reading[r].pc = "address"
      /\ \/ Give(r, u, [reading[r].got[u] EXCEPT !.address = held[u]["address"]], "avatar")
         \/ Answer(r, "error")
      /\ UNCHANGED <<row, held, update, disturbed, crossed>>

ReadAvatar(r) ==
  LET u == reading[r].user
  IN  /\ reading[r].pc = "avatar"
      /\ \/ Done(r, u, [reading[r].got[u] EXCEPT !.avatar = held[u]["avatar"]])
         \/ Answer(r, "error")
      /\ UNCHANGED <<row, held, update, disturbed, crossed>>

ProfilesNext ==
  \/ \E c \in Updates :
       \/ \E u \in People, gives \in SUBSET Parts : UpdateRow(c, u, gives)
       \/ UpdateAddress(c) \/ UpdateAvatar(c)
  \/ \E u \in People : DeletePerson(u)
  \/ \E r \in Reads :
       \/ \E u \in People : GetUser(r, u) \/ ValidateAccount(r, u) \/ GetStaffDetails(r, u)
       \/ \E us \in SUBSET People : GetManyStaffDetails(r, us) \/ GetOrganizationBusinessUsers(r, us)
       \/ ReadRow(r) \/ ReadAddress(r) \/ ReadAvatar(r)

ProfilesSpec == ProfilesInit /\ [][ProfilesNext]_profileVars

-----------------------------------------------------------------------------
(* Properties *)

(* Rows, services and calls hold data of their kind. *)
ProfilesTypeOK ==
  /\ row \in [People -> Data \cup {Nothing}] /\ held \in [People -> [Parts -> Data]]
  /\ update \in [Updates -> Update]
  /\ disturbed \subseteq People /\ crossed \subseteq Reads
  /\ \A r \in Reads :
       /\ [f \in {"pc", "kind", "todo", "user", "asked"} |-> reading[r][f]] \in Reading
       /\ reading[r].got \in [People -> Profile \cup {Nothing}]
       /\ reading[r].pc \in Parts => reading[r].got[reading[r].user] # Nothing

(* The address and avatar that go with a row are those the update of that  *)
(* row gave.                                                               *)
OfOneUpdate(rowData, address, avatar) ==
  rowData \in Updates =>
    /\ "address" \in update[rowData].gives => address = rowData
    /\ "avatar" \in update[rowData].gives => avatar = rowData

(* A profile is never mixed from two updates, neither where it is stored   *)
(* nor in an answer, unless updates of that user overlapped, a service     *)
(* failed in one (updateUser answers success all the same), the answer of  *)
(* the database to one was lost (and the services not called), or the      *)
(* profile was read across an update.                                      *)
NeverMixed ==
  \A u \in People \ disturbed :
    /\ row[u] # Nothing /\ Updating(u) = {} =>
         OfOneUpdate(row[u], held[u]["address"], held[u]["avatar"])
    /\ \A r \in Reads \ crossed :
         LET p == reading[r].got[u]
         IN  reading[r].pc = "ok" /\ p # Nothing => OfOneUpdate(p.row, p.address, p.avatar)

(* An update that is answered with an error has reached neither of the two *)
(* services, however many of them failed; and its row shows it only when   *)
(* the database's own answer was lost.  So it can be sent again whole.     *)
ErrorChangedNothing ==
  \A c \in Updates, u \in People :
    /\ update[c].pc \in {"error", "lost"} => \A p \in Parts : held[u][p] # c
    /\ update[c].pc = "error" => row[u] # c

(* An answer has a whole profile for every user that was asked for; a null *)
(* stands only in the answer of getManyStaffDetails, for a user that was   *)
(* deleted after the staff rows were read.                                 *)
AnswersWhole ==
  \A r \in Reads : reading[r].pc = "ok" =>
    \A u \in reading[r].asked :
      LET p == reading[r].got[u]
      IN  IF p = Nothing THEN reading[r].kind = "many" /\ row[u] = Nothing
          ELSE p.address # Nothing /\ p.avatar # Nothing
=============================================================================
