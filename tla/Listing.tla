------------------------------- MODULE Listing -------------------------------
(***************************************************************************)
(* A client that follows next_page through a listing while rows come, go   *)
(* and are touched: adminGetUsers (src/src/user/user.service.ts),          *)
(* getCompanyStaffs and getInvitationsByCompany                            *)
(* (src/src/staff/staff.service.ts) and getUserSessions                    *)
(* (src/src/user/session/session.service.ts).  The pages are cut by        *)
(* offset, and counted and fetched in two queries.                         *)
(***************************************************************************)
EXTENDS Integers, FiniteSets, Sequences, SequencesExt

CONSTANTS
  MaxRows,   \* BOUND: rows that the where clause selects, ever
  PageSize,  \* rows on a page
  Nowhere    \* no next page

ASSUME ListingAssumption == MaxRows \in Nat /\ PageSize \in Nat \ {0} /\ Nowhere \notin Nat

VARIABLES
  table,    \* the rows, in the ascending order of the column sorted by
  old,      \* rows that are deleted
  walk,     \* the client: what it asks for and where it is
  seen,     \* row -> on how many of the pages the client got it was
  before,   \* history: the rows when the client began
  drift     \* history: what happened during the walk

listingVars == <<table, old, walk, seen, before, drift>>

Rows == 1..MaxRows  \* numbered as they are inserted

(* A listing goes by created_at or login_at, which never change; users can *)
(* be asked for by updated_at too, which every write of the row moves.     *)
Endpoints == {"users", "company", "sessions"}
Walk == [pc : {"new", "count", "find", "done", "failed"}, endpoint : Endpoints,
         order : {"asc", "desc"}, moves : BOOLEAN,
         page : Nat, total : Nat \cup {Nowhere}]
Drift == {"inserted", "late", "deleted", "moved", "clamped"}

(* users are in ascending order unless the request says desc, staff and    *)
(* invitations the other way round; sessions come by login_at, descending. *)
ListingInit ==
  /\ table \in {[i \in 1..n |-> i] : n \in 0..MaxRows}
  /\ walk \in [pc : {"new"}, endpoint : Endpoints, order : {"asc", "desc"}, moves : BOOLEAN,
               page : {1}, total : {Nowhere}]
  /\ walk.moves => walk.endpoint = "users"
  /\ walk.endpoint = "sessions" => walk.order = "desc"
  /\ old = {} /\ seen = [r \in Rows |-> 0] /\ before = {} /\ drift = {}

Walking == walk.pc \in {"count", "find"}
Note(what) == Walking /\ drift' = drift \cup what  \* what others do matters only then

(* Pages, counted from 1, in the order of the request.                     *)
Ordered == IF walk.order = "asc" THEN table ELSE Reverse(table)
At(skip, take) == {Ordered[i] : i \in (skip + 1)..(skip + take) \cap DOMAIN Ordered}
Page(p) == At((p - 1) * PageSize, PageSize)
Pages(total) == (total + PageSize - 1) \div PageSize

WalkStart ==
  /\ walk.pc = "new"
  /\ walk' = [walk EXCEPT !.pc = IF walk.endpoint = "sessions" THEN "find" ELSE "count"]
  /\ before' = ToSet(table)
  /\ UNCHANGED <<table, old, seen, drift>>

CountRows ==
  /\ walk.pc = "count"
  /\ walk' = [walk EXCEPT !.pc = "find", !.total = Len(table)]
  /\ UNCHANGED <<table, old, seen, before, drift>>

(* The page that is fetched: adminGetUsers never goes past the last one.   *)
CurrentPage ==
  IF walk.endpoint = "users" /\ walk.page > Pages(walk.total)
  THEN IF walk.total = 0 THEN 1 ELSE Pages(walk.total)
  ELSE walk.page

(* A listing of sessions tells no total: a client asks on after a full     *)
(* page.                                                                   *)
More(rows) ==
  IF walk.endpoint = "sessions" THEN Cardinality(rows) = PageSize
  ELSE CurrentPage < Pages(walk.total)

GoOn(rows) ==
  walk' = IF More(rows)
          THEN [walk EXCEPT !.pc = IF walk.endpoint = "sessions" THEN "find" ELSE "count",
                            !.page = CurrentPage + 1]
          ELSE [walk EXCEPT !.pc = "done"]

(* Mutation: the page is an offset already. *)
FindPageSkips ==
  LET rows == At(CurrentPage * PageSize, PageSize)
  IN  /\ walk.pc = "find"
      /\ seen' = [r \in Rows |-> IF r \in rows THEN seen[r] + 1 ELSE seen[r]]
      /\ GoOn(rows)
      /\ drift' = IF CurrentPage # walk.page THEN drift \cup {"clamped"} ELSE drift
      /\ UNCHANGED <<table, old, before>>

(* Mutation: one row more than the page holds is taken. *)
FindPageOneMore ==
  LET rows == At((CurrentPage - 1) * PageSize, PageSize + 1)
  IN  /\ walk.pc = "find"
      /\ seen' = [r \in Rows |-> IF r \in rows THEN seen[r] + 1 ELSE seen[r]]
      /\ GoOn(rows)
      /\ drift' = IF CurrentPage # walk.page THEN drift \cup {"clamped"} ELSE drift
      /\ UNCHANGED <<table, old, before>>

FindPage ==
  LET rows == Page(CurrentPage)
  IN  /\ walk.pc = "find"
      /\ seen' = [r \in Rows |-> IF r \in rows THEN seen[r] + 1 ELSE seen[r]]
      /\ GoOn(rows)
      /\ drift' = IF CurrentPage # walk.page THEN drift \cup {"clamped"} ELSE drift
      /\ UNCHANGED <<table, old, before>>

(* A query or a call to the organization service fails.                    *)
WalkFails ==
  /\ Walking
  /\ walk' = [walk EXCEPT !.pc = "failed"]
  /\ UNCHANGED <<table, old, seen, before, drift>>

-----------------------------------------------------------------------------
(* The other operations of the service *)

(* Registrations, acceptances, invitations and logins add rows at the end  *)
(* of the order; between count and find an insert comes too late for the   *)
(* total.                                                                  *)
InsertRow(r) ==
  /\ r = Len(table) + Cardinality(old) + 1
  /\ table' = Append(table, r)
  /\ Note(IF walk.pc = "find" /\ walk.endpoint # "sessions" /\ ~More({})
          THEN {"inserted", "late"} ELSE {"inserted"})
  /\ UNCHANGED <<old, walk, seen, before>>

DeleteRow(i) ==
  /\ table' = RemoveAt(table, i) /\ old' = old \cup {table[i]}
  /\ Note({"deleted"})
  /\ UNCHANGED <<walk, seen, before>>

(* A row is written, and the updated_at it is sorted by with it.           *)
TouchRow(i) ==
  /\ walk.moves /\ table' = Append(RemoveAt(table, i), table[i])
  /\ Note({"moved"})
  /\ UNCHANGED <<old, walk, seen, before>>

ListingNext ==
  \/ WalkStart \/ CountRows \/ FindPage \/ WalkFails
  \/ \E r \in Rows : InsertRow(r)
  \/ \E i \in DOMAIN table : DeleteRow(i) \/ TouchRow(i)

ListingSpec == ListingInit /\ [][ListingNext]_listingVars

-----------------------------------------------------------------------------
(* Properties *)

(* The table holds a row once, and none that is deleted; a page is fetched *)
(* with a total where the endpoint counts.                                 *)
ListingTypeOK ==
  /\ table \in Seq(Rows) /\ IsInjective(table)
  /\ old \subseteq Rows \ ToSet(table) /\ before \subseteq Rows
  /\ walk \in Walk /\ seen \in [Rows -> Nat] /\ drift \subseteq Drift
  /\ walk.pc = "find" /\ walk.endpoint # "sessions" => walk.total # Nowhere

(* A walk to the last page has seen every row that was there from its      *)
(* beginning to its end, unless a deletion, or a change of the column      *)
(* sorted by, moved rows across a page boundary, or, newest first, an      *)
(* insert came between the count and the find of the last page.            *)
NothingMissed ==
  walk.pc = "done" =>
    \A r \in before \cap ToSet(table) :
      \/ seen[r] > 0
      \/ drift \cap {"deleted", "moved"} # {}
      \/ walk.order = "desc" /\ "late" \in drift

(* No row is seen twice, unless it moved; or, newest first, a row was      *)
(* inserted before it; or deletions left adminGetUsers with a last page    *)
(* that the client had already.                                            *)
RepeatsExplained ==
  \A r \in Rows : seen[r] > 1 =>
    \/ "moved" \in drift
    \/ walk.order = "desc" /\ "inserted" \in drift
    \/ {"clamped", "deleted"} \subseteq drift
=============================================================================
