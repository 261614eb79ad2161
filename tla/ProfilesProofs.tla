---------------------------- MODULE ProfilesProofs ----------------------------
(***************************************************************************)
(* Proofs about profiles in three places, for any number of users, updates *)
(* and reads.  An undisturbed user has at most one update under way, which *)
(* has the row already and the parts it is past; a read that crossed no    *)
(* update therefore finds in the two services what goes with the row.      *)
(***************************************************************************)
EXTENDS Profiles, TLAPS

Busy == {"row", "address", "avatar"}
Call == [pc : {"idle", "row", "address", "avatar", "ok", "error"}, kind : ReadKinds,
         todo : SUBSET People, user : People \cup {Nothing}, asked : SUBSET People,
         got : [People -> Profile \cup {Nothing}]]

TypedStore ==
  /\ row \in [People -> Data \cup {Nothing}] /\ held \in [People -> [Parts -> Data]]
  /\ update \in [Updates -> Update] /\ disturbed \subseteq People
TypedReads == reading \in [Reads -> Call] /\ crossed \subseteq Reads

(* A row comes from an update that was not refused, the services' data     *)
(* from one that was answered with success, or runs.                       *)
Traced ==
  \A u \in People, c \in Updates :
    /\ row[u] = c => update[c].pc \notin {"idle", "error"}
    /\ (\E p \in Parts : held[u][p] = c) => update[c].pc \notin {"idle", "error", "lost"}

(* An update under way names the part it is at; if nothing disturbed its   *)
(* user it is alone there, has the row, and has the part it is past.       *)
UpdateKnows(c) ==
  update[c].pc \in Parts =>
    LET u == update[c].user
    IN  /\ u \in People /\ update[c].pc \in update[c].gives
        /\ u \notin disturbed =>
             /\ Updating(u) = {c}
             /\ row[u] # Nothing => row[u] = c
             /\ update[c].pc = "avatar" /\ "address" \in update[c].gives => held[u]["address"] = c

StoredWhole ==
  \A u \in People \ disturbed :
    row[u] # Nothing /\ Updating(u) = {} =>
      OfOneUpdate(row[u], held[u]["address"], held[u]["avatar"])

Store == TypedStore /\ Traced /\ (\A c \in Updates : UpdateKnows(c)) /\ StoredWhole

(* What a read has got: the profiles it is done with are whole, or null    *)
(* where a listing may have that; the one it is at has what was read.      *)
ReadWhole(r) ==
  LET q == reading[r]
  IN  /\ q.todo \subseteq q.asked
      /\ \A u \in People : q.got[u] # Nothing =>
           u \in q.asked /\ (q.got[u].row \in Updates => update[q.got[u].row].pc # "idle")
      /\ q.pc = "idle" => q.asked = {}
      /\ q.pc = "ok" => q.todo = {}
      /\ q.pc \in Parts => q.user \in q.todo /\ q.got[q.user] # Nothing
      /\ q.pc = "avatar" => q.got[q.user].address # Nothing
      /\ q.pc \in Busy \cup {"ok"} =>
           \A u \in q.asked \ q.todo :
             IF q.got[u] = Nothing THEN q.kind = "many" /\ row[u] = Nothing
             ELSE q.got[u].address # Nothing /\ q.got[u].avatar # Nothing

(* While it runs, a read that crossed no update sees services that keep    *)
(* what goes with the rows it read.                                        *)
ReadKnows(r) ==
  LET q == reading[r]
  IN  r \notin crossed =>
        /\ q.pc \in Busy =>
             \A u \in q.asked :
               /\ Updating(u) = {}
               /\ u \notin disturbed /\ q.got[u] # Nothing =>
                    /\ OfOneUpdate(q.got[u].row, held[u]["address"], held[u]["avatar"])
                    /\ q.got[u].address \in {Nothing, held[u]["address"]}
                    /\ q.got[u].avatar \in {Nothing, held[u]["avatar"]}
        /\ q.pc = "ok" =>
             \A u \in People \ disturbed :
               q.got[u] # Nothing =>
                 OfOneUpdate(q.got[u].row, q.got[u].address, q.got[u].avatar)

ProfilesInv == Store /\ TypedReads /\ \A r \in Reads : ReadWhole(r) /\ ReadKnows(r)

LEMMA ProfilesInitially == ProfilesInit => ProfilesInv
  BY ProfilesAssumption DEF ProfilesInit, ProfilesInv, Store, TypedStore, TypedReads, Traced, UpdateKnows,
     StoredWhole, ReadWhole, ReadKnows, Busy, Call, Data, Parts, Update, ReadKinds, OfOneUpdate

LEMMA Distinct == /\ Nothing \notin Updates /\ Nothing \notin People /\ Nothing \notin Data
                  /\ Nothing \notin Profile /\ Original \notin Updates
  BY ProfilesAssumption DEF Data

-----------------------------------------------------------------------------
(* updateUser *)

LEMMA NextPartIs ==
  ASSUME NEW gives \in SUBSET Parts
  PROVE  /\ NextPart(gives, {}) \in {"address", "avatar", "ok"}
         /\ NextPart(gives, {}) \in Parts => NextPart(gives, {}) \in gives
         /\ NextPart(gives, {}) = "avatar" => "address" \notin gives
         /\ NextPart(gives, {}) = "ok" => gives = {}
         /\ NextPart(gives, {"address"}) \in {"avatar", "ok"}
         /\ NextPart(gives, {"address"}) = "avatar" <=> "avatar" \in gives
         /\ NextPart(gives, Parts) = "ok"
  BY DEF NextPart, Parts

(* What other steps must leave alone for the reads to stay right: the      *)
(* users that uncrossed reads are about have no update, before or after,   *)
(* their parts stay, and only the deletion changes a row to null.          *)
LEMMA ReadsKept ==
  ASSUME ProfilesInv, UNCHANGED reading, crossed' \subseteq Reads, crossed \subseteq crossed',
         disturbed \subseteq disturbed',
         \A u \in People : row[u] = Nothing => row'[u] = Nothing,
         \A d \in Updates : update[d].pc # "idle" =>
            update'[d].pc # "idle" /\ update'[d].gives = update[d].gives,
         \A r \in Reads \ crossed', u \in People :
            reading[r].pc \in Busy /\ u \in reading[r].asked =>
              Updating(u)' = {} /\ held'[u] = held[u]
  PROVE  TypedReads' /\ \A r \in Reads : ReadWhole(r)' /\ ReadKnows(r)'
<1>1. TypedReads'
  BY DEF ProfilesInv, TypedReads, Call
<1> SUFFICES ASSUME NEW r \in Reads PROVE ReadWhole(r)' /\ ReadKnows(r)'
  BY <1>1
<1>2. reading[r] \in Call /\ ReadWhole(r) /\ ReadKnows(r)
  BY DEF ProfilesInv, TypedReads
<1>3. ReadWhole(r)'
  BY <1>2 DEF ReadWhole, Call
<1>4. ASSUME NEW u \in People, reading[r].got[u] # Nothing, NEW address, NEW avatar,
             OfOneUpdate(reading[r].got[u].row, address, avatar)
      PROVE  OfOneUpdate(reading[r].got[u].row, address, avatar)'
  BY <1>2, <1>4 DEF ReadWhole, OfOneUpdate
<1>5. ReadKnows(r)'
  <2> SUFFICES ASSUME r \notin crossed' PROVE ReadKnows(r)'
    BY DEF ReadKnows
  <2>1. ASSUME reading[r].pc \in Busy, NEW u \in reading[r].asked
        PROVE  /\ Updating(u)' = {}
               /\ u \notin disturbed' /\ reading[r].got[u] # Nothing =>
                    /\ OfOneUpdate(reading[r].got[u].row, held[u]["address"], held[u]["avatar"])'
                    /\ reading[r].got[u].address \in {Nothing, held'[u]["address"]}
                    /\ reading[r].got[u].avatar \in {Nothing, held'[u]["avatar"]}
    <3>1. u \in People
      BY <1>2, <2>1 DEF Call
    <3>2. Updating(u)' = {} /\ held'[u] = held[u]
      BY <2>1, <3>1
    <3>3. u \notin disturbed' /\ reading[r].got[u] # Nothing =>
            /\ OfOneUpdate(reading[r].got[u].row, held[u]["address"], held[u]["avatar"])
            /\ reading[r].got[u].address \in {Nothing, held[u]["address"]}
            /\ reading[r].got[u].avatar \in {Nothing, held[u]["avatar"]}
      BY <1>2, <2>1, <3>1 DEF ReadKnows
    <3> QED
      BY <1>4, <3>1, <3>2, <3>3
  <2>2. ASSUME reading[r].pc = "ok", NEW u \in People \ disturbed', reading[r].got[u] # Nothing
        PROVE  OfOneUpdate(reading[r].got[u].row, reading[r].got[u].address, reading[r].got[u].avatar)'
    BY <1>2, <1>4, <2>2 DEF ReadKnows
  <2> QED
    BY <2>1, <2>2 DEF ReadKnows
<1> QED
  BY <1>3, <1>5

LEMMA UpdateRowPreserves ==
  ASSUME ProfilesInv, NEW c \in Updates, NEW u \in People, NEW gives \in SUBSET Parts,
         UpdateRow(c, u, gives)
  PROVE  ProfilesInv'
<1>1. /\ TypedStore /\ Traced /\ (\A d \in Updates : UpdateKnows(d)) /\ StoredWhole
      /\ update[c].pc = "idle" /\ UNCHANGED <<held, reading>>
  BY DEF ProfilesInv, Store, UpdateRow
<1>2. CASE /\ update' = [update EXCEPT ![c] = [pc |-> "error", user |-> u, gives |-> gives]]
           /\ UNCHANGED <<row, disturbed, crossed>>
  <2>1. /\ update'[c] = [pc |-> "error", user |-> u, gives |-> gives]
        /\ \A d \in Updates \ {c} : update'[d] = update[d]
    BY <1>1, <1>2 DEF TypedStore
  <2>2. \A v \in People : Updating(v)' = Updating(v)
    BY <1>1, <2>1 DEF Updating, Parts
  <2>3. TypedStore'
    BY <1>1, <1>2, <2>1 DEF TypedStore, Update
  <2>4. Traced'
    BY <1>1, <1>2, <2>1 DEF Traced
  <2>5. \A d \in Updates : UpdateKnows(d)'
    BY <1>1, <1>2, <2>1, <2>2 DEF UpdateKnows, Parts
  <2>6. StoredWhole'
    <3> SUFFICES ASSUME NEW v \in People \ disturbed, row[v] # Nothing, Updating(v) = {}
                 PROVE  OfOneUpdate(row[v], held[v]["address"], held[v]["avatar"])'
      BY <1>1, <1>2, <2>2 DEF StoredWhole
    <3>1. row[v] \in Updates => row[v] # c
      BY <1>1 DEF Traced
    <3> QED
      BY <1>1, <1>2, <2>1, <3>1 DEF StoredWhole, OfOneUpdate
  <2>7. TypedReads' /\ \A r \in Reads : ReadWhole(r)' /\ ReadKnows(r)'
    <3>1. \A r \in Reads \ crossed', v \in People :
            reading[r].pc \in Busy /\ v \in reading[r].asked => Updating(v) = {}
      BY <1>2 DEF ProfilesInv, ReadKnows
    <3> QED
      BY <1>1, <1>2, <2>1, <2>2, <3>1, ReadsKept DEF ProfilesInv, TypedReads
  <2> QED
    BY <2>3, <2>4, <2>5, <2>6, <2>7 DEF ProfilesInv, Store
<1>3. CASE /\ row[u] # Nothing /\ row' = [row EXCEPT ![u] = c]
           /\ crossed' = crossed \cup ReadersOf(u)
           /\ \/ /\ update' = [update EXCEPT ![c] = [pc |-> NextPart(gives, {}), user |-> u, gives |-> gives]]
                 /\ disturbed' = IF Updating(u) = {} THEN disturbed ELSE disturbed \cup {u}
              \/ /\ update' = [update EXCEPT ![c] = [pc |-> "lost", user |-> u, gives |-> gives]]
                 /\ disturbed' = disturbed \cup {u}
  <2>0. PICK pc : /\ pc \in {NextPart(gives, {}), "lost"}
                  /\ update' = [update EXCEPT ![c] = [pc |-> pc, user |-> u, gives |-> gives]]
                  /\ disturbed' \in {disturbed, disturbed \cup {u}}
                  /\ Updating(u) # {} \/ pc = "lost" => disturbed' = disturbed \cup {u}
    BY <1>3, NextPartIs
  <2>1. /\ update'[c] = [pc |-> pc, user |-> u, gives |-> gives]
        /\ \A d \in Updates \ {c} : update'[d] = update[d]
        /\ row'[u] = c /\ \A v \in People \ {u} : row'[v] = row[v]
    BY <1>1, <1>3, <2>0 DEF TypedStore
  <2>2. /\ pc \in {"address", "avatar", "ok", "lost"} /\ (pc \in Parts => pc \in gives)
        /\ (pc = "avatar" => "address" \notin gives) /\ (pc = "ok" => gives = {})
    BY <2>0, NextPartIs DEF Parts
  <2>3. /\ \A v \in People \ {u} : Updating(v)' = Updating(v)
        /\ Updating(u)' = IF pc \in Parts THEN Updating(u) \cup {c} ELSE Updating(u)
    BY <1>1, <2>1, <2>2 DEF Updating, Parts
  <2>4. TypedStore'
    BY <1>1, <1>3, <2>0, <2>1, <2>2 DEF TypedStore, Update, Data, Parts
  <2>5. Traced'
    BY <1>1, <2>1, <2>2, Distinct DEF Traced
  <2>6. ASSUME NEW d \in Updates PROVE UpdateKnows(d)'
    <3>1. CASE d = c
      BY <1>1, <2>0, <2>1, <2>2, <2>3, <3>1, Distinct DEF UpdateKnows, Parts
    <3>2. CASE d # c /\ update[d].pc \in Parts
      <4>1. update[d].user = u => d \in Updating(u)
        BY <3>2 DEF Updating
      <4> QED
        BY <1>1, <2>0, <2>1, <2>3, <3>2, <4>1 DEF UpdateKnows, TypedStore
    <3> QED
      BY <2>1, <3>1, <3>2 DEF UpdateKnows
  <2>7. StoredWhole'
    <3> SUFFICES ASSUME NEW v \in People \ disturbed', row'[v] # Nothing, Updating(v)' = {}
                 PROVE  OfOneUpdate(row[v], held[v]["address"], held[v]["avatar"])'
      BY DEF StoredWhole
    <3>1. CASE v = u
      <4>1. gives = {}
        BY <2>0, <2>2, <2>3, <3>1 DEF Parts
      <4> QED
        BY <2>1, <3>1, <4>1 DEF OfOneUpdate
    <3>2. CASE v # u
      <4>1. row[v] \in Updates => row[v] # c
        BY <1>1 DEF Traced
      <4>2. OfOneUpdate(row[v], held[v]["address"], held[v]["avatar"])
        BY <1>1, <2>0, <2>1, <2>3, <3>2 DEF StoredWhole
      <4> QED
        BY <1>1, <2>1, <3>2, <4>1, <4>2 DEF OfOneUpdate
    <3> QED
      BY <3>1, <3>2
  <2>8. TypedReads' /\ \A r \in Reads : ReadWhole(r)' /\ ReadKnows(r)'
    <3>1. \A r \in Reads \ crossed', v \in People :
            reading[r].pc \in Busy /\ v \in reading[r].asked => v # u /\ Updating(v) = {}
      BY <1>3 DEF ProfilesInv, ReadKnows, ReadersOf, Busy
    <3>2. \A r \in Reads \ crossed', v \in People :
            reading[r].pc \in Busy /\ v \in reading[r].asked =>
              Updating(v)' = {} /\ held'[v] = held[v]
      BY <1>1, <2>3, <3>1
    <3>3. crossed' \subseteq Reads /\ crossed \subseteq crossed' /\ disturbed \subseteq disturbed'
      BY <1>3, <2>0 DEF ProfilesInv, TypedReads, ReadersOf
    <3>4. /\ \A v \in People : row[v] = Nothing => row'[v] = Nothing
          /\ \A d \in Updates : update[d].pc # "idle" =>
                update'[d].pc # "idle" /\ update'[d].gives = update[d].gives
      BY <1>1, <1>3, <2>1
    <3> QED
      BY <1>1, <3>2, <3>3, <3>4, ReadsKept
  <2> QED
    BY <2>4, <2>5, <2>6, <2>7, <2>8 DEF ProfilesInv, Store
<1> QED
  BY <1>2, <1>3 DEF UpdateRow

LEMMA UpdatePartPreserves ==
  ASSUME ProfilesInv, NEW c \in Updates, NEW p \in Parts, NEW done,
         done = IF p = "address" THEN {"address"} ELSE Parts, UpdatePart(c, p, done)
  PROVE  ProfilesInv'
<1>1. /\ TypedStore /\ Traced /\ (\A d \in Updates : UpdateKnows(d)) /\ StoredWhole
      /\ update[c].pc = p /\ update[c] \in Update /\ UNCHANGED <<row, reading, crossed>>
  BY DEF ProfilesInv, Store, UpdatePart, TypedStore
<1>2. PICK u \in People : u = update[c].user /\ c \in Updating(u)
  BY <1>1 DEF UpdateKnows, Updating
<1>12. PICK pc : pc = NextPart(update[c].gives, done)
  OBVIOUS
<1>3. /\ pc \in {"avatar", "ok"} /\ (p = "avatar" => pc = "ok")
      /\ pc = "avatar" <=> p = "address" /\ "avatar" \in update[c].gives
  BY <1>1, <1>12, NextPartIs DEF Update, Parts
<1>4. /\ update' = [update EXCEPT ![c].pc = pc]
      /\ \/ held' = [held EXCEPT ![u][p] = c] /\ UNCHANGED disturbed
         \/ held' \in {held, [held EXCEPT ![u][p] = c]} /\ disturbed' = disturbed \cup {u}
  BY <1>2, <1>12 DEF UpdatePart
<1>5. /\ update'[c].pc = pc /\ update'[c].user = u /\ update'[c].gives = update[c].gives
      /\ \A d \in Updates \ {c} : update'[d] = update[d]
      /\ update' \in [Updates -> Update]
  BY <1>1, <1>2, <1>3, <1>4 DEF TypedStore, Update, Parts
<1>6. /\ disturbed \subseteq disturbed' /\ disturbed' \subseteq People
      /\ \A v \in People \ {u} : held'[v] = held[v]
      /\ \A q \in Parts : held'[u][q] = held[u][q] \/ (q = p /\ held'[u][q] = c)
      /\ u \notin disturbed' => held'[u][p] = c
      /\ held' \in [People -> [Parts -> Data]]
  <2>1. held \in [People -> [Parts -> Data]] /\ disturbed \subseteq People
    BY <1>1 DEF TypedStore
  <2>2. held' = held \/ held' = [held EXCEPT ![u] = [held[u] EXCEPT ![p] = c]]
    BY <1>4
  <2>3. [held[u] EXCEPT ![p] = c] \in [Parts -> Data]
    BY <2>1 DEF Data
  <2>4. held' \in [People -> [Parts -> Data]] /\ \A v \in People \ {u} : held'[v] = held[v]
    BY <2>1, <2>2, <2>3
  <2>5. \A q \in Parts : held'[u][q] = held[u][q] \/ (q = p /\ held'[u][q] = c)
    BY <2>1, <2>2
  <2>6. u \notin disturbed' => held'[u][p] = c
    BY <1>4, <2>1
  <2> QED
    BY <1>4, <2>1, <2>4, <2>5, <2>6
<1>7. /\ \A v \in People \ {u} : Updating(v)' = Updating(v)
      /\ Updating(u)' = IF pc \in Parts THEN Updating(u) ELSE Updating(u) \ {c}
  BY <1>1, <1>2, <1>5 DEF Updating
<1>8. Traced'
  BY <1>1, <1>2, <1>3, <1>5, <1>6 DEF Traced, Parts
<1>9. ASSUME NEW d \in Updates PROVE UpdateKnows(d)'
  <2>1. CASE d = c
    BY <1>1, <1>2, <1>3, <1>5, <1>6, <1>7, <2>1 DEF UpdateKnows, Parts
  <2>2. CASE d # c /\ update[d].pc \in Parts
    <3>1. update[d].user \in People /\ (update[d].user = u => u \in disturbed)
      BY <1>1, <1>2, <2>2 DEF UpdateKnows, Updating
    <3>2. PICK w \in People : w = update[d].user /\ update'[d] = update[d]
      BY <1>5, <2>2, <3>1
    <3>3. w \notin disturbed' => w # u /\ Updating(w)' = {d} /\ held'[w] = held[w]
      BY <1>1, <1>6, <1>7, <2>2, <3>1, <3>2 DEF UpdateKnows
    <3> QED
      BY <1>1, <1>6, <2>2, <3>2, <3>3 DEF UpdateKnows
  <2> QED
    BY <1>5, <2>1, <2>2 DEF UpdateKnows
<1>10. StoredWhole'
  <2> SUFFICES ASSUME NEW v \in People \ disturbed', row[v] # Nothing, Updating(v)' = {}
               PROVE  OfOneUpdate(row[v], held[v]["address"], held[v]["avatar"])'
    BY <1>1 DEF StoredWhole
  <2>1. \A d \in Updates : update'[d].gives = update[d].gives
    BY <1>5
  <2>2. CASE v = u
    <3>1. row[u] = c
      BY <1>1, <1>2, <1>6, <2>2 DEF UpdateKnows
    <3>5. pc = "ok"
      BY <1>2, <1>3, <1>7, <2>2 DEF Parts
    <3>2. held'[u][p] = c
      BY <1>6, <2>2
    <3>3. p = "address" => "avatar" \notin update[c].gives
      BY <1>3, <3>5
    <3>4. p = "avatar" /\ "address" \in update[c].gives => held'[u]["address"] = c
      BY <1>1, <1>2, <1>6, <2>2 DEF UpdateKnows, Parts
    <3> QED
      BY <1>1, <2>1, <2>2, <3>1, <3>2, <3>3, <3>4 DEF OfOneUpdate, Parts
  <2>3. CASE v # u
    <3>1. OfOneUpdate(row[v], held[v]["address"], held[v]["avatar"])
      BY <1>1, <1>6, <1>7, <2>3 DEF StoredWhole
    <3> QED
      BY <1>1, <1>6, <2>1, <2>3, <3>1 DEF OfOneUpdate
  <2> QED
    BY <2>2, <2>3
<1>11. TypedReads' /\ \A r \in Reads : ReadWhole(r)' /\ ReadKnows(r)'
  <2>1. \A r \in Reads \ crossed', v \in People :
          reading[r].pc \in Busy /\ v \in reading[r].asked => v # u /\ Updating(v) = {}
    BY <1>1, <1>2 DEF ProfilesInv, ReadKnows
  <2>2. \A r \in Reads \ crossed', v \in People :
          reading[r].pc \in Busy /\ v \in reading[r].asked =>
            Updating(v)' = {} /\ held'[v] = held[v]
    BY <1>6, <1>7, <2>1
  <2>3. \A d \in Updates : update[d].pc # "idle" =>
          update'[d].pc # "idle" /\ update'[d].gives = update[d].gives
    BY <1>3, <1>5
  <2>4. crossed' \subseteq Reads /\ crossed \subseteq crossed'
    BY <1>1 DEF ProfilesInv, TypedReads
  <2>5. \A v \in People : row[v] = Nothing => row'[v] = Nothing
    BY <1>1
  <2> QED
    BY <1>1, <1>6, <2>2, <2>3, <2>4, <2>5, ReadsKept
<1> QED
  BY <1>1, <1>5, <1>6, <1>8, <1>9, <1>10, <1>11 DEF ProfilesInv, Store, TypedStore

LEMMA DeletePersonPreserves ==
  ASSUME ProfilesInv, NEW u \in People, DeletePerson(u) PROVE ProfilesInv'
<1>1. /\ TypedStore /\ Traced /\ (\A d \in Updates : UpdateKnows(d)) /\ StoredWhole
      /\ UNCHANGED <<held, update, reading, disturbed, crossed>>
      /\ row'[u] = Nothing /\ \A v \in People \ {u} : row'[v] = row[v]
      /\ row' \in [People -> Data \cup {Nothing}]
  BY DEF ProfilesInv, Store, DeletePerson, TypedStore
<1>2. \A v \in People : Updating(v)' = Updating(v)
  BY <1>1 DEF Updating
<1>3. TypedStore' /\ Traced'
  BY <1>1, Distinct DEF TypedStore, Traced
<1>4. \A d \in Updates : UpdateKnows(d)'
  BY <1>1, <1>2 DEF UpdateKnows
<1>5. StoredWhole'
  BY <1>1, <1>2 DEF StoredWhole, OfOneUpdate
<1>6. TypedReads' /\ \A r \in Reads : ReadWhole(r)' /\ ReadKnows(r)'
  <2>1. \A r \in Reads \ crossed', v \in People :
          reading[r].pc \in Busy /\ v \in reading[r].asked => Updating(v) = {}
    BY <1>1 DEF ProfilesInv, ReadKnows
  <2> QED
    BY <1>1, <1>2, <2>1, ReadsKept DEF ProfilesInv, TypedReads
<1> QED
  BY <1>3, <1>4, <1>5, <1>6 DEF ProfilesInv, Store

-----------------------------------------------------------------------------
(* findOne *)

(* A step of one read leaves the store and the other reads alone.          *)
LEMMA ReadStep ==
  ASSUME ProfilesInv, NEW r \in Reads, UNCHANGED <<row, held, update, disturbed>>,
         reading' \in [Reads -> Call], \A s \in Reads \ {r} : reading'[s] = reading[s],
         crossed \subseteq crossed', crossed' \subseteq crossed \cup {r},
         ReadWhole(r)', ReadKnows(r)'
  PROVE  ProfilesInv'
<1>1. Store'
  BY DEF ProfilesInv, Store, TypedStore, Traced, UpdateKnows, Updating, StoredWhole, OfOneUpdate
<1>2. ASSUME NEW s \in Reads \ {r} PROVE ReadWhole(s)' /\ ReadKnows(s)'
  BY <1>2 DEF ProfilesInv, ReadWhole, ReadKnows, Updating, OfOneUpdate
<1> QED
  BY <1>1, <1>2 DEF ProfilesInv, TypedReads

LEMMA ReadStartPreserves ==
  ASSUME ProfilesInv, NEW r \in Reads, NEW kind \in ReadKinds, NEW us \in SUBSET People,
         ReadStart(r, kind, us)
  PROVE  ProfilesInv'
<1>1. reading \in [Reads -> Call] /\ reading[r].pc = "idle" /\ ReadWhole(r)
  BY DEF ProfilesInv, TypedReads, ReadStart
<1>2. /\ reading' \in [Reads -> Call] /\ \A s \in Reads \ {r} : reading'[s] = reading[s]
      /\ reading'[r].pc = "row" /\ reading'[r].kind = kind /\ reading'[r].todo = us
      /\ reading'[r].asked = us /\ reading'[r].got = reading[r].got
  <2>1. reading' = [reading EXCEPT ![r] =
          [reading[r] EXCEPT !.pc = "row", !.kind = kind, !.todo = us, !.asked = us]]
    BY <1>1 DEF ReadStart
  <2>2. [reading[r] EXCEPT !.pc = "row", !.kind = kind, !.todo = us, !.asked = us] \in Call
    BY <1>1 DEF Call
  <2> QED
    BY <1>1, <2>1, <2>2 DEF Call
<1>3. \A u \in People : reading[r].got[u] = Nothing
  BY <1>1 DEF ReadWhole
<1>4. UNCHANGED <<row, held, update, disturbed>>
  BY DEF ReadStart
<1>5. ReadWhole(r)'
  BY <1>2, <1>3 DEF ReadWhole, Parts
<1>6. ReadKnows(r)'
  <2>1. r \notin crossed' => \A u \in us : Updating(u)' = {}
    BY <1>4 DEF ReadStart, Updating
  <2> QED
    BY <1>2, <1>3, <2>1 DEF ReadKnows, Busy
<1> QED
  BY <1>2, <1>4, <1>5, <1>6, ReadStep DEF ReadStart

(* What Give, Answer and Done make of the read.                            *)
LEMMA GiveIs ==
  ASSUME reading \in [Reads -> Call], NEW r \in Reads, NEW u \in People,
         NEW profile \in Profile \cup {Nothing}, NEW pc \in Parts, Give(r, u, profile, pc)
  PROVE  /\ reading' \in [Reads -> Call] /\ \A s \in Reads \ {r} : reading'[s] = reading[s]
         /\ reading'[r].pc = pc /\ reading'[r].kind = reading[r].kind
         /\ reading'[r].todo = reading[r].todo /\ reading'[r].asked = reading[r].asked
         /\ reading'[r].user = u
         /\ reading'[r].got[u] = profile
         /\ \A v \in People \ {u} : reading'[r].got[v] = reading[r].got[v]
<1> DEFINE q == [reading[r] EXCEPT !.got = [reading[r].got EXCEPT ![u] = profile],
                                   !.user = u, !.pc = pc]
<1>1. reading' = [reading EXCEPT ![r] = q]
  BY DEF Give
<1>2. q \in Call
  BY DEF Call, Parts
<1>3. reading[r].got \in [People -> Profile \cup {Nothing}]
  BY DEF Call
<1> QED
  BY <1>1, <1>2, <1>3 DEF Call

LEMMA AnswerIs ==
  ASSUME reading \in [Reads -> Call], NEW r \in Reads, Answer(r, "error")
  PROVE  /\ reading' \in [Reads -> Call] /\ \A s \in Reads \ {r} : reading'[s] = reading[s]
         /\ reading'[r].pc = "error" /\ reading'[r].todo = reading[r].todo
         /\ reading'[r].asked = reading[r].asked /\ reading'[r].got = reading[r].got
<1> DEFINE q == [reading[r] EXCEPT !.pc = "error"]
<1>1. reading' = [reading EXCEPT ![r] = q] /\ q \in Call
  BY DEF Answer, Call
<1> QED
  BY <1>1 DEF Call

LEMMA DoneIs ==
  ASSUME reading \in [Reads -> Call], NEW r \in Reads, NEW u \in People,
         NEW profile \in Profile \cup {Nothing}, Done(r, u, profile)
  PROVE  /\ reading' \in [Reads -> Call] /\ \A s \in Reads \ {r} : reading'[s] = reading[s]
         /\ reading'[r].pc = (IF reading[r].todo = {u} THEN "ok" ELSE "row")
         /\ reading'[r].kind = reading[r].kind
         /\ reading'[r].todo = reading[r].todo \ {u} /\ reading'[r].asked = reading[r].asked
         /\ reading'[r].got[u] = profile
         /\ \A v \in People \ {u} : reading'[r].got[v] = reading[r].got[v]
<1> DEFINE q == [reading[r] EXCEPT !.got = [reading[r].got EXCEPT ![u] = profile],
                                   !.todo = reading[r].todo \ {u}, !.user = Nothing,
                                   !.pc = IF reading[r].todo = {u} THEN "ok" ELSE "row"]
<1>1. reading' = [reading EXCEPT ![r] = q]
  BY DEF Done
<1>2. q \in Call
  BY DEF Call
<1>3. reading[r].got \in [People -> Profile \cup {Nothing}]
  BY DEF Call
<1> QED
  BY <1>1, <1>2, <1>3 DEF Call

(* A read that gives up is not held to anything any more.                  *)
LEMMA GiveUp ==
  ASSUME ProfilesInv, NEW r \in Reads, Answer(r, "error"),
         UNCHANGED <<row, held, update, disturbed, crossed>>
  PROVE  ProfilesInv'
<1>1. reading \in [Reads -> Call] /\ ReadWhole(r)
  BY DEF ProfilesInv, TypedReads
<1>2. ReadWhole(r)' /\ ReadKnows(r)'
  BY <1>1, AnswerIs DEF ReadWhole, ReadKnows, Busy, Parts
<1> QED
  BY <1>1, <1>2, AnswerIs, ReadStep

(* A read goes on to a part of user u with what it knows of that profile.  *)
LEMMA GiveStep ==
  ASSUME ProfilesInv, NEW r \in Reads, NEW u \in reading[r].todo, NEW profile \in Profile,
         NEW pc \in Parts, Give(r, u, profile, pc), reading[r].pc \in Busy,
         UNCHANGED <<row, held, update, disturbed, crossed>>,
         pc = "avatar" => profile.address # Nothing,
         profile.row \in Updates => update[profile.row].pc # "idle",
         r \notin crossed /\ u \notin disturbed =>
           /\ OfOneUpdate(profile.row, held[u]["address"], held[u]["avatar"])
           /\ profile.address \in {Nothing, held[u]["address"]}
           /\ profile.avatar \in {Nothing, held[u]["avatar"]}
  PROVE  ProfilesInv'
<1>1. reading \in [Reads -> Call] /\ ReadWhole(r) /\ ReadKnows(r)
  BY DEF ProfilesInv, TypedReads
<1>2. u \in People /\ u \in reading[r].asked /\ profile # Nothing
  BY <1>1, Distinct DEF Call, ReadWhole
<1>3. /\ reading' \in [Reads -> Call] /\ \A s \in Reads \ {r} : reading'[s] = reading[s]
      /\ reading'[r].pc = pc /\ reading'[r].kind = reading[r].kind
      /\ reading'[r].todo = reading[r].todo /\ reading'[r].asked = reading[r].asked
      /\ reading'[r].user = u /\ reading'[r].got[u] = profile
      /\ \A v \in People \ {u} : reading'[r].got[v] = reading[r].got[v]
  BY <1>1, <1>2, GiveIs
<1>4. reading[r].asked \subseteq People
  BY <1>1 DEF Call
<1>5. ReadWhole(r)'
  BY <1>1, <1>2, <1>3, <1>4 DEF ReadWhole, Parts, Busy
<1>6. ReadKnows(r)'
  <2> SUFFICES ASSUME r \notin crossed, NEW v \in reading[r].asked
               PROVE  /\ Updating(v)' = {}
                      /\ v \notin disturbed /\ reading'[r].got[v] # Nothing =>
                           /\ OfOneUpdate(reading[r].got[v].row, held[v]["address"], held[v]["avatar"])'
                           /\ reading'[r].got[v].address \in {Nothing, held[v]["address"]}
                           /\ reading'[r].got[v].avatar \in {Nothing, held[v]["avatar"]}
    BY <1>3 DEF ReadKnows, Parts
  <2>1. Updating(v)' = {}
    BY <1>1 DEF ReadKnows, Updating
  <2>2. CASE v = u
    BY <1>3, <2>1, <2>2 DEF OfOneUpdate
  <2>3. CASE v # u
    BY <1>1, <1>3, <1>4, <2>1, <2>3 DEF ReadKnows, OfOneUpdate
  <2> QED
    BY <2>2, <2>3
<1> QED
  BY <1>3, <1>5, <1>6, ReadStep

(* A read is done with user u: its profile is whole, or null where and     *)
(* when a listing may have that.                                           *)
LEMMA DoneStep ==
  ASSUME ProfilesInv, NEW r \in Reads, NEW u \in reading[r].todo,
         NEW profile \in Profile \cup {Nothing}, Done(r, u, profile), reading[r].pc \in Busy,
         UNCHANGED <<row, held, update, disturbed, crossed>>,
         profile = Nothing => reading[r].kind = "many" /\ row[u] = Nothing,
         profile # Nothing =>
           /\ profile.address # Nothing /\ profile.avatar # Nothing
           /\ profile.row \in Updates => update[profile.row].pc # "idle"
           /\ r \notin crossed /\ u \notin disturbed =>
                /\ OfOneUpdate(profile.row, held[u]["address"], held[u]["avatar"])
                /\ profile.address = held[u]["address"] /\ profile.avatar = held[u]["avatar"]
  PROVE  ProfilesInv'
<1>1. reading \in [Reads -> Call] /\ ReadWhole(r) /\ ReadKnows(r)
  BY DEF ProfilesInv, TypedReads
<1>2. u \in People /\ u \in reading[r].asked
  BY <1>1 DEF Call, ReadWhole
<1>3. /\ reading' \in [Reads -> Call] /\ \A s \in Reads \ {r} : reading'[s] = reading[s]
      /\ reading'[r].pc = (IF reading[r].todo = {u} THEN "ok" ELSE "row")
      /\ reading'[r].kind = reading[r].kind
      /\ reading'[r].todo = reading[r].todo \ {u} /\ reading'[r].asked = reading[r].asked
      /\ reading'[r].got[u] = profile
      /\ \A v \in People \ {u} : reading'[r].got[v] = reading[r].got[v]
  BY <1>1, <1>2, DoneIs
<1>4. reading[r].asked \subseteq People
  BY <1>1 DEF Call
<1>5. ReadWhole(r)'
  BY <1>1, <1>2, <1>3, <1>4 DEF ReadWhole, Parts, Busy
<1>6. ASSUME r \notin crossed, NEW v \in reading[r].asked
      PROVE  /\ Updating(v)' = {}
             /\ v \notin disturbed /\ reading'[r].got[v] # Nothing =>
                  /\ OfOneUpdate(reading[r].got[v].row, held[v]["address"], held[v]["avatar"])'
                  /\ reading'[r].got[v].address \in {Nothing, held[v]["address"]}
                  /\ reading'[r].got[v].avatar \in {Nothing, held[v]["avatar"]}
  <2>1. Updating(v)' = {}
    BY <1>1, <1>6 DEF ReadKnows, Updating
  <2>2. CASE v = u
    BY <1>3, <1>6, <2>1, <2>2 DEF OfOneUpdate
  <2>3. CASE v # u
    BY <1>1, <1>3, <1>4, <1>6, <2>1, <2>3 DEF ReadKnows, OfOneUpdate
  <2> QED
    BY <2>2, <2>3
<1>7. ASSUME r \notin crossed, reading'[r].pc = "ok", NEW v \in People \ disturbed,
             reading'[r].got[v] # Nothing
      PROVE  OfOneUpdate(reading[r].got[v].row, reading[r].got[v].address, reading[r].got[v].avatar)'
  <2>1. v \in reading[r].asked /\ reading'[r].todo = {}
    BY <1>3, <1>5, <1>7 DEF ReadWhole
  <2>2. reading'[r].got[v].address # Nothing /\ reading'[r].got[v].avatar # Nothing
    BY <1>3, <1>5, <1>7, <2>1 DEF ReadWhole
  <2> QED
    BY <1>6, <1>7, <2>1, <2>2 DEF OfOneUpdate
<1>8. ReadKnows(r)'
  BY <1>3, <1>6, <1>7 DEF ReadKnows
<1> QED
  BY <1>3, <1>5, <1>8, ReadStep

LEMMA ReadRowPreserves == ASSUME ProfilesInv, NEW r \in Reads, ReadRow(r) PROVE ProfilesInv'
<1>1. /\ reading \in [Reads -> Call] /\ ReadWhole(r) /\ ReadKnows(r) /\ reading[r].pc \in Busy
      /\ TypedStore /\ Traced /\ StoredWhole
      /\ UNCHANGED <<row, held, update, disturbed, crossed>>
  BY DEF ProfilesInv, TypedReads, Store, ReadRow, Busy
<1>2. PICK u \in reading[r].todo :
        IF row[u] # Nothing
        THEN Give(r, u, [row |-> row[u], address |-> Nothing, avatar |-> Nothing], "address")
        ELSE IF reading[r].kind = "many" THEN Done(r, u, Nothing) ELSE Answer(r, "error")
  BY DEF ReadRow
<1>3. u \in People /\ u \in reading[r].asked
  BY <1>1 DEF ReadWhole, Call
<1>4. CASE row[u] # Nothing
  <2> DEFINE profile == [row |-> row[u], address |-> Nothing, avatar |-> Nothing]
  <2>1. profile \in Profile
    BY <1>1, <1>3, <1>4 DEF Profile, TypedStore
  <2>2. row[u] \in Updates => update[row[u]].pc # "idle"
    BY <1>1, <1>3 DEF Traced
  <2>3. r \notin crossed /\ u \notin disturbed =>
          OfOneUpdate(row[u], held[u]["address"], held[u]["avatar"])
    BY <1>1, <1>3, <1>4 DEF ReadKnows, StoredWhole
  <2>4. Give(r, u, profile, "address")
    BY <1>2, <1>4
  <2>5. /\ profile.row = row[u] /\ profile.address = Nothing /\ profile.avatar = Nothing
        /\ "address" \in Parts /\ "address" # "avatar"
    BY DEF Parts
  <2> HIDE DEF profile
  <2> QED
    BY <1>1, <2>1, <2>2, <2>3, <2>4, <2>5, GiveStep
<1>5. CASE row[u] = Nothing /\ reading[r].kind = "many"
  BY <1>1, <1>2, <1>5, DoneStep
<1>6. CASE row[u] = Nothing /\ reading[r].kind # "many"
  BY <1>1, <1>2, <1>6, GiveUp
<1> QED
  BY <1>4, <1>5, <1>6

(* The profile a read is at, when it is at a part.                         *)
LEMMA AtPart ==
  ASSUME ProfilesInv, NEW r \in Reads, reading[r].pc \in Parts
  PROVE  LET u == reading[r].user
             p == reading[r].got[u]
         IN  /\ u \in reading[r].todo /\ u \in People /\ u \in reading[r].asked
             /\ p \in Profile /\ (reading[r].pc = "avatar" => p.address # Nothing)
             /\ p.row \in Updates => update[p.row].pc # "idle"
             /\ held[u]["address"] \in Data /\ held[u]["avatar"] \in Data
             /\ r \notin crossed /\ u \notin disturbed =>
                  /\ OfOneUpdate(p.row, held[u]["address"], held[u]["avatar"])
                  /\ p.address \in {Nothing, held[u]["address"]}
                  /\ p.avatar \in {Nothing, held[u]["avatar"]}
<1>1. /\ reading \in [Reads -> Call] /\ ReadWhole(r) /\ ReadKnows(r)
      /\ held \in [People -> [Parts -> Data]]
  BY DEF ProfilesInv, TypedReads, Store, TypedStore
<1>2. PICK u : u = reading[r].user
  OBVIOUS
<1>3. u \in reading[r].todo /\ u \in People /\ u \in reading[r].asked
  BY <1>1, <1>2 DEF ReadWhole, Call
<1>4. reading[r].got[u] \in Profile
  BY <1>1, <1>2, <1>3 DEF ReadWhole, Call
<1>5. reading[r].got[u] # Nothing
  BY <1>1, <1>2 DEF ReadWhole
<1>6. /\ reading[r].pc = "avatar" => reading[r].got[u].address # Nothing
      /\ reading[r].got[u].row \in Updates => update[reading[r].got[u].row].pc # "idle"
  BY <1>1, <1>2, <1>3, <1>5 DEF ReadWhole
<1>7. held[u]["address"] \in Data /\ held[u]["avatar"] \in Data
  BY <1>1, <1>3 DEF Parts
<1> QED
  BY <1>1, <1>2, <1>3, <1>4, <1>5, <1>6, <1>7 DEF ReadKnows, Busy, Parts

LEMMA ReadAddressPreserves == ASSUME ProfilesInv, NEW r \in Reads, ReadAddress(r) PROVE ProfilesInv'
<1>1. PICK u, p : u = reading[r].user /\ p = reading[r].got[u]
  OBVIOUS
<1>2. /\ reading[r].pc = "address" /\ UNCHANGED <<row, held, update, disturbed, crossed>>
      /\ \/ Give(r, u, [p EXCEPT !.address = held[u]["address"]], "avatar")
         \/ Answer(r, "error")
  BY <1>1 DEF ReadAddress
<1>3. /\ u \in reading[r].todo /\ p \in Profile
      /\ p.row \in Updates => update[p.row].pc # "idle"
      /\ held[u]["address"] \in Data
      /\ r \notin crossed /\ u \notin disturbed =>
           /\ OfOneUpdate(p.row, held[u]["address"], held[u]["avatar"])
           /\ p.avatar \in {Nothing, held[u]["avatar"]}
  BY <1>1, <1>2, AtPart DEF Parts
<1>4. CASE Give(r, u, [p EXCEPT !.address = held[u]["address"]], "avatar")
  <2>1. PICK profile : profile = [p EXCEPT !.address = held[u]["address"]]
    OBVIOUS
  <2>2. /\ profile \in Profile /\ profile.row = p.row /\ profile.avatar = p.avatar
        /\ profile.address = held[u]["address"]
    BY <1>3, <2>1 DEF Profile
  <2> QED
    BY <1>2, <1>3, <1>4, <2>1, <2>2, Distinct, GiveStep DEF Busy, Parts
<1>5. CASE Answer(r, "error")
  BY <1>2, <1>5, GiveUp
<1> QED
  BY <1>2, <1>4, <1>5

LEMMA ReadAvatarPreserves == ASSUME ProfilesInv, NEW r \in Reads, ReadAvatar(r) PROVE ProfilesInv'
<1>1. PICK u, p : u = reading[r].user /\ p = reading[r].got[u]
  OBVIOUS
<1>2. /\ reading[r].pc = "avatar" /\ UNCHANGED <<row, held, update, disturbed, crossed>>
      /\ \/ Done(r, u, [p EXCEPT !.avatar = held[u]["avatar"]])
         \/ Answer(r, "error")
  BY <1>1 DEF ReadAvatar
<1>3. /\ u \in reading[r].todo /\ p \in Profile /\ p.address # Nothing
      /\ p.row \in Updates => update[p.row].pc # "idle"
      /\ held[u]["avatar"] \in Data
      /\ r \notin crossed /\ u \notin disturbed =>
           /\ OfOneUpdate(p.row, held[u]["address"], held[u]["avatar"])
           /\ p.address \in {Nothing, held[u]["address"]}
  BY <1>1, <1>2, AtPart DEF Parts
<1>4. CASE Done(r, u, [p EXCEPT !.avatar = held[u]["avatar"]])
  <2>1. PICK profile : profile = [p EXCEPT !.avatar = held[u]["avatar"]]
    OBVIOUS
  <2>2. /\ profile \in Profile /\ profile.row = p.row /\ profile.address = p.address
        /\ profile.avatar = held[u]["avatar"] /\ profile # Nothing
    BY <1>3, <2>1, Distinct DEF Profile
  <2> QED
    BY <1>2, <1>3, <1>4, <2>1, <2>2, Distinct, DoneStep DEF Busy
<1>5. CASE Answer(r, "error")
  BY <1>2, <1>5, GiveUp
<1> QED
  BY <1>2, <1>4, <1>5

-----------------------------------------------------------------------------
LEMMA Stutter == ASSUME ProfilesInv, UNCHANGED profileVars PROVE ProfilesInv'
  BY DEF ProfilesInv, profileVars, Store, TypedStore, TypedReads, Traced, UpdateKnows, Updating,
     StoredWhole, OfOneUpdate, ReadWhole, ReadKnows

LEMMA ProfilesPreserves == ASSUME ProfilesInv, ProfilesNext PROVE ProfilesInv'
<1>1. ASSUME NEW c \in Updates, NEW u \in People, NEW gives \in SUBSET Parts,
             UpdateRow(c, u, gives) PROVE ProfilesInv'
  BY <1>1, UpdateRowPreserves
<1>2. ASSUME NEW c \in Updates, UpdateAddress(c) \/ UpdateAvatar(c) PROVE ProfilesInv'
  <2>1. "address" \in Parts /\ "avatar" \in Parts /\ "avatar" # "address"
    BY DEF Parts
  <2> QED
    BY <1>2, <2>1, UpdatePartPreserves DEF UpdateAddress, UpdateAvatar
<1>3. ASSUME NEW u \in People, DeletePerson(u) PROVE ProfilesInv'
  BY <1>3, DeletePersonPreserves
<1>4. ASSUME NEW r \in Reads, NEW u \in People,
             GetUser(r, u) \/ ValidateAccount(r, u) \/ GetStaffDetails(r, u) PROVE ProfilesInv'
  BY <1>4, ReadStartPreserves DEF GetUser, ValidateAccount, GetStaffDetails, ReadKinds
<1>5. ASSUME NEW r \in Reads, NEW us \in SUBSET People,
             GetManyStaffDetails(r, us) \/ GetOrganizationBusinessUsers(r, us) PROVE ProfilesInv'
  BY <1>5, ReadStartPreserves DEF GetManyStaffDetails, GetOrganizationBusinessUsers, ReadKinds
<1>6. ASSUME NEW r \in Reads, ReadRow(r) \/ ReadAddress(r) \/ ReadAvatar(r) PROVE ProfilesInv'
  BY <1>6, ReadRowPreserves, ReadAddressPreserves, ReadAvatarPreserves
<1> QED
  BY <1>1, <1>2, <1>3, <1>4, <1>5, <1>6 DEF ProfilesNext

(* The inductive invariant of profiles in three places.                    *)
THEOREM ProfilesInvariance == ProfilesSpec => []ProfilesInv
<1>1. ProfilesInv /\ [ProfilesNext]_profileVars => ProfilesInv'
  BY ProfilesPreserves, Stutter
<1> QED
  BY ProfilesInitially, <1>1, PTL DEF ProfilesSpec

(* updateUser and findOne never give a profile mixed from two updates, but *)
(* for overlaps, failures of the services and reads across an update.      *)
THEOREM ProfilesNeverMixed == ProfilesSpec => []NeverMixed
<1>1. ProfilesInv => NeverMixed
  BY DEF ProfilesInv, Store, StoredWhole, ReadKnows, NeverMixed
<1> QED
  BY ProfilesInvariance, <1>1, PTL

(* An update that updateUser answers with an error left nothing behind in  *)
(* the services, nor in its row but when the database's answer was lost.   *)
THEOREM ErrorsChangeNothing == ProfilesSpec => []ErrorChangedNothing
<1>1. ProfilesInv => ErrorChangedNothing
  BY DEF ProfilesInv, Store, Traced, ErrorChangedNothing
<1> QED
  BY ProfilesInvariance, <1>1, PTL

(* findOne and its callers never answer with half a profile, nor with a    *)
(* null outside of getManyStaffDetails.                                    *)
THEOREM AnswersAreWhole == ProfilesSpec => []AnswersWhole
<1>1. ProfilesInv => AnswersWhole
  <2> SUFFICES ASSUME ProfilesInv, NEW r \in Reads, reading[r].pc = "ok", NEW u \in reading[r].asked
               PROVE  IF reading[r].got[u] = Nothing THEN reading[r].kind = "many" /\ row[u] = Nothing
                      ELSE reading[r].got[u].address # Nothing /\ reading[r].got[u].avatar # Nothing
    BY DEF AnswersWhole
  <2>1. ReadWhole(r)
    BY DEF ProfilesInv
  <2> QED
    BY <2>1 DEF ReadWhole, Busy
<1> QED
  BY ProfilesInvariance, <1>1, PTL
=============================================================================
