--------------------------- MODULE UserServiceProofs ---------------------------
(***************************************************************************)
(* Proofs about the listings, for any number of rows and any page size;    *)
(* about the analytics, for any finite set of members, period and number   *)
(* of days; and about the parts around users together.                     *)
(***************************************************************************)
EXTENDS MCUserService, AccountsProofs, BusinessUserRolesProofs, ProfilesProofs,
        FiniteSetTheorems, SequenceTheorems, WellFoundedInduction, TLAPS

-----------------------------------------------------------------------------
(* Listings *)

USE ListingAssumption

Off(p) == (p - 1) * PageSize
Known == ToSet(table) \cup old
Calm == drift \cap {"deleted", "moved"} = {}
LastPage == ~More({})

(* The rows have ever been numbered without a gap; a row is in the table   *)
(* once or deleted; and nothing else has been seen.                        *)
ListingTyped ==
  /\ table \in Seq(Rows) /\ IsInjective(table)
  /\ old \subseteq Rows /\ old \cap ToSet(table) = {}
  /\ Known = 1..(Len(table) + Cardinality(old))
  /\ before \subseteq Known /\ seen \in [Rows -> Nat]
  /\ \A r \in Rows : seen[r] > 0 => r \in Known
  /\ walk \in Walk /\ walk.page > 0 /\ drift \subseteq Drift
  /\ walk.pc = "find" /\ walk.endpoint # "sessions" => walk.total # Nowhere
  /\ walk.endpoint = "sessions" => walk.order = "desc"
  /\ walk.pc = "new" => walk.page = 1 /\ drift = {} /\ \A r \in Rows : seen[r] = 0

(* As long as nothing is deleted the client never asks for a page beyond   *)
(* the last one, and the total is no larger than the table.                *)
WithinPages ==
  /\ "clamped" \in drift => "deleted" \in drift
  /\ "deleted" \notin drift /\ walk.endpoint # "sessions" =>
       /\ walk.pc = "count" => walk.page = 1 \/ Off(walk.page) < Len(table)
       /\ walk.pc = "find" => /\ walk.total <= Len(table)
                              /\ walk.page = 1 \/ Off(walk.page) < walk.total

(* No row beyond the pages the client got has been seen, and none twice.   *)
Unrepeated == drift \cap {"moved", "clamped"} = {} /\ (walk.order = "asc" \/ "inserted" \notin drift)
SeenOnce ==
  Unrepeated =>
    /\ \A r \in Rows : seen[r] <= 1
    /\ walk.pc \in {"new", "count", "find"} =>
         \A j \in DOMAIN Ordered : j > Off(walk.page) => seen[Ordered[j]] = 0

(* Every row of the beginning on the pages the client got has been seen.   *)
SeenSoFar ==
  Calm /\ Walking =>
    \A j \in DOMAIN Ordered : j <= Off(walk.page) /\ Ordered[j] \in before => seen[Ordered[j]] > 0

(* When the last page is fetched the total covers the rows of the          *)
(* beginning.                                                              *)
TotalCovers ==
  /\ Calm /\ walk.pc = "find" /\ walk.endpoint # "sessions"
  /\ walk.order = "asc" \/ (LastPage /\ "late" \notin drift)
  =>
    \A j \in DOMAIN Ordered : Ordered[j] \in before => j <= walk.total

ListingInv == ListingTyped /\ WithinPages /\ SeenOnce /\ SeenSoFar /\ TotalCovers /\ NothingMissed

-----------------------------------------------------------------------------
(* Pages and offsets *)

LEMMA Paging ==
  ASSUME NEW p \in Nat, NEW t \in Nat
  PROVE  Pages(t) \in Nat /\ (p >= Pages(t) <=> p * PageSize >= t)
<1> DEFINE q == Pages(t)
<1>1. t + PageSize - 1 \in Nat
  OBVIOUS
<1>2. q \in Nat /\ q * PageSize <= t + PageSize - 1 /\ t + PageSize - 1 < (q + 1) * PageSize
  BY <1>1 DEF Pages
<1> HIDE DEF q
<1>3. (q + 1) * PageSize = q * PageSize + PageSize
  BY <1>2
<1>4. ASSUME p >= q PROVE p * PageSize >= q * PageSize
  BY <1>2, <1>4
<1>5. ASSUME p < q PROVE p * PageSize + PageSize <= q * PageSize
  <2>1. p + 1 <= q /\ (p + 1) * PageSize = p * PageSize + PageSize
    BY <1>2, <1>5
  <2>2. (p + 1) * PageSize <= q * PageSize
    BY <1>2, <2>1
  <2> QED
    BY <2>1, <2>2
<1>6. p * PageSize \in Nat /\ q * PageSize \in Nat
  BY <1>2
<1> QED
  BY <1>2, <1>3, <1>4, <1>5, <1>6 DEF q

LEMMA Offsets ==
  ASSUME NEW p \in Nat \ {0}
  PROVE  /\ Off(p) \in Nat /\ Off(1) = 0 /\ Off(p + 1) = Off(p) + PageSize
         /\ Off(p) + PageSize = p * PageSize
  BY DEF Off

(* The page that is fetched is the one the client asks for, unless         *)
(* something was deleted.                                                  *)
LEMMA Unclamped ==
  ASSUME ListingTyped, WithinPages, walk.pc = "find", "deleted" \notin drift
  PROVE  CurrentPage = walk.page
<1> SUFFICES ASSUME walk.endpoint = "users", walk.page > Pages(walk.total)
             PROVE  CurrentPage = walk.page
  BY DEF CurrentPage
<1>1. walk.total \in Nat /\ walk.page \in Nat \ {0}
  BY DEF ListingTyped, Walk
<1>2. Pages(walk.total) \in Nat /\ walk.page - 1 \in Nat /\ walk.page - 1 >= Pages(walk.total)
  BY <1>1, Paging
<1>3. Off(walk.page) >= walk.total
  BY <1>1, <1>2, Paging DEF Off
<1>4. walk.page = 1
  <2>1. walk.page = 1 \/ Off(walk.page) < walk.total
    BY DEF WithinPages
  <2>2. Off(walk.page) \in Nat
    BY <1>1, Offsets
  <2> QED
    BY <1>1, <1>3, <2>1, <2>2
<1>5. walk.total = 0
  BY <1>1, <1>3, <1>4, Offsets
<1> QED
  BY <1>4, <1>5 DEF CurrentPage

LEMMA CurrentPageIs ==
  ASSUME ListingTyped, walk.pc = "find" PROVE CurrentPage \in Nat \ {0}
<1>1. walk.page \in Nat \ {0}
  BY DEF ListingTyped, Walk
<1> SUFFICES ASSUME walk.endpoint = "users", walk.page > Pages(walk.total), walk.total # 0
             PROVE  CurrentPage \in Nat \ {0}
  BY <1>1 DEF CurrentPage
<1>2. walk.total \in Nat
  BY DEF ListingTyped, Walk
<1>3. Pages(walk.total) \in Nat /\ ~(0 >= Pages(walk.total))
  BY <1>2, Paging
<1> QED
  BY <1>3 DEF CurrentPage

-----------------------------------------------------------------------------
(* The order of the request *)

LEMMA TableIs ==
  ASSUME ListingTyped
  PROVE  /\ Len(table) \in Nat /\ DOMAIN table = 1..Len(table) /\ table \in Seq(Rows)
         /\ \A i \in 1..Len(table) : table[i] \in Rows
         /\ \A i, j \in 1..Len(table) : table[i] = table[j] => i = j
  BY DEF ListingTyped, IsInjective

LEMMA OrderedIs ==
  ASSUME ListingTyped
  PROVE  /\ DOMAIN Ordered = 1..Len(table)
         /\ walk.order = "asc" => \A j \in 1..Len(table) : Ordered[j] = table[j]
         /\ walk.order = "desc" => \A j \in 1..Len(table) : Ordered[j] = table[Len(table) - j + 1]
         /\ walk.order \in {"asc", "desc"}
<1>1. walk.order \in {"asc", "desc"}
  BY DEF ListingTyped, Walk
<1> QED
  BY <1>1, TableIs DEF Ordered, Reverse

LEMMA OrderedNext ==
  ASSUME ListingTyped'
  PROVE  /\ DOMAIN Ordered' = 1..Len(table')
         /\ walk'.order = "asc" => \A j \in 1..Len(table') : Ordered'[j] = table'[j]
         /\ walk'.order = "desc" => \A j \in 1..Len(table') : Ordered'[j] = table'[Len(table') - j + 1]
<1>1. walk'.order \in {"asc", "desc"} /\ table' \in Seq(Rows)
  BY DEF ListingTyped, Walk
<1>2. DOMAIN table' = 1..Len(table')
  BY <1>1
<1>3. Ordered' = IF walk'.order = "asc" THEN table' ELSE [i \in 1..Len(table') |-> table'[Len(table') - i + 1]]
  BY DEF Ordered, Reverse
<1> QED
  BY <1>1, <1>2, <1>3

LEMMA OrderedRows ==
  ASSUME ListingTyped
  PROVE  /\ \A j \in DOMAIN Ordered : Ordered[j] \in Rows /\ Ordered[j] \in ToSet(table)
         /\ \A j, k \in DOMAIN Ordered : Ordered[j] = Ordered[k] => j = k
         /\ \A r \in ToSet(table) : \E j \in DOMAIN Ordered : Ordered[j] = r
<1> DEFINE n == Len(table)
<1>1. n \in Nat /\ \A j \in 1..n : n - j + 1 \in 1..n
  BY TableIs
<1>2. CASE walk.order = "asc"
  BY <1>2, TableIs, OrderedIs DEF ToSet
<1>3. CASE walk.order = "desc"
  <2>1. \A j \in DOMAIN Ordered : Ordered[j] \in Rows /\ Ordered[j] \in ToSet(table)
    BY <1>1, <1>3, TableIs, OrderedIs DEF ToSet
  <2>2. ASSUME NEW j \in 1..n, NEW k \in 1..n, Ordered[j] = Ordered[k] PROVE j = k
    BY <1>1, <1>3, <2>2, TableIs, OrderedIs
  <2>3. ASSUME NEW r \in ToSet(table) PROVE \E j \in DOMAIN Ordered : Ordered[j] = r
    <3>1. PICK i \in 1..n : table[i] = r
      BY TableIs DEF ToSet
    <3>2. n - (n - i + 1) + 1 = i
      BY <1>1
    <3> QED
      BY <1>1, <1>3, <3>1, <3>2, OrderedIs
  <2> QED
    BY <2>1, <2>2, <2>3, OrderedIs
<1> QED
  BY <1>2, <1>3, OrderedIs

(* What a page holds, by positions; a page that ends within the table is   *)
(* full.                                                                   *)
LEMMA AtIs ==
  ASSUME ListingTyped, NEW skip \in Nat, NEW j \in DOMAIN Ordered
  PROVE  Ordered[j] \in At(skip, PageSize) <=> skip < j /\ j <= skip + PageSize
<1>1. DOMAIN Ordered \subseteq Nat
  BY OrderedIs
<1> QED
  BY <1>1, OrderedRows DEF At

LEMMA FullPage ==
  ASSUME ListingTyped, NEW skip \in Nat, skip + PageSize <= Len(table)
  PROVE  Cardinality(At(skip, PageSize)) = PageSize
<1> DEFINE f == [i \in 1..PageSize |-> Ordered[skip + i]]
<1>1. DOMAIN Ordered = 1..Len(table) /\ Len(table) \in Nat
  BY OrderedIs, TableIs
<1>2. \A i \in 1..PageSize : skip + i \in DOMAIN Ordered /\ Ordered[skip + i] \in At(skip, PageSize)
  BY <1>1, AtIs
<1>3. \A i, k \in 1..PageSize : f[i] = f[k] => i = k
  BY <1>2, OrderedRows
<1>4. \A r \in At(skip, PageSize) : \E i \in 1..PageSize : f[i] = r
  <2> SUFFICES ASSUME NEW r \in At(skip, PageSize) PROVE \E i \in 1..PageSize : f[i] = r
    OBVIOUS
  <2>1. PICK j \in (skip + 1)..(skip + PageSize) : r = Ordered[j]
    BY DEF At
  <2>2. j - skip \in 1..PageSize /\ skip + (j - skip) = j
    BY <2>1
  <2> QED
    BY <2>1, <2>2
<1>5. f \in Bijection(1..PageSize, At(skip, PageSize))
  BY <1>2, <1>3, <1>4 DEF Bijection, Injection, Surjection, IsInjective
<1>6. IsFiniteSet(1..PageSize) /\ Cardinality(1..PageSize) = PageSize
  <2>1. Cardinality(1..PageSize) = IF 1 > PageSize THEN 0 ELSE PageSize - 1 + 1
    BY FS_Interval
  <2> QED
    BY <2>1, FS_Interval
<1> QED
  BY <1>5, <1>6, FS_Bijection DEF ExistsBijection

-----------------------------------------------------------------------------
(* What the other operations do to the table *)

LEMMA RemovedAt ==
  ASSUME NEW S, NEW s \in Seq(S), NEW i \in 1..Len(s)
  PROVE  /\ RemoveAt(s, i) \in Seq(S) /\ Len(RemoveAt(s, i)) = Len(s) - 1
         /\ \A j \in 1..(Len(s) - 1) : RemoveAt(s, i)[j] = IF j < i THEN s[j] ELSE s[j + 1]
<1> DEFINE n == Len(s)
           a == SubSeq(s, 1, i - 1)
           b == SubSeq(s, i + 1, n)
<1>1. n \in Nat /\ i \in Nat /\ 1 <= i /\ i <= n /\ \A j \in 1..n : s[j] \in S
  BY LenProperties, ElementOfSeq
<1>2. /\ a \in Seq(S) /\ Len(a) = (IF 1 <= i - 1 THEN (i - 1) - 1 + 1 ELSE 0)
      /\ \A j \in 1..((i - 1) - 1 + 1) : a[j] = s[1 + j - 1]
  BY <1>1, SubSeqProperties
<1>3. /\ b \in Seq(S) /\ Len(b) = (IF i + 1 <= n THEN n - (i + 1) + 1 ELSE 0)
      /\ \A j \in 1..(n - (i + 1) + 1) : b[j] = s[(i + 1) + j - 1]
  BY <1>1, SubSeqProperties
<1>4. RemoveAt(s, i) = a \o b
  BY DEF RemoveAt
<1> HIDE DEF a, b
<1>5. Len(a) = i - 1 /\ Len(b) = n - i
  BY <1>1, <1>2, <1>3
<1>6. /\ a \o b \in Seq(S) /\ Len(a \o b) = n - 1
      /\ \A j \in 1..(n - 1) : (a \o b)[j] = IF j <= i - 1 THEN a[j] ELSE b[j - (i - 1)]
  <2>1. /\ a \o b \in Seq(S) /\ Len(a \o b) = Len(a) + Len(b)
        /\ \A j \in 1..(Len(a) + Len(b)) : (a \o b)[j] = IF j <= Len(a) THEN a[j] ELSE b[j - Len(a)]
    BY <1>2, <1>3, ConcatProperties
  <2>2. Len(a) + Len(b) = n - 1
    BY <1>1, <1>5
  <2> QED
    BY <1>5, <2>1, <2>2
<1>7. ASSUME NEW j \in 1..(n - 1) PROVE (a \o b)[j] = IF j < i THEN s[j] ELSE s[j + 1]
  <2>1. CASE j < i
    BY <1>1, <1>2, <1>6, <2>1
  <2>2. CASE ~(j < i)
    <3>1. j - (i - 1) \in 1..(n - (i + 1) + 1) /\ (i + 1) + (j - (i - 1)) - 1 = j + 1
      BY <1>1, <2>2
    <3> QED
      BY <1>1, <1>3, <1>6, <2>2, <3>1
  <2> QED
    BY <2>1, <2>2
<1> QED
  BY <1>4, <1>6, <1>7

LEMMA Appended ==
  ASSUME NEW s \in Seq(Rows), NEW x \in Rows, NEW u, u = Append(s, x), NEW m, Len(s) = m
  PROVE  /\ u \in Seq(Rows) /\ Len(u) = m + 1 /\ DOMAIN u = 1..(m + 1)
         /\ \A j \in 1..m : u[j] = s[j]
         /\ u[m + 1] = x
  OBVIOUS

LEMMA AppendedTable ==
  ASSUME ListingTyped, NEW r \in Rows, r \notin ToSet(table), table' = Append(table, r)
  PROVE  /\ table' \in Seq(Rows) /\ Len(table') = Len(table) + 1 /\ IsInjective(table')
         /\ \A j \in 1..Len(table) : table'[j] = table[j]
         /\ table'[Len(table) + 1] = r /\ ToSet(table') = ToSet(table) \cup {r}
<1> DEFINE n == Len(table)
<1>1. /\ table' \in Seq(Rows) /\ Len(table') = n + 1 /\ n \in Nat
      /\ \A j \in 1..n : table'[j] = table[j]
      /\ table'[n + 1] = r
  BY TableIs, AppendProperties
<1>2. DOMAIN table' = 1..(n + 1) /\ DOMAIN table = 1..n
  BY <1>1, TableIs
<1>3. \A j \in 1..n : table[j] # r
  BY <1>2 DEF ToSet
<1>4. IsInjective(table')
  BY <1>1, <1>2, <1>3, TableIs DEF IsInjective
<1>5. ToSet(table') = ToSet(table) \cup {r}
  BY <1>1, <1>2 DEF ToSet
<1> QED
  BY <1>1, <1>4, <1>5

LEMMA RemovedFromTable ==
  ASSUME ListingTyped, NEW i \in DOMAIN table
  PROVE  LET t == RemoveAt(table, i)
         IN  /\ t \in Seq(Rows) /\ Len(t) = Len(table) - 1 /\ DOMAIN t = 1..(Len(table) - 1)
             /\ IsInjective(t) /\ ToSet(t) = ToSet(table) \ {table[i]}
             /\ \A j \in 1..(Len(table) - 1) : t[j] = IF j < i THEN table[j] ELSE table[j + 1]
<1> DEFINE n == Len(table)
           t == RemoveAt(table, i)
<1>1. n \in Nat /\ i \in 1..n /\ DOMAIN table = 1..n
  BY TableIs
<1>2. /\ t \in Seq(Rows) /\ Len(t) = n - 1
      /\ \A j \in 1..(n - 1) : t[j] = IF j < i THEN table[j] ELSE table[j + 1]
  <2>1. table \in Seq(Rows) /\ i \in 1..Len(table)
    BY <1>1, TableIs
  <2> QED
    BY <2>1, RemovedAt
<1>3. DOMAIN t = 1..(n - 1)
  BY <1>1, <1>2
<1> HIDE DEF t
<1>4. \A j \in 1..(n - 1) : \E k \in 1..n : t[j] = table[k] /\ k # i /\ (k = j \/ k = j + 1) /\ (k = j <=> j < i)
  BY <1>1, <1>2
<1>5. IsInjective(t)
  <2> SUFFICES ASSUME NEW j \in 1..(n - 1), NEW k \in 1..(n - 1), t[j] = t[k] PROVE j = k
    BY <1>3 DEF IsInjective
  <2> QED
    BY <1>1, <1>2, TableIs
<1>6. ToSet(t) \subseteq ToSet(table) \ {table[i]}
  BY <1>1, <1>3, <1>4, TableIs DEF ToSet
<1>7. ASSUME NEW k \in 1..n, k # i PROVE table[k] \in ToSet(t)
  <2>1. CASE k < i
    BY <1>1, <1>2, <1>3, <2>1 DEF ToSet
  <2>2. CASE ~(k < i)
    <3>1. k - 1 \in 1..(n - 1) /\ ~(k - 1 < i) /\ (k - 1) + 1 = k
      BY <1>1, <1>7, <2>2
    <3>2. t[k - 1] = table[k]
      BY <1>2, <3>1
    <3> QED
      BY <1>3, <3>1, <3>2 DEF ToSet
  <2> QED
    BY <2>1, <2>2
<1>8. ToSet(table) \ {table[i]} \subseteq ToSet(t)
  BY <1>1, <1>7 DEF ToSet
<1> QED
  BY <1>2, <1>3, <1>5, <1>6, <1>8 DEF t

-----------------------------------------------------------------------------
(* The client *)

LEMMA ListingInitially == ListingInit => ListingInv
<1> SUFFICES ASSUME ListingInit PROVE ListingInv
  OBVIOUS
<1>1. PICK n \in 0..MaxRows : table = [i \in 1..n |-> i]
  BY DEF ListingInit
<1>2. n \in Nat /\ \A i \in 1..n : table[i] = i /\ i \in Rows
  BY <1>1 DEF Rows
<1>3. DOMAIN table = 1..n /\ table \in Seq(Rows) /\ Len(table) = n
  BY <1>1, <1>2
<1>4. ToSet(table) = 1..n /\ IsInjective(table)
  BY <1>2, <1>3 DEF ToSet, IsInjective
<1>5. old = {} /\ Cardinality(old) = 0
  BY FS_EmptySet DEF ListingInit
<1>6. Known = 1..(Len(table) + Cardinality(old))
  BY <1>2, <1>3, <1>4, <1>5 DEF Known
<1>7. walk \in Walk /\ walk.page = 1 /\ walk.pc = "new" /\ (walk.endpoint = "sessions" => walk.order = "desc")
  BY DEF ListingInit, Walk
<1>8. ListingTyped
  BY <1>3, <1>4, <1>5, <1>6, <1>7 DEF ListingInit, ListingTyped
<1>9. \A j \in DOMAIN Ordered : Ordered[j] \in Rows
  BY <1>8, OrderedRows
<1> QED
  BY <1>7, <1>8, <1>9 DEF ListingInit, ListingInv, WithinPages, SeenOnce, SeenSoFar, TotalCovers,
     Walking, NothingMissed

(* The table stays, and so does the order.                                 *)
TableStays == UNCHANGED <<table, old>> /\ walk'.order = walk.order /\ walk'.endpoint = walk.endpoint

LEMMA SameOrder ==
  ASSUME TableStays
  PROVE  Ordered' = Ordered /\ Known' = Known /\ ToSet(table)' = ToSet(table) /\ Len(table)' = Len(table)
  BY DEF TableStays, Ordered, Known

LEMMA WalkMoves ==
  ASSUME ListingTyped, NEW pc \in {"new", "count", "find", "done", "failed"}
  PROVE  /\ [walk EXCEPT !.pc = pc] \in Walk /\ [walk EXCEPT !.pc = pc].pc = pc
         /\ [walk EXCEPT !.pc = pc].page = walk.page /\ [walk EXCEPT !.pc = pc].total = walk.total
         /\ [walk EXCEPT !.pc = pc].order = walk.order
         /\ [walk EXCEPT !.pc = pc].endpoint = walk.endpoint
  BY DEF ListingTyped, Walk

LEMMA WalkStartPreserves == ListingInv /\ WalkStart => ListingInv'
<1> SUFFICES ASSUME ListingInv, WalkStart PROVE ListingInv'
  OBVIOUS
<1> DEFINE pc == IF walk.endpoint = "sessions" THEN "find" ELSE "count"
<1>1. ListingTyped /\ walk.pc = "new"
  BY DEF ListingInv, WalkStart
<1>2. /\ walk' \in Walk /\ walk'.pc = pc /\ walk'.page = walk.page
      /\ walk'.order = walk.order /\ walk'.endpoint = walk.endpoint
  BY <1>1, WalkMoves DEF WalkStart
<1>3. TableStays /\ seen' = seen /\ drift' = drift /\ before' = ToSet(table)
  BY <1>2 DEF WalkStart, TableStays
<1>4. Ordered' = Ordered /\ Known' = Known /\ ToSet(table)' = ToSet(table) /\ Len(table)' = Len(table)
  BY <1>3, SameOrder
<1>5. walk.page = 1 /\ drift = {} /\ \A r \in Rows : seen[r] = 0
  BY <1>1 DEF ListingTyped
<1>6. ListingTyped'
  BY <1>1, <1>2, <1>3, <1>4 DEF ListingTyped, TableStays, Known
<1>7. Off(walk'.page) = 0 /\ DOMAIN Ordered \subseteq Nat \ {0}
  <2>1. Off(walk'.page) = 0
    BY <1>2, <1>5 DEF Off
  <2>2. DOMAIN Ordered = 1..Len(table) /\ Len(table) \in Nat
    BY <1>1, OrderedIs, TableIs
  <2> QED
    BY <2>1, <2>2
<1>8. WithinPages'
  BY <1>2, <1>3, <1>5 DEF WithinPages
<1>9. SeenOnce'
  BY <1>1, <1>3, <1>4, <1>5, OrderedRows DEF SeenOnce
<1>10. SeenSoFar'
  BY <1>2, <1>4, <1>7 DEF SeenSoFar, Off
<1>11. TotalCovers'
  BY <1>2 DEF TotalCovers
<1> QED
  BY <1>2, <1>6, <1>8, <1>9, <1>10, <1>11 DEF ListingInv, NothingMissed

LEMMA CountRowsPreserves == ListingInv /\ CountRows => ListingInv'
<1> SUFFICES ASSUME ListingInv, CountRows PROVE ListingInv'
  OBVIOUS
<1>1. ListingTyped /\ walk.pc = "count" /\ walk \in Walk /\ Len(table) \in Nat
  BY TableIs DEF ListingInv, ListingTyped, CountRows
<1>2. /\ walk' \in Walk /\ walk'.pc = "find" /\ walk'.page = walk.page /\ walk'.total = Len(table)
      /\ walk'.order = walk.order /\ walk'.endpoint = walk.endpoint
  BY <1>1 DEF CountRows, Walk
<1>3. TableStays /\ seen' = seen /\ drift' = drift /\ before' = before
  BY <1>2 DEF CountRows, TableStays
<1>4. Ordered' = Ordered /\ Known' = Known /\ ToSet(table)' = ToSet(table) /\ Len(table)' = Len(table)
  BY <1>3, SameOrder
<1>5. ListingTyped'
  BY <1>1, <1>2, <1>3, <1>4 DEF ListingTyped, TableStays
<1>6. Off(walk'.page) = Off(walk.page) /\ Off(walk.page)' = Off(walk.page)
  BY <1>2 DEF Off
<1>7. WithinPages'
  BY <1>1, <1>2, <1>3, <1>4, <1>6 DEF ListingInv, WithinPages
<1>8. SeenOnce' /\ SeenSoFar'
  BY <1>1, <1>2, <1>3, <1>4, <1>6 DEF ListingInv, SeenOnce, SeenSoFar, Unrepeated, Calm, Walking
<1>9. TotalCovers'
  BY <1>1, <1>2, <1>4, OrderedIs DEF TotalCovers
<1> QED
  BY <1>2, <1>5, <1>7, <1>8, <1>9 DEF ListingInv, NothingMissed

LEMMA WalkFailsPreserves == ListingInv /\ WalkFails => ListingInv'
<1> SUFFICES ASSUME ListingInv, WalkFails PROVE ListingInv'
  OBVIOUS
<1>1. ListingTyped
  BY DEF ListingInv
<1>2. /\ walk' \in Walk /\ walk'.pc = "failed" /\ walk'.page = walk.page
      /\ walk'.order = walk.order /\ walk'.endpoint = walk.endpoint
  BY <1>1, WalkMoves DEF WalkFails
<1>3. TableStays /\ seen' = seen /\ drift' = drift /\ before' = before
  BY <1>2 DEF WalkFails, TableStays
<1>4. Ordered' = Ordered /\ Known' = Known /\ ToSet(table)' = ToSet(table) /\ Len(table)' = Len(table)
  BY <1>3, SameOrder
<1>5. ListingTyped'
  BY <1>1, <1>2, <1>3, <1>4 DEF ListingTyped, TableStays
<1> QED
  BY <1>2, <1>3, <1>4, <1>5 DEF ListingInv, WithinPages, SeenOnce, Unrepeated, SeenSoFar, TotalCovers,
     Walking, NothingMissed

LEMMA GoOnStep ==
  ASSUME ListingTyped, walk.pc = "find", NEW rows, GoOn(rows)
  PROVE  /\ walk' \in Walk /\ walk'.order = walk.order /\ walk'.endpoint = walk.endpoint
         /\ walk'.total = walk.total /\ walk'.page > 0
         /\ More(rows) => /\ walk'.pc = IF walk.endpoint = "sessions" THEN "find" ELSE "count"
                          /\ walk'.page = CurrentPage + 1
         /\ ~More(rows) => walk'.pc = "done"
<1>1. walk \in Walk /\ CurrentPage \in Nat \ {0} /\ CurrentPage + 1 \in Nat /\ walk.page > 0
  BY CurrentPageIs DEF ListingTyped
<1> HIDE DEF CurrentPage
<1>2. CASE More(rows)
  <2> DEFINE pc == IF walk.endpoint = "sessions" THEN "find" ELSE "count"
  <2>1. walk' = [walk EXCEPT !.pc = pc, !.page = CurrentPage + 1]
    BY <1>2 DEF GoOn
  <2>2. pc \in {"find", "count"}
    OBVIOUS
  <2> HIDE DEF pc
  <2>3. /\ walk' \in Walk /\ walk'.pc = pc /\ walk'.page = CurrentPage + 1
        /\ walk'.order = walk.order /\ walk'.endpoint = walk.endpoint /\ walk'.total = walk.total
    BY <1>1, <2>1, <2>2 DEF Walk
  <2> QED
    BY <1>1, <1>2, <2>3 DEF pc
<1>3. CASE ~More(rows)
  BY <1>1, <1>3 DEF GoOn, Walk
<1> QED
  BY <1>2, <1>3

LEMMA FindPagePreserves == ListingInv /\ FindPage => ListingInv'
<1> SUFFICES ASSUME ListingInv, FindPage PROVE ListingInv'
  OBVIOUS
<1> DEFINE p == CurrentPage
           rows == Page(p)
<1>1. ListingTyped /\ WithinPages /\ walk.pc = "find" /\ p \in Nat \ {0}
  BY CurrentPageIs DEF ListingInv, FindPage
<1>2. /\ walk' \in Walk /\ walk'.order = walk.order /\ walk'.endpoint = walk.endpoint
      /\ walk'.total = walk.total /\ walk'.page > 0
      /\ More(rows) => /\ walk'.pc = IF walk.endpoint = "sessions" THEN "find" ELSE "count"
                       /\ walk'.page = p + 1
      /\ ~More(rows) => walk'.pc = "done"
  BY <1>1, GoOnStep DEF FindPage
<1>3. TableStays /\ before' = before /\ drift \subseteq drift'
  BY <1>2 DEF FindPage, TableStays
<1>4. Ordered' = Ordered /\ Known' = Known /\ ToSet(table)' = ToSet(table) /\ Len(table)' = Len(table)
  BY <1>3, SameOrder
<1>5. /\ seen \in [Rows -> Nat] /\ seen' \in [Rows -> Nat]
      /\ \A r \in Rows : seen'[r] = IF r \in rows THEN seen[r] + 1 ELSE seen[r]
  BY <1>1 DEF ListingTyped, FindPage
<1>6. /\ Off(p) \in Nat /\ Off(p + 1) = Off(p) + PageSize /\ Off(p) + PageSize = p * PageSize
      /\ rows = At(Off(p), PageSize)
  BY <1>1, Offsets DEF Page, Off
<1>7. \/ p = walk.page /\ drift' = drift
      \/ p # walk.page /\ drift' = drift \cup {"clamped"}
  <2>1. drift' = IF p # walk.page THEN drift \cup {"clamped"} ELSE drift
    BY DEF FindPage
  <2> HIDE DEF p
  <2> QED
    BY <2>1
<1>8. "deleted" \notin drift => p = walk.page
  BY <1>1, Unclamped
<1>9. walk.page \in Nat \ {0} /\ walk.endpoint \in Endpoints
  BY <1>1 DEF ListingTyped, Walk
<1>10. DOMAIN Ordered = 1..Len(table) /\ Len(table) \in Nat
  BY <1>1, OrderedIs, TableIs
<1>11. /\ \A j \in DOMAIN Ordered : Ordered[j] \in Rows /\ Ordered[j] \in ToSet(table)
       /\ \A j \in DOMAIN Ordered : Ordered[j] \in rows <=> Off(p) < j /\ j <= Off(p) + PageSize
       /\ \A r \in rows : \E j \in DOMAIN Ordered : r = Ordered[j] /\ Off(p) < j
  <2>1. \A j \in DOMAIN Ordered : Ordered[j] \in rows <=> Off(p) < j /\ j <= Off(p) + PageSize
    BY <1>1, <1>6, AtIs
  <2>2. \A r \in rows : \E j \in DOMAIN Ordered : r = Ordered[j]
    BY <1>6 DEF At
  <2> QED
    BY <1>1, <2>1, <2>2, OrderedRows
<1>12. More(rows) /\ walk.endpoint # "sessions" => p < Pages(walk.total)
  BY DEF More
<1>13. ~More(rows) /\ walk.endpoint # "sessions" => ~(p < Pages(walk.total)) /\ LastPage
  BY DEF More, LastPage
<1>14. ~More(rows) /\ walk.endpoint = "sessions" => Cardinality(rows) # PageSize
  BY DEF More
<1> HIDE DEF p, rows
<1>15. ListingTyped'
  <2>1. \A r \in Rows : seen'[r] > 0 => r \in Known
    BY <1>1, <1>5, <1>11 DEF ListingTyped, Known
  <2> QED
    BY <1>1, <1>2, <1>3, <1>4, <1>5, <1>7, <2>1 DEF ListingTyped, TableStays, Drift
<1>16. WithinPages'
  <2>1. "clamped" \in drift' => "deleted" \in drift'
    BY <1>1, <1>7, <1>8 DEF WithinPages
  <2>2. ASSUME "deleted" \notin drift', walk.endpoint # "sessions", walk'.pc = "count"
        PROVE  Off(walk'.page) < Len(table)
    <3>1. More(rows) /\ p = walk.page /\ walk.total \in Nat /\ p < Pages(walk.total)
      BY <1>1, <1>2, <1>7, <1>8, <1>12, <2>2 DEF ListingTyped, Walk
    <3>2. p * PageSize < walk.total
      <4>1. p * PageSize \in Nat
        BY <1>6
      <4> QED
        BY <1>1, <3>1, <4>1, Paging
    <3>3. walk.total <= Len(table)
      BY <1>1, <1>7, <2>2 DEF WithinPages
    <3> QED
      BY <1>2, <1>6, <1>10, <3>1, <3>2, <3>3
  <2>3. walk.endpoint # "sessions" => walk'.pc # "find"
    BY <1>2
  <2> QED
    BY <1>2, <1>4, <2>1, <2>2, <2>3 DEF WithinPages, Off
<1>17. SeenOnce'
  <2> SUFFICES ASSUME Unrepeated'
               PROVE  /\ \A r \in Rows : seen'[r] <= 1
                      /\ walk'.pc \in {"new", "count", "find"} =>
                           \A j \in DOMAIN Ordered : j > Off(walk'.page) => seen'[Ordered[j]] = 0
    BY <1>4 DEF SeenOnce, Off
  <2>1. Unrepeated /\ p = walk.page
    BY <1>2, <1>7, Zenon DEF Unrepeated
  <2>2. /\ \A r \in Rows : seen[r] <= 1
        /\ \A j \in DOMAIN Ordered : j > Off(p) => seen[Ordered[j]] = 0
    BY <1>1, <2>1 DEF ListingInv, SeenOnce
  <2>3. \A r \in Rows : seen'[r] <= 1
    BY <1>5, <1>6, <1>10, <1>11, <2>2
  <2>4. ASSUME walk'.pc \in {"new", "count", "find"}, NEW j \in DOMAIN Ordered, j > Off(walk'.page)
        PROVE  seen'[Ordered[j]] = 0
    <3>1. j > Off(p) + PageSize
      BY <1>2, <1>6, <2>4
    <3> QED
      BY <1>5, <1>6, <1>10, <1>11, <2>2, <3>1
  <2> QED
    BY <2>3, <2>4
<1>18. SeenSoFar'
  <2> SUFFICES ASSUME Calm', Walking', NEW j \in DOMAIN Ordered, j <= Off(walk'.page), Ordered[j] \in before
               PROVE  seen'[Ordered[j]] > 0
    BY <1>3, <1>4 DEF SeenSoFar, Off
  <2>1. Calm /\ p = walk.page
    BY <1>7, <1>8 DEF Calm
  <2>2. j <= Off(p) + PageSize
    BY <1>2, <1>6 DEF Walking
  <2>3. j <= Off(p) => seen[Ordered[j]] > 0
    BY <1>1, <2>1 DEF ListingInv, SeenSoFar, Walking
  <2> QED
    BY <1>5, <1>6, <1>10, <1>11, <2>2, <2>3
<1>19. TotalCovers'
  BY <1>2 DEF TotalCovers
<1>20. NothingMissed'
  <2> SUFFICES ASSUME walk'.pc = "done", NEW r \in before \cap ToSet(table), Calm',
                      walk.order # "desc" \/ "late" \notin drift'
               PROVE  seen'[r] > 0
    BY <1>2, <1>3, <1>4 DEF NothingMissed, Calm
  <2>1. Calm /\ p = walk.page /\ ~More(rows)
    BY <1>2, <1>7, <1>8 DEF Calm
  <2>2. PICK j \in DOMAIN Ordered : Ordered[j] = r
    BY <1>1, OrderedRows
  <2>3. j <= Off(p) + PageSize
    <3>1. CASE walk.endpoint = "sessions"
      <4>1. ~(Off(p) + PageSize <= Len(table))
        BY <1>1, <1>6, <1>14, <2>1, <3>1, FullPage
      <4> QED
        BY <1>6, <1>10, <4>1
    <3>2. CASE walk.endpoint # "sessions"
      <4>1. walk.total \in Nat /\ p * PageSize >= walk.total
        <5>1. walk.total \in Nat
          BY <1>1, <3>2 DEF ListingTyped, Walk
        <5>2. Pages(walk.total) \in Nat
          BY <5>1, <1>1, Paging
        <5> QED
          BY <1>1, <1>13, <2>1, <3>2, <5>1, <5>2, Paging
      <4>2. walk.order = "asc" \/ (LastPage /\ "late" \notin drift)
        BY <1>1, <1>3, <1>13, <2>1, <3>2, OrderedIs
      <4>3. j <= walk.total
        BY <1>1, <2>1, <2>2, <3>2, <4>2 DEF ListingInv, TotalCovers
      <4> QED
        BY <1>6, <1>10, <4>1, <4>3
    <3> QED
      BY <3>1, <3>2
  <2>4. j <= Off(p) => seen[Ordered[j]] > 0
    BY <1>1, <2>1, <2>2 DEF ListingInv, SeenSoFar, Walking
  <2> QED
    BY <1>5, <1>6, <1>10, <1>11, <2>2, <2>3, <2>4
<1> QED
  BY <1>15, <1>16, <1>17, <1>18, <1>19, <1>20 DEF ListingInv

-----------------------------------------------------------------------------
(* The others, while the client walks *)

(* What others do leaves the client where it is.                           *)
OthersStep ==
  /\ Walking /\ UNCHANGED <<walk, seen, before>> /\ drift \subseteq drift' /\ drift' \subseteq Drift
  /\ "clamped" \in drift' => "clamped" \in drift

LEMMA OtherStep ==
  ASSUME ListingTyped, NEW what \in SUBSET (Drift \ {"clamped"}), Note(what),
         UNCHANGED <<walk, seen, before>>
  PROVE  OthersStep /\ drift' = drift \cup what
  BY DEF ListingTyped, OthersStep, Note

LEMMA OthersTyped ==
  ASSUME ListingTyped, OthersStep, table' \in Seq(Rows), IsInjective(table'), old' \subseteq Rows,
         old' \cap ToSet(table') = {}, Known' = 1..(Len(table') + Cardinality(old')), Known \subseteq Known'
  PROVE  ListingTyped'
  BY DEF ListingTyped, OthersStep, Walking

LEMMA WalkingIs ==
  ASSUME OthersStep
  PROVE  walk.pc \in {"count", "find"} /\ walk' = walk /\ Off(walk.page)' = Off(walk.page) /\ NothingMissed'
  BY DEF OthersStep, Walking, Off, NothingMissed

LEMMA DeleteRowPreserves ==
  ASSUME ListingInv, NEW i \in DOMAIN table, DeleteRow(i) PROVE ListingInv'
<1> DEFINE n == Len(table)
           r == table[i]
<1>1. ListingTyped
  BY DEF ListingInv
<1>2. n \in Nat /\ i \in 1..n /\ DOMAIN table = 1..n /\ r \in Rows /\ r \in ToSet(table)
  BY <1>1, TableIs DEF ToSet
<1>3. /\ table' \in Seq(Rows) /\ Len(table') = n - 1 /\ DOMAIN table' = 1..(n - 1)
      /\ IsInjective(table') /\ ToSet(table') = ToSet(table) \ {r}
      /\ \A j \in 1..(n - 1) : table'[j] = IF j < i THEN table[j] ELSE table[j + 1]
  BY <1>1, RemovedFromTable DEF DeleteRow
<1>4. OthersStep /\ drift' = drift \cup {"deleted"}
  BY <1>1, OtherStep DEF DeleteRow, Drift
<1>5. old' = old \cup {r} /\ r \notin old /\ old' \subseteq Rows
  BY <1>1, <1>2 DEF DeleteRow, ListingTyped
<1>6. Cardinality(old') = Cardinality(old) + 1 /\ Cardinality(old) \in Nat
  <2>1. IsFiniteSet(old)
    <3>1. IsFiniteSet(Rows)
      BY FS_Interval DEF Rows
    <3> QED
      BY <1>1, <3>1, FS_Subset DEF ListingTyped
  <2> QED
    BY <1>5, <2>1, FS_AddElement, FS_CardinalityType
<1>7. Known' = Known /\ old' \cap ToSet(table') = {}
  BY <1>1, <1>2, <1>3, <1>5 DEF ListingTyped, Known
<1>8. ListingTyped'
  <2>1. n - 1 + (Cardinality(old) + 1) = n + Cardinality(old)
    BY <1>2, <1>6
  <2>2. Known' = 1..(Len(table') + Cardinality(old'))
    BY <1>1, <1>3, <1>6, <1>7, <2>1 DEF ListingTyped
  <2> QED
    BY <1>1, <1>3, <1>4, <1>5, <1>7, <2>2, OthersTyped
<1>9. \A j \in DOMAIN Ordered' : \E k \in DOMAIN Ordered : k >= j /\ Ordered'[j] = Ordered[k]
  <2>1. DOMAIN Ordered' = 1..(n - 1) /\ DOMAIN Ordered = 1..n
    BY <1>1, <1>3, <1>8, OrderedIs, OrderedNext
  <2>2. walk' = walk /\ walk.order \in {"asc", "desc"}
    BY <1>1, <1>4, OrderedIs DEF OthersStep
  <2>3. CASE walk.order = "asc"
    <3>1. \A j \in 1..(n - 1) : Ordered'[j] = table'[j]
      BY <1>3, <1>8, <2>2, <2>3, OrderedNext
    <3> QED
      BY <1>1, <1>2, <1>3, <2>1, <2>3, <3>1, OrderedIs
  <2>4. CASE walk.order = "desc"
    <3>1. \A j \in 1..(n - 1) : Ordered'[j] = table'[(n - 1) - j + 1]
      BY <1>3, <1>8, <2>2, <2>4, OrderedNext
    <3> SUFFICES ASSUME NEW j \in 1..(n - 1)
                 PROVE  \E k \in 1..n : k >= j /\ Ordered'[j] = Ordered[k]
      BY <2>1
    <3>2. (n - 1) - j + 1 \in 1..(n - 1) /\ (n - 1) - j + 1 = n - j
      BY <1>2
    <3>3. CASE n - j < i
      <4>1. Ordered'[j] = table[n - j] /\ n - (j + 1) + 1 = n - j /\ j + 1 \in 1..n
        BY <1>2, <1>3, <3>1, <3>2, <3>3
      <4> QED
        BY <1>1, <1>2, <2>4, <4>1, OrderedIs
    <3>4. CASE ~(n - j < i)
      <4>1. Ordered'[j] = table[n - j + 1] /\ j \in 1..n
        BY <1>2, <1>3, <3>1, <3>2, <3>4
      <4> QED
        BY <1>1, <1>2, <2>4, <4>1, OrderedIs
    <3> QED
      BY <3>3, <3>4
  <2> QED
    BY <2>2, <2>3, <2>4
<1>10. SeenOnce'
  <2> SUFFICES ASSUME Unrepeated'
               PROVE  /\ \A x \in Rows : seen[x] <= 1
                      /\ \A j \in DOMAIN Ordered' : j > Off(walk.page) => seen[Ordered'[j]] = 0
    BY <1>4, WalkingIs DEF SeenOnce, OthersStep
  <2>1. Unrepeated
    BY <1>4 DEF Unrepeated, OthersStep
  <2>2. /\ \A x \in Rows : seen[x] <= 1
        /\ \A j \in DOMAIN Ordered : j > Off(walk.page) => seen[Ordered[j]] = 0
    BY <1>4, <2>1, WalkingIs DEF ListingInv, SeenOnce
  <2>3. DOMAIN Ordered \subseteq Nat /\ DOMAIN Ordered' \subseteq Nat /\ Off(walk.page) \in Nat
    <3>1. DOMAIN Ordered = 1..n /\ DOMAIN Ordered' = 1..(n - 1)
      BY <1>1, <1>3, <1>8, OrderedIs, OrderedNext
    <3>2. walk.page \in Nat \ {0}
      BY <1>1 DEF ListingTyped, Walk
    <3>3. Off(walk.page) \in Nat
      BY <3>2, Offsets
    <3> QED
      BY <1>2, <3>1, <3>3
  <2> QED
    BY <1>9, <2>2, <2>3
<1>11. WithinPages' /\ ~Calm'
  BY <1>4 DEF WithinPages, Calm
<1> QED
  BY <1>4, <1>8, <1>10, <1>11, WalkingIs DEF ListingInv, SeenSoFar, TotalCovers

LEMMA TouchRowPreserves ==
  ASSUME ListingInv, NEW i \in DOMAIN table, TouchRow(i) PROVE ListingInv'
<1> DEFINE n == Len(table)
           r == table[i]
           t == RemoveAt(table, i)
<1>1. ListingTyped
  BY DEF ListingInv
<1>2. n \in Nat /\ i \in 1..n /\ DOMAIN table = 1..n /\ r \in Rows /\ r \in ToSet(table)
  BY <1>1, TableIs DEF ToSet
<1>3. /\ t \in Seq(Rows) /\ Len(t) = n - 1 /\ DOMAIN t = 1..(n - 1) /\ n = Len(table)
      /\ IsInjective(t) /\ ToSet(t) = ToSet(table) \ {r}
  BY <1>1, RemovedFromTable
<1>4. OthersStep /\ drift' = drift \cup {"moved"} /\ old' = old /\ table' = Append(t, r)
  BY <1>1, OtherStep DEF TouchRow, Drift
<1> HIDE DEF t, r, n
<1>5. /\ table' \in Seq(Rows) /\ Len(table') = n /\ DOMAIN table' = 1..n
      /\ \A j \in 1..(n - 1) : table'[j] = t[j]
      /\ table'[n] = r
  <2>1. /\ table' \in Seq(Rows) /\ Len(table') = (n - 1) + 1 /\ DOMAIN table' = 1..((n - 1) + 1)
        /\ \A j \in 1..(n - 1) : table'[j] = t[j]
        /\ table'[(n - 1) + 1] = r
    <3>1. t \in Seq(Rows) /\ Len(t) = n - 1 /\ r \in Rows /\ table' = Append(t, r)
      BY <1>2, <1>3, <1>4
    <3> QED
      BY <3>1, Appended
  <2>2. (n - 1) + 1 = n
    BY <1>2
  <2> QED
    BY <2>1, <2>2
<1>6. IsInjective(table') /\ ToSet(table') = ToSet(table)
  <2>1. \A j \in 1..(n - 1) : t[j] # r
    BY <1>3 DEF ToSet
  <2>2. IsInjective(table')
    BY <1>2, <1>3, <1>5, <2>1 DEF IsInjective
  <2>3. ToSet(table') = ToSet(t) \cup {r}
    BY <1>2, <1>3, <1>5 DEF ToSet
  <2> QED
    BY <1>2, <1>3, <2>2, <2>3
<1>7. ListingTyped'
  BY <1>1, <1>3, <1>4, <1>5, <1>6, OthersTyped DEF ListingTyped, Known
<1>8. WithinPages'
  BY <1>3, <1>4, <1>5, WalkingIs DEF OthersStep, ListingInv, WithinPages
<1>9. ~Calm' /\ ~Unrepeated'
  BY <1>4 DEF Calm, Unrepeated
<1> QED
  BY <1>4, <1>7, <1>8, <1>9, WalkingIs DEF ListingInv, SeenOnce, SeenSoFar, TotalCovers

LEMMA InsertRowPreserves ==
  ASSUME ListingInv, NEW r \in Rows, InsertRow(r) PROVE ListingInv'
<1> DEFINE n == Len(table)
<1>1. ListingTyped
  BY DEF ListingInv
<1>2. n \in Nat /\ DOMAIN table = 1..n /\ r = n + Cardinality(old) + 1 /\ Cardinality(old) \in Nat
  <2>1. IsFiniteSet(old)
    <3>1. IsFiniteSet(Rows)
      BY FS_Interval DEF Rows
    <3> QED
      BY <1>1, <3>1, FS_Subset DEF ListingTyped
  <2> QED
    BY <1>1, <2>1, TableIs, FS_CardinalityType DEF InsertRow
<1>3. r \notin Known /\ r \notin ToSet(table) /\ r \notin old /\ r \notin before /\ seen[r] = 0
  <2>1. r \notin Known
    BY <1>1, <1>2 DEF ListingTyped
  <2>2. seen[r] \in Nat /\ ~(seen[r] > 0)
    BY <1>1, <2>1 DEF ListingTyped
  <2> QED
    BY <1>1, <2>1, <2>2 DEF ListingTyped, Known
<1>4. /\ table' \in Seq(Rows) /\ Len(table') = n + 1 /\ IsInjective(table')
      /\ \A j \in 1..n : table'[j] = table[j]
      /\ table'[n + 1] = r /\ ToSet(table') = ToSet(table) \cup {r}
  BY <1>1, <1>3, AppendedTable DEF InsertRow
<1> DEFINE tooLate == walk.pc = "find" /\ walk.endpoint # "sessions" /\ LastPage
           what == IF tooLate THEN {"inserted", "late"} ELSE {"inserted"}
<1>5. Note(what) /\ UNCHANGED <<old, walk, seen, before>>
  BY DEF InsertRow, LastPage
<1>6. OthersStep /\ drift' = drift \cup what
  BY <1>1, <1>5, OtherStep DEF Drift
<1>7. /\ walk' = walk /\ seen' = seen /\ before' = before /\ old' = old /\ drift \subseteq drift'
      /\ "inserted" \in drift' /\ (tooLate => "late" \in drift')
      /\ \A d \in {"deleted", "moved", "clamped"} : d \in drift' <=> d \in drift
  BY <1>5, <1>6
<1> HIDE DEF what
<1>8. ListingTyped'
  <2>1. Known' = Known \cup {r}
    BY <1>4, <1>7 DEF Known
  <2>2. Known' = 1..(n + 1 + Cardinality(old))
    BY <1>1, <1>2, <2>1 DEF ListingTyped
  <2> QED
    BY <1>1, <1>3, <1>4, <1>6, <1>7, <2>1, <2>2, OthersTyped DEF ListingTyped
<1>9. walk.order \in {"asc", "desc"} /\ DOMAIN Ordered = 1..n /\ DOMAIN Ordered' = 1..(n + 1)
  BY <1>1, <1>4, <1>8, OrderedIs, OrderedNext
(* Oldest first, the new row stands behind the others; newest first, it    *)
(* stands before them.                                                     *)
<1>10. ASSUME walk.order = "asc"
       PROVE  Ordered'[n + 1] = r /\ \A j \in 1..n : Ordered'[j] = Ordered[j]
  <2>1. \A j \in 1..n : Ordered[j] = table[j]
    BY <1>1, <1>10, OrderedIs
  <2>2. \A j \in 1..(n + 1) : Ordered'[j] = table'[j]
    BY <1>4, <1>7, <1>8, <1>10, OrderedNext
  <2> QED
    BY <1>2, <1>4, <2>1, <2>2
<1>11. ASSUME walk.order = "desc"
       PROVE  Ordered'[1] = r /\ \A j \in 2..(n + 1) : Ordered'[j] = Ordered[j - 1]
  <2>1. \A j \in 1..n : Ordered[j] = table[n - j + 1]
    BY <1>1, <1>11, OrderedIs
  <2>2. \A j \in 1..(n + 1) : Ordered'[j] = table'[(n + 1) - j + 1]
    BY <1>4, <1>7, <1>8, <1>11, OrderedNext
  <2>3. ASSUME NEW j \in 2..(n + 1) PROVE Ordered'[j] = Ordered[j - 1]
    <3>1. (n + 1) - j + 1 = n - (j - 1) + 1 /\ j - 1 \in 1..n /\ n - (j - 1) + 1 \in 1..n
      BY <1>2
    <3>2. Ordered'[j] = table'[n - (j - 1) + 1]
      BY <1>2, <2>2, <3>1
    <3>3. table'[n - (j - 1) + 1] = table[n - (j - 1) + 1]
      BY <1>4, <3>1
    <3>4. Ordered[j - 1] = table[n - (j - 1) + 1]
      BY <2>1, <3>1
    <3> QED
      BY <3>2, <3>3, <3>4
  <2>4. Ordered'[1] = r
    <3>1. 1 \in 1..(n + 1) /\ (n + 1) - 1 + 1 = n + 1
      BY <1>2
    <3> QED
      BY <1>4, <2>2, <3>1
  <2> QED
    BY <2>3, <2>4
<1>12. Off(walk.page) \in Nat /\ Off(walk.page)' = Off(walk.page)
  BY <1>1, <1>7, Offsets DEF ListingTyped, Walk, Off
<1>13. ASSUME NEW j \in 1..(n + 1), Ordered'[j] # r
       PROVE  \E k \in 1..n : k <= j /\ Ordered'[j] = Ordered[k] /\ (walk.order = "asc" => k = j)
  BY <1>2, <1>9, <1>10, <1>11, <1>13
<1>14. WithinPages'
  <2>1. WithinPages /\ ("clamped" \in drift' => "deleted" \in drift')
    BY <1>7 DEF ListingInv, WithinPages
  <2>2. ASSUME "deleted" \notin drift', walk.endpoint # "sessions"
        PROVE  /\ walk.pc = "count" => walk.page = 1 \/ Off(walk.page) < Len(table')
               /\ walk.pc = "find" => /\ walk.total <= Len(table')
                                      /\ walk.page = 1 \/ Off(walk.page) < walk.total
    <3>1. /\ walk.pc = "count" => walk.page = 1 \/ Off(walk.page) < n
          /\ walk.pc = "find" => walk.total <= n /\ (walk.page = 1 \/ Off(walk.page) < walk.total)
      BY <1>7, <2>1, <2>2 DEF WithinPages
    <3>2. walk.pc = "find" => walk.total \in Nat
      BY <1>1, <2>2 DEF ListingTyped, Walk
    <3> HIDE DEF n
    <3> QED
      BY <1>2, <1>4, <1>12, <3>1, <3>2
  <2> QED
    BY <1>7, <1>12, <2>1, <2>2 DEF WithinPages
<1>15. SeenOnce'
  <2> SUFFICES ASSUME Unrepeated'
               PROVE  /\ \A x \in Rows : seen[x] <= 1
                      /\ \A j \in 1..(n + 1) : j > Off(walk.page) => seen[Ordered'[j]] = 0
    BY <1>7, <1>9, <1>12 DEF SeenOnce
  <2>1. Unrepeated /\ walk.order = "asc"
    BY <1>7, <1>9 DEF Unrepeated
  <2>2. /\ \A x \in Rows : seen[x] <= 1
        /\ \A j \in 1..n : j > Off(walk.page) => seen[Ordered[j]] = 0
    BY <1>6, <1>9, <2>1, WalkingIs DEF ListingInv, SeenOnce
  <2> QED
    BY <1>3, <1>13, <2>1, <2>2
<1>16. SeenSoFar'
  <2> SUFFICES ASSUME Calm', NEW j \in 1..(n + 1), j <= Off(walk.page), Ordered'[j] \in before
               PROVE  seen[Ordered'[j]] > 0
    BY <1>7, <1>9, <1>12 DEF SeenSoFar
  <2>1. Calm
    BY <1>7 DEF Calm
  <2>2. PICK k \in 1..n : k <= j /\ Ordered'[j] = Ordered[k]
    BY <1>3, <1>13
  <2>3. k <= Off(walk.page)
    BY <1>2, <1>12, <2>2
  <2> QED
    BY <1>6, <1>9, <2>1, <2>2, <2>3 DEF ListingInv, SeenSoFar, OthersStep
<1>17. TotalCovers'
  <2> SUFFICES ASSUME Calm', walk.pc = "find", walk.endpoint # "sessions",
                      walk.order = "asc" \/ (LastPage' /\ "late" \notin drift'),
                      NEW j \in 1..(n + 1), Ordered'[j] \in before
               PROVE  j <= walk.total
    BY <1>7, <1>9, Zenon DEF TotalCovers
  <2>1. Calm
    BY <1>7 DEF Calm
  <2>2. LastPage' = LastPage
    BY <1>7 DEF LastPage, More, CurrentPage, Pages
  <2>3. walk.order = "asc"
    BY <1>7, <2>2
  <2>4. j \in 1..n /\ Ordered'[j] = Ordered[j]
    BY <1>3, <1>13, <2>3
  <2> QED
    BY <1>9, <2>1, <2>3, <2>4 DEF ListingInv, TotalCovers
<1> QED
  BY <1>6, <1>8, <1>14, <1>15, <1>16, <1>17, WalkingIs DEF ListingInv

LEMMA ListingPreserves == ListingInv /\ [ListingNext]_listingVars => ListingInv'
<1>1. ASSUME ListingInv, UNCHANGED listingVars PROVE ListingInv'
  BY <1>1 DEF listingVars, ListingInv, ListingTyped, Known, WithinPages, SeenOnce, Unrepeated,
     SeenSoFar, TotalCovers, NothingMissed, Calm, Walking, LastPage, More, CurrentPage, Ordered, Off, Pages
<1> QED
  BY <1>1, WalkStartPreserves, CountRowsPreserves, FindPagePreserves, WalkFailsPreserves,
     InsertRowPreserves, DeleteRowPreserves, TouchRowPreserves DEF ListingNext

(* The inductive invariant of a walk through a listing.                    *)
THEOREM ListingInvariance == ListingSpec => []ListingInv
  BY ListingInitially, ListingPreserves, PTL DEF ListingSpec

LEMMA ListingTypedIsTyped == ListingTyped => ListingTypeOK
<1> SUFFICES ASSUME ListingTyped PROVE ListingTypeOK
  OBVIOUS
<1>1. ToSet(table) \subseteq Rows
  BY TableIs DEF ToSet
<1> QED
  BY <1>1 DEF ListingTyped, ListingTypeOK, Known

(* A client that walks adminGetUsers, getCompanyStaffs or getUserSessions  *)
(* to the last page got every row that was there all along, but for        *)
(* deletions, moves and inserts between the last count and find.           *)
THEOREM WalksMissNothing == ListingSpec => []NothingMissed
<1>1. ListingInv => NothingMissed
  BY DEF ListingInv
<1> QED
  BY ListingInvariance, <1>1, PTL

(* It gets no row twice, but for rows that moved, rows inserted before it  *)
(* and a last page that adminGetUsers gave again after deletions.          *)
THEOREM RepeatsAreExplained == ListingSpec => []RepeatsExplained
<1>1. ListingInv => RepeatsExplained
  <2> SUFFICES ASSUME ListingInv, NEW r \in Rows, seen[r] > 1
               PROVE  \/ "moved" \in drift
                      \/ walk.order = "desc" /\ "inserted" \in drift
                      \/ {"clamped", "deleted"} \subseteq drift
    BY DEF RepeatsExplained
  <2>1. ~Unrepeated
    BY DEF ListingInv, ListingTyped, SeenOnce
  <2>2. walk.order \in {"asc", "desc"}
    BY DEF ListingInv, ListingTyped, Walk
  <2> QED
    BY <2>1, <2>2 DEF Unrepeated, ListingInv, WithinPages
<1> QED
  BY ListingInvariance, <1>1, PTL

HIDE ListingAssumption

-----------------------------------------------------------------------------
(* Analytics *)

USE ActivityAssumption

InRange == {u \in Registered : joined[u] >= report.from}

Report ==
  [kind : ReportKinds \cup {"none", "over"}, now : Nat, from : Nat, got : Seq(0..Cardinality(Members))]

TablesTyped ==
  /\ clock \in 0..MaxClock /\ joined \in [Members -> NotYet..clock]
  /\ business \subseteq Registered /\ arrived \subseteq Registered
  /\ logins \in [Members -> SUBSET Nat]
  /\ \A u \in Members : IF u \in Registered THEN joined[u] \in logins[u] ELSE logins[u] = {}
  /\ \A u \in Registered : \A t \in logins[u] : t \in joined[u]..clock

ReportTyped ==
  /\ report \in Report /\ report.now \in 0..clock /\ report.from \in 0..report.now
  /\ report.kind \in ReportKinds => Len(report.got) <= Queries(report.kind)

ActivityTyped == TablesTyped /\ ReportTyped

LEMMA ActivityTypedIsTyped == ActivityTyped => ActivityTypeOK
  BY DEF ActivityTyped, TablesTyped, ReportTyped, Report, ActivityTypeOK

LEMMA SeqOfNaturals == ASSUME NEW S, S \subseteq Nat PROVE \A g \in Seq(S) : g \in Seq(Nat)
<1> SUFFICES ASSUME NEW g \in Seq(S) PROVE g \in Seq(Nat)
  OBVIOUS
<1>1. Len(g) \in Nat /\ DOMAIN g = 1..Len(g) /\ \A i \in 1..Len(g) : g[i] \in S
  OBVIOUS
<1>2. g = [i \in 1..Len(g) |-> g[i]]
  BY <1>1
<1>3. g \in [1..Len(g) -> Nat]
  BY <1>1, <1>2
<1> QED
  BY <1>1, <1>3

LEMMA ReportIs ==
  ASSUME ReportTyped
  PROVE  /\ report.got \in Seq(Nat) /\ report.now \in Nat /\ report.from \in Nat
         /\ report.got \in Seq(0..Cardinality(Members))
<1>1. report.got \in Seq(0..Cardinality(Members)) /\ report.now \in Nat /\ report.from \in Nat
  BY DEF ReportTyped, Report
<1>2. \A g \in Seq(0..Cardinality(Members)) : g \in Seq(Nat)
  <2>1. 0..Cardinality(Members) \subseteq Nat
    BY FS_CardinalityType
  <2> QED
    BY <2>1, SeqOfNaturals
<1> QED
  BY <1>1, <1>2

LEMMA ReportStays ==
  ASSUME ReportTyped, UNCHANGED report, clock \in Nat, clock' \in Nat, clock <= clock'
  PROVE  ReportTyped'
<1>1. Queries(report.kind)' = Queries(report.kind) /\ Report' = Report
  BY DEF Queries, Report
<1> QED
  BY <1>1 DEF ReportTyped, Report

TotalCoversRange ==
  report.kind = "cards" /\ Len(report.got) > 0 =>
    Cardinality(InRange \ arrived) <= report.got[1]

ActivityInv == ActivityTyped /\ NeverOvercounts /\ TotalCoversRange /\ CardsWithinTotal

LEMMA LatestExists ==
  ASSUME NEW S \in SUBSET Nat, S # {}, NEW bound \in Nat, \A t \in S : t <= bound
  PROVE  \E t \in S : \A s \in S : s <= t
<1> DEFINE Back == {n \in Nat : bound - n \in S}
<1>1. Back \subseteq Nat /\ Back # {}
  <2>1. PICK t \in S : TRUE
    OBVIOUS
  <2>2. bound - t \in Nat /\ bound - (bound - t) = t
    BY <2>1
  <2> QED
    BY <2>2
<1>2. PICK n \in Back : \A m \in Back : ~ (<<m, n>> \in OpToRel(<, Nat))
  BY <1>1, NatLessThanWellFounded, WFMin
<1>3. \A m \in Back : ~ (m < n)
  BY <1>2, Zenon DEF OpToRel
<1>4. bound - n \in S /\ n \in Nat
  OBVIOUS
<1>5. ASSUME NEW s \in S PROVE s <= bound - n
  <2>1. bound - s \in Nat /\ bound - (bound - s) = s
    OBVIOUS
  <2>2. bound - s \in Back
    BY <2>1
  <2> QED
    BY <1>3, <1>4, <2>2
<1> QED
  BY <1>4, <1>5

(* last_login is the latest of a user's sign-ins.                          *)
LEMMA LastIsLatest ==
  ASSUME ActivityTyped, NEW u \in Registered
  PROVE  LastLogin(u) \in logins[u] /\ \A s \in logins[u] : s <= LastLogin(u)
<1>1. u \in Members /\ logins[u] \in SUBSET Nat /\ logins[u] # {} /\ clock \in Nat
  BY DEF ActivityTyped, TablesTyped, Registered
<1>2. \A t \in logins[u] : t <= clock
  BY <1>1 DEF ActivityTyped, TablesTyped, Registered, NotYet
<1>3. \E t \in logins[u] : \A s \in logins[u] : s <= t
  BY <1>1, <1>2, LatestExists
<1> QED
  BY <1>3 DEF LastLogin

LEMMA MembersFinite ==
  \A S : S \subseteq Members =>
    IsFiniteSet(S) /\ Cardinality(S) \in Nat /\ Cardinality(S) <= Cardinality(Members)
  BY FS_Subset, FS_CardinalityType

LEMMA NoMore ==
  ASSUME NEW S, NEW T, S \subseteq T, T \subseteq Members
  PROVE  Cardinality(S) \in Nat /\ Cardinality(T) \in Nat /\ Cardinality(S) <= Cardinality(T)
<1>1. IsFiniteSet(T)
  BY MembersFinite
<1> QED
  BY <1>1, FS_Subset, FS_CardinalityType

(* Who is counted in a window was seen in it.                              *)
LEMMA CountedWereSeen ==
  ASSUME ActivityTyped, NEW w PROVE ByLogin(w) \subseteq SeenIn(w)
  BY LastIsLatest DEF ByLogin, SeenIn, Registered

LEMMA SelectedRegistered ==
  ASSUME NEW i, report.kind \in ReportKinds PROVE Selected(i) \subseteq Registered
  BY DEF Selected, ByLogin, Card, ReportKinds

LEMMA CardInRange == ASSUME NEW i PROVE Card(i) \subseteq InRange /\ Card(1) = InRange
  BY DEF Card, InRange

(* The window of the previous period ends before the current one begins.   *)
LEMMA PeriodsApart ==
  ASSUME ActivityTyped
  PROVE  Cardinality(SeenIn(ActiveWindow(1))) + Cardinality(ByLogin(ActiveWindow(2)))
           <= Cardinality(SeenIn([from |-> report.now - 2 * Period, to |-> report.now]))
<1> DEFINE S == SeenIn(ActiveWindow(1))
           B == ByLogin(ActiveWindow(2))
           Both == SeenIn([from |-> report.now - 2 * Period, to |-> report.now])
<1>1. Period \in Nat \ {0} /\ report.now \in Nat
  BY ReportIs DEF ActivityTyped
<1>2. \A u \in Members : logins[u] \in SUBSET Nat
  BY DEF ActivityTyped, TablesTyped
<1>3. S \cap B = {}
  <2> SUFFICES ASSUME NEW u \in S, u \in B PROVE FALSE
    OBVIOUS
  <2>1. u \in Registered /\ LastLogin(u) <= report.now - Period - 1
    BY DEF ByLogin, ActiveWindow, Within
  <2>2. PICK t \in logins[u] : report.now - Period <= t
    BY DEF SeenIn, ActiveWindow, Within
  <2>3. t <= LastLogin(u) /\ t \in Nat /\ LastLogin(u) \in Nat
    BY <1>2, <2>1, <2>2, LastIsLatest DEF Registered
  <2> QED
    BY <1>1, <2>1, <2>2, <2>3
<1>4. S \subseteq Both
  BY <1>1, <1>2 DEF SeenIn, ActiveWindow, Within
<1>5. B \subseteq Both
  <2>1. B \subseteq SeenIn(ActiveWindow(2))
    BY CountedWereSeen
  <2>2. SeenIn(ActiveWindow(2)) \subseteq Both
    BY <1>1, <1>2 DEF SeenIn, ActiveWindow, Within
  <2> QED
    BY <2>1, <2>2
<1>6. S \subseteq Members /\ B \subseteq Members /\ Both \subseteq Members
  BY DEF SeenIn, ByLogin, Registered
<1> HIDE DEF S, B, Both
<1>7. Cardinality(S \cup B) = Cardinality(S) + Cardinality(B)
  <2>1. IsFiniteSet(S) /\ IsFiniteSet(B) /\ Cardinality(S) \in Nat /\ Cardinality(B) \in Nat
    BY <1>6, MembersFinite
  <2> QED
    BY <1>3, <2>1, FS_Union, FS_EmptySet
<1>8. S \cup B \subseteq Both
  BY <1>4, <1>5
<1>9. Cardinality(S \cup B) <= Cardinality(Both)
  BY <1>6, <1>8, NoMore
<1> QED
  BY <1>7, <1>9 DEF S, B, Both

-----------------------------------------------------------------------------

LEMMA WindowsKept ==
  ASSUME report'.now = report.now
  PROVE  \A i : ActiveWindow(i)' = ActiveWindow(i) /\ DayWindow(i)' = DayWindow(i)
  BY DEF ActiveWindow, DayWindow

(* Nobody signs out: who was seen in a window stays seen in it.            *)
LEMMA SeenGrows ==
  ASSUME \A u \in Members : logins[u] \subseteq logins'[u], NEW w, NEW v, v = w
  PROVE  /\ Cardinality(SeenIn(w)) \in Nat
         /\ Cardinality({u \in Members : \E t \in logins'[u] : Within(t, v)}) \in Nat
         /\ Cardinality(SeenIn(w)) <=
              Cardinality({u \in Members : \E t \in logins'[u] : Within(t, v)})
<1> DEFINE after == {u \in Members : \E t \in logins'[u] : Within(t, v)}
<1>1. SeenIn(w) \subseteq after /\ after \subseteq Members
  BY DEF SeenIn
<1> QED
  BY <1>1, NoMore

LEMMA FiguresKept ==
  ASSUME ActivityInv, ActivityTyped', UNCHANGED report,
         \A u \in Members : logins[u] \subseteq logins'[u]
  PROVE  NeverOvercounts'
<1> DEFINE got == report.got
           both == [from |-> report.now - 2 * Period, to |-> report.now]
<1>1. got \in Seq(Nat) /\ report' = report /\ got' = got /\ both' = both
  BY ReportIs DEF ActivityInv, ActivityTyped
<1>2. ASSUME report.kind = "active", NEW i \in DOMAIN got
      PROVE  got[i] <= Cardinality(SeenIn(ActiveWindow(i)))'
  <2>1. got[i] <= Cardinality(SeenIn(ActiveWindow(i))) /\ got[i] \in Nat
    BY <1>1, <1>2 DEF ActivityInv, NeverOvercounts
  <2>2. ActiveWindow(i)' = ActiveWindow(i)
    BY <1>1, WindowsKept
  <2>3. /\ Cardinality(SeenIn(ActiveWindow(i))) \in Nat
        /\ Cardinality(SeenIn(ActiveWindow(i)))' \in Nat
        /\ Cardinality(SeenIn(ActiveWindow(i))) <= Cardinality(SeenIn(ActiveWindow(i)))'
    BY <2>2, SeenGrows DEF SeenIn
  <2> QED
    BY <2>1, <2>3
<1>3. ASSUME report.kind = "active", Len(got) >= 2
      PROVE  got[1] + got[2] <= Cardinality(SeenIn(both))'
  <2>1. got[1] + got[2] <= Cardinality(SeenIn(both)) /\ got[1] \in Nat /\ got[2] \in Nat
    BY <1>1, <1>3 DEF ActivityInv, NeverOvercounts
  <2>2. /\ Cardinality(SeenIn(both)) \in Nat /\ Cardinality(SeenIn(both))' \in Nat
        /\ Cardinality(SeenIn(both)) <= Cardinality(SeenIn(both))'
    BY <1>1, SeenGrows DEF SeenIn
  <2> QED
    BY <2>1, <2>2
<1>4. ASSUME report.kind = "daily", NEW i \in DOMAIN got \ {1}
      PROVE  got[i] <= Cardinality(SeenIn(DayWindow(i)))'
  <2>1. got[i] <= Cardinality(SeenIn(DayWindow(i))) /\ got[i] \in Nat
    BY <1>1, <1>4 DEF ActivityInv, NeverOvercounts
  <2>2. DayWindow(i)' = DayWindow(i)
    BY <1>1, WindowsKept
  <2>3. /\ Cardinality(SeenIn(DayWindow(i))) \in Nat
        /\ Cardinality(SeenIn(DayWindow(i)))' \in Nat
        /\ Cardinality(SeenIn(DayWindow(i))) <= Cardinality(SeenIn(DayWindow(i)))'
    BY <2>2, SeenGrows DEF SeenIn
  <2> QED
    BY <2>1, <2>3
<1> QED
  BY <1>1, <1>2, <1>3, <1>4 DEF NeverOvercounts

(* Cards count users of the range, which grows by those who arrive only.   *)
LEMMA RangeKept ==
  ASSUME ActivityInv, ActivityTyped', UNCHANGED report, InRange' \ arrived' \subseteq InRange \ arrived,
         arrived \subseteq arrived'
  PROVE  TotalCoversRange' /\ CardsWithinTotal'
<1>1. InRange \subseteq Members /\ arrived' \subseteq Members
  BY DEF InRange, Registered, ActivityTyped, TablesTyped
<1>2. report.got \in Seq(Nat)
  BY ReportIs DEF ActivityInv, ActivityTyped
<1>3. /\ Cardinality(InRange' \ arrived') \in Nat /\ Cardinality(InRange \ arrived) \in Nat
      /\ Cardinality(InRange' \ arrived') <= Cardinality(InRange \ arrived)
  <2>1. InRange \ arrived \subseteq Members
    BY <1>1
  <2> QED
    BY <2>1, NoMore
<1>4. /\ Cardinality(arrived) \in Nat /\ Cardinality(arrived') \in Nat
      /\ Cardinality(arrived) <= Cardinality(arrived')
  BY <1>1, NoMore
<1>5. TotalCoversRange'
  BY <1>2, <1>3 DEF ActivityInv, TotalCoversRange
<1>6. CardsWithinTotal'
  BY <1>2, <1>4 DEF ActivityInv, CardsWithinTotal
<1> QED
  BY <1>5, <1>6

LEMMA ActivityInitially == ActivityInit => ActivityInv
<1> SUFFICES ASSUME ActivityInit PROVE ActivityInv
  OBVIOUS
<1>1. Registered = {}
  BY DEF ActivityInit, Registered
<1>2. MaxClock \in Nat /\ <<>> \in Seq(Nat) /\ <<>> \in Seq(0..Cardinality(Members))
  OBVIOUS
<1>3. TablesTyped
  BY <1>1, <1>2 DEF ActivityInit, TablesTyped, NotYet
<1>4. ReportTyped
  BY <1>2 DEF ActivityInit, ReportTyped, Report, NoReport, ReportKinds
<1> QED
  BY <1>3, <1>4 DEF ActivityInit, ActivityInv, ActivityTyped, NeverOvercounts, TotalCoversRange, CardsWithinTotal, NoReport

LEMMA ActivityTickPreserves == ActivityInv /\ Tick => ActivityInv'
<1> SUFFICES ASSUME ActivityInv, Tick PROVE ActivityInv'
  OBVIOUS
<1>1. Registered' = Registered /\ InRange' = InRange /\ clock' = clock + 1 /\ clock \in Nat
  BY DEF Registered, InRange, Tick, ActivityInv, ActivityTyped, TablesTyped
<1>2. ActivityTyped'
  <2>1. clock' \in 0..MaxClock /\ NotYet..clock \subseteq NotYet..clock'
    BY <1>1 DEF Tick, NotYet
  <2>2. joined' \in [Members -> NotYet..clock']
    BY <2>1 DEF ActivityInv, ActivityTyped, TablesTyped, Tick
  <2>3. \A u \in Registered : \A t \in logins[u] : t \in joined[u]..clock'
    BY <1>1 DEF ActivityInv, ActivityTyped, TablesTyped, Registered, NotYet
  <2>4. TablesTyped'
    BY <1>1, <2>1, <2>2, <2>3 DEF ActivityInv, ActivityTyped, TablesTyped, Tick
  <2>5. ReportTyped'
    BY <1>1, ReportStays DEF ActivityInv, ActivityTyped, Tick
  <2> QED
    BY <2>4, <2>5 DEF ActivityTyped
<1> QED
  BY <1>1, <1>2, FiguresKept, RangeKept DEF Tick, ActivityInv

LEMMA JoinPreserves == ASSUME ActivityInv, NEW u \in Members, Join(u) PROVE ActivityInv'
<1>1. u \notin Registered /\ Registered' = Registered \cup {u} /\ clock \in Nat
  BY DEF Registered, Join, NotYet, ActivityInv, ActivityTyped, TablesTyped
<1>2. /\ joined' \in [Members -> NotYet..clock] /\ joined'[u] = clock
      /\ \A v \in Members \ {u} : joined'[v] = joined[v]
  BY <1>1 DEF Join, NotYet, ActivityInv, ActivityTyped, TablesTyped
<1>3. /\ logins' \in [Members -> SUBSET Nat] /\ logins'[u] = {clock} /\ logins[u] = {}
      /\ \A v \in Members \ {u} : logins'[v] = logins[v]
  BY <1>1 DEF Join, ActivityInv, ActivityTyped, TablesTyped
<1>4. ActivityTyped'
  <2>1. \A v \in Registered' : \A t \in logins'[v] : t \in joined'[v]..clock
    BY <1>1, <1>2, <1>3 DEF ActivityInv, ActivityTyped, TablesTyped, Registered
  <2>2. \A v \in Members : IF v \in Registered' THEN joined'[v] \in logins'[v] ELSE logins'[v] = {}
    BY <1>1, <1>2, <1>3 DEF ActivityInv, ActivityTyped, TablesTyped
  <2>3. TablesTyped'
    BY <1>1, <1>2, <1>3, <2>1, <2>2 DEF ActivityInv, ActivityTyped, TablesTyped, Join
  <2>4. ReportTyped'
    BY <1>1, ReportStays DEF ActivityInv, ActivityTyped, Join
  <2> QED
    BY <2>3, <2>4 DEF ActivityTyped
<1>5. \/ InRange' \ arrived' \subseteq InRange \ arrived /\ arrived \subseteq arrived'
      \/ report.kind = "none"
  BY <1>1, <1>2 DEF InRange, Join
<1>6. NeverOvercounts'
  BY <1>3, <1>4, FiguresKept DEF Join
<1>7. CASE report.kind = "none"
  BY <1>4, <1>6, <1>7 DEF Join, ActivityInv, TotalCoversRange, CardsWithinTotal
<1>8. CASE report.kind # "none"
  BY <1>4, <1>5, <1>6, <1>8, RangeKept DEF Join, ActivityInv
<1> QED
  BY <1>7, <1>8

LEMMA BecomeBusinessPreserves ==
  ASSUME ActivityInv, NEW u \in Members, BecomeBusiness(u) PROVE ActivityInv'
<1>1. Registered' = Registered /\ InRange' = InRange
  BY DEF Registered, InRange, BecomeBusiness
<1>2. ActivityTyped'
  <2>1. TablesTyped'
    BY <1>1 DEF ActivityInv, ActivityTyped, TablesTyped, BecomeBusiness
  <2>2. ReportTyped'
    BY ReportStays DEF ActivityInv, ActivityTyped, TablesTyped, BecomeBusiness
  <2> QED
    BY <2>1, <2>2 DEF ActivityTyped
<1> QED
  BY <1>1, <1>2, FiguresKept, RangeKept DEF BecomeBusiness, ActivityInv

LEMMA SignInPreserves == ASSUME ActivityInv, NEW u \in Members, SignIn(u) PROVE ActivityInv'
<1>1. Registered' = Registered /\ InRange' = InRange /\ clock \in Nat /\ u \in Registered
  BY DEF Registered, InRange, SignIn, ActivityInv, ActivityTyped, TablesTyped
<1>2. /\ logins' \in [Members -> SUBSET Nat] /\ logins'[u] = logins[u] \cup {clock}
      /\ \A v \in Members \ {u} : logins'[v] = logins[v]
  BY <1>1 DEF SignIn, ActivityInv, ActivityTyped, TablesTyped
<1>3. clock \in joined[u]..clock
  BY <1>1 DEF Registered, ActivityInv, ActivityTyped, TablesTyped, NotYet
<1>4. ActivityTyped'
  <2>1. \A v \in Registered : \A t \in logins'[v] : t \in joined[v]..clock
    BY <1>1, <1>2, <1>3 DEF ActivityInv, ActivityTyped, TablesTyped, Registered
  <2>2. \A v \in Members : IF v \in Registered THEN joined[v] \in logins'[v] ELSE logins'[v] = {}
    BY <1>1, <1>2 DEF ActivityInv, ActivityTyped, TablesTyped
  <2>3. TablesTyped'
    BY <1>1, <1>2, <2>1, <2>2 DEF ActivityInv, ActivityTyped, TablesTyped, SignIn
  <2>4. ReportTyped'
    BY <1>1, ReportStays DEF ActivityInv, ActivityTyped, SignIn
  <2> QED
    BY <2>3, <2>4 DEF ActivityTyped
<1> QED
  BY <1>1, <1>2, <1>4, FiguresKept, RangeKept DEF SignIn, ActivityInv

LEMMA ReportStartPreserves ==
  ASSUME ActivityInv, NEW kind \in ReportKinds, NEW from \in 0..MaxClock, from <= clock,
         ReportStart(kind, from)
  PROVE  ActivityInv'
<1>1. Registered' = Registered
  BY DEF Registered, ReportStart
<1>2. clock \in Nat /\ from \in Nat /\ <<>> \in Seq(0..Cardinality(Members))
  BY DEF ActivityInv, ActivityTyped, TablesTyped
<1>3. /\ report'.kind = kind /\ report'.now = clock /\ report'.from = from /\ report'.got = <<>>
      /\ report' \in Report
  BY <1>2 DEF ReportStart, Report
<1>4. TablesTyped'
  BY <1>1 DEF ActivityInv, ActivityTyped, TablesTyped, ReportStart
<1>5. ReportTyped'
  <2>1. Queries(kind) \in Nat /\ Queries(kind)' = Queries(kind) /\ Report' = Report
    BY DEF Queries, ReportKinds, Report
  <2> QED
    BY <1>2, <1>3, <2>1 DEF ReportTyped, ReportStart
<1> QED
  BY <1>3, <1>4, <1>5 DEF ActivityInv, ActivityTyped, NeverOvercounts, TotalCoversRange, CardsWithinTotal

LEMMA ReportEndPreserves == ActivityInv /\ ReportEnd => ActivityInv'
<1> SUFFICES ASSUME ActivityInv, ReportEnd PROVE ActivityInv'
  OBVIOUS
<1>1. Registered' = Registered
  BY DEF Registered, ReportEnd
<1>2. clock \in Nat /\ <<>> \in Seq(0..Cardinality(Members))
  BY DEF ActivityInv, ActivityTyped, TablesTyped
<1>3. /\ report'.kind = "over" /\ report'.now = 0 /\ report'.from = 0 /\ report'.got = <<>>
      /\ report' \in Report
  BY <1>2 DEF ReportEnd, NoReport, Report
<1>4. TablesTyped'
  BY <1>1 DEF ActivityInv, ActivityTyped, TablesTyped, ReportEnd
<1>5. ReportTyped'
  <2>1. Report' = Report
    BY DEF Report
  <2> QED
    BY <1>2, <1>3, <2>1 DEF ReportTyped, ReportEnd, ReportKinds
<1> QED
  BY <1>3, <1>4, <1>5 DEF ActivityInv, ActivityTyped, NeverOvercounts, TotalCoversRange, CardsWithinTotal

(* The next figure is the number of those its query selects.               *)
LEMMA QueryStep ==
  ASSUME ActivityInv, Query
  PROVE  LET i == Len(report.got) + 1
             n == Cardinality(Selected(i))
         IN  /\ i \in Nat /\ n \in 0..Cardinality(Members) /\ i <= Queries(report.kind)
             /\ report'.kind = report.kind /\ report'.now = report.now /\ report'.from = report.from
             /\ report'.got \in Seq(0..Cardinality(Members)) /\ Len(report'.got) = i
             /\ report'.got[i] = n /\ \A j \in 1..(i - 1) : report'.got[j] = report.got[j]
             /\ report' \in Report
<1> DEFINE got == report.got
           i == Len(got) + 1
           n == Cardinality(Selected(i))
<1>1. /\ report \in Report
      /\ got \in Seq(0..Cardinality(Members)) /\ got \in Seq(Nat) /\ report.kind \in ReportKinds
      /\ Len(got) < Queries(report.kind) /\ Queries(report.kind) \in Nat
  BY ReportIs DEF ActivityInv, ActivityTyped, ReportTyped, Query, Queries, ReportKinds
<1>2. n \in 0..Cardinality(Members)
  <2>1. Selected(i) \subseteq Members
    BY <1>1, SelectedRegistered DEF Registered
  <2>2. Cardinality(Members) \in Nat
    BY MembersFinite
  <2> QED
    BY <2>1, <2>2, MembersFinite
<1>3. report' = [report EXCEPT !.got = Append(got, n)]
  BY DEF Query
<1> HIDE DEF n
<1>4. /\ Append(got, n) \in Seq(0..Cardinality(Members)) /\ Append(got, n) \in Seq(Nat)
      /\ Len(Append(got, n)) = i /\ Append(got, n)[i] = n
      /\ \A j \in 1..(i - 1) : Append(got, n)[j] = got[j]
  BY <1>1, <1>2
<1>5. report'.got = Append(got, n) /\ report'.kind = report.kind /\ report'.now = report.now
      /\ report'.from = report.from
      /\ report' \in Report
  BY <1>1, <1>3, <1>4 DEF Report
<1> QED
  BY <1>1, <1>2, <1>4, <1>5 DEF n

LEMMA QueryPreserves == ActivityInv /\ Query => ActivityInv'
<1> SUFFICES ASSUME ActivityInv, Query PROVE ActivityInv'
  OBVIOUS
<1> DEFINE got == report.got
           i == Len(got) + 1
           n == Cardinality(Selected(i))
           next == report'.got
           both == [from |-> report.now - 2 * Period, to |-> report.now]
<1>1. /\ i \in Nat /\ n \in 0..Cardinality(Members) /\ i <= Queries(report.kind)
      /\ report'.kind = report.kind /\ report'.now = report.now /\ report'.from = report.from
      /\ next \in Seq(0..Cardinality(Members)) /\ Len(next) = i
      /\ next[i] = n /\ \A j \in 1..(i - 1) : next[j] = got[j]
      /\ report' \in Report
  BY QueryStep
<1>2. /\ UNCHANGED <<clock, joined, business, logins, arrived>> /\ Registered' = Registered
      /\ InRange' = InRange /\ \A w : SeenIn(w)' = SeenIn(w)
  BY <1>1 DEF Query, Registered, InRange, SeenIn
<1>3. got \in Seq(Nat) /\ next \in Seq(Nat) /\ n \in Nat /\ DOMAIN next = 1..i /\ DOMAIN got = 1..(i - 1)
      /\ Len(got) = i - 1 /\ report.kind \in ReportKinds
  BY <1>1, ReportIs DEF ActivityInv, ActivityTyped, Query
<1>a. i - 1 = Len(got)
  BY <1>3
<1> HIDE DEF i, n, got, next
<1>4. ActivityTyped'
  <2>1. Queries(report.kind)' = Queries(report.kind)
    BY <1>1 DEF Queries
  <2> QED
    BY <1>1, <1>2, <2>1 DEF ActivityInv, ActivityTyped, TablesTyped, ReportTyped, Report, next
<1>5. \A w : ByLogin(w) \subseteq SeenIn(w) /\ SeenIn(w) \subseteq Members
  BY CountedWereSeen DEF ActivityInv, SeenIn
<1>6. \A j : ActiveWindow(j)' = ActiveWindow(j) /\ DayWindow(j)' = DayWindow(j)
  BY <1>1, WindowsKept
<1>7. NeverOvercounts'
  <2>1. ASSUME report.kind = "active", NEW j \in 1..i
        PROVE  next[j] <= Cardinality(SeenIn(ActiveWindow(j)))
    <3>1. CASE j = i
      <4>1. n = Cardinality(ByLogin(ActiveWindow(i)))
        BY <2>1 DEF Selected, n
      <4> QED
        BY <1>1, <1>5, <3>1, <4>1, NoMore
    <3>2. CASE j # i
      <4>1. j \in DOMAIN got /\ next[j] = got[j]
        BY <1>1, <1>3, <2>1, <3>2
      <4>2. \A m \in DOMAIN got : got[m] <= Cardinality(SeenIn(ActiveWindow(m)))
        BY <2>1 DEF ActivityInv, NeverOvercounts, got
      <4> QED
        BY <4>1, <4>2
    <3> QED
      BY <3>1, <3>2
  <2>2. ASSUME report.kind = "active", i >= 2
        PROVE  next[1] + next[2] <= Cardinality(SeenIn(both))
    <3>1. CASE i = 2
      <4>1. n = Cardinality(ByLogin(ActiveWindow(2)))
        BY <2>2, <3>1 DEF Selected, n
      <4>2. got[1] <= Cardinality(SeenIn(ActiveWindow(1))) /\ got[1] \in Nat
        BY <1>3, <2>2, <3>1 DEF ActivityInv, NeverOvercounts, got
      <4>3. /\ Cardinality(SeenIn(ActiveWindow(1))) \in Nat /\ Cardinality(SeenIn(both)) \in Nat
            /\ Cardinality(ByLogin(ActiveWindow(2))) \in Nat
            /\ Cardinality(SeenIn(ActiveWindow(1))) + Cardinality(ByLogin(ActiveWindow(2)))
                 <= Cardinality(SeenIn(both))
        BY <1>5, PeriodsApart, MembersFinite DEF ActivityInv
      <4>4. next[1] = got[1] /\ next[2] = n
        BY <1>1, <3>1
      <4> HIDE DEF both
      <4> QED
        BY <4>1, <4>2, <4>3, <4>4
    <3>2. CASE i > 2
      BY <1>1, <1>3, <2>2, <3>2 DEF ActivityInv, NeverOvercounts, got
    <3> QED
      BY <1>1, <2>2, <3>1, <3>2
  <2>3. ASSUME report.kind = "daily", NEW j \in 1..i \ {1}
        PROVE  next[j] <= Cardinality(SeenIn(DayWindow(j)))
    <3>1. CASE j = i
      <4>1. n = Cardinality(ByLogin(DayWindow(i)))
        BY <2>3, <3>1 DEF Selected, n
      <4> QED
        BY <1>1, <1>5, <3>1, <4>1, NoMore
    <3>2. CASE j # i
      <4>1. j \in DOMAIN got /\ next[j] = got[j]
        BY <1>1, <1>3, <2>3, <3>2
      <4>2. \A m \in DOMAIN got \ {1} : got[m] <= Cardinality(SeenIn(DayWindow(m)))
        BY <2>3 DEF ActivityInv, NeverOvercounts, got
      <4> QED
        BY <4>1, <4>2
    <3> QED
      BY <3>1, <3>2
  <2> QED
    BY <1>1, <1>2, <1>3, <1>6, <2>1, <2>2, <2>3 DEF NeverOvercounts, next
<1>8. ASSUME report.kind = "cards"
      PROVE  /\ Cardinality(InRange \ arrived) <= next[1]
             /\ \A j \in 1..i : next[j] <= next[1] + Cardinality(arrived)
  <2>1. InRange \subseteq Members /\ arrived \subseteq Members
    BY DEF InRange, Registered, ActivityInv, ActivityTyped, TablesTyped
  <2>2. /\ Cardinality(InRange) \in Nat /\ Cardinality(arrived) \in Nat
        /\ Cardinality(InRange \ arrived) \in Nat
        /\ Cardinality(InRange \ arrived) <= Cardinality(InRange)
        /\ Cardinality(InRange) <= Cardinality(InRange \ arrived) + Cardinality(arrived)
    <3>1. IsFiniteSet(InRange) /\ IsFiniteSet(arrived) /\ InRange \ arrived \subseteq InRange
      BY <2>1, MembersFinite
    <3>2. /\ Cardinality(InRange \ arrived) = Cardinality(InRange) - Cardinality(InRange \cap arrived)
          /\ InRange \cap arrived \subseteq arrived
      BY <3>1, FS_Difference
    <3>3. Cardinality(InRange \cap arrived) <= Cardinality(arrived) /\ Cardinality(InRange \cap arrived) \in Nat
      BY <2>1, <3>2, NoMore
    <3> QED
      BY <2>1, <3>1, <3>2, <3>3, NoMore
  <2>3. n <= Cardinality(InRange) /\ (i = 1 => n = Cardinality(InRange))
    <3>1. n = Cardinality(Card(i))
      BY <1>8 DEF Selected, n
    <3> QED
      BY <2>1, <3>1, CardInRange, NoMore
  <2>4. next[1] \in Nat /\ Cardinality(InRange \ arrived) <= next[1]
    <3>1. CASE i = 1
      BY <1>1, <1>3, <2>2, <2>3, <3>1
    <3>2. CASE i # 1
      <4>1. i > 1 /\ next[1] = got[1] /\ got[1] \in Nat /\ Len(got) > 0
        BY <1>1, <1>3, <3>2
      <4>2. Cardinality(InRange \ arrived) <= got[1]
        BY <1>8, <4>1 DEF ActivityInv, TotalCoversRange, got
      <4> QED
        BY <4>1, <4>2
    <3> QED
      BY <3>1, <3>2
  <2>5. ASSUME NEW j \in 1..i PROVE next[j] <= next[1] + Cardinality(arrived)
    <3>1. CASE j = i
      BY <1>1, <1>3, <2>2, <2>3, <2>4, <3>1
    <3>2. CASE j # i
      <4>1. j \in DOMAIN got /\ next[j] = got[j] /\ next[1] = got[1]
        BY <1>1, <1>3, <3>2
      <4>2. \A m \in DOMAIN got : got[m] <= got[1] + Cardinality(arrived)
        BY <1>8 DEF ActivityInv, CardsWithinTotal, got
      <4> QED
        BY <4>1, <4>2
    <3> QED
      BY <3>1, <3>2
  <2> QED
    BY <2>4, <2>5
<1>9. TotalCoversRange' /\ CardsWithinTotal'
  BY <1>1, <1>2, <1>3, <1>8 DEF TotalCoversRange, CardsWithinTotal, next
<1> QED
  BY <1>4, <1>7, <1>9 DEF ActivityInv

LEMMA ActivityPreserves == ActivityInv /\ [ActivityNext]_activityVars => ActivityInv'
<1>1. ASSUME ActivityInv, UNCHANGED activityVars PROVE ActivityInv'
  <2>1. Registered' = Registered /\ InRange' = InRange /\ \A u \in Members : logins'[u] = logins[u]
    BY <1>1 DEF Registered, InRange, activityVars
  <2>2. ActivityTyped'
    <3>1. TablesTyped'
      BY <1>1, <2>1 DEF ActivityInv, ActivityTyped, TablesTyped, activityVars
    <3>2. ReportTyped'
      BY <1>1, ReportStays DEF ActivityInv, ActivityTyped, TablesTyped, activityVars
    <3> QED
      BY <3>1, <3>2 DEF ActivityTyped
  <2> QED
    BY <1>1, <2>1, <2>2, FiguresKept, RangeKept DEF activityVars, ActivityInv
<1> QED
  BY <1>1, ActivityTickPreserves, JoinPreserves, BecomeBusinessPreserves, SignInPreserves,
     ReportStartPreserves, ReportEndPreserves, QueryPreserves DEF ActivityNext

(* The inductive invariant of the analytics.                               *)
THEOREM ActivityInvariance == ActivitySpec => []ActivityInv
  BY ActivityInitially, ActivityPreserves, PTL DEF ActivitySpec

(* The figures of active users never count more users than signed in within *)
(* their windows, and the two periods together nobody twice.               *)
THEOREM FiguresNeverOvercount == ActivitySpec => []NeverOvercounts
<1>1. ActivityInv => NeverOvercounts
  BY DEF ActivityInv
<1> QED
  BY ActivityInvariance, <1>1, PTL

(* The cards of the dashboard, counted one query after the other, never    *)
(* exceed the total by more than those who registered in between.          *)
THEOREM CardsStayWithinTotal == ActivitySpec => []CardsWithinTotal
<1>1. ActivityInv => CardsWithinTotal
  BY DEF ActivityInv
<1> QED
  BY ActivityInvariance, <1>1, PTL

HIDE ActivityAssumption

-----------------------------------------------------------------------------
(* The parts together *)

UsersInv == AccountsInv /\ ProfilesInv /\ RolesInv /\ ListingInv /\ ActivityInv
userVars == <<part, accountVars, profileVars, roleVars, listingVars, activityVars>>

LEMMA UsersInitially == Init => UsersInv
  BY AccountsInitially, ProfilesInitially, RolesInitially, ListingInitially, ActivityInitially
     DEF Init, UsersInv

(* A step is a step of one part, or none of it, for every part.            *)
LEMMA UsersPreserve == UsersInv /\ [Next]_userVars => UsersInv'
<1> SUFFICES ASSUME UsersInv, [Next]_userVars PROVE UsersInv'
  OBVIOUS
<1>1. [AccountsNext]_accountVars
  BY DEF Next, userVars
<1>2. [ProfilesNext]_profileVars
  BY DEF Next, userVars
<1>3. [RolesNext]_roleVars
  BY DEF Next, userVars
<1>4. [ListingNext]_listingVars
  BY DEF Next, userVars
<1>5. [ActivityNext]_activityVars
  BY DEF Next, userVars
<1>6. ProfilesInv'
  BY <1>2, ProfilesPreserves, Stutter DEF UsersInv
<1> QED
  BY <1>1, <1>3, <1>4, <1>5, <1>6, AccountsPreserves, RolesPreserves, ListingPreserves,
     ActivityPreserves DEF UsersInv

(* Whichever part runs, every part keeps its inductive invariant.          *)
THEOREM UsersInvariance == Spec => []UsersInv
  BY UsersInitially, UsersPreserve, PTL DEF Spec, userVars

LEMMA ProfilesTyped == ProfilesInv => ProfilesTypeOK
<1> SUFFICES ASSUME ProfilesInv PROVE ProfilesTypeOK
  OBVIOUS
<1>1. ASSUME NEW r \in Reads
      PROVE  /\ [f \in {"pc", "kind", "todo", "user", "asked"} |-> reading[r][f]] \in Reading
             /\ reading[r].got \in [People -> Profile \cup {Nothing}]
             /\ reading[r].pc \in Parts => reading[r].got[reading[r].user] # Nothing
  <2>1. reading[r] \in Call /\ ReadWhole(r)
    BY DEF ProfilesInv, TypedReads
  <2> QED
    BY <2>1 DEF Call, Reading, ReadWhole
<1> QED
  BY <1>1 DEF ProfilesInv, Store, TypedStore, TypedReads, ProfilesTypeOK

(* Every table, request, report and history always holds values of its     *)
(* kind, whichever part runs.                                              *)
THEOREM UserServiceTypeCorrect == Spec => []TypeOK
<1>1. UsersInv => TypeOK
  BY ProfilesTyped, ListingTypedIsTyped, ActivityTypedIsTyped
     DEF UsersInv, AccountsInv, RolesInv, ListingInv, ActivityInv, TypeOK
<1> QED
  BY UsersInvariance, <1>1, PTL

=============================================================================
