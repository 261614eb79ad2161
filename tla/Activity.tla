------------------------------- MODULE Activity -------------------------------
(***************************************************************************)
(* The figures on the dashboards: activeUsersCount and                     *)
(* dailyActiveUsersMetrics (src/src/analytics/analytics.service.ts) and    *)
(* AdminGetUserAnalytics (src/src/user/user.service.ts).  Each runs one    *)
(* count after the other while users sign in, which moves last_login, and  *)
(* new ones arrive.                                                        *)
(***************************************************************************)
EXTENDS Integers, FiniteSets, Sequences

CONSTANTS
  Members,    \* user ids
  Day,        \* a day, in ticks
  Period,     \* "the last 30 days", in ticks
  Week,       \* the distance of two points of the trend, in ticks
  Points,     \* points of the trend, 8
  Days,       \* days of the metrics, 7
  MaxClock,   \* BOUND: the clock stops here
  MaxLogins   \* BOUND: sign-ins of one user

ASSUME ActivityAssumption ==
  /\ IsFiniteSet(Members)
  /\ {Day, Period, Week} \subseteq Nat \ {0} /\ {Points, Days, MaxClock, MaxLogins} \subseteq Nat

VARIABLES
  clock,
  joined,    \* users -> created_at; NotYet before they register
  business,  \* users with an active business_users row
  logins,    \* history: users -> when they registered and signed in; last_login
             \* is the latest, for it is now() by default
  report,    \* the report in progress
  arrived    \* history: users that registered while the report was made

activityVars == <<clock, joined, business, logins, report, arrived>>

NotYet == -1
Registered == {u \in Members : joined[u] # NotYet}
Window == [from : Int, to : Int]
Within(t, w) == w.from <= t /\ t <= w.to
LastLogin(u) == CHOOSE t \in logins[u] : \A s \in logins[u] : s <= t

ReportKinds == {"active", "daily", "cards"}
NoReport == [kind |-> "none", now |-> 0, from |-> 0, got |-> <<>>]

ActivityInit ==
  /\ clock = 0 /\ business = {}
  /\ joined = [u \in Members |-> NotYet] /\ logins = [u \in Members |-> {}]
  /\ report = NoReport /\ arrived = {}

-----------------------------------------------------------------------------
(* The queries of a report, by number *)

(* Mutation: a window is open at its end. *)
ActiveWindowOpen(i) ==
  IF i = 1 THEN [from |-> report.now - Period, to |-> report.now]
  ELSE IF i = 2 THEN [from |-> report.now - 2 * Period, to |-> MaxClock]
  ELSE [from |-> report.now - (i - 3) * Week - Period, to |-> report.now - (i - 3) * Week]

(* The current period, the one before it, which ends where it begins, and  *)
(* the points of the trend, a period long each and a week apart.           *)
ActiveWindow(i) ==
  IF i = 1 THEN [from |-> report.now - Period, to |-> report.now]
  ELSE IF i = 2 THEN [from |-> report.now - 2 * Period, to |-> report.now - Period - 1]
  ELSE [from |-> report.now - (i - 3) * Week - Period, to |-> report.now - (i - 3) * Week]

(* A day from its first to its last moment, the oldest first; today ends   *)
(* after now.  The first query counts all users.                           *)
DayWindow(i) ==
  LET day == report.now \div Day - (Days + 1 - i)
  IN  [from |-> day * Day, to |-> day * Day + Day - 1]

ByLogin(w) == {u \in Registered : Within(LastLogin(u), w)}

(* Mutation: the card of business users ignores the range.                 *)
CardUnfiltered(i) ==
  LET inRange == {u \in Registered : joined[u] >= report.from}
  IN  IF i = 2 THEN business ELSE inRange

(* Users that were created in the range of the request; those of them that *)
(* are business users; the ones new this month, taken as a Period long;    *)
(* and the "deactivated" ones, which are those without deleted_at: nothing *)
(* sets that column.                                                       *)
Card(i) ==
  LET inRange == {u \in Registered : joined[u] >= report.from}
  IN  CASE i = 2 -> inRange \cap business
        [] i = 3 -> {u \in inRange : Within(joined[u], [from |-> report.now - Period, to |-> report.now])}
        [] OTHER -> inRange

Queries(kind) == CASE kind = "active" -> 2 + Points [] kind = "daily" -> 1 + Days [] kind = "cards" -> 4

Selected(i) ==
  CASE report.kind = "active" -> ByLogin(ActiveWindow(i))
    [] report.kind = "daily" -> IF i = 1 THEN Registered ELSE ByLogin(DayWindow(i))
    [] report.kind = "cards" -> Card(i)

ReportStart(kind, from) ==
  /\ report.kind = "none"
  /\ report' = [kind |-> kind, now |-> clock, from |-> from, got |-> <<>>]
  /\ arrived' = {}
  /\ UNCHANGED <<clock, joined, business, logins>>

Query ==
  /\ report.kind \in ReportKinds /\ Len(report.got) < Queries(report.kind)
  /\ report' = [report EXCEPT !.got = Append(@, Cardinality(Selected(Len(@) + 1)))]
  /\ UNCHANGED <<clock, joined, business, logins, arrived>>

(* The answer is sent; or a query fails, and the two of the analytics      *)
(* service answer with zeros.  BOUND: one report, and nothing after it.    *)
ReportEnd ==
  /\ report.kind \in ReportKinds
  /\ report' = [NoReport EXCEPT !.kind = "over"] /\ arrived' = {}
  /\ UNCHANGED <<clock, joined, business, logins>>

-----------------------------------------------------------------------------
(* The other operations of the service *)

Tick ==
  /\ clock < MaxClock /\ clock' = clock + 1
  /\ UNCHANGED <<joined, business, logins, report, arrived>>

(* register; then the business-user queue.                                 *)
Join(u) ==
  /\ joined[u] = NotYet
  /\ joined' = [joined EXCEPT ![u] = clock] /\ logins' = [logins EXCEPT ![u] = {clock}]
  /\ arrived' = IF report.kind = "none" THEN {} ELSE arrived \cup {u}
  /\ UNCHANGED <<clock, business, report>>

BecomeBusiness(u) ==
  /\ u \in Registered \ business
  /\ business' = business \cup {u}
  /\ UNCHANGED <<clock, joined, logins, report, arrived>>

(* verifyOtp sets last_login.                                              *)
SignIn(u) ==
  /\ u \in Registered /\ Cardinality(logins[u]) <= MaxLogins
  /\ logins' = [logins EXCEPT ![u] = @ \cup {clock}]
  /\ UNCHANGED <<clock, joined, business, report, arrived>>

ActivityNext ==
  \/ Query \/ ReportEnd
  \/ \E kind \in ReportKinds, from \in 0..MaxClock :
       from <= clock /\ (kind # "cards" => from = 0) /\ ReportStart(kind, from)
  \/ report.kind # "over" /\ (Tick \/ \E u \in Members : Join(u) \/ BecomeBusiness(u) \/ SignIn(u))

ActivitySpec == ActivityInit /\ [][ActivityNext]_activityVars

-----------------------------------------------------------------------------
(* Properties *)

(* Every user has a last_login, between its registration and now.          *)
ActivityTypeOK ==
  /\ clock \in 0..MaxClock /\ joined \in [Members -> NotYet..clock]
  /\ business \subseteq Registered /\ arrived \subseteq Registered
  /\ \A u \in Members : IF u \in Registered THEN joined[u] \in logins[u] ELSE logins[u] = {}
  /\ \A u \in Registered : \A t \in logins[u] : t \in joined[u]..clock
  /\ report.kind \in ReportKinds \cup {"none", "over"} /\ report.now \in 0..clock /\ report.from \in 0..report.now
  /\ report.got \in Seq(0..Cardinality(Members))
  /\ report.kind \in ReportKinds => Len(report.got) <= Queries(report.kind)

SeenIn(w) == {u \in Members : \E t \in logins[u] : Within(t, w)}

(* A figure never counts more users than registered or signed in during    *)
(* its window, and nobody stands in both the current and the previous      *)
(* period, although sign-ins move users from window to window between two  *)
(* counts.  (It may count fewer: last_login keeps the latest only.)        *)
NeverOvercounts ==
  LET got == report.got
  IN  /\ report.kind = "active" =>
           /\ \A i \in DOMAIN got : got[i] <= Cardinality(SeenIn(ActiveWindow(i)))
           /\ Len(got) >= 2 => got[1] + got[2] <= Cardinality(SeenIn([from |-> report.now - 2 * Period, to |-> report.now]))
      /\ report.kind = "daily" =>
           \A i \in DOMAIN got \ {1} : got[i] <= Cardinality(SeenIn(DayWindow(i)))

(* No card shows more users than the total beside it, but for those that   *)
(* registered after the total was counted.                                 *)
CardsWithinTotal ==
  report.kind = "cards" =>
    \A i \in DOMAIN report.got : report.got[i] <= report.got[1] + Cardinality(arrived)
=============================================================================
