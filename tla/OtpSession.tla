------------------------------ MODULE OtpSession ------------------------------
(***************************************************************************)
(* Signing in (src/src/auth/auth.service.ts): register and login create a  *)
(* one-time code and hand out an auth token; sendOtp creates another code; *)
(* verifyOtp redeems a code for a session; logout removes the session.     *)
(* The tables are verifications, user_sessions and users.  Each database   *)
(* call is one step and requests interleave between them.                  *)
(***************************************************************************)
EXTENDS Integers

CONSTANTS
  Users,      \* user ids
  Ids,        \* ids of verification rows
  Requests,   \* slots for requests in progress
  LoginLife,  \* life of a code made by register and login (70 s), in ticks
  ResendLife, \* life of a code made by sendOtp (95 s), in ticks
  TokenLife,  \* life of an auth token (10 min), in ticks
  MaxTime,    \* BOUND: the clock stops here
  None        \* an unused field

ASSUME ConstantsAssumption ==
  /\ {LoginLife, ResendLife, TokenLife} \subseteq Nat \ {0}
  /\ MaxTime \in Nat
  /\ None \notin Users \cup Ids

VARIABLES
  now,       \* the clock
  account,   \* users: "new" before register, then "live", then "gone"
  verified,  \* users with email_verified
  row,       \* verifications: id -> row
  sessions,  \* users with a user_sessions row for source WEB
  token,     \* per user, when the latest auth token runs out; 0 for none
  req,       \* the local state of each request
  spent,     \* history: rows a verifyOtp deleted to redeem them
  grants     \* history: sign-ins answered with an access token, by row

dbVars == <<account, verified, row, sessions>>
vars == <<now, account, verified, row, sessions, token, req, spent, grants>>

(* A code is known by its row: a request names a row by quoting its code,  *)
(* and when two rows of a user have the same code either may be found.     *)
Unused == [st |-> "unused"]
Gone(id) == [st |-> "gone", user |-> row[id].user]
Row == [st : {"unused"}] \cup [st : {"live"}, user : Users, expires : Nat]
       \cup [st : {"gone"}, user : Users]

VerifySteps == {"expire", "take", "mark", "session", "touch", "clean"}
PaidSteps == {"mark", "session", "touch", "clean"}
Request == [pc : {"idle", "code_login", "code_resend"} \cup VerifySteps,
            user : Users \cup {None}, id : Ids \cup {None},
            registration : BOOLEAN, device : BOOLEAN]
Idle == [pc |-> "idle", user |-> None, id |-> None,
         registration |-> FALSE, device |-> FALSE]

Free(r) == req[r].pc = "idle"
Live(u) == account[u] = "live"
Owner(r) == req[r].user
Goto(r, step) == req' = [req EXCEPT ![r].pc = step]
Finish(r) == req' = [req EXCEPT ![r] = Idle]
LiveCodes(u) == {id \in Ids : row[id].st = "live" /\ row[id].user = u}
DeleteCodes(ids) == row' = [id \in Ids |-> IF id \in ids THEN Gone(id) ELSE row[id]]

Init ==
  /\ now = 0
  /\ account = [u \in Users |-> "new"]
  /\ verified = {}
  /\ row = [id \in Ids |-> Unused]
  /\ sessions = {}
  /\ token = [u \in Users |-> 0]
  /\ req = [r \in Requests |-> Idle]
  /\ spent = {}
  /\ grants = [id \in Ids |-> 0]

-----------------------------------------------------------------------------
(* register, login and sendOtp *)

(* Register inserts the user and goes on to _sendOtp; what it does for the *)
(* organization queue and for staff is in module Onboarding.               *)
Register(r, u) ==
  /\ Free(r)
  /\ account[u] = "new"
  /\ account' = [account EXCEPT ![u] = "live"]
  /\ req' = [req EXCEPT ![r] = [Idle EXCEPT !.pc = "code_login", !.user = u]]
  /\ UNCHANGED <<now, verified, row, sessions, token, spent, grants>>

(* The user is found, directly or through business_users, and the password *)
(* matches.                                                                *)
Login(r, u) ==
  /\ Free(r)
  /\ Live(u)
  /\ req' = [req EXCEPT ![r] = [Idle EXCEPT !.pc = "code_login", !.user = u]]
  /\ UNCHANGED <<now, dbVars, token, spent, grants>>

SendOtp(r, u) ==
  /\ Free(r)
  /\ now < token[u]
  /\ Live(u)
  /\ req' = [req EXCEPT ![r] = [Idle EXCEPT !.pc = "code_resend", !.user = u]]
  /\ UNCHANGED <<now, dbVars, token, spent, grants>>

(* Mutation: the optional column user_id is left null.                     *)
CreateCodeUnowned(r) ==
  /\ req[r].pc \in {"code_login", "code_resend"}
  /\ \E id \in {i \in Ids : row[i].st = "unused"} :
       row' = [row EXCEPT ![id] = [st |-> "live", user |-> None, expires |-> now + LoginLife]]
  /\ Finish(r)
  /\ UNCHANGED <<now, account, verified, sessions, token, spent, grants>>

(* Mutation: a row of the user that was deleted is written again.          *)
CreateCodeAgain(r) ==
  /\ req[r].pc \in {"code_login", "code_resend"}
  /\ Live(Owner(r))
  /\ \E id \in {i \in Ids : row[i].st = "unused" \/ row[i] = [st |-> "gone", user |-> Owner(r)]} :
       row' = [row EXCEPT ![id] =
         [st |-> "live", user |-> Owner(r),
          expires |-> now + IF req[r].pc = "code_login" THEN LoginLife ELSE ResendLife]]
  /\ token' = IF req[r].pc = "code_login"
              THEN [token EXCEPT ![Owner(r)] = now + TokenLife] ELSE token
  /\ Finish(r)
  /\ UNCHANGED <<now, account, verified, sessions, spent, grants>>

(* _sendOtp, and the same lines of sendOtp: insert the row; only _sendOtp  *)
(* signs a token.  verifications.user_id references users.                 *)
CreateCode(r) ==
  /\ req[r].pc \in {"code_login", "code_resend"}
  /\ Live(Owner(r))
  /\ \E id \in {i \in Ids : row[i].st = "unused"} :
       row' = [row EXCEPT ![id] =
         [st |-> "live", user |-> Owner(r),
          expires |-> now + IF req[r].pc = "code_login" THEN LoginLife ELSE ResendLife]]
  /\ token' = IF req[r].pc = "code_login"
              THEN [token EXCEPT ![Owner(r)] = now + TokenLife] ELSE token
  /\ Finish(r)
  /\ UNCHANGED <<now, account, verified, sessions, spent, grants>>

-----------------------------------------------------------------------------
(* verifyOtp *)

(* Mutation: the e-mail is marked verified before the code is deleted.     *)
VerifyReadMarking(r, u) ==
  /\ Free(r)
  /\ now < token[u]
  /\ \E id \in LiveCodes(u) : \E registration, device \in BOOLEAN :
       req' = [req EXCEPT ![r] =
         [pc |-> IF row[id].expires < now THEN "expire"
                 ELSE IF registration THEN "mark" ELSE "take",
          user |-> u, id |-> id, registration |-> registration, device |-> device]]
  /\ UNCHANGED <<now, dbVars, token, spent, grants>>

(* findFirst returns any row of the user with that code.                   *)
VerifyRead(r, u) ==
  /\ Free(r)
  /\ now < token[u]
  /\ \E id \in LiveCodes(u) : \E registration, device \in BOOLEAN :
       req' = [req EXCEPT ![r] =
         [pc |-> IF row[id].expires < now THEN "expire" ELSE "take",
          user |-> u, id |-> id, registration |-> registration, device |-> device]]
  /\ UNCHANGED <<now, dbVars, token, spent, grants>>

(* delete by id: a row that is gone already makes it throw.                *)
VerifyExpire(r) ==
  /\ req[r].pc = "expire"
  /\ DeleteCodes({req[r].id})
  /\ Finish(r)
  /\ UNCHANGED <<now, account, verified, sessions, token, spent, grants>>

(* Mutation: deleteMany, which does not mind a row that is gone.           *)
VerifyTakeAny(r) ==
  /\ req[r].pc = "take"
  /\ DeleteCodes({req[r].id})
  /\ spent' = spent \cup {req[r].id}
  /\ Goto(r, IF req[r].registration THEN "mark" ELSE "session")
  /\ UNCHANGED <<now, account, verified, sessions, token, grants>>

VerifyTake(r) ==
  /\ req[r].pc = "take"
  /\ row[req[r].id].st = "live"
  /\ DeleteCodes({req[r].id})
  /\ spent' = spent \cup {req[r].id}
  /\ Goto(r, IF req[r].registration THEN "mark" ELSE "session")
  /\ UNCHANGED <<now, account, verified, sessions, token, grants>>

VerifyMark(r) ==
  /\ req[r].pc = "mark"
  /\ Live(Owner(r))
  /\ verified' = verified \cup {Owner(r)}
  /\ Goto(r, "session")
  /\ UNCHANGED <<now, account, row, sessions, token, spent, grants>>

(* Mutation: user_sessions does not reference users.                       *)
VerifySessionUnrelated(r) ==
  /\ req[r].pc = "session"
  /\ req[r].device
  /\ sessions' = sessions \cup {Owner(r)}
  /\ Goto(r, "touch")
  /\ UNCHANGED <<now, account, verified, row, token, spent, grants>>

(* generateAccessToken upserts the session.  The auth token names no       *)
(* source, so the session is the one for WEB; without device_info, which   *)
(* the request may leave out, the query is refused.                        *)
VerifySession(r) ==
  /\ req[r].pc = "session"
  /\ Live(Owner(r)) /\ req[r].device
  /\ sessions' = sessions \cup {Owner(r)}
  /\ Goto(r, "touch")
  /\ UNCHANGED <<now, account, verified, row, token, spent, grants>>

VerifyTouch(r) ==
  /\ req[r].pc = "touch"
  /\ Live(Owner(r))
  /\ Goto(r, "clean")
  /\ UNCHANGED <<now, dbVars, token, spent, grants>>

(* Every code of the user is deleted, and the access token is returned.    *)
VerifyClean(r) ==
  /\ req[r].pc = "clean"
  /\ DeleteCodes(LiveCodes(Owner(r)))
  /\ grants' = [grants EXCEPT ![req[r].id] = @ + 1]
  /\ Finish(r)
  /\ UNCHANGED <<now, account, verified, sessions, token, spent>>

-----------------------------------------------------------------------------
Logout(u) ==
  /\ u \in sessions
  /\ sessions' = sessions \ {u}
  /\ UNCHANGED <<now, account, verified, row, token, req, spent, grants>>

(* A user row is deleted (module Onboarding); the database cascades to the *)
(* user's codes and sessions.                                              *)
DeleteUser(u) ==
  /\ Live(u)
  /\ account' = [account EXCEPT ![u] = "gone"]
  /\ verified' = verified \ {u}
  /\ DeleteCodes(LiveCodes(u))
  /\ sessions' = sessions \ {u}
  /\ UNCHANGED <<now, token, req, spent, grants>>

(* A query or a service call fails, a guard of the database refuses the    *)
(* query, or the process restarts: the request ends where it is.           *)
Fail(r) ==
  /\ ~Free(r)
  /\ Finish(r)
  /\ UNCHANGED <<now, dbVars, token, spent, grants>>

Tick ==
  /\ now < MaxTime
  /\ now' = now + 1
  /\ UNCHANGED <<dbVars, token, req, spent, grants>>

Next ==
  \/ Tick
  \/ \E u \in Users : Logout(u) \/ DeleteUser(u)
  \/ \E r \in Requests :
       \/ \E u \in Users : Register(r, u) \/ Login(r, u) \/ SendOtp(r, u) \/ VerifyRead(r, u)
       \/ CreateCode(r) \/ VerifyExpire(r) \/ VerifyTake(r) \/ VerifyMark(r)
       \/ VerifySession(r) \/ VerifyTouch(r) \/ VerifyClean(r) \/ Fail(r)

Spec == Init /\ [][Next]_vars

-----------------------------------------------------------------------------
(* Properties *)

(* Tables and requests hold values of their kind; every code has an owner. *)
TypeOK ==
  /\ now \in 0..MaxTime
  /\ account \in [Users -> {"new", "live", "gone"}]
  /\ verified \subseteq Users
  /\ row \in [Ids -> Row]
  /\ sessions \subseteq Users
  /\ token \in [Users -> Nat]
  /\ req \in [Requests -> Request]
  /\ spent \subseteq Ids
  /\ grants \in [Ids -> Nat]

(* A code pays for one sign-in: however many verifyOtp requests quote it   *)
(* at once, at most one of them is answered with an access token.          *)
RedeemedOnce == \A id \in Ids : grants[id] <= 1

(* Nobody is signed in, or has a verified e-mail, without having redeemed  *)
(* a code of their own, wherever a verifyOtp stopped half-way.             *)
SessionEarned ==
  \A u \in sessions \cup verified : \E id \in spent : row[id].user = u

(* A user deleted while requests are in progress leaves nothing behind: no *)
(* request that read the user earlier brings back a session or a code.     *)
NothingOfGoneUsers ==
  \A u \in Users : account[u] = "gone" => u \notin sessions \cup verified /\ LiveCodes(u) = {}

(* Signing in keeps the promises of OneTimeCodes: a code goes from issued  *)
(* to redeemed to answered once, and opens sessions in between only.       *)
OwnerOf == [id \in Ids |-> IF row[id].st = "unused" THEN None ELSE row[id].user]
StateOf == [id \in Ids |->
  CASE row[id].st = "unused" -> "free"
    [] row[id].st = "live" -> "issued"
    [] OTHER -> IF id \notin spent THEN "void"
                ELSE IF grants[id] = 0 THEN "redeemed" ELSE "answered"]
Promise == INSTANCE OneTimeCodes WITH Codes <- Ids, owner <- OwnerOf, state <- StateOf
CodesSpec == Promise!Spec

(* What a request that redeems a code relies on.                           *)
Holding(r) ==
  /\ req[r].pc \in VerifySteps =>
       req[r].id \in Ids /\ row[req[r].id].st # "unused" /\ row[req[r].id].user = req[r].user
  /\ req[r].pc # "idle" => req[r].user \in Users
  /\ req[r].pc \in PaidSteps => req[r].id \in spent /\ grants[req[r].id] = 0

CodesOK ==
  /\ \A r \in Requests : Holding(r)
  /\ \A p, r \in Requests :
       p # r /\ req[p].pc \in PaidSteps /\ req[r].pc \in PaidSteps => req[p].id # req[r].id
  /\ \A id \in Ids : grants[id] > 0 => id \in spent
  /\ \A id \in spent : row[id].st = "gone"
  /\ \A u \in Users : account[u] = "new" => u \notin sessions \cup verified /\ LiveCodes(u) = {}

(* The inductive invariant. *)
IInv == TypeOK /\ CodesOK /\ RedeemedOnce /\ SessionEarned /\ NothingOfGoneUsers
=============================================================================
