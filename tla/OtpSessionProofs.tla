--------------------------- MODULE OtpSessionProofs ---------------------------
(***************************************************************************)
(* Proofs about signing in, for any number of users, codes and concurrent  *)
(* requests.                                                               *)
(***************************************************************************)
EXTENDS OtpSession, TLAPS

USE ConstantsAssumption

LEMMA InitIInv == Init => IInv
<1> SUFFICES ASSUME Init PROVE IInv
  OBVIOUS
<1> USE DEF Init, Unused
<1>1. TypeOK
  BY DEF TypeOK, Row, Request, Idle, VerifySteps
<1>2. CodesOK
  BY DEF CodesOK, Holding, Idle, VerifySteps, PaidSteps, LiveCodes
<1> QED
  BY <1>1, <1>2 DEF IInv, RedeemedOnce, SessionEarned, NothingOfGoneUsers

(* A step that only moves one request preserves the invariant when the     *)
(* request's new state is one it may be in.                                *)
LEMMA RequestMoved ==
  ASSUME IInv, NEW r \in Requests, NEW q \in Request,
         req' = [req EXCEPT ![r] = q], UNCHANGED <<now, dbVars, token, spent, grants>>,
         q.pc # "idle" => q.user \in Users,
         q.pc \in VerifySteps =>
           q.id \in Ids /\ row[q.id].st # "unused" /\ row[q.id].user = q.user,
         q.pc \in PaidSteps => req[r].pc \in PaidSteps /\ req[r].id = q.id
  PROVE  IInv'
<1> USE DEF IInv, dbVars
<1>1. TypeOK'
  BY DEF TypeOK
<1>2. \A p \in Requests : req'[p] = IF p = r THEN q ELSE req[p]
  BY DEF TypeOK
<1>3. \A p \in Requests : Holding(p)'
  BY <1>2 DEF CodesOK, Holding
<1>4. \A p, s \in Requests :
        p # s /\ req'[p].pc \in PaidSteps /\ req'[s].pc \in PaidSteps => req'[p].id # req'[s].id
  BY <1>2 DEF CodesOK
<1>5. CodesOK'
  BY <1>3, <1>4 DEF CodesOK, LiveCodes
<1> QED
  BY <1>1, <1>5 DEF RedeemedOnce, SessionEarned, NothingOfGoneUsers, LiveCodes

LEMMA IdleRequest == Idle \in Request /\ Idle.pc = "idle"
  BY DEF Idle, Request, VerifySteps

(* Steps that change no table. *)
LEMMA QuietPreserves ==
  ASSUME IInv, NEW r \in Requests,
         \/ \E u \in Users : Login(r, u) \/ SendOtp(r, u) \/ VerifyRead(r, u)
         \/ VerifyTouch(r) \/ Fail(r)
  PROVE  IInv'
<1>1. ASSUME NEW u \in Users, Login(r, u) \/ SendOtp(r, u) PROVE IInv'
  <2>1. PICK step \in {"code_login", "code_resend"} :
          req' = [req EXCEPT ![r] = [Idle EXCEPT !.pc = step, !.user = u]]
    BY <1>1 DEF Login, SendOtp
  <2> DEFINE q == [Idle EXCEPT !.pc = step, !.user = u]
  <2>2. q \in Request /\ q.pc \notin VerifySteps /\ q.pc \notin PaidSteps /\ q.user = u
    BY DEF Idle, Request, VerifySteps, PaidSteps
  <2> QED
    BY <1>1, <2>1, <2>2, RequestMoved DEF Login, SendOtp
<1>2. ASSUME NEW u \in Users, VerifyRead(r, u) PROVE IInv'
  <2>1. PICK id \in LiveCodes(u) : \E registration, device \in BOOLEAN :
          req' = [req EXCEPT ![r] =
            [pc |-> IF row[id].expires < now THEN "expire" ELSE "take",
             user |-> u, id |-> id, registration |-> registration, device |-> device]]
    BY <1>2 DEF VerifyRead
  <2>2. PICK registration \in BOOLEAN, device \in BOOLEAN :
          req' = [req EXCEPT ![r] =
            [pc |-> IF row[id].expires < now THEN "expire" ELSE "take",
             user |-> u, id |-> id, registration |-> registration, device |-> device]]
    BY <2>1
  <2> DEFINE q == [pc |-> IF row[id].expires < now THEN "expire" ELSE "take",
                   user |-> u, id |-> id, registration |-> registration, device |-> device]
  <2>3. q \in Request /\ q.pc \notin PaidSteps /\ q.user = u /\ q.id = id
    BY DEF Request, VerifySteps, PaidSteps, LiveCodes
  <2>4. id \in Ids /\ row[id].st # "unused" /\ row[id].user = u
    BY DEF LiveCodes
  <2> HIDE DEF q
  <2> QED
    BY <1>2, <2>2, <2>3, <2>4, RequestMoved DEF VerifyRead, q
<1>3. CASE VerifyTouch(r)
  <2> DEFINE q == [req[r] EXCEPT !.pc = "clean"]
  <2>1. req[r] \in Request /\ req[r].pc = "touch" /\ Holding(r)
    BY <1>3 DEF IInv, TypeOK, CodesOK, VerifyTouch
  <2>2. q \in Request /\ q.pc = "clean" /\ q.id = req[r].id /\ q.user = req[r].user
    BY <2>1 DEF Request, VerifySteps
  <2>3. req' = [req EXCEPT ![r] = q]
    BY <1>3 DEF VerifyTouch, Goto
  <2> HIDE DEF q
  <2> QED
    BY <1>3, <2>1, <2>2, <2>3, RequestMoved DEF VerifyTouch, Holding, VerifySteps, PaidSteps
<1>4. CASE Fail(r)
  BY <1>4, IdleRequest, RequestMoved DEF Fail, Finish, VerifySteps, PaidSteps
<1> QED
  BY <1>1, <1>2, <1>3, <1>4

(* Deleting rows: they keep their owner and are live no longer. *)
LEMMA Deleting ==
  ASSUME TypeOK, NEW ids \in SUBSET Ids, \A id \in ids : row[id].st # "unused",
         DeleteCodes(ids)
  PROVE  /\ row' \in [Ids -> Row]
         /\ \A id \in Ids : row[id].st # "unused" =>
              row'[id].st # "unused" /\ row'[id].user = row[id].user
         /\ \A id \in Ids : row[id].st = "gone" => row'[id].st = "gone"
         /\ \A id \in ids : row'[id].st = "gone"
         /\ \A u \in Users : LiveCodes(u)' = LiveCodes(u) \ ids
<1>1. \A id \in Ids : row'[id] = IF id \in ids THEN Gone(id) ELSE row[id]
  BY DEF DeleteCodes
<1>2. \A id \in ids : row[id].user \in Users
  BY DEF TypeOK, Row
<1>3. \A id \in ids : row'[id].st = "gone" /\ row'[id].user = row[id].user
  <2>1. \A id \in ids : id \in Ids /\ row'[id] = Gone(id)
    BY <1>1
  <2>2. ASSUME NEW id \in ids, NEW x, x = Gone(id)
        PROVE  x.st = "gone" /\ x.user = row[id].user
    BY <2>2 DEF Gone
  <2> QED
    BY <2>1, <2>2
<1>4. row' \in [Ids -> Row]
  <2>1. \A id \in ids : Gone(id) \in Row
    BY <1>2 DEF Gone, Row
  <2> QED
    BY <2>1 DEF DeleteCodes, TypeOK
<1>5. \A u \in Users : LiveCodes(u)' = LiveCodes(u) \ ids
  BY <1>1, <1>3 DEF LiveCodes
<1> QED
  BY <1>1, <1>3, <1>4, <1>5

(* What CodesOK says of a request survives a step that leaves the request  *)
(* alone, keeps the owners of rows and only adds to what was spent.        *)
LEMMA OthersHold ==
  ASSUME IInv, NEW r \in Requests, \A p \in Requests \ {r} : req'[p] = req[p],
         \A id \in Ids : row[id].st # "unused" =>
              row'[id].st # "unused" /\ row'[id].user = row[id].user,
         spent \subseteq spent',
         \A p \in Requests \ {r} :
           req[p].pc \in PaidSteps => grants'[req[p].id] = grants[req[p].id]
  PROVE  \A p \in Requests \ {r} : Holding(p)'
  BY DEF IInv, CodesOK, Holding, VerifySteps, PaidSteps

LEMMA VerifyTakePreserves == ASSUME IInv, NEW r \in Requests, VerifyTake(r) PROVE IInv'
<1> DEFINE id == req[r].id
           step == IF req[r].registration THEN "mark" ELSE "session"
<1>1. req[r] \in Request /\ req[r].pc = "take" /\ id \in Ids /\ row[id].st = "live"
      /\ row[id].user = req[r].user /\ req[r].user \in Users
  BY DEF IInv, TypeOK, CodesOK, Holding, VerifyTake, VerifySteps
<1>2. /\ row' \in [Ids -> Row]
      /\ \A i \in Ids : row[i].st # "unused" =>
           row'[i].st # "unused" /\ row'[i].user = row[i].user
      /\ \A i \in Ids : row[i].st = "gone" => row'[i].st = "gone"
      /\ row'[id].st = "gone"
      /\ \A u \in Users : LiveCodes(u)' = LiveCodes(u) \ {id}
  BY <1>1, Deleting DEF IInv, VerifyTake
<1>3. id \notin spent /\ grants[id] = 0
  <2>1. id \notin spent
    BY <1>1 DEF IInv, CodesOK
  <2> QED
    BY <1>1, <2>1 DEF IInv, TypeOK, CodesOK
<1>4. /\ spent' = spent \cup {id}
      /\ req' = [req EXCEPT ![r].pc = step]
      /\ UNCHANGED <<now, account, verified, sessions, token, grants>>
  BY DEF VerifyTake, Goto
<1>5. /\ \A p \in Requests \ {r} : req'[p] = req[p]
      /\ req'[r].pc = step /\ req'[r].id = id /\ req'[r].user = req[r].user
      /\ req' \in [Requests -> Request]
  BY <1>1, <1>4 DEF IInv, TypeOK, Request, VerifySteps
<1>6. step \in PaidSteps /\ step \in VerifySteps /\ step # "idle"
  BY DEF PaidSteps, VerifySteps
<1> HIDE DEF step, id
<1>7. TypeOK'
  BY <1>1, <1>2, <1>4, <1>5 DEF IInv, TypeOK
<1>8. \A p \in Requests : Holding(p)'
  <2>1. Holding(r)'
    BY <1>1, <1>2, <1>3, <1>4, <1>5, <1>6 DEF Holding
  <2>2. \A p \in Requests \ {r} : Holding(p)'
    BY <1>2, <1>4, <1>5, OthersHold
  <2> QED
    BY <2>1, <2>2
<1>9. \A p \in Requests \ {r} : req[p].pc \in PaidSteps => req[p].id # id
  BY <1>3 DEF IInv, CodesOK, Holding
<1>10. CodesOK'
  <2>1. \A p, s \in Requests :
          p # s /\ req'[p].pc \in PaidSteps /\ req'[s].pc \in PaidSteps => req'[p].id # req'[s].id
    BY <1>5, <1>9 DEF IInv, CodesOK
  <2>2. \A i \in spent' : row'[i].st = "gone"
    BY <1>2, <1>4 DEF IInv, TypeOK, CodesOK
  <2>3. \A i \in Ids : grants'[i] > 0 => i \in spent'
    BY <1>4 DEF IInv, CodesOK
  <2>4. \A u \in Users : account'[u] = "new" =>
          u \notin sessions' \cup verified' /\ LiveCodes(u)' = {}
    BY <1>2, <1>4 DEF IInv, CodesOK
  <2> QED
    BY <1>8, <2>1, <2>2, <2>3, <2>4 DEF CodesOK
<1>11. RedeemedOnce' /\ NothingOfGoneUsers'
  BY <1>2, <1>4 DEF IInv, RedeemedOnce, NothingOfGoneUsers
<1>12. SessionEarned'
  BY <1>2, <1>4 DEF IInv, TypeOK, SessionEarned, CodesOK
<1> QED
  BY <1>7, <1>10, <1>11, <1>12 DEF IInv

LEMMA VerifyExpirePreserves == ASSUME IInv, NEW r \in Requests, VerifyExpire(r) PROVE IInv'
<1>1. req[r].pc = "expire" /\ req[r].id \in Ids /\ row[req[r].id].st # "unused"
  BY DEF IInv, CodesOK, Holding, VerifyExpire, VerifySteps
<1>2. /\ row' \in [Ids -> Row]
      /\ \A i \in Ids : row[i].st # "unused" =>
           row'[i].st # "unused" /\ row'[i].user = row[i].user
      /\ \A i \in Ids : row[i].st = "gone" => row'[i].st = "gone"
      /\ \A u \in Users : LiveCodes(u)' \subseteq LiveCodes(u)
  BY <1>1, Deleting DEF IInv, VerifyExpire
<1>4. /\ req' = [req EXCEPT ![r] = Idle]
      /\ UNCHANGED <<now, account, verified, sessions, token, spent, grants>>
  BY DEF VerifyExpire, Finish
<1>5. /\ \A p \in Requests \ {r} : req'[p] = req[p]
      /\ req'[r].pc = "idle"
      /\ req' \in [Requests -> Request]
  BY <1>4, IdleRequest DEF IInv, TypeOK
<1>7. TypeOK'
  BY <1>2, <1>4, <1>5 DEF IInv, TypeOK
<1>8. \A p \in Requests : Holding(p)'
  <2>1. Holding(r)'
    BY <1>5 DEF Holding, VerifySteps, PaidSteps
  <2>2. \A p \in Requests \ {r} : Holding(p)'
    BY <1>2, <1>4, <1>5, OthersHold
  <2> QED
    BY <2>1, <2>2
<1>10. CodesOK'
  <2>1. \A p, s \in Requests :
          p # s /\ req'[p].pc \in PaidSteps /\ req'[s].pc \in PaidSteps => req'[p].id # req'[s].id
    BY <1>5 DEF IInv, CodesOK, PaidSteps
  <2>2. \A i \in spent' : row'[i].st = "gone"
    BY <1>2, <1>4 DEF IInv, TypeOK, CodesOK
  <2>3. \A u \in Users : account'[u] = "new" =>
          u \notin sessions' \cup verified' /\ LiveCodes(u)' = {}
    BY <1>2, <1>4 DEF IInv, CodesOK
  <2> QED
    BY <1>4, <1>8, <2>1, <2>2, <2>3 DEF IInv, CodesOK
<1>11. RedeemedOnce' /\ NothingOfGoneUsers'
  BY <1>2, <1>4 DEF IInv, RedeemedOnce, NothingOfGoneUsers
<1>12. SessionEarned'
  BY <1>2, <1>4 DEF IInv, TypeOK, SessionEarned, CodesOK
<1> QED
  BY <1>7, <1>10, <1>11, <1>12 DEF IInv

(* email_verified and the session are written by a request that holds a    *)
(* spent code of the user.                                                 *)
LEMMA VerifyWritesPreserve ==
  ASSUME IInv, NEW r \in Requests, VerifyMark(r) \/ VerifySession(r)
  PROVE  IInv'
<1>1. req[r] \in Request /\ Live(req[r].user) /\ req[r].pc \in PaidSteps /\ Holding(r)
  BY DEF IInv, TypeOK, CodesOK, VerifyMark, VerifySession, Owner, PaidSteps
<1>2. req[r].user \in Users /\ req[r].id \in spent /\ row[req[r].id].user = req[r].user
  BY <1>1 DEF Holding, PaidSteps, VerifySteps
<1>3. PICK step \in {"session", "touch"} : req' = [req EXCEPT ![r].pc = step]
  BY DEF VerifyMark, VerifySession, Goto
<1>4. /\ \A p \in Requests \ {r} : req'[p] = req[p]
      /\ req'[r].pc = step /\ req'[r].id = req[r].id /\ req'[r].user = req[r].user
      /\ req' \in [Requests -> Request]
      /\ step \in PaidSteps /\ step \in VerifySteps
  BY <1>1, <1>3 DEF IInv, TypeOK, Request, PaidSteps, VerifySteps
<1>5. /\ sessions' \cup verified' = sessions \cup verified \cup {req[r].user}
      /\ sessions' \subseteq Users /\ verified' \subseteq Users
      /\ UNCHANGED <<now, account, row, token, spent, grants>>
  BY <1>2 DEF IInv, TypeOK, VerifyMark, VerifySession, Owner
<1>6. TypeOK'
  BY <1>4, <1>5 DEF IInv, TypeOK
<1>7. \A p \in Requests : Holding(p)'
  <2>1. Holding(r)'
    BY <1>1, <1>4, <1>5 DEF Holding, PaidSteps, VerifySteps
  <2>2. \A p \in Requests \ {r} : Holding(p)'
    BY <1>4, <1>5, OthersHold
  <2> QED
    BY <2>1, <2>2
<1>8. CodesOK'
  <2>1. \A p, s \in Requests :
          p # s /\ req'[p].pc \in PaidSteps /\ req'[s].pc \in PaidSteps => req'[p].id # req'[s].id
    BY <1>1, <1>4 DEF IInv, CodesOK
  <2>2. \A u \in Users : account'[u] = "new" =>
          u \notin sessions' \cup verified' /\ LiveCodes(u)' = {}
    BY <1>1, <1>5 DEF IInv, CodesOK, Live, LiveCodes
  <2> QED
    BY <1>5, <1>7, <2>1, <2>2 DEF IInv, CodesOK
<1>9. RedeemedOnce' /\ SessionEarned'
  BY <1>2, <1>5 DEF IInv, RedeemedOnce, SessionEarned
<1>10. NothingOfGoneUsers'
  BY <1>1, <1>5 DEF IInv, NothingOfGoneUsers, Live, LiveCodes
<1> QED
  BY <1>6, <1>8, <1>9, <1>10 DEF IInv

LEMMA VerifyCleanPreserves == ASSUME IInv, NEW r \in Requests, VerifyClean(r) PROVE IInv'
<1> DEFINE id == req[r].id
<1>1. req[r].pc \in PaidSteps /\ id \in Ids /\ id \in spent /\ grants[id] = 0
      /\ req[r].user \in Users
  BY DEF IInv, CodesOK, Holding, VerifyClean, VerifySteps, PaidSteps
<1>2. LiveCodes(req[r].user) \subseteq Ids
      /\ \A i \in LiveCodes(req[r].user) : row[i].st # "unused"
  BY DEF LiveCodes
<1>3. /\ row' \in [Ids -> Row]
      /\ \A i \in Ids : row[i].st # "unused" =>
           row'[i].st # "unused" /\ row'[i].user = row[i].user
      /\ \A i \in Ids : row[i].st = "gone" => row'[i].st = "gone"
      /\ \A u \in Users : LiveCodes(u)' \subseteq LiveCodes(u)
  BY <1>2, Deleting DEF IInv, VerifyClean, Owner
<1>4. /\ req' = [req EXCEPT ![r] = Idle] /\ grants' = [grants EXCEPT ![id] = @ + 1]
      /\ UNCHANGED <<now, account, verified, sessions, token, spent>>
  BY DEF VerifyClean, Finish
<1>5. /\ \A p \in Requests \ {r} : req'[p] = req[p]
      /\ req'[r].pc = "idle"
      /\ req' \in [Requests -> Request]
  BY <1>4, IdleRequest DEF IInv, TypeOK
<1>6. grants' \in [Ids -> Nat] /\ grants'[id] = 1
      /\ \A i \in Ids \ {id} : grants'[i] = grants[i]
  BY <1>1, <1>4 DEF IInv, TypeOK
<1> HIDE DEF id
<1>7. TypeOK'
  BY <1>3, <1>4, <1>5, <1>6 DEF IInv, TypeOK
<1>8. \A p \in Requests \ {r} : req[p].pc \in PaidSteps => req[p].id \in Ids /\ req[p].id # id
  BY <1>1 DEF IInv, CodesOK, Holding, PaidSteps, VerifySteps, id
<1>9. \A p \in Requests : Holding(p)'
  <2>1. Holding(r)'
    BY <1>5 DEF Holding, VerifySteps, PaidSteps
  <2>2. \A p \in Requests \ {r} : Holding(p)'
    BY <1>3, <1>4, <1>5, <1>6, <1>8, OthersHold
  <2> QED
    BY <2>1, <2>2
<1>10. CodesOK'
  <2>1. \A p, s \in Requests :
          p # s /\ req'[p].pc \in PaidSteps /\ req'[s].pc \in PaidSteps => req'[p].id # req'[s].id
    BY <1>5 DEF IInv, CodesOK, PaidSteps
  <2>2. \A i \in spent' : row'[i].st = "gone"
    BY <1>3, <1>4 DEF IInv, TypeOK, CodesOK
  <2>3. \A i \in Ids : grants'[i] > 0 => i \in spent'
    BY <1>1, <1>4, <1>6 DEF IInv, CodesOK
  <2>4. \A u \in Users : account'[u] = "new" =>
          u \notin sessions' \cup verified' /\ LiveCodes(u)' = {}
    BY <1>3, <1>4 DEF IInv, CodesOK
  <2> QED
    BY <1>9, <2>1, <2>2, <2>3, <2>4 DEF CodesOK
<1>11. RedeemedOnce' /\ NothingOfGoneUsers'
  BY <1>3, <1>4, <1>6 DEF IInv, RedeemedOnce, NothingOfGoneUsers
<1>12. SessionEarned'
  BY <1>3, <1>4 DEF IInv, TypeOK, SessionEarned, CodesOK
<1> QED
  BY <1>7, <1>10, <1>11, <1>12 DEF IInv

LEMMA CreateCodePreserves == ASSUME IInv, NEW r \in Requests, CreateCode(r) PROVE IInv'
<1>1. req[r] \in Request /\ req[r].user \in Users /\ Live(req[r].user)
  BY DEF IInv, TypeOK, CodesOK, Holding, CreateCode, Owner
<1>2. PICK id \in Ids, life \in {LoginLife, ResendLife} :
        /\ row[id].st = "unused"
        /\ row' = [row EXCEPT ![id] =
                     [st |-> "live", user |-> req[r].user, expires |-> now + life]]
  BY DEF CreateCode, Owner
<1>3. now + life \in Nat /\ now + TokenLife \in Nat
  BY DEF IInv, TypeOK
<1>4. /\ row' \in [Ids -> Row]
      /\ \A i \in Ids : row[i].st # "unused" => row'[i] = row[i]
      /\ \A u \in Users \ {req[r].user} : LiveCodes(u)' = LiveCodes(u)
  BY <1>1, <1>2, <1>3 DEF IInv, TypeOK, Row, LiveCodes
<1>5. token' \in [Users -> Nat]
  BY <1>1, <1>3 DEF IInv, TypeOK, CreateCode
<1>6. req' = [req EXCEPT ![r] = Idle] /\ UNCHANGED <<now, account, verified, sessions, spent, grants>>
  BY DEF CreateCode, Finish
<1>7. /\ \A p \in Requests \ {r} : req'[p] = req[p]
      /\ req'[r].pc = "idle"
      /\ req' \in [Requests -> Request]
  BY <1>6, IdleRequest DEF IInv, TypeOK
<1>8. TypeOK'
  BY <1>4, <1>5, <1>6, <1>7 DEF IInv, TypeOK
<1>9. \A p \in Requests : Holding(p)'
  <2>1. Holding(r)'
    BY <1>7 DEF Holding, VerifySteps, PaidSteps
  <2>2. \A p \in Requests \ {r} : Holding(p)'
    BY <1>4, <1>6, <1>7, OthersHold
  <2> QED
    BY <2>1, <2>2
<1>10. CodesOK'
  BY <1>1, <1>4, <1>6, <1>7, <1>9 DEF IInv, TypeOK, CodesOK, PaidSteps, Live
<1>11. RedeemedOnce' /\ NothingOfGoneUsers'
  BY <1>1, <1>4, <1>6 DEF IInv, RedeemedOnce, NothingOfGoneUsers, Live
<1>12. SessionEarned'
  BY <1>4, <1>6 DEF IInv, TypeOK, SessionEarned, CodesOK
<1> QED
  BY <1>8, <1>10, <1>11, <1>12 DEF IInv

LEMMA RegisterPreserves ==
  ASSUME IInv, NEW r \in Requests, NEW u \in Users, Register(r, u) PROVE IInv'
<1> DEFINE q == [Idle EXCEPT !.pc = "code_login", !.user = u]
<1>1. q \in Request /\ q.pc \notin VerifySteps /\ q.pc \notin PaidSteps /\ q.user = u
  BY DEF Idle, Request, VerifySteps, PaidSteps
<1>2. /\ req' = [req EXCEPT ![r] = q] /\ account' = [account EXCEPT ![u] = "live"]
      /\ account[u] = "new"
      /\ UNCHANGED <<now, verified, row, sessions, token, spent, grants>>
  BY DEF Register
<1> HIDE DEF q
<1>3. TypeOK'
  BY <1>1, <1>2 DEF IInv, TypeOK
<1>4. \A p \in Requests : req'[p] = IF p = r THEN q ELSE req[p]
  BY <1>2 DEF IInv, TypeOK
<1>5. CodesOK'
  BY <1>1, <1>2, <1>4 DEF IInv, TypeOK, CodesOK, Holding, LiveCodes
<1>6. RedeemedOnce' /\ SessionEarned' /\ NothingOfGoneUsers'
  BY <1>2 DEF IInv, TypeOK, RedeemedOnce, SessionEarned, NothingOfGoneUsers, LiveCodes
<1> QED
  BY <1>3, <1>5, <1>6 DEF IInv

LEMMA DeleteUserPreserves == ASSUME IInv, NEW u \in Users, DeleteUser(u) PROVE IInv'
<1>1. LiveCodes(u) \subseteq Ids /\ \A i \in LiveCodes(u) : row[i].st # "unused"
  BY DEF LiveCodes
<1>2. /\ row' \in [Ids -> Row]
      /\ \A i \in Ids : row[i].st # "unused" =>
           row'[i].st # "unused" /\ row'[i].user = row[i].user
      /\ \A i \in Ids : row[i].st = "gone" => row'[i].st = "gone"
      /\ \A v \in Users : LiveCodes(v)' = LiveCodes(v) \ LiveCodes(u)
  BY <1>1, Deleting DEF IInv, DeleteUser
<1>3. /\ account' = [account EXCEPT ![u] = "gone"] /\ verified' = verified \ {u}
      /\ sessions' = sessions \ {u} /\ UNCHANGED <<now, token, req, spent, grants>>
  BY DEF DeleteUser
<1>4. TypeOK'
  BY <1>2, <1>3 DEF IInv, TypeOK
<1>5. CodesOK'
  BY <1>2, <1>3 DEF IInv, TypeOK, CodesOK, Holding
<1>6. RedeemedOnce' /\ NothingOfGoneUsers'
  BY <1>2, <1>3 DEF IInv, TypeOK, RedeemedOnce, NothingOfGoneUsers
<1>7. SessionEarned'
  BY <1>2, <1>3 DEF IInv, TypeOK, SessionEarned, CodesOK
<1> QED
  BY <1>4, <1>5, <1>6, <1>7 DEF IInv

LEMMA NextPreserves == IInv /\ [Next]_vars => IInv'
<1> SUFFICES ASSUME IInv, [Next]_vars PROVE IInv'
  OBVIOUS
<1>1. CASE UNCHANGED vars
  BY <1>1 DEF vars, IInv, TypeOK, CodesOK, Holding, LiveCodes, RedeemedOnce, SessionEarned,
     NothingOfGoneUsers
<1>2. CASE Tick
  <2>1. now' \in 0..MaxTime /\ UNCHANGED <<account, verified, row, sessions, token, req, spent, grants>>
    BY <1>2 DEF Tick, dbVars, IInv, TypeOK
  <2> QED
    BY <2>1 DEF IInv, TypeOK, CodesOK, Holding, LiveCodes, RedeemedOnce, SessionEarned,
       NothingOfGoneUsers
<1>3. ASSUME NEW u \in Users, Logout(u) PROVE IInv'
  BY <1>3 DEF Logout, IInv, TypeOK, CodesOK, Holding, LiveCodes, RedeemedOnce, SessionEarned,
     NothingOfGoneUsers
<1> QED
  BY <1>1, <1>2, <1>3, DeleteUserPreserves, QuietPreserves, RegisterPreserves,
     CreateCodePreserves, VerifyExpirePreserves, VerifyTakePreserves, VerifyWritesPreserve,
     VerifyCleanPreserves DEF Next

(* In every reachable state the inductive invariant holds. *)
THEOREM SignInInvariance == Spec => []IInv
<1>1. IInv /\ [Next]_vars => IInv'
  BY NextPreserves
<1> QED
  BY InitIInv, <1>1, PTL DEF Spec

(* Tables and requests always hold values of their kind. *)
THEOREM SignInTypeCorrect == Spec => []TypeOK
<1>1. IInv => TypeOK
  BY DEF IInv
<1> QED
  BY SignInInvariance, <1>1, PTL

(* A code never pays for two sign-ins, for any number of requests at once. *)
THEOREM CodeRedeemedOnce == Spec => []RedeemedOnce
<1>1. IInv => RedeemedOnce
  BY DEF IInv
<1> QED
  BY SignInInvariance, <1>1, PTL

(* A session or a verified e-mail always comes from a code of the user.    *)
THEOREM SessionAlwaysEarned == Spec => []SessionEarned
<1>1. IInv => SessionEarned
  BY DEF IInv
<1> QED
  BY SignInInvariance, <1>1, PTL

(* Deleting a user while requests are in progress leaves no session and no *)
(* code of that user, then or later.                                       *)
THEOREM DeletedUsersStayGone == Spec => []NothingOfGoneUsers
<1>1. IInv => NothingOfGoneUsers
  BY DEF IInv
<1> QED
  BY SignInInvariance, <1>1, PTL

-----------------------------------------------------------------------------
(* Signing in implements OneTimeCodes *)

LEMMA PromiseInit == Init => Promise!Init
  BY DEF Init, Promise!Init, OwnerOf, StateOf, Unused

(* How rows and histories show as codes.                                   *)
LEMMA StateIs ==
  ASSUME IInv
  PROVE  /\ \A id \in Ids :
              /\ row[id].st \in {"unused", "live", "gone"}
              /\ row[id].st = "unused" => StateOf[id] = "free" /\ OwnerOf[id] = None
              /\ row[id].st # "unused" => OwnerOf[id] = row[id].user
              /\ row[id].st = "live" => StateOf[id] = "issued" /\ id \notin spent
              /\ row[id].st = "gone" /\ id \notin spent => StateOf[id] = "void"
              /\ id \in spent /\ grants[id] = 0 => StateOf[id] = "redeemed"
         /\ \A u \in Users : Promise!Standing(u) = LiveCodes(u)
<1>1. \A id \in Ids : row[id].st \in {"unused", "live", "gone"} /\ (id \in spent => row[id].st = "gone")
  BY DEF IInv, TypeOK, CodesOK, Row
<1>2. \A id \in Ids :
        /\ row[id].st = "unused" => StateOf[id] = "free" /\ OwnerOf[id] = None
        /\ row[id].st # "unused" => OwnerOf[id] = row[id].user
        /\ row[id].st = "live" => StateOf[id] = "issued" /\ id \notin spent
        /\ row[id].st = "gone" /\ id \notin spent => StateOf[id] = "void"
        /\ id \in spent /\ grants[id] = 0 => StateOf[id] = "redeemed"
        /\ row[id].st = "gone" => StateOf[id] # "issued"
  BY <1>1 DEF StateOf, OwnerOf
<1>3. \A u \in Users : Promise!Standing(u) = LiveCodes(u)
  BY <1>1, <1>2, ConstantsAssumption DEF Promise!Standing, LiveCodes
<1> QED
  BY <1>1, <1>2, <1>3

(* The same after a step.                                                  *)
LEMMA StateNext ==
  /\ StateOf' = [id \in Ids |-> StateOf'[id]]
  /\ \A id \in Ids :
       /\ row'[id].st = "live" => StateOf'[id] = "issued"
       /\ row'[id].st = "gone" /\ id \notin spent' => StateOf'[id] = "void"
       /\ row'[id].st = "gone" /\ id \in spent' /\ grants'[id] = 0 => StateOf'[id] = "redeemed"
       /\ row'[id].st = "gone" /\ id \in spent' /\ grants'[id] # 0 => StateOf'[id] = "answered"
       /\ /\ row'[id] = row[id] /\ (id \in spent' <=> id \in spent) /\ grants'[id] = grants[id]
          => StateOf'[id] = StateOf[id]
<1>1. StateOf' = [id \in Ids |-> StateOf'[id]]
  BY DEF StateOf
<1>2. ASSUME NEW id \in Ids
      PROVE  /\ row'[id].st = "live" => StateOf'[id] = "issued"
             /\ row'[id].st = "gone" /\ id \notin spent' => StateOf'[id] = "void"
             /\ row'[id].st = "gone" /\ id \in spent' /\ grants'[id] = 0 => StateOf'[id] = "redeemed"
             /\ row'[id].st = "gone" /\ id \in spent' /\ grants'[id] # 0 => StateOf'[id] = "answered"
  BY DEF StateOf
<1>3. ASSUME NEW id \in Ids, row'[id] = row[id], id \in spent' <=> id \in spent, grants'[id] = grants[id]
      PROVE  StateOf'[id] = StateOf[id]
  BY <1>3 DEF StateOf
<1> QED
  BY <1>1, <1>2, <1>3

(* One code changes its state.                                             *)
LEMMA OneStateChanges ==
  ASSUME NEW id \in Ids, NEW s, \A i \in Ids : StateOf'[i] = IF i = id THEN s ELSE StateOf[i]
  PROVE  StateOf' = [StateOf EXCEPT ![id] = s]
<1>1. StateOf' = [i \in Ids |-> StateOf'[i]]
  BY StateNext
<1>2. StateOf = [i \in Ids |-> StateOf[i]]
  BY DEF StateOf
<1>3. [StateOf EXCEPT ![id] = s] = [i \in Ids |-> IF i = id THEN s ELSE StateOf[i]]
  BY <1>2
<1> QED
  BY <1>1, <1>3

(* Rows that go without being redeemed are void.                           *)
LEMMA DeletedAreVoid ==
  ASSUME IInv, NEW ids \in SUBSET Ids, \A id \in ids : row[id].st # "unused", DeleteCodes(ids),
         UNCHANGED <<spent, grants>>
  PROVE  /\ OwnerOf' = OwnerOf
         /\ StateOf' = Promise!Voided({id \in ids : row[id].st = "live"})
<1>1. \A id \in Ids : row'[id] = IF id \in ids THEN Gone(id) ELSE row[id]
  BY DEF DeleteCodes
<1>2. \A id \in ids : row'[id].st = "gone" /\ row'[id].user = row[id].user
  <2> SUFFICES ASSUME NEW id \in ids PROVE row'[id].st = "gone" /\ row'[id].user = row[id].user
    OBVIOUS
  <2>1. ASSUME NEW x, x = Gone(id) PROVE x.st = "gone" /\ x.user = row[id].user
    BY <2>1 DEF Gone
  <2> QED
    BY <1>1, <2>1
<1>3. \A id \in Ids \ ids : row'[id] = row[id]
  BY <1>1
<1>4. OwnerOf' = OwnerOf
  <2>1. \A id \in Ids : (row'[id].st = "unused") = (row[id].st = "unused") /\ row'[id].user = row[id].user
    BY <1>2, <1>3
  <2> QED
    BY <2>1 DEF OwnerOf
<1>5. ASSUME NEW id \in Ids
      PROVE  StateOf'[id] = Promise!Voided({i \in ids : row[i].st = "live"})[id]
  <2>1. CASE id \notin ids
    <3>1. StateOf'[id] = StateOf[id]
      BY <1>3, <2>1, StateNext
    <3> QED
      BY <2>1, <3>1 DEF Promise!Voided
  <2>2. CASE id \in ids /\ row[id].st = "live"
    <3>1. StateOf'[id] = "void"
      BY <1>2, <2>2, StateIs, StateNext
    <3> QED
      BY <2>2, <3>1 DEF Promise!Voided
  <2>3. CASE id \in ids /\ row[id].st = "gone"
    BY <1>2, <2>3 DEF StateOf, Promise!Voided
  <2> QED
    BY <2>1, <2>2, <2>3, StateIs
<1> QED
  BY <1>4, <1>5 DEF StateOf, Promise!Voided

(* A step that changes no row, history or account is invisible.            *)
LEMMA PromiseStutter ==
  ASSUME UNCHANGED <<account, verified, row, sessions, spent, grants>>
  PROVE  UNCHANGED Promise!codeVars
  BY DEF Promise!codeVars, OwnerOf, StateOf

LEMMA RowsStay ==
  ASSUME UNCHANGED <<row, spent, grants>> PROVE OwnerOf' = OwnerOf /\ StateOf' = StateOf
  BY DEF OwnerOf, StateOf

LEMMA CreateCodeIssues == ASSUME IInv, NEW r \in Requests, CreateCode(r) PROVE Promise!Next
<1>1. req[r].user \in Users /\ account[req[r].user] = "live"
  BY DEF IInv, CodesOK, Holding, CreateCode, Owner, Live
<1>2. PICK id \in Ids :
        /\ row[id].st = "unused"
        /\ \E expires :
             row' = [row EXCEPT ![id] = [st |-> "live", user |-> req[r].user, expires |-> expires]]
  BY DEF CreateCode, Owner
<1>3. /\ row'[id].st = "live" /\ row'[id].user = req[r].user
      /\ \A i \in Ids \ {id} : row'[i] = row[i]
      /\ UNCHANGED <<account, verified, sessions, spent, grants>>
  BY <1>2 DEF CreateCode, IInv, TypeOK
<1>4. StateOf[id] = "free"
  BY <1>2, StateIs
<1>5. OwnerOf' = [OwnerOf EXCEPT ![id] = req[r].user]
  BY <1>3 DEF OwnerOf
<1>6. StateOf' = [StateOf EXCEPT ![id] = "issued"]
  <2>1. \A i \in Ids : StateOf'[i] = IF i = id THEN "issued" ELSE StateOf[i]
    BY <1>3, StateNext
  <2> QED
    BY <2>1, OneStateChanges
<1>7. Promise!Issue(id, req[r].user)
  BY <1>1, <1>3, <1>4, <1>5, <1>6 DEF Promise!Issue
<1> QED
  BY <1>1, <1>7 DEF Promise!Next

LEMMA VerifyExpireRunsOut ==
  ASSUME IInv, NEW r \in Requests, VerifyExpire(r) PROVE [Promise!Next]_(Promise!codeVars)
<1> DEFINE id == req[r].id
<1>1. id \in Ids /\ row[id].st # "unused" /\ UNCHANGED <<account, verified, sessions, spent, grants>>
  BY DEF IInv, CodesOK, Holding, VerifyExpire, VerifySteps
<1>2. OwnerOf' = OwnerOf /\ StateOf' = Promise!Voided({i \in {id} : row[i].st = "live"})
  BY <1>1, DeletedAreVoid DEF VerifyExpire
<1> HIDE DEF id
<1>3. CASE row[id].st = "live"
  <2>1. Promise!RunOut(id)
    <3>1. {i \in {id} : row[i].st = "live"} = {id}
      BY <1>3
    <3> QED
      BY <1>1, <1>2, <1>3, <3>1, StateIs DEF Promise!RunOut
  <2> QED
    BY <1>1, <2>1 DEF Promise!Next
<1>4. CASE row[id].st # "live"
  <2>1. {i \in {id} : row[i].st = "live"} = {}
    BY <1>4
  <2>2. StateOf' = StateOf
    BY <1>2, <2>1 DEF Promise!Voided, StateOf
  <2> QED
    BY <1>1, <1>2, <2>2 DEF Promise!codeVars
<1> QED
  BY <1>3, <1>4

LEMMA VerifyTakeRedeems == ASSUME IInv, NEW r \in Requests, VerifyTake(r) PROVE Promise!Next
<1> DEFINE id == req[r].id
<1>1. id \in Ids /\ row[id].st = "live" /\ UNCHANGED <<account, verified, sessions, grants>>
  BY DEF IInv, CodesOK, Holding, VerifyTake, VerifySteps
<1>2. id \notin spent /\ grants[id] = 0 /\ spent' = spent \cup {id} /\ StateOf[id] = "issued"
  BY <1>1, StateIs DEF IInv, TypeOK, CodesOK, VerifyTake
<1>3. /\ row'[id].st = "gone" /\ row'[id].user = row[id].user
      /\ \A i \in Ids \ {id} : row'[i] = row[i]
  BY <1>1 DEF VerifyTake, DeleteCodes, Gone
<1> HIDE DEF id
<1>4. OwnerOf' = OwnerOf
  <2>1. \A i \in Ids : (row'[i].st = "unused") = (row[i].st = "unused") /\ row'[i].user = row[i].user
    BY <1>1, <1>3
  <2> QED
    BY <2>1 DEF OwnerOf
<1>5. StateOf' = [StateOf EXCEPT ![id] = "redeemed"]
  <2>1. \A i \in Ids : StateOf'[i] = IF i = id THEN "redeemed" ELSE StateOf[i]
    BY <1>1, <1>2, <1>3, StateNext
  <2> QED
    BY <1>1, <2>1, OneStateChanges
<1>6. Promise!Redeem(id)
  BY <1>1, <1>2, <1>4, <1>5 DEF Promise!Redeem
<1> QED
  BY <1>1, <1>6 DEF Promise!Next

LEMMA VerifyWritesUse ==
  ASSUME IInv, NEW r \in Requests, VerifyMark(r) \/ VerifySession(r) PROVE Promise!Next
<1> DEFINE id == req[r].id
<1>1. /\ id \in Ids /\ StateOf[id] = "redeemed" /\ OwnerOf[id] = req[r].user
      /\ account[req[r].user] = "live"
  BY StateIs DEF IInv, CodesOK, Holding, VerifyMark, VerifySession, Owner, Live, VerifySteps, PaidSteps
<1>2. OwnerOf' = OwnerOf /\ StateOf' = StateOf /\ account' = account
  BY RowsStay DEF VerifyMark, VerifySession
<1> HIDE DEF id
<1>3. Promise!Use(id)
  BY <1>1, <1>2 DEF Promise!Use, VerifyMark, VerifySession, Owner
<1> QED
  BY <1>1, <1>3 DEF Promise!Next

LEMMA VerifyCleanAnswers == ASSUME IInv, NEW r \in Requests, VerifyClean(r) PROVE Promise!Next
<1> DEFINE id == req[r].id
           u == req[r].user
<1>1. /\ id \in Ids /\ id \in spent /\ grants[id] = 0 /\ row[id].st = "gone" /\ row[id].user = u /\ u \in Users
  BY DEF IInv, CodesOK, Holding, VerifyClean, VerifySteps, PaidSteps
<1>2. StateOf[id] = "redeemed" /\ OwnerOf[id] = u /\ Promise!Standing(u) = LiveCodes(u)
  BY <1>1, StateIs
<1>3. /\ DeleteCodes(LiveCodes(u)) /\ grants' = [grants EXCEPT ![id] = @ + 1]
      /\ UNCHANGED <<account, verified, sessions, spent>>
  BY DEF VerifyClean, Owner
<1> HIDE DEF id, u
<1>4. \A i \in Ids : row'[i] = IF i \in LiveCodes(u) THEN Gone(i) ELSE row[i]
  BY <1>3 DEF DeleteCodes
<1>5. \A i \in LiveCodes(u) : i \in Ids /\ row[i].st = "live" /\ row[i].user = u
  BY DEF LiveCodes
<1>6. \A i \in LiveCodes(u) : row'[i].st = "gone" /\ row'[i].user = row[i].user
  <2> SUFFICES ASSUME NEW i \in LiveCodes(u) PROVE row'[i].st = "gone" /\ row'[i].user = row[i].user
    OBVIOUS
  <2>1. ASSUME NEW x, x = Gone(i) PROVE x.st = "gone" /\ x.user = row[i].user
    BY <2>1 DEF Gone
  <2> QED
    BY <1>4, <1>5, <2>1
<1>7. OwnerOf' = OwnerOf
  <2>1. \A i \in Ids : (row'[i].st = "unused") = (row[i].st = "unused") /\ row'[i].user = row[i].user
    BY <1>4, <1>5, <1>6
  <2> QED
    BY <2>1 DEF OwnerOf
<1>8. grants'[id] = 1 /\ \A i \in Ids \ {id} : grants'[i] = grants[i]
  BY <1>1, <1>3 DEF IInv, TypeOK
<1>9. StateOf' = [Promise!Voided(LiveCodes(u)) EXCEPT ![id] = "answered"]
  <2>1. ASSUME NEW i \in Ids
        PROVE  StateOf'[i] = IF i = id THEN "answered" ELSE IF i \in LiveCodes(u) THEN "void" ELSE StateOf[i]
    <3>1. CASE i = id
      <4>1. row'[id].st = "gone"
        BY <1>1, <1>4, <1>5
      <4> QED
        BY <1>1, <1>3, <1>8, <3>1, <4>1 DEF StateOf
    <3>2. CASE i # id /\ i \in LiveCodes(u)
      <4>1. i \notin spent
        BY <1>5, <3>2, StateIs
      <4> QED
        BY <1>3, <1>6, <3>2, <4>1, StateNext
    <3>3. CASE i # id /\ i \notin LiveCodes(u)
      BY <1>3, <1>4, <1>8, <3>3, StateNext
    <3> QED
      BY <3>1, <3>2, <3>3
  <2>2. Promise!Voided(LiveCodes(u)) = [i \in Ids |-> IF i \in LiveCodes(u) THEN "void" ELSE StateOf[i]]
    BY DEF Promise!Voided
  <2> QED
    BY <1>1, <2>1, <2>2, StateNext
<1>10. Promise!Answer(id)
  BY <1>2, <1>3, <1>7, <1>9 DEF Promise!Answer
<1> QED
  BY <1>1, <1>10 DEF Promise!Next

LEMMA DeleteUserLeaves == ASSUME IInv, NEW u \in Users, DeleteUser(u) PROVE Promise!Next
<1>1. LiveCodes(u) \in SUBSET Ids /\ \A id \in LiveCodes(u) : row[id].st # "unused"
  BY DEF LiveCodes
<1>2. {id \in LiveCodes(u) : row[id].st = "live"} = Promise!Standing(u)
  BY StateIs DEF LiveCodes
<1>3. OwnerOf' = OwnerOf /\ StateOf' = Promise!Voided(Promise!Standing(u))
  BY <1>1, <1>2, DeletedAreVoid DEF DeleteUser
<1>4. Promise!Leave(u)
  BY <1>3 DEF Promise!Leave, DeleteUser, Live
<1> QED
  BY <1>4 DEF Promise!Next

LEMMA PromiseNext == IInv /\ [Next]_vars => [Promise!Next]_(Promise!codeVars)
<1> SUFFICES ASSUME IInv, [Next]_vars PROVE [Promise!Next]_(Promise!codeVars)
  OBVIOUS
<1>1. CASE UNCHANGED vars \/ Tick
  BY <1>1, PromiseStutter DEF vars, Tick, dbVars
<1>2. ASSUME NEW u \in Users, Logout(u) PROVE Promise!Next
  <2>1. Promise!SignOut(u)
    BY <1>2, RowsStay DEF Logout, Promise!SignOut
  <2> QED
    BY <2>1 DEF Promise!Next
<1>3. ASSUME NEW r \in Requests, NEW u \in Users, Register(r, u) PROVE Promise!Next
  <2>1. Promise!Enrol(u)
    BY <1>3, RowsStay DEF Register, Promise!Enrol
  <2> QED
    BY <2>1 DEF Promise!Next
<1>4. ASSUME NEW r \in Requests,
             \/ \E u \in Users : Login(r, u) \/ SendOtp(r, u) \/ VerifyRead(r, u)
             \/ VerifyTouch(r) \/ Fail(r)
      PROVE  UNCHANGED Promise!codeVars
  BY <1>4, PromiseStutter DEF Login, SendOtp, VerifyRead, VerifyTouch, Fail, dbVars
<1> QED
  BY <1>1, <1>2, <1>3, <1>4, DeleteUserLeaves, CreateCodeIssues, VerifyExpireRunsOut,
     VerifyTakeRedeems, VerifyWritesUse, VerifyCleanAnswers DEF Next

(* register, login, sendOtp, verifyOtp and logout together implement       *)
(* OneTimeCodes: every step of theirs is one of its steps or none.         *)
THEOREM SignInImplements == Spec => CodesSpec
<1>1. Init => Promise!Init
  BY PromiseInit
<1>2. IInv /\ [Next]_vars => [Promise!Next]_(Promise!codeVars)
  BY PromiseNext
<1> QED
  BY SignInInvariance, <1>1, <1>2, PTL DEF Spec, CodesSpec, Promise!Spec
=============================================================================
