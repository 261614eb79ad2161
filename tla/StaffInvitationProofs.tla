------------------------ MODULE StaffInvitationProofs ------------------------
(***************************************************************************)
(* Proofs about the staff invitation service, for any sets of codes,       *)
(* e-mails, companies, departments and concurrent requests.                *)
(***************************************************************************)
EXTENDS StaffInvitation, TLAPS

(* The initial states satisfy the inductive invariant. *)
LEMMA InitIInv == Init => IInv
<1> SUFFICES ASSUME Init PROVE IInv
  OBVIOUS
<1> USE ConstantsAssumption DEF Init
<1>1. Idle \in Request
  BY DEF Idle, Request, Batches, SendSteps, CodeSteps, AcceptSteps
<1>2. FreeRow \in Row
  BY DEF FreeRow, Row, Departmental
<1>3. TypeOK
  BY <1>1, <1>2 DEF TypeOK
<1>4. RequestOK
  BY DEF RequestOK, Sound, Known, FreeRow, Idle, SendSteps, CodeSteps, AcceptSteps
<1>5. AcceptedHasStaff /\ AnswerRecorded
  BY DEF AcceptedHasStaff, AnswerRecorded, FreeRow
<1> QED
  BY <1>3, <1>4, <1>5 DEF IInv

(* A step that only changes the local state of one request preserves the   *)
(* invariant when the new local state is a sound one.                      *)
LEMMA RequestMoved ==
  ASSUME IInv, NEW r \in Requests, NEW q \in Request, Sound(q),
         req' = [req EXCEPT ![r] = q], UNCHANGED <<now, dbVars>>
  PROVE  IInv'
<1> USE DEF IInv, dbVars
<1>1. TypeOK'
  BY DEF TypeOK
<1>2. RequestOK'
  <2>1. \A p \in Requests : Sound(req'[p])
    BY DEF TypeOK, RequestOK
  <2> QED
    BY <2>1 DEF RequestOK, Sound, Known
<1>3. AcceptedHasStaff' /\ AnswerRecorded'
  BY DEF AcceptedHasStaff, AnswerRecorded
<1> QED
  BY <1>1, <1>2, <1>3

(* A step that writes the row of the request's invitation and ends the     *)
(* request preserves the invariant when the row keeps its terms, and its   *)
(* status agrees with the timestamp and, for ACCEPTED, with the staff.     *)
LEMMA RowWritten ==
  ASSUME IInv, NEW r \in Requests, req[r].pc \in CodeSteps,
         NEW row \in Row, row.status \in Status,
         row.email = Invitation(r).email, row.company = Invitation(r).company,
         row.dept = Invitation(r).dept,
         row.status = "ACCEPTED" => Membership(r) \in staff,
         row.status \in {"VIEWED", "ACCEPTED", "DECLINED"} => row.responded,
         row.status = "PENDING" => ~row.responded,
         SetRow(r, row), Finish(r), UNCHANGED <<now, users, phoneOf, staff, placed>>
  PROVE  IInv'
<1> DEFINE c == req[r].code
<1>0. c \in Codes /\ Known(c) /\ Idle \in Request
  BY DEF IInv, RequestOK, Sound, Idle, Request, Batches
<1>1. inv' = [inv EXCEPT ![c] = row] /\ req' = [req EXCEPT ![r] = Idle]
  BY DEF SetRow, Finish
<1> HIDE DEF c
<1>2. inv \in [Codes -> Row] /\ req \in [Requests -> Request]
  BY DEF IInv, TypeOK
<1>3. TypeOK'
  BY <1>0, <1>1, <1>2 DEF IInv, TypeOK
<1>4. \A d \in Codes : inv'[d] = IF d = c THEN row ELSE inv[d]
  BY <1>0, <1>1, <1>2
<1>5. \A d \in Codes : Known(d)' = Known(d) /\ inv'[d].email = inv[d].email
                       /\ inv'[d].company = inv[d].company /\ inv'[d].dept = inv[d].dept
  BY <1>0, <1>4 DEF Known, Invitation, c, Status
<1>6. RequestOK'
  <2>1. \A d \in Codes : Known(d)' => inv'[d].email \in Emails /\ inv'[d].company \in Companies
    BY <1>5 DEF IInv, RequestOK
  <2>2. ASSUME NEW p \in Requests PROVE Sound(req[p])'
    <3>1. CASE p = r
      BY <1>1, <1>2, <3>1 DEF Sound, Idle, SendSteps, CodeSteps, AcceptSteps
    <3>2. CASE p # r
      <4>1. req'[p] = req[p] /\ Sound(req[p])
        BY <1>1, <1>2, <3>2 DEF IInv, RequestOK
      <4> QED
        BY <4>1, <1>5 DEF Sound, CodeSteps, AcceptSteps
    <3> QED
      BY <3>1, <3>2
  <2> QED
    BY <2>1, <2>2 DEF RequestOK
<1>7. AcceptedHasStaff'
  BY <1>4, <1>5 DEF IInv, AcceptedHasStaff, Membership, Invitation, c
<1>8. AnswerRecorded'
  BY <1>4 DEF IInv, AnswerRecorded
<1> QED
  BY <1>3, <1>6, <1>7, <1>8 DEF IInv

-----------------------------------------------------------------------------
(* sendStaffInvitations *)

LEMMA SendPreserves ==
  ASSUME IInv, NEW r \in Requests, SendStep(r)
  PROVE  IInv'
<1> USE DEF IInv
<1>0. req[r] \in Request /\ Idle \in Request /\ Sound(req[r])
  BY DEF TypeOK, RequestOK, Idle, Request, Batches
<1>i. Sound(Idle)
  BY DEF Sound, Idle, SendSteps, CodeSteps, AcceptSteps
<1>1. CASE SendStart(r)
  <2>1. PICK b \in Batches, co \in Companies :
          req' = [req EXCEPT ![r] = [Idle EXCEPT !.pc = "send_reads",
                                                 !.batch = b, !.company = co]]
    BY <1>1 DEF SendStart
  <2> DEFINE q == [Idle EXCEPT !.pc = "send_reads", !.batch = b, !.company = co]
  <2>2. q \in Request
    BY <1>0 DEF Request, SendSteps, Idle
  <2>3. Sound(q)
    BY DEF Sound, Idle, SendSteps, CodeSteps, AcceptSteps
  <2> QED
    BY <1>1, <2>1, <2>2, <2>3, RequestMoved DEF SendStart
<1>2. ASSUME NEW batch \in SUBSET req[r].batch, NEW step \in {"send_staff", "send_pending"},
             req[r].pc \in SendSteps, Keep(r, batch, step), UNCHANGED <<now, dbVars>>
      PROVE  IInv'
  <2>1. batch \in Batches
    BY <1>0, <1>2 DEF Request, Batches
  <2>2. now + Lifetime \in Nat
    BY ConstantsAssumption DEF TypeOK
  <2> DEFINE q == IF req[r].pc = "send_reads"
                  THEN [req[r] EXCEPT !.pc = step, !.batch = batch]
                  ELSE IF batch = {} THEN Idle
                  ELSE [req[r] EXCEPT !.pc = "send_create", !.batch = batch,
                                      !.until = now + Lifetime]
  <2>3. q \in Request
    BY <1>0, <1>2, <2>1, <2>2 DEF Request, SendSteps
  <2>4. Sound(q)
    BY <1>0, <1>i, <1>2 DEF Sound, SendSteps, CodeSteps, AcceptSteps, Request
  <2>5. req' = [req EXCEPT ![r] = q]
    BY <1>2 DEF Keep
  <2> HIDE DEF q
  <2> QED
    BY <1>2, <2>3, <2>4, <2>5, RequestMoved
<1>3. CASE SendReadPending(r)
  BY <1>2, <1>3 DEF SendReadPending, SendSteps
<1>4. CASE SendReadStaff(r)
  BY <1>2, <1>4 DEF SendReadStaff, SendSteps
<1>5. CASE SendCreate(r)
  <2>0. PICK cs \in SUBSET {c \in Codes : ~Known(c)} :
          \E place \in Bijection(cs, req[r].batch) :
            inv' = [c \in Codes |-> IF c \in cs
                                    THEN NewRow(place[c], req[r].company, req[r].until)
                                    ELSE inv[c]]
    BY <1>5 DEF SendCreate
  <2>1. PICK place \in Bijection(cs, req[r].batch) :
          inv' = [c \in Codes |-> IF c \in cs
                                  THEN NewRow(place[c], req[r].company, req[r].until)
                                  ELSE inv[c]]
    BY <2>0
  <2>2. \A c \in cs : place[c] \in Item
    BY <1>0, <2>1 DEF Bijection, Injection, Request, Batches
  <2>3. req[r].company \in Companies /\ req[r].until \in Nat
    BY <1>0, <1>5 DEF Sound, SendCreate, SendSteps, Request
  <2>4. \A c \in cs : /\ inv'[c] \in Row
                      /\ inv'[c].status = "PENDING"
                      /\ inv'[c].email \in Emails
                      /\ inv'[c].company \in Companies
                      /\ ~inv'[c].responded
    BY <2>1, <2>2, <2>3 DEF NewRow, Row, Status, Item
  <2>5. \A c \in Codes \ cs : inv'[c] = inv[c]
    BY <2>1
  <2>6. \A c \in Codes : Known(c) => c \notin cs
    BY <2>1
  <2>7. req' = [req EXCEPT ![r] = Idle] /\ UNCHANGED <<now, users, phoneOf, staff, placed>>
    BY <1>5 DEF SendCreate, Finish
  <2>8. TypeOK'
    BY <1>0, <2>1, <2>4, <2>5, <2>7 DEF TypeOK
  <2>9. RequestOK'
    <3>1. \A c \in Codes : Known(c)' => inv'[c].email \in Emails /\ inv'[c].company \in Companies
      BY <2>4, <2>5 DEF RequestOK, Known
    <3>2. \A p \in Requests : Sound(req[p])'
      BY <1>i, <2>5, <2>6, <2>7 DEF TypeOK, RequestOK, Sound, Known, CodeSteps, AcceptSteps,
         Idle, SendSteps
    <3> QED
      BY <3>1, <3>2 DEF RequestOK
  <2>10. AcceptedHasStaff' /\ AnswerRecorded'
    BY <2>4, <2>5, <2>7 DEF AcceptedHasStaff, AnswerRecorded
  <2> QED
    BY <2>8, <2>9, <2>10
<1> QED
  BY <1>1, <1>3, <1>4, <1>5 DEF SendStep

-----------------------------------------------------------------------------
(* acceptInvitation *)

(* Moving on to another step of the same invitation. *)
LEMMA GotoPreserves ==
  ASSUME IInv, NEW r \in Requests, req[r].pc \in CodeSteps,
         NEW step \in CodeSteps \cup {"conflict"}, Goto(r, step),
         UNCHANGED <<now, dbVars>>,
         step \in {"acc_dept", "acc_mark"} => Membership(r) \in staff,
         step = "acc_dept" => Invitation(r).dept \in Departments
  PROVE  IInv'
<1> DEFINE q == [req[r] EXCEPT !.pc = step]
<1>0. req[r] \in Request /\ Sound(req[r])
  BY DEF IInv, TypeOK, RequestOK
<1>1. q \in Request
  BY <1>0 DEF Request
<1>2. Sound(q)
  BY <1>0 DEF Sound, Request, CodeSteps, AcceptSteps, SendSteps, Membership, Invitation
<1>3. req' = [req EXCEPT ![r] = q]
  BY DEF Goto
<1> QED
  BY <1>1, <1>2, <1>3, RequestMoved

(* Reading an invitation begins a request about it. *)
LEMMA BeginPreserves ==
  ASSUME IInv, NEW r \in Requests, NEW c \in Codes, Known(c),
         NEW step \in CodeSteps \ {"acc_dept", "acc_mark"},
         NEW until \in Nat, UNCHANGED <<now, dbVars>>,
         Begin(r, c, step, until)
  PROVE  IInv'
<1> DEFINE q == [Idle EXCEPT !.pc = step, !.code = c, !.until = until]
<1>1. q \in Request
  BY DEF Request, Idle, Batches
<1>2. Sound(q)
  BY DEF Sound, Idle, SendSteps, CodeSteps, AcceptSteps
<1> QED
  BY <1>1, <1>2, RequestMoved DEF Begin

LEMMA AcceptPreserves ==
  ASSUME IInv, NEW r \in Requests, AcceptStep(r)
  PROVE  IInv'
<1>0. TypeOK /\ RequestOK /\ req[r] \in Request /\ Sound(req[r])
  BY DEF IInv, TypeOK, RequestOK
<1>k. req[r].pc \in CodeSteps => /\ Invitation(r) \in Row
                                /\ Invitation(r).status \in Status
                                /\ Membership(r) \in StaffRow
  BY <1>0 DEF TypeOK, RequestOK, Sound, Invitation, Membership, Known, Row, StaffRow
<1>1. ASSUME NEW c \in Codes, AcceptRead(r, c) PROVE IInv'
  <2> DEFINE step == IF Overdue(inv[c]) THEN "acc_expire" ELSE "acc_user"
  <2>1. Known(c) /\ step \in CodeSteps \ {"acc_dept", "acc_mark"}
    BY <1>1 DEF AcceptRead, Known, CodeSteps, AcceptSteps
  <2>2. Begin(r, c, step, 0)
    BY <1>1 DEF AcceptRead
  <2> HIDE DEF step
  <2> QED
    BY <1>1, <2>1, <2>2, BeginPreserves DEF AcceptRead
<1>2. CASE AcceptExpire(r)
  <2> DEFINE row == [Invitation(r) EXCEPT !.status = "EXPIRED"]
  <2>1. req[r].pc \in CodeSteps
    BY <1>2 DEF AcceptExpire, CodeSteps, AcceptSteps
  <2>2. row \in Row /\ row.status = "EXPIRED" /\ row.email = Invitation(r).email
        /\ row.company = Invitation(r).company /\ row.dept = Invitation(r).dept
    BY <1>k, <2>1 DEF Row, Status
  <2> QED
    BY <1>2, <2>1, <2>2, RowWritten DEF AcceptExpire, Status
<1>3. CASE AcceptFindUser(r)
  BY <1>3, GotoPreserves DEF AcceptFindUser, CodeSteps, AcceptSteps
<1>4. CASE AcceptCreateUser(r)
  <2>1. req[r].pc \in CodeSteps /\ Invitation(r).email \in Emails
    BY <1>k, <1>4 DEF AcceptCreateUser, CodeSteps, AcceptSteps, Membership, StaffRow
  <2>2. PICK phone \in Phones \cup {None} :
          IF Invitation(r).email \in users \/ (phone # None /\ phoneOf[phone] # None)
          THEN /\ req' = [req EXCEPT ![r].pc = "conflict", ![r].phone = phone]
               /\ UNCHANGED <<users, phoneOf>>
          ELSE /\ Goto(r, "acc_staff")
               /\ users' = users \cup {Invitation(r).email}
               /\ phoneOf' = [p \in Phones |-> IF p = phone THEN Invitation(r).email
                                                ELSE phoneOf[p]]
    BY <1>4 DEF AcceptCreateUser
  <2>3. UNCHANGED <<now, inv, staff, placed>>
    BY <1>4 DEF AcceptCreateUser
  <2>4. CASE Invitation(r).email \in users \/ (phone # None /\ phoneOf[phone] # None)
    <3> DEFINE q == [req[r] EXCEPT !.pc = "conflict", !.phone = phone]
    <3>1. q \in Request /\ Sound(q)
      BY <1>0 DEF Request, Sound, CodeSteps, AcceptSteps, SendSteps
    <3>2. req' = [req EXCEPT ![r] = q] /\ UNCHANGED <<users, phoneOf>>
      BY <2>2, <2>4
    <3> HIDE DEF q
    <3> QED
      BY <2>3, <3>1, <3>2, RequestMoved DEF dbVars
  <2>5. CASE ~ (Invitation(r).email \in users \/ (phone # None /\ phoneOf[phone] # None))
    <3> DEFINE q == [req[r] EXCEPT !.pc = "acc_staff"]
    <3>1. /\ req' = [req EXCEPT ![r] = q] /\ users' = users \cup {Invitation(r).email}
          /\ phoneOf' = [p \in Phones |-> IF p = phone THEN Invitation(r).email ELSE phoneOf[p]]
      BY <2>2, <2>5 DEF Goto
    <3>2. q \in Request /\ Sound(q)
      BY <1>0, <2>1 DEF Request, Sound, CodeSteps, AcceptSteps, SendSteps
    <3> HIDE DEF q
    <3>3. TypeOK'
      BY <1>0, <2>1, <2>3, <3>1, <3>2 DEF TypeOK
    <3>4. \A p \in Requests : Sound(req'[p])
      BY <1>0, <3>1, <3>2 DEF TypeOK, RequestOK
    <3>5. RequestOK'
      BY <1>0, <2>3, <3>4 DEF RequestOK, Sound, Known
    <3> QED
      BY <2>3, <3>3, <3>5 DEF IInv, AcceptedHasStaff, AnswerRecorded
  <2> QED
    BY <2>4, <2>5
<1>5. CASE AcceptFindStaff(r)
  BY <1>5, GotoPreserves DEF AcceptFindStaff, CodeSteps, AcceptSteps
<1>6. CASE AcceptCreateStaff(r)
  <2>1. req[r].pc \in CodeSteps
    BY <1>6 DEF AcceptCreateStaff, CodeSteps, AcceptSteps
  <2>2. CASE \E s \in staff : s.email = Invitation(r).email
    BY <1>6, <2>1, <2>2, GotoPreserves DEF AcceptCreateStaff, dbVars
  <2>3. CASE ~ \E s \in staff : s.email = Invitation(r).email
    <3> DEFINE q == [req[r] EXCEPT !.pc = IF Invitation(r).dept = None
                                          THEN "acc_mark" ELSE "acc_dept"]
    <3>1. req' = [req EXCEPT ![r] = q] /\ staff' = staff \cup {Membership(r)}
          /\ UNCHANGED <<now, inv, users, phoneOf, placed>>
      BY <1>6, <2>3 DEF AcceptCreateStaff, Goto
    <3>2. q \in Request
      BY <1>0 DEF Request, CodeSteps, AcceptSteps
    <3>q. req'[r] = q
      BY <1>0, <3>1 DEF TypeOK
    <3>s. Sound(req[r])'
      <4>1. /\ q.code = req[r].code /\ q.pc \in {"acc_mark", "acc_dept"}
            /\ q.pc = "acc_dept" => Invitation(r).dept \in Departments
        BY <1>0, <1>k, <2>1 DEF Request, Row, Departmental
      <4> QED
        BY <1>0, <2>1, <3>1, <3>q, <4>1 DEF Sound, CodeSteps, AcceptSteps, SendSteps,
           Membership, Invitation, Known
    <3> HIDE DEF q
    <3>3. TypeOK'
      BY <1>0, <1>k, <2>1, <3>1, <3>2 DEF TypeOK
    <3>4. \A p \in Requests : Sound(req[p])'
      <4> SUFFICES ASSUME NEW p \in Requests, p # r PROVE Sound(req[p])'
        BY <3>s
      <4>1. req'[p] = req[p] /\ Sound(req[p])
        BY <1>0, <3>1 DEF TypeOK, RequestOK
      <4> QED
        BY <3>1, <4>1 DEF Sound, Known
    <3>5. RequestOK'
      BY <1>0, <3>1, <3>4 DEF RequestOK, Known
    <3> QED
      BY <3>1, <3>3, <3>5 DEF IInv, AcceptedHasStaff, AnswerRecorded
  <2> QED
    BY <2>2, <2>3
<1>7. CASE AcceptPlace(r)
  <2> DEFINE q == [req[r] EXCEPT !.pc = "acc_mark"]
  <2>1. req' = [req EXCEPT ![r] = q] /\ UNCHANGED <<now, inv, users, phoneOf, staff>>
        /\ placed' = placed \cup {[email |-> Invitation(r).email, dept |-> Invitation(r).dept]}
    BY <1>7 DEF AcceptPlace, Goto
  <2>2. req[r].pc = "acc_dept" /\ Invitation(r).dept \in Departments
        /\ Invitation(r).email \in Emails
    BY <1>0, <1>7, <1>k DEF AcceptPlace, Sound, Invitation, Membership, StaffRow, CodeSteps,
       AcceptSteps
  <2>3. q \in Request /\ Sound(q)
    BY <1>0, <2>2 DEF Request, Sound, CodeSteps, AcceptSteps, SendSteps
  <2> HIDE DEF q
  <2>4. TypeOK'
    BY <1>0, <2>1, <2>2, <2>3 DEF TypeOK
  <2>5. \A p \in Requests : Sound(req'[p])
    BY <1>0, <2>1, <2>3 DEF TypeOK, RequestOK
  <2>6. RequestOK'
    BY <1>0, <2>1, <2>5 DEF RequestOK, Sound, Known
  <2> QED
    BY <2>1, <2>4, <2>6 DEF IInv, AcceptedHasStaff, AnswerRecorded
<1>8. CASE AcceptMark(r)
  <2> DEFINE row == [Invitation(r) EXCEPT !.status = "ACCEPTED", !.responded = TRUE]
  <2>1. req[r].pc \in CodeSteps /\ Membership(r) \in staff
    BY <1>0, <1>8 DEF AcceptMark, CodeSteps, AcceptSteps, Sound, Membership, Invitation
  <2>2. row \in Row /\ row.status = "ACCEPTED" /\ row.email = Invitation(r).email
        /\ row.company = Invitation(r).company /\ row.dept = Invitation(r).dept
        /\ row.responded
    BY <1>k, <2>1 DEF Row, Status
  <2> QED
    BY <1>8, <2>1, <2>2, RowWritten DEF AcceptMark, Status
<1> QED
  BY <1>1, <1>2, <1>3, <1>4, <1>5, <1>6, <1>7, <1>8 DEF AcceptStep

-----------------------------------------------------------------------------
(* resend, decline, delete, get *)

LEMMA AnswerPreserves ==
  ASSUME IInv, NEW r \in Requests, AnswerStep(r)
  PROVE  IInv'
<1>0. TypeOK /\ RequestOK /\ req[r] \in Request /\ Sound(req[r])
  BY DEF IInv, TypeOK, RequestOK
<1>k. req[r].pc \in CodeSteps => Invitation(r) \in Row /\ Invitation(r).status \in Status
  BY <1>0 DEF TypeOK, Sound, Invitation, Known, Row
<1>b. {"resend", "decline", "delete", "get_expire", "get_view"}
        \subseteq CodeSteps \ {"acc_dept", "acc_mark"}
  BY DEF CodeSteps
<1>1. ASSUME NEW c \in Codes, ResendRead(r, c) PROVE IInv'
  <2>1. Known(c) /\ now + Lifetime \in Nat
    BY <1>0, <1>1, ConstantsAssumption DEF TypeOK, ResendRead, Known
  <2> QED
    BY <1>1, <1>b, <2>1, BeginPreserves DEF ResendRead
<1>2. ASSUME NEW c \in Codes, DeclineRead(r, c) \/ DeleteRead(r, c) \/ GetRead(r, c) PROVE IInv'
  <2>1. Known(c) /\ UNCHANGED <<now, dbVars>>
    BY <1>2 DEF DeclineRead, DeleteRead, GetRead, Known
  <2>2. PICK step \in {"decline", "delete", "get_expire", "get_view"} : Begin(r, c, step, 0)
    BY <1>2 DEF DeclineRead, DeleteRead, GetRead
  <2> QED
    BY <1>b, <2>1, <2>2, BeginPreserves
<1>3. CASE ResendWrite(r)
  <2> DEFINE row == [Invitation(r) EXCEPT !.status = "PENDING", !.expires = req[r].until,
                                          !.responded = FALSE]
  <2>1. req[r].pc \in CodeSteps /\ req[r].until \in Nat
    BY <1>0, <1>3, <1>b DEF ResendWrite, Request
  <2>2. row \in Row /\ row.status = "PENDING" /\ row.email = Invitation(r).email
        /\ row.company = Invitation(r).company /\ row.dept = Invitation(r).dept
        /\ ~row.responded
    BY <1>k, <2>1 DEF Row, Status
  <2> QED
    BY <1>3, <2>1, <2>2, RowWritten DEF ResendWrite, Status
<1>4. ASSUME NEW answer \in {"DECLINED", "VIEWED"}, req[r].pc \in {"decline", "get_view"},
             SetRow(r, [Invitation(r) EXCEPT !.status = answer, !.responded = TRUE]),
             Finish(r), UNCHANGED <<now, users, phoneOf, staff, placed>>
      PROVE  IInv'
  <2> DEFINE row == [Invitation(r) EXCEPT !.status = answer, !.responded = TRUE]
  <2>1. req[r].pc \in CodeSteps
    BY <1>4, <1>b
  <2>2. row \in Row /\ row.status = answer /\ row.email = Invitation(r).email
        /\ row.company = Invitation(r).company /\ row.dept = Invitation(r).dept
        /\ row.responded
    BY <1>4, <1>k, <2>1 DEF Row, Status
  <2> QED
    BY <1>4, <2>1, <2>2, RowWritten DEF Status
<1>5. ASSUME NEW end \in {"EXPIRED", "DELETED"}, req[r].pc \in {"delete", "get_expire"},
             SetRow(r, [Invitation(r) EXCEPT !.status = end]),
             Finish(r), UNCHANGED <<now, users, phoneOf, staff, placed>>
      PROVE  IInv'
  <2> DEFINE row == [Invitation(r) EXCEPT !.status = end]
  <2>1. req[r].pc \in CodeSteps
    BY <1>5, <1>b
  <2>2. row \in Row /\ row.status = end /\ row.email = Invitation(r).email
        /\ row.company = Invitation(r).company /\ row.dept = Invitation(r).dept
    BY <1>5, <1>k, <2>1 DEF Row, Status
  <2> QED
    BY <1>5, <2>1, <2>2, RowWritten DEF Status
<1>6. CASE DeclineWrite(r)
  BY <1>4, <1>6 DEF DeclineWrite
<1>7. CASE GetView(r)
  BY <1>4, <1>7 DEF GetView
<1>8. CASE DeleteWrite(r)
  BY <1>5, <1>8 DEF DeleteWrite
<1>9. CASE GetExpire(r)
  BY <1>5, <1>9 DEF GetExpire
<1> QED
  BY <1>1, <1>2, <1>3, <1>6, <1>7, <1>8, <1>9 DEF AnswerStep

-----------------------------------------------------------------------------
(* The whole service *)

LEMMA NextPreserves == IInv /\ [Next]_vars => IInv'
<1> SUFFICES ASSUME IInv, [Next]_vars PROVE IInv'
  OBVIOUS
<1>1. CASE UNCHANGED vars
  <2>1. UNCHANGED <<now, inv, users, phoneOf, staff, placed, req>>
    BY <1>1 DEF vars
  <2>2. TypeOK' /\ RequestOK'
    BY <2>1 DEF IInv, TypeOK, RequestOK, Sound, Known
  <2> QED
    BY <2>1, <2>2 DEF IInv, AcceptedHasStaff, AnswerRecorded
<1>2. CASE Tick
  <2>1. UNCHANGED <<inv, users, phoneOf, staff, placed, req>> /\ now' \in 0..MaxTime
    BY <1>2, ConstantsAssumption DEF Tick, dbVars, IInv, TypeOK
  <2>2. TypeOK' /\ RequestOK'
    BY <2>1 DEF IInv, TypeOK, RequestOK, Sound, Known
  <2> QED
    BY <2>1, <2>2 DEF IInv, AcceptedHasStaff, AnswerRecorded
<1>3. ASSUME NEW r \in Requests, Fail(r) PROVE IInv'
  <2>1. Idle \in Request
    BY DEF Idle, Request, Batches
  <2>2. Sound(Idle)
    BY DEF Sound, Idle, SendSteps, CodeSteps, AcceptSteps
  <2> QED
    BY <1>3, <2>1, <2>2, RequestMoved DEF Fail, Finish
<1> QED
  BY <1>1, <1>2, <1>3, SendPreserves, AcceptPreserves, AnswerPreserves DEF Next

(* In every reachable state the inductive invariant holds. *)
THEOREM Invariance == Spec => []IInv
<1>1. IInv /\ [Next]_vars => IInv'
  BY NextPreserves
<1> QED
  BY InitIInv, <1>1, PTL DEF Spec

(* Every table and request always holds values of its kind. *)
THEOREM TypeCorrect == Spec => []TypeOK
<1>1. IInv => TypeOK
  BY DEF IInv
<1> QED
  BY Invariance, <1>1, PTL

(* An ACCEPTED invitation always has its staff row at its own company, for *)
(* any number of requests, interleaved and interrupted in any way.         *)
THEOREM AcceptedAlwaysHasStaff == Spec => []AcceptedHasStaff
<1>1. IInv => AcceptedHasStaff
  BY DEF IInv
<1> QED
  BY Invariance, <1>1, PTL

(* The response timestamp and the status always agree. *)
THEOREM AnswersAlwaysRecorded == Spec => []AnswerRecorded
<1>1. IInv => AnswerRecorded
  BY DEF IInv
<1> QED
  BY Invariance, <1>1, PTL

-----------------------------------------------------------------------------
(* The service implements the ledger *)

LEMMA LedgerInit == Init => Ledger!Init
  BY DEF Init, Ledger!Init, TermsOf, StatusOf, RespondedOf, Known, FreeRow

(* How writing one row shows in the ledger. *)
LEMMA LedgerRow ==
  ASSUME IInv, NEW r \in Requests, req[r].pc \in CodeSteps,
         NEW row, row.status \in Status,
         row.email = Invitation(r).email, row.company = Invitation(r).company,
         row.responded \in BOOLEAN,
         SetRow(r, row)
  PROVE  LET c == req[r].code IN
         /\ c \in Codes
         /\ Ledger!Issued(c)
         /\ TermsOf[c] = Membership(r)
         /\ TermsOf' = TermsOf
         /\ StatusOf' = [StatusOf EXCEPT ![c] = row.status]
         /\ RespondedOf' = IF row.responded THEN RespondedOf \cup {c} ELSE RespondedOf \ {c}
<1> DEFINE c == req[r].code
<1>1. c \in Codes /\ Known(c) /\ inv \in [Codes -> Row]
  BY DEF IInv, TypeOK, RequestOK, Sound
<1>2. \A d \in Codes : inv'[d] = IF d = c THEN row ELSE inv[d]
  BY <1>1 DEF SetRow
<1>3. \A d \in Codes : Known(d)' = Known(d) /\ inv'[d].email = inv[d].email
                       /\ inv'[d].company = inv[d].company
  BY <1>1, <1>2 DEF Known, Invitation, Status
<1>4. TermsOf' = TermsOf
  BY <1>3 DEF TermsOf
<1>5. StatusOf' = [StatusOf EXCEPT ![c] = row.status]
  BY <1>1, <1>2 DEF StatusOf
<1>6. RespondedOf' = IF row.responded THEN RespondedOf \cup {c} ELSE RespondedOf \ {c}
  BY <1>1, <1>2 DEF RespondedOf
<1>7. Membership(r) \in [email : Emails, company : Companies]
  BY <1>1 DEF IInv, RequestOK, Membership, Invitation
<1>8. TermsOf[c] = Membership(r) /\ Ledger!Issued(c)
  BY <1>1, <1>7, ConstantsAssumption DEF TermsOf, Membership, Invitation, Ledger!Issued
<1> QED
  BY <1>1, <1>4, <1>5, <1>6, <1>8

(* A step that touches neither invitations nor staff is invisible. *)
LEMMA LedgerStutter ==
  ASSUME inv' = inv, staff' = staff
  PROVE  UNCHANGED Ledger!ledgerVars
  BY DEF Ledger!ledgerVars, TermsOf, StatusOf, RespondedOf, Known

(* Creating a batch of invitations issues their terms. *)
LEMMA LedgerIssue ==
  ASSUME IInv, NEW r \in Requests, SendCreate(r)
  PROVE  Ledger!Issue
<1>0. PICK cs \in SUBSET {c \in Codes : ~Known(c)} :
        \E place \in Bijection(cs, req[r].batch) :
          inv' = [c \in Codes |-> IF c \in cs
                                  THEN NewRow(place[c], req[r].company, req[r].until)
                                  ELSE inv[c]]
  BY DEF SendCreate
<1>1. PICK place \in Bijection(cs, req[r].batch) :
        inv' = [c \in Codes |-> IF c \in cs
                                THEN NewRow(place[c], req[r].company, req[r].until)
                                ELSE inv[c]]
  BY <1>0
<1> DEFINE t == [c \in cs |-> [email |-> place[c].email, company |-> req[r].company]]
<1>2. req[r] \in Request /\ req[r].company \in Companies
  BY DEF IInv, TypeOK, RequestOK, Sound, SendCreate, SendSteps
<1>3. \A c \in cs : place[c] \in Item
  BY <1>1, <1>2 DEF Bijection, Injection, Request, Batches
<1>4. t \in [cs -> Ledger!Terms]
  BY <1>2, <1>3 DEF Ledger!Terms, Item
<1>5. \A c \in cs : Known(c)' /\ inv'[c].status = "PENDING" /\ inv'[c].responded = FALSE
                   /\ inv'[c].email = t[c].email /\ inv'[c].company = t[c].company
  BY <1>1 DEF NewRow, Known
<1>6. \A c \in Codes \ cs : inv'[c] = inv[c] /\ Known(c)' = Known(c)
  BY <1>1 DEF Known
<1>7. cs \in SUBSET {c \in Codes : ~Ledger!Issued(c)}
  BY <1>0, ConstantsAssumption DEF Ledger!Issued, TermsOf
<1>8. TermsOf' = [c \in Codes |-> IF c \in cs THEN t[c] ELSE TermsOf[c]]
  BY <1>5, <1>6 DEF TermsOf
<1>9. StatusOf' = [c \in Codes |-> IF c \in cs THEN "PENDING" ELSE StatusOf[c]]
  BY <1>5, <1>6 DEF StatusOf
<1>10. RespondedOf' = RespondedOf \ cs
  BY <1>5, <1>6 DEF RespondedOf
<1>11. UNCHANGED staff
  BY DEF SendCreate
<1> HIDE DEF t
<1> QED
  BY <1>4, <1>7, <1>8, <1>9, <1>10, <1>11 DEF Ledger!Issue

(* Every other step that writes a row, and the one that adds a member. *)
LEMMA LedgerAnswers ==
  ASSUME IInv, NEW r \in Requests,
         \/ AcceptExpire(r) \/ AcceptMark(r) \/ ResendWrite(r) \/ DeclineWrite(r)
         \/ DeleteWrite(r) \/ GetExpire(r) \/ GetView(r)
  PROVE  Ledger!Next
<1> DEFINE c == req[r].code
<1>0. req[r].pc \in CodeSteps /\ UNCHANGED staff
  BY DEF AcceptExpire, AcceptMark, ResendWrite, DeclineWrite, DeleteWrite, GetExpire,
     GetView, CodeSteps, AcceptSteps
<1>1. Invitation(r) \in Row /\ c \in Codes
  BY <1>0 DEF IInv, TypeOK, RequestOK, Sound, Invitation
<1>2. CASE ResendWrite(r)
  <2> DEFINE row == [Invitation(r) EXCEPT !.status = "PENDING", !.expires = req[r].until,
                                          !.responded = FALSE]
  <2>1. row.status = "PENDING" /\ row.email = Invitation(r).email
        /\ row.company = Invitation(r).company /\ row.responded \in BOOLEAN /\ ~row.responded
    BY <1>1 DEF Row
  <2>2. SetRow(r, row)
    BY <1>2 DEF ResendWrite
  <2> HIDE DEF row
  <2>3. /\ Ledger!Issued(c) /\ TermsOf' = TermsOf
        /\ StatusOf' = [StatusOf EXCEPT ![c] = "PENDING"]
        /\ RespondedOf' = IF row.responded THEN RespondedOf \cup {c} ELSE RespondedOf \ {c}
    BY <1>0, <2>1, <2>2, LedgerRow DEF Status
  <2>4. Ledger!Reopen(c)
    BY <1>0, <2>1, <2>3 DEF Ledger!Reopen
  <2> QED
    BY <1>1, <2>4 DEF Ledger!Next
<1>3. CASE AcceptMark(r) \/ DeclineWrite(r) \/ GetView(r)
  <2>1. PICK answer \in {"VIEWED", "ACCEPTED", "DECLINED"} :
          /\ SetRow(r, [Invitation(r) EXCEPT !.status = answer, !.responded = TRUE])
          /\ answer = "ACCEPTED" => req[r].pc = "acc_mark"
    BY <1>3 DEF AcceptMark, DeclineWrite, GetView
  <2> DEFINE row == [Invitation(r) EXCEPT !.status = answer, !.responded = TRUE]
  <2>2. row.status = answer /\ row.email = Invitation(r).email
        /\ row.company = Invitation(r).company /\ row.responded \in BOOLEAN /\ row.responded
        /\ row.status \in Status
    BY <1>1, <2>1 DEF Row, Status
  <2>3. answer = "ACCEPTED" => Membership(r) \in staff
    BY <2>1 DEF IInv, RequestOK, Sound, Membership, Invitation
  <2>4. SetRow(r, row)
    BY <2>1
  <2> HIDE DEF row
  <2>5. /\ Ledger!Issued(c) /\ TermsOf' = TermsOf /\ TermsOf[c] = Membership(r)
        /\ StatusOf' = [StatusOf EXCEPT ![c] = answer]
        /\ RespondedOf' = IF row.responded THEN RespondedOf \cup {c} ELSE RespondedOf \ {c}
    BY <1>0, <2>2, <2>4, LedgerRow
  <2>6. Ledger!Answer(c, answer)
    BY <1>0, <2>2, <2>3, <2>5 DEF Ledger!Answer
  <2> QED
    BY <1>1, <2>6 DEF Ledger!Next
<1>4. CASE AcceptExpire(r) \/ DeleteWrite(r) \/ GetExpire(r)
  <2>1. PICK end \in {"EXPIRED", "DELETED"} :
          SetRow(r, [Invitation(r) EXCEPT !.status = end])
    BY <1>4 DEF AcceptExpire, DeleteWrite, GetExpire
  <2> DEFINE row == [Invitation(r) EXCEPT !.status = end]
  <2>2. row.status = end /\ row.email = Invitation(r).email
        /\ row.company = Invitation(r).company
        /\ row.responded = Invitation(r).responded /\ row.responded \in BOOLEAN
    BY <1>1 DEF Row
  <2>3. SetRow(r, row)
    BY <2>1
  <2> HIDE DEF row
  <2>4. RespondedOf' = RespondedOf
    BY <1>0, <1>1, <2>2, <2>3, LedgerRow DEF RespondedOf, Invitation, Status
  <2>5. Ledger!Close(c, end)
    BY <1>0, <2>2, <2>3, <2>4, LedgerRow DEF Ledger!Close, Status
  <2> QED
    BY <1>1, <2>5 DEF Ledger!Next
<1> QED
  BY <1>2, <1>3, <1>4

LEMMA LedgerJoin ==
  ASSUME IInv, NEW r \in Requests, AcceptCreateStaff(r)
  PROVE  Ledger!Next \/ UNCHANGED Ledger!ledgerVars
<1> DEFINE c == req[r].code
<1>1. c \in Codes /\ Known(c) /\ UNCHANGED inv
  BY DEF IInv, RequestOK, Sound, AcceptCreateStaff, CodeSteps, AcceptSteps
<1>2. TermsOf[c] = Membership(r)
  BY <1>1 DEF TermsOf, Membership, Invitation
<1>3. Membership(r) \in [email : Emails, company : Companies]
  BY <1>1 DEF IInv, RequestOK, Membership, Invitation
<1>4. Ledger!Issued(c)
  BY <1>2, <1>3, ConstantsAssumption DEF Ledger!Issued
<1>5. CASE \E s \in staff : s.email = Invitation(r).email
  BY <1>1, <1>5, LedgerStutter DEF AcceptCreateStaff
<1>6. CASE ~ \E s \in staff : s.email = Invitation(r).email
  <2>1. staff' = staff \cup {TermsOf[c]}
    BY <1>2, <1>6 DEF AcceptCreateStaff
  <2>2. \A m \in staff : m.email # TermsOf[c].email
    BY <1>2, <1>6 DEF Membership
  <2>3. UNCHANGED <<TermsOf, StatusOf, RespondedOf>>
    BY <1>1 DEF TermsOf, StatusOf, RespondedOf, Known
  <2> QED
    BY <1>1, <1>4, <2>1, <2>2, <2>3 DEF Ledger!Next, Ledger!Join
<1> QED
  BY <1>5, <1>6

(* Every step of the service is a step of the ledger or invisible to it. *)
LEMMA LedgerNext == IInv /\ [Next]_vars => [Ledger!Next]_(Ledger!ledgerVars)
<1> SUFFICES ASSUME IInv, [Next]_vars, ~ UNCHANGED Ledger!ledgerVars PROVE Ledger!Next
  OBVIOUS
<1>1. ~ (inv' = inv /\ staff' = staff)
  BY LedgerStutter
<1>2. ~ UNCHANGED vars /\ ~ Tick
  BY <1>1 DEF vars, Tick, dbVars
<1>3. PICK r \in Requests : SendStep(r) \/ AcceptStep(r) \/ AnswerStep(r) \/ Fail(r)
  BY <1>2 DEF Next
<1>4. ~ Fail(r)
  BY <1>1 DEF Fail, dbVars
<1>5. CASE SendStep(r)
  BY <1>1, <1>5, LedgerIssue
     DEF SendStep, SendStart, SendReadPending, SendReadStaff, dbVars, Ledger!Next
<1>6. CASE AcceptStep(r)
  <2>1. AcceptExpire(r) \/ AcceptMark(r) \/ AcceptCreateStaff(r)
    BY <1>1, <1>6 DEF AcceptStep, AcceptRead, AcceptFindUser, AcceptCreateUser,
       AcceptFindStaff, AcceptPlace, dbVars
  <2> QED
    BY <2>1, LedgerAnswers, LedgerJoin
<1>7. CASE AnswerStep(r)
  <2>1. \/ ResendWrite(r) \/ DeclineWrite(r) \/ DeleteWrite(r) \/ GetExpire(r) \/ GetView(r)
    BY <1>1, <1>7 DEF AnswerStep, ResendRead, DeclineRead, DeleteRead, GetRead, dbVars
  <2> QED
    BY <2>1, LedgerAnswers
<1> QED
  BY <1>3, <1>4, <1>5, <1>6, <1>7

(* The service implements the ledger. *)
THEOREM Refinement == Spec => LedgerSpec
<1>1. Init => Ledger!Init
  BY LedgerInit
<1>2. IInv /\ [Next]_vars => [Ledger!Next]_(Ledger!ledgerVars)
  BY LedgerNext
<1> QED
  BY Invariance, <1>1, <1>2, PTL DEF Spec, LedgerSpec, Ledger!Spec
-----------------------------------------------------------------------------
(* Requests served one at a time.  What a request read is still so when it *)
(* writes, for nobody else wrote in between; what it left half-done is all *)
(* that the next one can find.                                             *)

OneAtATime == \A r, s \in Requests : r = s

Fresh(q) ==
  LET row == inv[q.code]
      elsewhere(s) == s.email = row.email /\ s.company # row.company
  IN  /\ q.pc \in AcceptSteps \ {"acc_expire"} => row.status \in {"PENDING", "VIEWED"}
      /\ q.pc = "acc_expire" => row.status \in {"PENDING", "VIEWED", "EXPIRED"}
      /\ q.pc \in {"acc_expire", "get_expire"} => Overdue(row)
      /\ q.pc = "resend" => row.status \in {"PENDING", "VIEWED", "EXPIRED", "DELETED"}
      /\ q.pc = "decline" => row.status \in {"PENDING", "VIEWED", "DECLINED", "EXPIRED"}
      /\ q.pc = "get_view" => row.status = "PENDING"
      /\ q.pc = "acc_newuser" => row.email \notin users
      /\ q.pc \in {"acc_lookup", "acc_staff"} => row.email \in users
      /\ q.pc = "acc_staff" =>
           [email |-> row.email, company |-> row.company] \notin staff
      /\ q.pc = "conflict" =>
           \/ \E s \in staff : elsewhere(s)
           \/ q.phone # None /\ phoneOf[q.phone] \notin {None, row.email}

(* A staff member has a user row, made first; a phone number is that of a  *)
(* user; an EXPIRED invitation is past its time, for reopening it dates it *)
(* anew.                                                                   *)
StaffAreUsers == \A s \in staff : s.email \in users
NumbersOfUsers == \A p \in Phones : phoneOf[p] \in users \cup {None, Outsider}
ExpiredOverdue == \A c \in Codes : inv[c].status = "EXPIRED" => Overdue(inv[c])

SerialInv ==
  /\ StaffAreUsers /\ NumbersOfUsers /\ ExpiredOverdue
  /\ \A r \in Requests : Fresh(req[r])

FreshSteps == AcceptSteps \cup {"resend", "decline", "get_expire", "get_view", "conflict"}

LEMMA FreshAtRest == \A q : q.pc \notin FreshSteps => Fresh(q)
  BY DEF Fresh, FreshSteps, AcceptSteps

LEMMA FreshIdle == Fresh(Idle)
  BY FreshAtRest DEF Idle, FreshSteps, AcceptSteps

LEMMA InitSerial == Init => SerialInv
  BY FreshIdle DEF Init, SerialInv, StaffAreUsers, NumbersOfUsers, ExpiredOverdue, FreeRow

(* The only request moves on and no table changes.                         *)
LEMMA SerialMoved ==
  ASSUME IInv, SerialInv, OneAtATime, NEW r \in Requests, NEW q, Fresh(q),
         req' = [req EXCEPT ![r] = q], UNCHANGED <<now, dbVars>>
  PROVE  SerialInv'
<1>1. \A s \in Requests : req'[s] = q
  BY DEF IInv, TypeOK, OneAtATime
<1>2. Fresh(q)'
  BY DEF Fresh, dbVars, Overdue
<1>3. \A s \in Requests : Fresh(req[s])'
  BY <1>1, <1>2 DEF Fresh
<1> QED
  BY <1>3 DEF SerialInv, StaffAreUsers, NumbersOfUsers, ExpiredOverdue, dbVars, Overdue

(* The only request writes its invitation and ends.                        *)
LEMMA SerialWritten ==
  ASSUME IInv, SerialInv, OneAtATime, NEW r \in Requests, NEW row,
         row.status = "EXPIRED" => Overdue(row),
         SetRow(r, row), Finish(r), UNCHANGED <<now, users, phoneOf, staff, placed>>
  PROVE  SerialInv'
<1>1. \A s \in Requests : req'[s] = Idle
  BY DEF IInv, TypeOK, OneAtATime, Finish
<1>2. \A s \in Requests : Fresh(req[s])'
  BY <1>1 DEF Fresh, Idle, AcceptSteps
<1>3. \A c \in Codes : inv'[c] = inv[c] \/ inv'[c] = row
  BY DEF IInv, TypeOK, SetRow
<1>4. ExpiredOverdue'
  BY <1>3 DEF SerialInv, ExpiredOverdue, Overdue
<1> QED
  BY <1>2, <1>4 DEF SerialInv, StaffAreUsers, NumbersOfUsers

LEMMA SerialSend ==
  ASSUME IInv, SerialInv, OneAtATime, NEW r \in Requests, SendStep(r) PROVE SerialInv'
<1>0. req[r] \in Request
  BY DEF IInv, TypeOK
<1>1. CASE SendStart(r) \/ SendReadPending(r) \/ SendReadStaff(r)
  <2>1. PICK q : req' = [req EXCEPT ![r] = q] /\ q.pc \notin FreshSteps
    <3>1. CASE SendStart(r)
      <4>1. PICK b \in Batches, co \in Companies :
              req' = [req EXCEPT ![r] = [Idle EXCEPT !.pc = "send_reads",
                                                     !.batch = b, !.company = co]]
        BY <3>1 DEF SendStart
      <4> DEFINE q == [Idle EXCEPT !.pc = "send_reads", !.batch = b, !.company = co]
      <4>2. q.pc \notin FreshSteps
        BY DEF Idle, FreshSteps, AcceptSteps
      <4>3. req' = [req EXCEPT ![r] = q]
        BY <4>1
      <4> HIDE DEF q
      <4> QED
        BY <4>2, <4>3
    <3>2. ASSUME NEW batch, NEW step \in {"send_staff", "send_pending"}, Keep(r, batch, step)
          PROVE  \E q : req' = [req EXCEPT ![r] = q] /\ q.pc \notin FreshSteps
      <4> DEFINE q == IF req[r].pc = "send_reads"
                      THEN [req[r] EXCEPT !.pc = step, !.batch = batch]
                      ELSE IF batch = {} THEN Idle
                      ELSE [req[r] EXCEPT !.pc = "send_create", !.batch = batch,
                                          !.until = now + Lifetime]
      <4>1. q.pc \notin FreshSteps
        BY <1>0 DEF Request, Idle, FreshSteps, AcceptSteps
      <4>2. req' = [req EXCEPT ![r] = q]
        BY <3>2 DEF Keep
      <4> HIDE DEF q
      <4> QED
        BY <4>1, <4>2
    <3> QED
      BY <1>1, <3>1, <3>2 DEF SendReadPending, SendReadStaff
  <2> QED
    BY <1>1, <2>1, FreshAtRest, SerialMoved DEF SendStart, SendReadPending, SendReadStaff
<1>2. CASE SendCreate(r)
  <2>1. \A c \in Codes : inv'[c] = inv[c] \/ inv'[c].status = "PENDING"
    BY <1>2 DEF SendCreate, NewRow
  <2>2. \A s \in Requests : req'[s] = Idle
    BY <1>2 DEF IInv, TypeOK, OneAtATime, SendCreate, Finish
  <2>3. \A s \in Requests : Fresh(req[s])'
    BY <2>2 DEF Fresh, Idle, AcceptSteps
  <2>4. StaffAreUsers' /\ NumbersOfUsers' /\ ExpiredOverdue'
    BY <1>2, <2>1 DEF SendCreate, SerialInv, StaffAreUsers, NumbersOfUsers, ExpiredOverdue, Overdue
  <2> QED
    BY <2>3, <2>4 DEF SerialInv
<1> QED
  BY <1>1, <1>2 DEF SendStep

(* A row that is begun upon is fresh, by what the handler checked.         *)
LEMMA SerialBegin ==
  ASSUME IInv, SerialInv, OneAtATime, NEW r \in Requests, NEW c \in Codes,
         AcceptRead(r, c) \/ ResendRead(r, c) \/ DeclineRead(r, c) \/ DeleteRead(r, c) \/ GetRead(r, c)
  PROVE  SerialInv'
<1>1. PICK step, until :
        /\ step \in CodeSteps /\ Begin(r, c, step, until)
        /\ \/ step \in {"acc_expire", "acc_user"} /\ AcceptRead(r, c)
              /\ (step = "acc_expire" <=> Overdue(inv[c]))
           \/ step = "resend" /\ ResendRead(r, c)
           \/ step = "decline" /\ DeclineRead(r, c)
           \/ step = "delete"
           \/ step = "get_expire" /\ Overdue(inv[c])
           \/ step = "get_view" /\ inv[c].status = "PENDING"
  BY DEF AcceptRead, ResendRead, DeclineRead, DeleteRead, GetRead, CodeSteps, AcceptSteps
<1> DEFINE q == [Idle EXCEPT !.pc = step, !.code = c, !.until = until]
<1>2. q.pc = step /\ q.code = c
  BY DEF Idle
<1>3. inv[c].status \in Status \cup {"FREE"} /\ (inv[c].status = "EXPIRED" => Overdue(inv[c]))
  BY DEF IInv, TypeOK, Row, SerialInv, ExpiredOverdue
<1>4. req' = [req EXCEPT ![r] = q] /\ UNCHANGED <<now, dbVars>>
  BY <1>1 DEF Begin, AcceptRead, ResendRead, DeclineRead, DeleteRead, GetRead
<1> HIDE DEF q
<1>5. Fresh(q)
  BY <1>1, <1>2, <1>3 DEF Fresh, AcceptSteps, Status, AcceptRead, ResendRead, DeclineRead
<1> QED
  BY <1>4, <1>5, SerialMoved

(* acceptInvitation's insert of a user: it finds the e-mail free, and is   *)
(* refused only for a number that some other user has.                     *)
LEMMA SerialCreateUser ==
  ASSUME IInv, SerialInv, OneAtATime, NEW r \in Requests, AcceptCreateUser(r)
  PROVE  SerialInv'
<1> DEFINE email == Invitation(r).email
<1>0. req[r] \in Request /\ Fresh(req[r]) /\ req[r].pc = "acc_newuser"
      /\ UNCHANGED <<now, inv, staff, placed>> /\ \A s \in Requests : s = r
  BY DEF IInv, TypeOK, SerialInv, AcceptCreateUser, OneAtATime
<1>1. email \notin users /\ Invitation(r).status \in {"PENDING", "VIEWED"}
  BY <1>0 DEF Fresh, Invitation, AcceptSteps
<1>2. \A s \in staff : s.email # email
  BY <1>1 DEF SerialInv, StaffAreUsers
<1>3. PICK phone \in Phones \cup {None} :
        IF phone # None /\ phoneOf[phone] # None
        THEN /\ req' = [req EXCEPT ![r].pc = "conflict", ![r].phone = phone]
             /\ UNCHANGED <<users, phoneOf>>
        ELSE /\ Goto(r, "acc_staff")
             /\ users' = users \cup {email}
             /\ phoneOf' = [p \in Phones |-> IF p = phone THEN email ELSE phoneOf[p]]
  BY <1>1 DEF AcceptCreateUser
<1>4. ExpiredOverdue'
  BY <1>0 DEF SerialInv, ExpiredOverdue, Overdue
<1>5. CASE phone # None /\ phoneOf[phone] # None
  <2> DEFINE q == [req[r] EXCEPT !.pc = "conflict", !.phone = phone]
  <2>1. req' = [req EXCEPT ![r] = q] /\ UNCHANGED dbVars
    BY <1>0, <1>3, <1>5 DEF dbVars
  <2>2. q.pc = "conflict" /\ q.phone = phone /\ inv[q.code] = Invitation(r)
    BY <1>0 DEF Request, Invitation
  <2>3. phoneOf[phone] \notin {None, email}
    <3>1. email \in Emails
      BY <1>0 DEF IInv, RequestOK, Sound, Invitation, CodeSteps, AcceptSteps
    <3>2. email # Outsider
      BY <3>1, ConstantsAssumption
    <3> QED
      BY <1>1, <1>5, <3>2 DEF SerialInv, NumbersOfUsers
  <2> HIDE DEF q
  <2>4. Fresh(q)
    BY <1>5, <2>2, <2>3 DEF Fresh, AcceptSteps
  <2> QED
    BY <1>0, <2>1, <2>4, SerialMoved
<1>6. CASE ~ (phone # None /\ phoneOf[phone] # None)
  <2> DEFINE q == [req[r] EXCEPT !.pc = "acc_staff"]
  <2>1. req' = [req EXCEPT ![r] = q] /\ users' = users \cup {email}
    BY <1>3, <1>6 DEF Goto
  <2>2. q.pc = "acc_staff" /\ inv[q.code] = Invitation(r)
    BY <1>0 DEF Request, Invitation
  <2>3. \A p \in Phones : phoneOf'[p] = email \/ phoneOf'[p] = phoneOf[p]
    BY <1>3, <1>6
  <2> HIDE DEF q
  <2>4. req'[r] = q
    BY <2>1 DEF IInv, TypeOK
  <2>5. [email |-> email, company |-> Invitation(r).company] \notin staff
    BY <1>2
  <2>6. Fresh(req[r])'
    BY <1>0, <1>1, <2>1, <2>2, <2>4, <2>5 DEF Fresh, AcceptSteps
  <2>7. StaffAreUsers' /\ NumbersOfUsers'
    BY <1>0, <2>1, <2>3 DEF SerialInv, StaffAreUsers, NumbersOfUsers
  <2> QED
    BY <1>0, <1>4, <2>6, <2>7 DEF SerialInv
<1> QED
  BY <1>5, <1>6

(* The rest of acceptInvitation up to its last write.  A refused insert of *)
(* a staff row finds a member of another company.                          *)
LEMMA SerialAccept ==
  ASSUME IInv, SerialInv, OneAtATime, NEW r \in Requests,
         \/ AcceptFindUser(r) \/ AcceptFindStaff(r)
         \/ AcceptCreateStaff(r) \/ AcceptPlace(r)
  PROVE  SerialInv'
<1> DEFINE row == Invitation(r)
<1>0. req[r] \in Request /\ Fresh(req[r]) /\ UNCHANGED <<now, inv, users, phoneOf>>
  BY DEF IInv, TypeOK, SerialInv, AcceptFindUser, AcceptFindStaff,
     AcceptCreateStaff, AcceptPlace, dbVars
<1>1. req[r].pc \in AcceptSteps \ {"acc_expire"} /\ row.status \in {"PENDING", "VIEWED"}
  BY <1>0 DEF Fresh, Invitation, AcceptSteps, AcceptFindUser, AcceptFindStaff,
     AcceptCreateStaff, AcceptPlace
<1>2. PICK step \in AcceptSteps \cup {"conflict"} : Goto(r, step) /\ step # "acc_expire"
  BY DEF AcceptFindUser, AcceptFindStaff, AcceptCreateStaff, AcceptPlace, AcceptSteps
<1> DEFINE q == [req[r] EXCEPT !.pc = step]
<1>3. q.pc = step /\ inv[q.code] = row /\ req' = [req EXCEPT ![r] = q]
  BY <1>0, <1>2 DEF Request, Goto, Invitation
<1> HIDE DEF q
<1>4. req'[r] = q /\ \A s \in Requests : s = r
  BY <1>3 DEF IInv, TypeOK, OneAtATime
<1>5. \A s \in staff : s \in StaffRow /\ s.email \in users
  BY DEF IInv, TypeOK, SerialInv, StaffAreUsers
<1>n. NumbersOfUsers'
  BY <1>0 DEF SerialInv, NumbersOfUsers
<1>6. StaffAreUsers'
  <2>1. CASE AcceptCreateStaff(r) /\ UNCHANGED staff
    BY <1>5, <2>1 DEF AcceptCreateStaff, StaffAreUsers
  <2>2. CASE AcceptCreateStaff(r) /\ staff' = staff \cup {Membership(r)}
    BY <1>0, <1>5, <2>2 DEF AcceptCreateStaff, StaffAreUsers, Fresh, Membership, Invitation
  <2>3. CASE AcceptFindUser(r) \/ AcceptFindStaff(r) \/ AcceptPlace(r)
    BY <1>5, <2>3 DEF AcceptFindUser, AcceptFindStaff, AcceptPlace, StaffAreUsers, dbVars
  <2> QED
    BY <2>1, <2>2, <2>3 DEF AcceptCreateStaff
<1>7. /\ step = "acc_newuser" => row.email \notin users'
      /\ step \in {"acc_lookup", "acc_staff"} => row.email \in users'
      /\ step = "acc_staff" => [email |-> row.email, company |-> row.company] \notin staff'
      /\ step = "conflict" => \E s \in staff' : s.email = row.email /\ s.company # row.company
  <2>1. CASE AcceptFindUser(r)
    BY <1>0, <1>2, <1>4, <2>1 DEF AcceptFindUser, Goto, IInv, TypeOK, Request, dbVars
  <2>3. CASE AcceptFindStaff(r)
    <3>1. row.email \in users /\ step = (IF Membership(r) \in staff THEN "acc_mark" ELSE "acc_staff")
      BY <1>0, <1>2, <2>3 DEF AcceptFindStaff, Goto, IInv, TypeOK, Request, Fresh, Invitation
    <3> QED
      BY <2>3, <3>1 DEF AcceptFindStaff, dbVars, Membership
  <2>4. CASE AcceptCreateStaff(r)
    <3>1. Membership(r) \notin staff
      BY <1>0, <2>4 DEF AcceptCreateStaff, Fresh, Membership, Invitation
    <3>2. CASE \E s \in staff : s.email = row.email
      <4>1. step = "conflict" /\ staff' = staff
        BY <1>0, <1>2, <2>4, <3>2 DEF AcceptCreateStaff, Goto, IInv, TypeOK, Request
      <4> QED
        BY <1>5, <3>1, <3>2, <4>1 DEF Membership, StaffRow
    <3>3. CASE ~ \E s \in staff : s.email = row.email
      <4>1. step \in {"acc_mark", "acc_dept"}
        BY <1>0, <1>2, <2>4, <3>3 DEF AcceptCreateStaff, Goto, IInv, TypeOK, Request
      <4> QED
        BY <4>1
    <3> QED
      BY <3>2, <3>3
  <2>5. CASE AcceptPlace(r)
    BY <1>0, <1>2, <2>5 DEF AcceptPlace, Goto, IInv, TypeOK, Request
  <2> QED
    BY <2>1, <2>3, <2>4, <2>5
<1>8. Fresh(req[r])'
  BY <1>0, <1>1, <1>2, <1>3, <1>4, <1>7 DEF Fresh, AcceptSteps
<1>9. ExpiredOverdue'
  BY <1>0 DEF SerialInv, ExpiredOverdue, Overdue
<1> QED
  BY <1>4, <1>6, <1>n, <1>8, <1>9 DEF SerialInv

(* The writes that answer, reopen or close an invitation.                  *)
RowWrite(r) ==
  \/ AcceptExpire(r) \/ AcceptMark(r) \/ ResendWrite(r) \/ DeclineWrite(r)
  \/ DeleteWrite(r) \/ GetExpire(r) \/ GetView(r)

(* One of them changes the status of its own invitation, and that along    *)
(* the lifecycle.                                                          *)
LEMMA WrittenAlong ==
  ASSUME IInv, SerialInv, NEW r \in Requests, RowWrite(r)
  PROVE  \E row : /\ SetRow(r, row) /\ Finish(r) /\ UNCHANGED <<now, users, phoneOf, staff, placed>>
                  /\ row.status = "EXPIRED" => Overdue(row)
                  /\ req[r].code \in Codes
                  /\ \/ row.status = Invitation(r).status
                     \/ [old |-> Invitation(r).status, new |-> row.status] \in Lifecycle
<1>0. req[r].code \in Codes /\ Invitation(r) \in Row /\ Invitation(r).status \in Status
      /\ Fresh(req[r])
  BY DEF IInv, TypeOK, RequestOK, Sound, SerialInv, RowWrite, AcceptExpire, AcceptMark, ResendWrite,
     DeclineWrite, DeleteWrite, GetExpire, GetView, CodeSteps, AcceptSteps, Known, Invitation, Row
<1> DEFINE marked == [Invitation(r) EXCEPT !.status = "ACCEPTED", !.responded = TRUE]
           opened == [Invitation(r) EXCEPT !.status = "PENDING", !.expires = req[r].until,
                                           !.responded = FALSE]
           refused == [Invitation(r) EXCEPT !.status = "DECLINED", !.responded = TRUE]
           viewed == [Invitation(r) EXCEPT !.status = "VIEWED", !.responded = TRUE]
           expired == [Invitation(r) EXCEPT !.status = "EXPIRED"]
           deleted == [Invitation(r) EXCEPT !.status = "DELETED"]
<1>1. /\ marked.status = "ACCEPTED" /\ opened.status = "PENDING" /\ refused.status = "DECLINED"
      /\ viewed.status = "VIEWED" /\ deleted.status = "DELETED"
      /\ expired.status = "EXPIRED" /\ expired.expires = Invitation(r).expires
  BY <1>0 DEF Row
<1>2. /\ AcceptMark(r) => SetRow(r, marked)
      /\ ResendWrite(r) => SetRow(r, opened)
      /\ DeclineWrite(r) => SetRow(r, refused)
      /\ GetView(r) => SetRow(r, viewed)
      /\ AcceptExpire(r) \/ GetExpire(r) => SetRow(r, expired)
      /\ DeleteWrite(r) => SetRow(r, deleted)
  BY DEF AcceptMark, ResendWrite, DeclineWrite, GetView, AcceptExpire, GetExpire, DeleteWrite
<1>3. Finish(r) /\ UNCHANGED <<now, users, phoneOf, staff, placed>>
  BY DEF RowWrite, AcceptMark, ResendWrite, DeclineWrite, GetView, AcceptExpire, GetExpire, DeleteWrite
<1>4. /\ AcceptMark(r) => Invitation(r).status \in {"PENDING", "VIEWED"}
      /\ ResendWrite(r) => Invitation(r).status \in {"PENDING", "VIEWED", "EXPIRED", "DELETED"}
      /\ DeclineWrite(r) => Invitation(r).status \in {"PENDING", "VIEWED", "DECLINED", "EXPIRED"}
      /\ GetView(r) => Invitation(r).status = "PENDING"
      /\ AcceptExpire(r) \/ GetExpire(r) => Overdue(Invitation(r))
  BY <1>0 DEF Fresh, Invitation, AcceptSteps, AcceptMark, ResendWrite, DeclineWrite, GetView,
     AcceptExpire, GetExpire
<1>5. ASSUME NEW old \in Status, NEW new,
             \/ new = "ACCEPTED" /\ old \in {"PENDING", "VIEWED"}
             \/ new = "PENDING" /\ old \in {"PENDING", "VIEWED", "EXPIRED", "DELETED"}
             \/ new = "DECLINED" /\ old \in {"PENDING", "VIEWED", "DECLINED", "EXPIRED"}
             \/ new = "VIEWED" /\ old = "PENDING"
             \/ new \in {"EXPIRED", "DELETED"}
      PROVE  new = old \/ [old |-> old, new |-> new] \in Lifecycle
  BY <1>5 DEF Lifecycle, Status
<1>6. Overdue(Invitation(r)) => Overdue(expired)
  BY <1>1 DEF Overdue
<1> HIDE DEF marked, opened, refused, viewed, expired, deleted
<1> QED
  BY <1>0, <1>1, <1>2, <1>3, <1>4, <1>5, <1>6 DEF RowWrite

LEMMA NextSerial ==
  ASSUME OneAtATime
  PROVE  IInv /\ SerialInv /\ [Next]_vars => SerialInv'
<1> SUFFICES ASSUME IInv, SerialInv, [Next]_vars PROVE SerialInv'
  OBVIOUS
<1>1. CASE UNCHANGED vars
  BY <1>1 DEF vars, SerialInv, StaffAreUsers, NumbersOfUsers, ExpiredOverdue, Overdue, Fresh
<1>2. CASE Tick
  <2>1. \A c \in Codes : Overdue(inv[c]) => Overdue(inv[c])'
    BY <1>2 DEF Tick, dbVars, Overdue, IInv, TypeOK, Row
  <2>2. \A r \in Requests : req[r].pc \in {"acc_expire", "get_expire"} => req[r].code \in Codes
    BY DEF IInv, RequestOK, Sound, CodeSteps, AcceptSteps
  <2> QED
    BY <1>2, <2>1, <2>2 DEF Tick, dbVars, SerialInv, StaffAreUsers, NumbersOfUsers, ExpiredOverdue, Fresh
<1>3. ASSUME NEW r \in Requests, Fail(r) PROVE SerialInv'
  BY <1>3, FreshIdle, SerialMoved DEF Fail, Finish
<1>4. ASSUME NEW r \in Requests, RowWrite(r) PROVE SerialInv'
  BY <1>4, WrittenAlong, SerialWritten
<1>5. ASSUME NEW r \in Requests, AcceptStep(r) \/ AnswerStep(r), ~RowWrite(r) PROVE SerialInv'
  BY <1>5, SerialBegin, SerialCreateUser, SerialAccept DEF AcceptStep, AnswerStep, RowWrite
<1> QED
  BY <1>1, <1>2, <1>3, <1>4, <1>5, SerialSend DEF Next

LEMMA SerialInvariance == ASSUME OneAtATime PROVE Spec => [](IInv /\ SerialInv)
<1>1. IInv /\ [Next]_vars => IInv'
  BY NextPreserves
<1>2. IInv /\ SerialInv /\ [Next]_vars => SerialInv'
  BY NextSerial
<1> QED
  BY <1>1, <1>2, InitIInv, InitSerial, PTL DEF Spec

(* As long as requests are served one at a time, an acceptance that was    *)
(* interrupted anywhere can be repeated with the same data: a unique       *)
(* column refuses it only when the invitee is a member of another company, *)
(* or the phone number is another user's - never for what was left behind. *)
THEOREM InterruptedAcceptanceRepeats ==
  ASSUME \A r, s \in Requests : r = s
  PROVE  Spec => []RetrySafe
<1>1. OneAtATime
  BY DEF OneAtATime
<1>2. IInv /\ SerialInv => RetrySafe
  BY DEF SerialInv, Fresh, RetrySafe, StaffElsewhere, NumberTaken, Invitation
<1>3. Spec => [](IInv /\ SerialInv)
  BY <1>1, SerialInvariance
<1> QED
  BY <1>2, <1>3, PTL

(* As long as requests are served one at a time, the status of an          *)
(* invitation only ever moves along the lifecycle.                         *)
THEOREM StatusFollowsLifecycle ==
  ASSUME \A r, s \in Requests : r = s
  PROVE  Spec => FollowsLifecycle
<1> DEFINE Along == \A c \in Codes : inv'[c].status # inv[c].status =>
                      [old |-> inv[c].status, new |-> inv'[c].status] \in Lifecycle
<1>1. IInv /\ SerialInv /\ [Next]_vars => [Along]_vars
  <2> SUFFICES ASSUME IInv, SerialInv, Next PROVE Along
    OBVIOUS
  <2>1. inv' = inv => Along
    OBVIOUS
  <2>2. ASSUME NEW r \in Requests, SendCreate(r) PROVE Along
    <3>1. PICK cs \in SUBSET {c \in Codes : ~Known(c)} :
            \A c \in Codes : IF c \in cs THEN inv'[c].status = "PENDING" ELSE inv'[c] = inv[c]
      BY <2>2 DEF SendCreate, NewRow
    <3>2. \A c \in cs : [old |-> inv[c].status, new |-> inv'[c].status] \in Lifecycle
      BY <3>1 DEF Known, Lifecycle
    <3> QED
      BY <3>1, <3>2
  <2>3. ASSUME NEW r \in Requests, RowWrite(r) PROVE Along
    <3>1. PICK row : /\ SetRow(r, row)
                     /\ \/ row.status = Invitation(r).status
                        \/ [old |-> Invitation(r).status, new |-> row.status] \in Lifecycle
      BY <2>3, WrittenAlong
    <3>2. \A c \in Codes : inv'[c] = IF c = req[r].code THEN row ELSE inv[c]
      BY <3>1 DEF SetRow, IInv, TypeOK
    <3> QED
      BY <3>1, <3>2 DEF Invitation
  <2>4. CASE Tick
    BY <2>1, <2>4 DEF Tick, dbVars
  <2>5. ASSUME NEW r \in Requests, SendStep(r) \/ AcceptStep(r) \/ AnswerStep(r) \/ Fail(r),
               ~SendCreate(r), ~RowWrite(r)
        PROVE  inv' = inv
    BY <2>5 DEF SendStep, AcceptStep, AnswerStep, RowWrite, Fail, SendStart, SendReadPending,
       SendReadStaff, AcceptRead, AcceptFindUser, AcceptCreateUser, AcceptFindStaff,
       AcceptCreateStaff, AcceptPlace, ResendRead, DeclineRead, DeleteRead, GetRead, dbVars
  <2> HIDE DEF Along
  <2> QED
    BY <2>1, <2>2, <2>3, <2>4, <2>5 DEF Next
<1>2. OneAtATime
  BY DEF OneAtATime
<1>3. Spec => [](IInv /\ SerialInv)
  BY <1>2, SerialInvariance
<1> QED
  BY <1>1, <1>3, PTL DEF Spec, FollowsLifecycle
=============================================================================
