--------------------------- MODULE InvitationLedger ---------------------------
(***************************************************************************)
(* What the staff invitation service promises, whatever requests run       *)
(* together and wherever they stop: the terms of an invitation are fixed   *)
(* when it is issued, the response timestamp tells the answered states     *)
(* from the open one, an invitation is ACCEPTED only when the invitee is a *)
(* member of the company, and a member is one who was invited, joined once *)
(* and is never dropped.                                                   *)
(***************************************************************************)
CONSTANTS Codes, Emails, Companies, None

VARIABLES
  terms,      \* code -> whom it invites, and where; None before it is issued
  status,     \* code -> status
  responded,  \* codes with a response timestamp
  members     \* [email, company] pairs

Terms == [email : Emails, company : Companies]
Issued(c) == terms[c] # None
ledgerVars == <<terms, status, responded, members>>

Init ==
  /\ terms = [c \in Codes |-> None]
  /\ status = [c \in Codes |-> "FREE"]
  /\ responded = {}
  /\ members = {}

Issue ==
  /\ \E cs \in SUBSET {c \in Codes : ~Issued(c)} :
       /\ \E t \in [cs -> Terms] :
            terms' = [c \in Codes |-> IF c \in cs THEN t[c] ELSE terms[c]]
       /\ status' = [c \in Codes |-> IF c \in cs THEN "PENDING" ELSE status[c]]
       /\ responded' = responded \ cs
  /\ UNCHANGED members

(* Reopening clears the response; an answer or a view records one. *)
Reopen(c) ==
  /\ Issued(c)
  /\ status' = [status EXCEPT ![c] = "PENDING"]
  /\ responded' = responded \ {c}
  /\ UNCHANGED <<terms, members>>

Answer(c, answer) ==
  /\ Issued(c)
  /\ answer = "ACCEPTED" => terms[c] \in members
  /\ status' = [status EXCEPT ![c] = answer]
  /\ responded' = responded \cup {c}
  /\ UNCHANGED <<terms, members>>

Close(c, end) ==
  /\ Issued(c)
  /\ status' = [status EXCEPT ![c] = end]
  /\ UNCHANGED <<terms, responded, members>>

Join(c) ==
  /\ Issued(c)
  /\ \A m \in members : m.email # terms[c].email
  /\ members' = members \cup {terms[c]}
  /\ UNCHANGED <<terms, status, responded>>

Next ==
  \/ Issue
  \/ \E c \in Codes :
       \/ Reopen(c) \/ Join(c)
       \/ \E answer \in {"VIEWED", "ACCEPTED", "DECLINED"} : Answer(c, answer)
       \/ \E end \in {"EXPIRED", "DELETED"} : Close(c, end)

Spec == Init /\ [][Next]_ledgerVars
=============================================================================
