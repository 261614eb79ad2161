----------------------------- MODULE OneTimeCodes -----------------------------
(***************************************************************************)
(* What signing in promises, whatever requests run together and wherever   *)
(* they stop.  A code is issued once and to one user, is redeemed while it *)
(* stands or else becomes void, and is answered with a sign-in once.  Only *)
(* a code that is redeemed and not yet answered opens a session or marks   *)
(* an e-mail verified, its owner's, and only while the owner is there.     *)
(***************************************************************************)
CONSTANTS Users, Codes, None

VARIABLES
  account,   \* user -> "new", "live" or "gone"
  owner,     \* code -> whose it is; None before it is issued
  state,     \* code -> how far it has come
  sessions,  \* users that are signed in
  verified   \* users with a verified e-mail

codeVars == <<account, owner, state, sessions, verified>>

Init ==
  /\ account = [u \in Users |-> "new"]
  /\ owner = [c \in Codes |-> None]
  /\ state = [c \in Codes |-> "free"]
  /\ sessions = {} /\ verified = {}

Standing(u) == {c \in Codes : state[c] = "issued" /\ owner[c] = u}
Voided(cs) == [c \in Codes |-> IF c \in cs THEN "void" ELSE state[c]]

Enrol(u) ==
  /\ account[u] = "new"
  /\ account' = [account EXCEPT ![u] = "live"]
  /\ UNCHANGED <<owner, state, sessions, verified>>

Issue(c, u) ==
  /\ state[c] = "free" /\ account[u] = "live"
  /\ owner' = [owner EXCEPT ![c] = u]
  /\ state' = [state EXCEPT ![c] = "issued"]
  /\ UNCHANGED <<account, sessions, verified>>

RunOut(c) ==
  /\ state[c] = "issued"
  /\ state' = Voided({c})
  /\ UNCHANGED <<account, owner, sessions, verified>>

Redeem(c) ==
  /\ state[c] = "issued"
  /\ state' = [state EXCEPT ![c] = "redeemed"]
  /\ UNCHANGED <<account, owner, sessions, verified>>

Use(c) ==
  /\ state[c] = "redeemed" /\ account[owner[c]] = "live"
  /\ \/ sessions' = sessions \cup {owner[c]} /\ UNCHANGED verified
     \/ verified' = verified \cup {owner[c]} /\ UNCHANGED sessions
  /\ UNCHANGED <<account, owner, state>>

(* The other codes of the user stand no longer.                            *)
Answer(c) ==
  /\ state[c] = "redeemed"
  /\ state' = [Voided(Standing(owner[c])) EXCEPT ![c] = "answered"]
  /\ UNCHANGED <<account, owner, sessions, verified>>

SignOut(u) ==
  /\ sessions' = sessions \ {u}
  /\ UNCHANGED <<account, owner, state, verified>>

Leave(u) ==
  /\ account[u] = "live"
  /\ account' = [account EXCEPT ![u] = "gone"]
  /\ state' = Voided(Standing(u))
  /\ sessions' = sessions \ {u} /\ verified' = verified \ {u}
  /\ UNCHANGED owner

Next ==
  \/ \E u \in Users : Enrol(u) \/ SignOut(u) \/ Leave(u)
  \/ \E c \in Codes : RunOut(c) \/ Redeem(c) \/ Use(c) \/ Answer(c) \/ \E u \in Users : Issue(c, u)

Spec == Init /\ [][Next]_codeVars
=============================================================================
