---------------------------- MODULE MCOnboarding ----------------------------
EXTENDS Onboarding, TLC
\* Every registration is made with one e-mail.
SameEmail == [u \in Users |-> CHOOSE e \in Emails : TRUE]
MCSymmetry == Permutations(Users) \cup Permutations(Orgs) \cup Permutations(BuJobs)

-----------------------------------------------------------------------------
\* BOUND of the fair run: either one registration, whose address does not
\* change, or no lost worker, one organization and two business-user jobs.
\* Only what is not under fairness is kept from happening.
Alone ==
  moved = {} /\ \E u \in Users : \A v \in Users \ {u} : reg[v] = "none"
Unbroken ==
  LET only == CHOOSE o \in Orgs : TRUE
      spare == CHOOSE j \in BuJobs : TRUE
  IN  /\ \A u \in Users : orgJob[u].stalls = 0 /\ orgRun[u].org \in {only, None}
      /\ \A j \in BuJobs : /\ buJob[j].stalls = 0
                            /\ IF j = spare THEN buData[j] = None
                               ELSE buData[j] = None \/ buData[j].org = only

BoundedFairSpec == Init /\ [][Next /\ (Alone \/ Unbroken)']_vars /\ Fairness
=============================================================================
