-------------------------- MODULE MCStaffInvitation --------------------------
EXTENDS StaffInvitation, TLC
MCSymmetry == Permutations(Codes) \cup Permutations(Requests) \cup Permutations(Emails)
=============================================================================
