---------------------------- MODULE MCOtpSession ----------------------------
EXTENDS OtpSession, TLC
MCSymmetry == Permutations(Users) \cup Permutations(Ids) \cup Permutations(Requests)
=============================================================================
