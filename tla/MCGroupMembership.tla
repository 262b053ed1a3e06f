------------------------- MODULE MCGroupMembership -------------------------
EXTENDS GroupMembership, TLC
MembershipSymmetry == Permutations(Requests)
=============================================================================
