------------------------- MODULE MCAccountSessions -------------------------
(* Instances of AccountSessions for TLC: a few requests, all alike until they are made. *)
EXTENDS AccountSessions, FiniteSets, TLC

RequestSymmetry == Permutations(Requests)

\* Three requests of any kind, or four that are logins, refreshes and logouts.
FewOrAboutTokens ==
  \/ Cardinality({r \in Requests : requests[r] # Unmade}) <= 3
  \/ \A r \in Requests : requests[r].op \in {"login", "refresh", "logout", Unmade.op}
=============================================================================
