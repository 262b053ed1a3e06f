---------------------------- MODULE TabSessions ----------------------------
(***************************************************************************)
(* The tabs of one browser and the session they share                       *)
(* (apps/web/src/api.ts, ui/App.tsx, ui/Workspace.tsx, ui/AuthScreen.tsx).   *)
(*                                                                         *)
(* localStorage is shared, so a change of it is seen by every tab at once;   *)
(* the access token, the exchange in flight and the session a tab shows are  *)
(* the tab's own and end with a reload.  Tokens are issued in pairs, access  *)
(* and refresh, which have one number.  The server is AccountSessions' in    *)
(* short: a refresh token is good once, and using one again ends every       *)
(* session of its account.                                                  *)
(***************************************************************************)
EXTENDS Integers, Sequences

CONSTANTS Tabs, Accounts, NoAccount,
          MaxPairs   \* bound: pairs of tokens issued

ASSUME TabAssumption == NoAccount \notin Accounts /\ MaxPairs \in Nat \ {0}

VARIABLES stored,  \* localStorage: the number of the access and of the refresh token; the user
          tab,     \* each tab's module and React state
          orphans, \* refresh tokens sent by pages that were gone before the answer
          issued,  \* the server: whose each pair is, in the order they were issued
          good,    \* the server: refresh tokens that were not used or revoked
          valid,   \* the server: access tokens that are accepted
          ended,   \* the server: pairs of sessions that were ended
          history  \* what happened that the promises make an exception for

accounts == <<issued, good, valid, ended>>
tabVars == <<stored, tab, orphans, accounts, history>>

\* A tab: its access token, whom it shows, whether calls wait for the exchange and whether they go
\* out again, the refresh token being exchanged and the answer, whether it is restoring, and from
\* which refresh token; and, for a promise, the token it exchanged last, as long as that is what
\* is stored.
NoTab == [access |-> 0, shows |-> NoAccount, waiting |-> FALSE, again |-> FALSE,
          token |-> 0, answer |-> "none", got |-> 0, restoring |-> FALSE, kept |-> 0,
          spent |-> 0]
Empty == [access |-> 0, refresh |-> 0, user |-> NoAccount]

TabInit ==
  /\ stored = Empty
  /\ tab = [t \in Tabs |-> NoTab]
  /\ orphans = {} /\ issued = <<>> /\ good = {} /\ valid = {} /\ ended = {}
  /\ history = [twice |-> FALSE, unsaved |-> {}]

Latest == Len(issued) + 1
Issue(u, used) ==
  /\ Len(issued) < MaxPairs
  /\ issued' = Append(issued, u)
  /\ good' = (good \ used) \cup {Latest}
  /\ valid' = valid \cup {Latest}
  /\ UNCHANGED ended
PairsOf(u) == {n \in DOMAIN issued : issued[n] = u}
EndSessions(u) ==
  /\ good' = good \ PairsOf(u) /\ valid' = valid \ PairsOf(u) /\ ended' = ended \cup PairsOf(u)
  /\ UNCHANGED issued

\* clearSession, which every tab shares, and a tab that shows the sign-in screen; its exchange
\* goes on.
Out(t) == [NoTab EXCEPT !.token = tab[t].token, !.answer = tab[t].answer, !.got = tab[t].got]
SignOut(t) == stored' = Empty /\ tab' = [tab EXCEPT ![t] = Out(t)]

-----------------------------------------------------------------------------
\* submitLogin: saveSession writes every key.
SignIn(t, u) ==
  /\ tab[t].shows = NoAccount
  /\ Issue(u, {})
  /\ stored' = [access |-> Latest, refresh |-> Latest, user |-> u]
  /\ tab' = [tab EXCEPT ![t] = [@ EXCEPT !.access = Latest, !.shows = u]]
  /\ UNCHANGED <<orphans, history>>

\* A tab is opened or reloaded: loadSession, then restoreSession asks who the user is.
Load(t) ==
  /\ stored.user # NoAccount /\ stored.access # 0 /\ stored.refresh # 0
  /\ tab' = [tab EXCEPT ![t] = [NoTab EXCEPT !.access = stored.access, !.shows = stored.user,
                      !.restoring = TRUE, !.kept = stored.refresh]]
  /\ orphans' = IF tab[t].answer = "none" THEN orphans \cup ({tab[t].token} \ {0}) ELSE orphans
  /\ history' = [history EXCEPT !.unsaved = @ \cup ({tab[t].token} \ {0})]
  /\ UNCHANGED <<stored, accounts>>

\* The end of performRestore: saveSession with the user of the access token and the refresh
\* token that is stored, or else the one that was.
RestoredAs(t) == issued[tab[t].access]
Restore(t) ==
  /\ stored' = [access |-> tab[t].access, user |-> RestoredAs(t),
                refresh |-> IF stored.refresh = 0 THEN tab[t].kept ELSE stored.refresh]
  /\ tab' = [tab EXCEPT ![t] = [@ EXCEPT !.again = FALSE, !.restoring = FALSE,
                                             !.shows = RestoredAs(t)]]
  /\ history' = [history EXCEPT !.unsaved = IF stored.refresh = 0 THEN @ \cup {tab[t].kept} ELSE @]

Accepted(t) ==
  /\ tab[t].restoring /\ ~tab[t].waiting /\ tab[t].access \in valid
  /\ Restore(t)
  /\ UNCHANGED <<orphans, accounts>>

\* request: a call is answered 401.  refreshOnce starts an exchange of the stored refresh token
\* unless one is in flight; with nothing stored the session is over.  Calls that are answered
\* otherwise change nothing here, and a late 401 is taken for one to the tab's last token.
SharesNothing(t) == FALSE   \* a mutant: every 401 starts an exchange
Shares(t) == tab[t].token # 0
Refused(t) ==
  /\ tab[t].shows # NoAccount /\ tab[t].access \notin valid
  /\ tab[t].restoring => ~tab[t].waiting
  /\ IF Shares(t) THEN tab' = [tab EXCEPT ![t] = [@ EXCEPT !.waiting = TRUE]] /\ UNCHANGED stored
     ELSE IF stored.refresh = 0 THEN SignOut(t)
     ELSE /\ tab' = [tab EXCEPT ![t] = [@ EXCEPT !.waiting = TRUE, !.token = stored.refresh,
                                                  !.answer = "none"]]
          /\ UNCHANGED stored
  /\ UNCHANGED <<orphans, accounts, history>>

\* The server's /auth/refresh: a token that was used before ends every session of its account.
Redeem(n) ==
  IF n \in good THEN Issue(issued[n], {n})
  ELSE IF n \in ended THEN UNCHANGED accounts ELSE EndSessions(issued[n])
Exchange(t) ==
  LET n == tab[t].token IN
  /\ n # 0 /\ tab[t].answer = "none"
  /\ Redeem(n)
  /\ tab' = [tab EXCEPT ![t] = [@ EXCEPT !.answer = IF n \in good THEN "new" ELSE "failed",
                                             !.got = IF n \in good THEN Latest ELSE 0, !.spent = n]]
  /\ history' = [history EXCEPT !.twice = @ \/ (tab[t].spent = n /\ n \notin history.unsaved)]
  /\ UNCHANGED <<stored, orphans>>
ExchangeOrphan(n) ==
  /\ n \in orphans
  /\ Redeem(n)
  /\ orphans' = orphans \ {n}
  /\ UNCHANGED <<stored, tab, history>>

\* The call or its answer is lost on the way.
LoseExchange(t) ==
  /\ tab[t].token # 0 /\ tab[t].answer # "failed"
  /\ tab' = [tab EXCEPT ![t] = [@ EXCEPT !.answer = "failed"]]
  /\ UNCHANGED <<stored, orphans, accounts, history>>

\* exchangeRefreshToken stores the pair, not the user, whoever is signed in by then, and the
\* waiting calls are sent once more; after a failure the session is over for every tab.
SavedAccess(n) == [stored EXCEPT !.access = n]   \* a mutant: the refresh token is not stored
Saved(n) == [stored EXCEPT !.access = n, !.refresh = n]
Answered(t) ==
  /\ tab[t].answer = "new"
  /\ stored' = Saved(tab[t].got)
  /\ tab' = [tab EXCEPT ![t] = [@ EXCEPT !.access = tab[t].got, !.token = 0, !.answer = "none", !.got = 0,
                    !.waiting = FALSE, !.again = tab[t].waiting,
                    !.spent = IF stored'.refresh = tab[t].spent THEN tab[t].spent ELSE 0]]
  /\ UNCHANGED <<orphans, accounts, history>>
Failed(t) ==
  /\ tab[t].answer = "failed"
  /\ IF tab[t].waiting THEN stored' = Empty /\ tab' = [tab EXCEPT ![t] = NoTab]
     ELSE tab' = [tab EXCEPT ![t] = [@ EXCEPT !.token = 0, !.answer = "none", !.got = 0]] /\ UNCHANGED stored
  /\ UNCHANGED <<orphans, accounts, history>>

\* The second attempt has no third.
SentAgain(t) ==
  /\ tab[t].again
  /\ IF tab[t].access \notin valid THEN SignOut(t) /\ UNCHANGED history
     ELSE IF tab[t].restoring THEN Restore(t)
     ELSE tab' = [tab EXCEPT ![t] = [@ EXCEPT !.again = FALSE]] /\ UNCHANGED <<stored, history>>
  /\ UNCHANGED <<orphans, accounts>>

\* Anything else goes wrong while the tab restores: performRestore clears the session.
RestoreFails(t) ==
  /\ tab[t].restoring
  /\ SignOut(t)
  /\ UNCHANGED <<orphans, accounts, history>>

\* logout ends the sessions at the server if the call gets there, and the local one always.
LogOut(t) ==
  /\ tab[t].shows # NoAccount /\ ~tab[t].restoring
  /\ IF tab[t].access \in valid THEN EndSessions(issued[tab[t].access]) ELSE UNCHANGED accounts
  /\ SignOut(t)
  /\ UNCHANGED <<orphans, history>>
\* signOutForInactivity, of a tab that saw nothing happen for the limit: it asks for the logout
\* with a GET, which no route answers, so that the server knows nothing of it.
IdleOut(t) ==
  /\ tab[t].shows # NoAccount /\ ~tab[t].restoring
  /\ SignOut(t)
  /\ UNCHANGED <<orphans, accounts, history>>

\* The fifteen minutes of an access token pass.
AccessEnds(n) ==
  /\ n \in valid /\ valid' = valid \ {n}
  /\ UNCHANGED <<stored, tab, orphans, issued, good, ended, history>>

TabNext ==
  \/ \E t \in Tabs :
       \/ \E u \in Accounts : SignIn(t, u)
       \/ Load(t) \/ Exchange(t) \/ LoseExchange(t) \/ Answered(t) \/ Failed(t)
       \/ SentAgain(t) \/ RestoreFails(t) \/ LogOut(t) \/ IdleOut(t)
       \/ Accepted(t) \/ Refused(t)
  \/ \E n \in DOMAIN issued : AccessEnds(n) \/ ExchangeOrphan(n)

TabSpec == TabInit /\ [][TabNext]_tabVars

TabState ==
  [access : Nat, shows : Accounts \cup {NoAccount}, waiting : BOOLEAN, again : BOOLEAN, token : Nat,
   answer : {"none", "new", "failed"}, got : Nat, restoring : BOOLEAN, kept : Nat, spent : Nat]
TabTypeOK ==
  /\ issued \in Seq(Accounts)
  /\ good \cup valid \cup ended \cup orphans \subseteq DOMAIN issued
  /\ stored \in [access : Nat, refresh : Nat, user : Accounts \cup {NoAccount}]
  /\ tab \in [Tabs -> TabState] /\ history \in [twice : BOOLEAN, unsaved : SUBSET Nat]
  /\ {stored.access, stored.refresh} \subseteq 0..Len(issued)
  /\ \A t \in Tabs :
       {tab[t].access, tab[t].token, tab[t].got, tab[t].kept, tab[t].spent} \subseteq 0..Len(issued)

-----------------------------------------------------------------------------
\* "Parallel 401s therefore have to share one exchange rather than each redeeming the same
\* token" (api.ts 102): a page never redeems a token twice, unless the token was put back into
\* the storage by a restore that had read it earlier.
PageRedeemsOnce == ~history.twice

\* The token that the browser keeps is one the server will take, or belongs to a session that
\* was ended, or is being exchanged.  Excepted are tokens of exchanges that a reload cut off and
\* tokens that a restore put back.
StoredTokenIsGood ==
  LET n == stored.refresh IN
  n # 0 => \/ n \in good \cup ended \cup history.unsaved \cup orphans
           \/ \E t \in Tabs : tab[t].token = n
=============================================================================
