---------------------------- MODULE BrowserProofs ---------------------------
(***************************************************************************)
(* What the parts of the client promise for every value of their constants: *)
(* TabSessions for any tabs and any number of exchanges, GroupPages for any  *)
(* groups, requests and notifications, BrowserPush for any browsers, pages   *)
(* and people.  The parts share no state; a section speaks of one of them.   *)
(***************************************************************************)
EXTENDS TabSessions, GroupPages, BrowserPush, TLAPS

-----------------------------------------------------------------------------
(* The tabs and the session they share *)

\* The pair that an exchange brought is stored, kept, spent and on its way nowhere else.
NewPairFresh(t) ==
  tab[t].answer = "new" =>
    /\ tab[t].got \in good \cup ended /\ tab[t].got # stored.refresh /\ tab[t].got \notin orphans
    /\ \A u \in Tabs : /\ tab[t].got \notin {tab[u].token, tab[u].kept, tab[u].spent}
                       /\ tab[u].answer = "new" /\ u # t => tab[u].got # tab[t].got

\* A stored token that the tab has spent is the one that it waits for, and a token that nothing
\* waits for is not stored.
TokenOnce(t) ==
  /\ tab[t].spent # 0 /\ stored.refresh = tab[t].spent =>
       tab[t].token = tab[t].spent \/ tab[t].spent \in history.unsaved
  /\ tab[t].token # 0 /\ ~tab[t].waiting =>
       stored.refresh # tab[t].token \/ tab[t].token \in history.unsaved
  /\ tab[t].token # 0 /\ tab[t].answer = "none" =>
       tab[t].spent # tab[t].token \/ tab[t].token \in history.unsaved

TabInv ==
  /\ TabTypeOK /\ orphans \subseteq history.unsaved
  /\ \A t \in Tabs : NewPairFresh(t) /\ TokenOnce(t)
  /\ PageRedeemsOnce /\ StoredTokenIsGood

-----------------------------------------------------------------------------
Stored == [access : Nat, refresh : Nat, user : Accounts \cup {NoAccount}]

LEMMA TabTypes ==
  ASSUME TabTypeOK
  PROVE  /\ tab \in [Tabs -> TabState] /\ stored \in Stored
         /\ Len(issued) \in Nat /\ DOMAIN issued = 1..Len(issued)
         /\ stored.refresh \in 0..Len(issued) /\ stored.access \in 0..Len(issued)
         /\ \A t \in Tabs : /\ tab[t] \in TabState
                            /\ tab[t].token \in 0..Len(issued) /\ tab[t].access \in 0..Len(issued)
                            /\ tab[t].got \in 0..Len(issued)
                            /\ tab[t].kept \in 0..Len(issued) /\ tab[t].spent \in 0..Len(issued)
BY DEF TabTypeOK, Stored

LEMMA TabInitInv == TabInit => TabInv
<1> SUFFICES ASSUME TabInit PROVE TabInv
  OBVIOUS
<1>1. NoTab \in TabState /\ Empty \in Stored
  BY DEF NoTab, TabState, Empty, Stored
<1>2. history \in [twice : BOOLEAN, unsaved : SUBSET Nat]
  BY DEF TabInit
<1>3. \A t \in Tabs : tab[t] = NoTab
  BY DEF TabInit
<1>4. TabTypeOK
  BY <1>1, <1>2, <1>3 DEF TabInit, TabTypeOK, NoTab, Empty, Stored
<1>5. PageRedeemsOnce /\ StoredTokenIsGood
  BY DEF TabInit, PageRedeemsOnce, StoredTokenIsGood, Empty
<1> QED BY <1>3, <1>4, <1>5 DEF TabInit, TabInv, NewPairFresh, TokenOnce, NoTab

\* What the server does leaves every token but the one that is redeemed good or ended.
ServerKeeps(used) ==
  /\ issued' \in Seq(Accounts) /\ Len(issued) <= Len(issued')
  /\ good' \cup valid' \cup ended' \subseteq DOMAIN issued'
  /\ good \cup ended \subseteq good' \cup ended' \cup used

LEMMA ServerIdle == ASSUME TabTypeOK, UNCHANGED accounts PROVE ServerKeeps({}) /\ Len(issued') = Len(issued)
BY DEF accounts, ServerKeeps, TabTypeOK

LEMMA ServerIssues ==
  ASSUME TabTypeOK, NEW u \in Accounts, NEW used, Issue(u, used)
  PROVE  ServerKeeps(used) /\ Latest = Len(issued) + 1 /\ Len(issued') = Len(issued) + 1 /\ Latest \in good'
BY DEF Issue, Latest, ServerKeeps, TabTypeOK

LEMMA ServerEnds ==
  ASSUME TabTypeOK, NEW u, EndSessions(u)
  PROVE  ServerKeeps({}) /\ Len(issued') = Len(issued)
BY DEF EndSessions, PairsOf, ServerKeeps, TabTypeOK

LEMMA ServerRedeems ==
  ASSUME TabTypeOK, NEW n \in DOMAIN issued, Redeem(n)
  PROVE  /\ ServerKeeps({n})
         /\ n \in good => /\ Latest = Len(issued) + 1 /\ Len(issued') = Len(issued) + 1
                         /\ Latest \in good'
         /\ n \notin good => Len(issued') = Len(issued)
<1>1. issued[n] \in Accounts
  BY DEF TabTypeOK
<1>2. CASE n \in good
  BY <1>1, <1>2, ServerIssues DEF Redeem
<1>3. CASE n \notin good
  BY <1>3, ServerIdle, ServerEnds DEF Redeem, ServerKeeps
<1> QED BY <1>2, <1>3
\* One tab moves, and with it what the tabs share.
LEMMA TabMoves ==
  ASSUME TabTypeOK, NEW t \in Tabs, NEW x \in TabState, NEW used, tab' = [tab EXCEPT ![t] = x],
         ServerKeeps(used), {x.access, x.token, x.got, x.kept, x.spent} \subseteq 0..Len(issued'),
         stored' \in Stored, {stored'.access, stored'.refresh} \subseteq 0..Len(issued'),
         orphans' \subseteq DOMAIN issued', history' \in [twice : BOOLEAN, unsaved : SUBSET Nat]
  PROVE  TabTypeOK' /\ \A u \in Tabs : tab'[u] = IF u = t THEN x ELSE tab[u]
<1>1. \A u \in Tabs : tab'[u] = IF u = t THEN x ELSE tab[u]
  BY TabTypes
<1>2. tab' \in [Tabs -> TabState]
  BY TabTypes
<1>3. \A u \in Tabs : {tab'[u].access, tab'[u].token, tab'[u].got, tab'[u].kept, tab'[u].spent}
                      \subseteq 0..Len(issued')
  <2>1. Len(issued) \in Nat /\ Len(issued') \in Nat /\ Len(issued) <= Len(issued')
    BY TabTypes DEF ServerKeeps
  <2> QED BY <1>1, <2>1, TabTypes
<1> QED BY <1>1, <1>2, <1>3 DEF TabTypeOK, ServerKeeps, Stored

\* What holds of the stored token and of every tab when one of them moves.
LEMMA InvMoves ==
  ASSUME TabInv, TabTypeOK', orphans' \subseteq history'.unsaved, PageRedeemsOnce', StoredTokenIsGood',
         \A u \in Tabs : NewPairFresh(u)', \A u \in Tabs : TokenOnce(u)'
  PROVE  TabInv'
BY DEF TabInv

LEMMA SignOutKeeps ==
  ASSUME TabInv, NEW t \in Tabs, SignOut(t), ServerKeeps({}), UNCHANGED <<orphans, history>>
  PROVE  TabInv'
<1>r. PICK r : r = tab[t]
  OBVIOUS
<1>x. PICK x : x = [NoTab EXCEPT !.token = r.token, !.answer = r.answer, !.got = r.got]
  OBVIOUS
<1>1. tab' = [tab EXCEPT ![t] = x] /\ stored' = Empty
  BY <1>r, <1>x DEF SignOut, Out
<1>2. /\ r \in TabState /\ Len(issued) \in Nat /\ Len(issued') \in Nat /\ Len(issued) <= Len(issued')
      /\ r.token \in 0..Len(issued) /\ r.got \in 0..Len(issued)
      /\ orphans \subseteq DOMAIN issued' /\ history \in [twice : BOOLEAN, unsaved : SUBSET Nat]
  BY <1>r, TabTypes DEF TabInv, TabTypeOK, ServerKeeps
<1>3. x \in TabState
  BY <1>2, <1>x DEF NoTab, TabState
<1>4. /\ x.token = r.token /\ x.answer = r.answer /\ x.got = r.got /\ x.access = 0 /\ x.kept = 0
      /\ x.spent = 0 /\ x.waiting = FALSE
  BY <1>2, <1>x DEF NoTab, TabState
<1>5. stored' \in Stored /\ stored'.refresh = 0 /\ stored'.access = 0
  BY <1>1 DEF Empty, Stored
<1>p. /\ {x.access, x.token, x.got, x.kept, x.spent} \subseteq 0..Len(issued')
      /\ {stored'.access, stored'.refresh} \subseteq 0..Len(issued')
      /\ orphans' \subseteq DOMAIN issued' /\ history' \in [twice : BOOLEAN, unsaved : SUBSET Nat]
  BY <1>2, <1>4, <1>5
<1>6. TabTypeOK' /\ \A u \in Tabs : tab'[u] = IF u = t THEN x ELSE tab[u]
  BY <1>1, <1>3, <1>5, <1>p, TabMoves DEF TabInv
<1>7. ASSUME NEW u \in Tabs PROVE NewPairFresh(u)'
  <2>1. /\ tab'[u].answer = tab[u].answer /\ tab'[u].got = tab[u].got
        /\ \A v \in Tabs : /\ tab'[v].token = tab[v].token /\ tab'[v].kept \in {0, tab[v].kept}
                           /\ tab'[v].spent \in {0, tab[v].spent}
                           /\ tab'[v].answer = tab[v].answer /\ tab'[v].got = tab[v].got
    BY <1>4, <1>6, <1>r
  <2>2. tab[u].answer = "new" => tab[u].got # 0
    BY TabTypes DEF TabInv, TabTypeOK, NewPairFresh
  <2> QED BY <1>5, <2>1, <2>2 DEF TabInv, NewPairFresh, ServerKeeps
<1>8. ASSUME NEW u \in Tabs PROVE TokenOnce(u)'
  <2>1. /\ tab'[u].token = tab[u].token /\ tab'[u].answer = tab[u].answer
        /\ tab'[u].spent \in {0, tab[u].spent}
    BY <1>4, <1>6, <1>r
  <2> QED BY <1>5, <2>1 DEF TabInv, TokenOnce
<1>9. PageRedeemsOnce' /\ StoredTokenIsGood'
  BY <1>5 DEF TabInv, PageRedeemsOnce, StoredTokenIsGood
<1> QED BY <1>6, <1>7, <1>8, <1>9, InvMoves DEF TabInv

\* A tab that does not touch what the invariants speak of.
LEMMA TabIdles ==
  ASSUME TabInv, NEW t \in Tabs, NEW x \in TabState, tab' = [tab EXCEPT ![t] = x],
         x.access = tab[t].access, x.token = tab[t].token, x.got = tab[t].got, x.kept = tab[t].kept,
         x.spent = tab[t].spent, x.answer = tab[t].answer \/ x.answer = "failed",
         x.waiting = tab[t].waiting \/ x.waiting = TRUE,
         UNCHANGED <<stored, orphans, accounts, history>>
  PROVE  TabInv'
<1>1. ServerKeeps({}) /\ Len(issued') = Len(issued)
  BY ServerIdle DEF TabInv
<1>2. /\ stored \in Stored /\ stored.refresh \in 0..Len(issued) /\ stored.access \in 0..Len(issued)
      /\ history \in [twice : BOOLEAN, unsaved : SUBSET Nat] /\ orphans \subseteq DOMAIN issued'
      /\ {x.access, x.token, x.got, x.kept, x.spent} \subseteq 0..Len(issued')
  BY <1>1, TabTypes DEF TabInv, TabTypeOK, accounts
<1>p. /\ stored' \in Stored /\ {stored'.access, stored'.refresh} \subseteq 0..Len(issued')
      /\ orphans' \subseteq DOMAIN issued' /\ history' \in [twice : BOOLEAN, unsaved : SUBSET Nat]
  BY <1>1, <1>2
<1>3. TabTypeOK' /\ \A u \in Tabs : tab'[u] = IF u = t THEN x ELSE tab[u]
  BY <1>1, <1>2, <1>p, TabMoves DEF TabInv
<1>4. \A u \in Tabs : /\ tab'[u].token = tab[u].token /\ tab'[u].got = tab[u].got
                      /\ tab'[u].kept = tab[u].kept /\ tab'[u].spent = tab[u].spent
                      /\ tab'[u].answer \in {tab[u].answer, "failed"}
                      /\ tab[u].waiting => tab'[u].waiting
  <2> TAKE u \in Tabs
  <2>1. CASE u = t
    BY <1>3, <2>1
  <2>2. CASE u # t
    BY <1>3, <2>2
  <2> QED BY <2>1, <2>2
<1>5. ASSUME NEW u \in Tabs PROVE NewPairFresh(u)'
  BY <1>1, <1>4 DEF TabInv, NewPairFresh, ServerKeeps
<1>6. ASSUME NEW u \in Tabs PROVE TokenOnce(u)'
  BY <1>4 DEF TabInv, TokenOnce
<1>7. PageRedeemsOnce' /\ StoredTokenIsGood'
  BY <1>4 DEF TabInv, PageRedeemsOnce, StoredTokenIsGood, accounts
<1> QED BY <1>3, <1>5, <1>6, <1>7, InvMoves DEF TabInv

\* No tab moves.
LEMMA TabsStay ==
  ASSUME TabInv, UNCHANGED <<stored, tab, history>>, NEW used \in SUBSET history.unsaved,
         ServerKeeps(used), orphans' \subseteq orphans,
         \A u \in Tabs : tab[u].answer = "new" => tab[u].got \notin used,
         stored.refresh \notin orphans' => stored.refresh \notin orphans \/ stored.refresh \in used
  PROVE  TabInv'
<1>1. /\ Len(issued) \in Nat /\ Len(issued') \in Nat /\ Len(issued) <= Len(issued')
      /\ DOMAIN issued \subseteq DOMAIN issued'
  BY TabTypes DEF TabInv, ServerKeeps
<1>2. TabTypeOK'
  <2>1. /\ issued' \in Seq(Accounts)
        /\ good' \cup valid' \cup ended' \cup orphans' \subseteq DOMAIN issued'
    BY <1>1 DEF TabInv, TabTypeOK, ServerKeeps
  <2>2. /\ stored' \in Stored /\ tab' \in [Tabs -> TabState]
        /\ history' \in [twice : BOOLEAN, unsaved : SUBSET Nat]
    BY TabTypes DEF TabInv, TabTypeOK
  <2>3. {stored'.access, stored'.refresh} \subseteq 0..Len(issued')
    BY <1>1, TabTypes DEF TabInv
  <2>4. \A u \in Tabs : {tab'[u].access, tab'[u].token, tab'[u].got, tab'[u].kept, tab'[u].spent}
                        \subseteq 0..Len(issued')
    BY <1>1, TabTypes DEF TabInv
  <2> QED BY <2>1, <2>2, <2>3, <2>4 DEF TabTypeOK, Stored
<1>3. ASSUME NEW u \in Tabs PROVE NewPairFresh(u)'
  BY DEF TabInv, NewPairFresh, ServerKeeps
<1>4. ASSUME NEW u \in Tabs PROVE TokenOnce(u)'
  BY DEF TabInv, TokenOnce
<1>5. PageRedeemsOnce' /\ StoredTokenIsGood'
  BY DEF TabInv, PageRedeemsOnce, StoredTokenIsGood, ServerKeeps
<1>6. orphans' \subseteq history'.unsaved
  BY DEF TabInv
<1> QED BY <1>2, <1>3, <1>4, <1>5, <1>6, InvMoves

LEMMA RestoreKeeps ==
  ASSUME TabInv, NEW t \in Tabs, Restore(t), tab[t].access \in valid, UNCHANGED <<orphans, accounts>>
  PROVE  TabInv'
<1>r. PICK r : r = tab[t]
  OBVIOUS
<1>a. PICK a : a = RestoredAs(t)
  OBVIOUS
<1>x. PICK x : x = [r EXCEPT !.again = FALSE, !.restoring = FALSE, !.shows = a]
  OBVIOUS
<1>k. PICK k : k = IF stored.refresh = 0 THEN tab[t].kept ELSE stored.refresh
  OBVIOUS
<1>1. /\ tab' = [tab EXCEPT ![t] = x] /\ stored' = [access |-> r.access, user |-> a, refresh |-> k]
  BY <1>r, <1>a, <1>x, <1>k, TabTypes DEF Restore, TabInv
<1>2. /\ r \in TabState /\ Len(issued) \in Nat /\ r.access \in 0..Len(issued)
      /\ r.kept \in 0..Len(issued) /\ stored.refresh \in 0..Len(issued)
  BY <1>r, TabTypes DEF TabInv
<1>3. a \in Accounts
  BY <1>a DEF TabInv, TabTypeOK, RestoredAs
<1>4. x \in TabState
  BY <1>2, <1>3, <1>x DEF TabState
<1>5. /\ x.token = r.token /\ x.answer = r.answer /\ x.got = r.got /\ x.access = r.access
      /\ x.kept = r.kept /\ x.spent = r.spent /\ x.waiting = r.waiting
  BY <1>2, <1>x DEF TabState
<1>6. k \in 0..Len(issued)
  BY <1>2, <1>k, <1>r
<1>7. stored' \in Stored /\ stored'.refresh = k /\ stored'.access = r.access
  BY <1>1, <1>2, <1>3, <1>6 DEF Stored
<1>8. ServerKeeps({}) /\ Len(issued') = Len(issued)
  BY ServerIdle DEF TabInv
<1>9. history' \in [twice : BOOLEAN, unsaved : SUBSET Nat]
  <2>1. history \in [twice : BOOLEAN, unsaved : SUBSET Nat] /\ tab[t].kept \in Nat
    BY <1>2, <1>r DEF TabInv, TabTypeOK
  <2> QED BY <2>1 DEF Restore
<1>10. /\ history.unsaved \subseteq history'.unsaved /\ history'.twice = history.twice
       /\ k = stored.refresh \/ k \in history'.unsaved
       /\ k = stored.refresh \/ k = r.kept
  BY <1>k, <1>r DEF Restore, TabInv, TabTypeOK
<1>11. /\ {x.access, x.token, x.got, x.kept, x.spent} \subseteq 0..Len(issued')
       /\ {stored'.access, stored'.refresh} \subseteq 0..Len(issued')
       /\ orphans' \subseteq DOMAIN issued'
  BY <1>2, <1>5, <1>6, <1>7, <1>8, <1>r, TabTypes DEF TabInv, TabTypeOK, accounts
<1>12. TabTypeOK' /\ \A u \in Tabs : tab'[u] = IF u = t THEN x ELSE tab[u]
  BY <1>1, <1>4, <1>7, <1>8, <1>9, <1>11, TabMoves DEF TabInv
<1>13. \A u \in Tabs : /\ tab'[u].token = tab[u].token /\ tab'[u].got = tab[u].got
                       /\ tab'[u].kept = tab[u].kept /\ tab'[u].spent = tab[u].spent
                       /\ tab'[u].answer = tab[u].answer /\ tab'[u].waiting = tab[u].waiting
  BY <1>5, <1>12, <1>r
<1>14. ASSUME NEW u \in Tabs PROVE NewPairFresh(u)'
  BY <1>7, <1>8, <1>10, <1>13, <1>r DEF TabInv, NewPairFresh, ServerKeeps
<1>15. ASSUME NEW u \in Tabs PROVE TokenOnce(u)'
  BY <1>7, <1>10, <1>13 DEF TabInv, TokenOnce
<1>16. PageRedeemsOnce' /\ StoredTokenIsGood'
  BY <1>7, <1>10, <1>13 DEF TabInv, PageRedeemsOnce, StoredTokenIsGood, accounts
<1>17. orphans' \subseteq history'.unsaved
  BY <1>10 DEF TabInv
<1> QED BY <1>12, <1>14, <1>15, <1>16, <1>17, InvMoves

LEMMA SignInKeeps == ASSUME TabInv, NEW t \in Tabs, NEW a \in Accounts, SignIn(t, a) PROVE TabInv'
<1>r. PICK r : r = tab[t]
  OBVIOUS
<1>m. PICK m : m = Latest
  OBVIOUS
<1>x. PICK x : x = [r EXCEPT !.access = m, !.shows = a]
  OBVIOUS
<1>1. /\ tab' = [tab EXCEPT ![t] = x] /\ stored' = [access |-> m, refresh |-> m, user |-> a]
  BY <1>r, <1>m, <1>x, TabTypes DEF SignIn, TabInv
<1>2. r \in TabState /\ Len(issued) \in Nat
  BY <1>r, TabTypes DEF TabInv
<1>3. /\ ServerKeeps({}) /\ m = Len(issued) + 1 /\ Len(issued') = Len(issued) + 1 /\ m \in good'
  BY <1>m, ServerIssues DEF SignIn, TabInv
<1>n. m \in Nat
  BY <1>2, <1>3
<1>4. x \in TabState
  BY <1>2, <1>n, <1>x DEF TabState
<1>5. /\ x.token = r.token /\ x.answer = r.answer /\ x.got = r.got /\ x.access = m
      /\ x.kept = r.kept /\ x.spent = r.spent /\ x.waiting = r.waiting
  BY <1>2, <1>x DEF TabState
<1>6. stored' \in Stored /\ stored'.refresh = m /\ stored'.access = m
  BY <1>1, <1>2, <1>3 DEF Stored
<1>7. history' \in [twice : BOOLEAN, unsaved : SUBSET Nat]
  BY DEF SignIn, TabInv, TabTypeOK
<1>8. /\ {x.access, x.token, x.got, x.kept, x.spent} \subseteq 0..Len(issued')
      /\ {stored'.access, stored'.refresh} \subseteq 0..Len(issued')
  BY <1>2, <1>3, <1>5, <1>6, <1>r, TabTypes DEF TabInv
<1>9. orphans' \subseteq DOMAIN issued'
  BY <1>2, <1>3 DEF SignIn, TabInv, TabTypeOK, ServerKeeps
<1>10. TabTypeOK' /\ \A u \in Tabs : tab'[u] = IF u = t THEN x ELSE tab[u]
  BY <1>1, <1>3, <1>4, <1>6, <1>7, <1>8, <1>9, TabMoves DEF TabInv
<1>11. \A u \in Tabs : /\ tab'[u].token = tab[u].token /\ tab'[u].got = tab[u].got
                       /\ tab'[u].kept = tab[u].kept /\ tab'[u].spent = tab[u].spent
                       /\ tab'[u].answer = tab[u].answer /\ tab'[u].waiting = tab[u].waiting
  BY <1>5, <1>10, <1>r
<1>12. /\ \A u \in Tabs : tab[u].got # m /\ tab[u].token # m /\ tab[u].spent # m
  BY <1>2, <1>3, TabTypes DEF TabInv
<1>13. ASSUME NEW u \in Tabs PROVE NewPairFresh(u)'
  BY <1>3, <1>6, <1>11, <1>12 DEF TabInv, NewPairFresh, ServerKeeps, SignIn
<1>14. ASSUME NEW u \in Tabs PROVE TokenOnce(u)'
  BY <1>6, <1>11, <1>12 DEF TabInv, TokenOnce, SignIn
<1>15. PageRedeemsOnce' /\ StoredTokenIsGood'
  BY <1>3, <1>6 DEF TabInv, PageRedeemsOnce, StoredTokenIsGood, SignIn
<1>16. orphans' \subseteq history'.unsaved
  BY DEF TabInv, SignIn
<1> QED BY <1>10, <1>13, <1>14, <1>15, <1>16, InvMoves

LEMMA LoadKeeps == ASSUME TabInv, NEW t \in Tabs, Load(t) PROVE TabInv'
<1>r. PICK r : r = tab[t]
  OBVIOUS
<1>x. PICK x : x = [NoTab EXCEPT !.access = stored.access, !.shows = stored.user,
                      !.restoring = TRUE, !.kept = stored.refresh]
  OBVIOUS
<1>1. tab' = [tab EXCEPT ![t] = x] /\ UNCHANGED <<stored, accounts>>
  BY <1>x DEF Load
<1>2. /\ r \in TabState /\ Len(issued) \in Nat /\ r.token \in 0..Len(issued) /\ stored \in Stored
      /\ stored.refresh \in 0..Len(issued) /\ stored.access \in 0..Len(issued)
      /\ DOMAIN issued = 1..Len(issued)
  BY <1>r, TabTypes DEF TabInv
<1>3. x \in TabState
  BY <1>2, <1>x DEF NoTab, TabState, Stored
<1>4. /\ x.token = 0 /\ x.answer = "none" /\ x.got = 0 /\ x.access = stored.access
      /\ x.kept = stored.refresh /\ x.spent = 0
  BY <1>x DEF NoTab
<1>5. ServerKeeps({}) /\ Len(issued') = Len(issued)
  BY <1>1, ServerIdle DEF TabInv
<1>6. history' \in [twice : BOOLEAN, unsaved : SUBSET Nat]
  <2>1. history \in [twice : BOOLEAN, unsaved : SUBSET Nat] /\ tab[t].token \in Nat
    BY <1>2, <1>r DEF TabInv, TabTypeOK
  <2> QED BY <2>1 DEF Load
<1>7. /\ history'.unsaved = history.unsaved \cup ({r.token} \ {0}) /\ history'.twice = history.twice
  BY <1>r DEF Load, TabInv, TabTypeOK
<1>8. orphans \subseteq orphans' /\ orphans' \subseteq orphans \cup ({r.token} \ {0})
  BY <1>r DEF Load
<1>9. /\ {x.access, x.token, x.got, x.kept, x.spent} \subseteq 0..Len(issued')
      /\ {stored'.access, stored'.refresh} \subseteq 0..Len(issued')
      /\ orphans' \subseteq DOMAIN issued'
  BY <1>1, <1>2, <1>4, <1>5, <1>8 DEF TabInv, TabTypeOK, accounts
<1>10. TabTypeOK' /\ \A u \in Tabs : tab'[u] = IF u = t THEN x ELSE tab[u]
  BY <1>1, <1>2, <1>3, <1>5, <1>6, <1>9, TabMoves DEF TabInv
<1>11. ASSUME NEW u \in Tabs PROVE NewPairFresh(u)'
  <2>1. CASE u = t
    BY <1>4, <1>10, <2>1 DEF NewPairFresh
  <2>2. CASE u # t
    <3>1. tab'[u] = tab[u]
      BY <1>10, <2>2
    <3>2. \A v \in Tabs : /\ tab'[v].token \in {0, tab[v].token} /\ tab'[v].spent \in {0, tab[v].spent}
                          /\ tab'[v].kept \in {stored.refresh, tab[v].kept}
                          /\ tab'[v].answer = "new" => tab[v].answer = "new" /\ tab'[v].got = tab[v].got
      BY <1>4, <1>10
    <3>3. tab[u].answer = "new" => tab[u].got # 0 /\ tab[u].got # r.token
      BY <1>2, <1>r DEF TabInv, TabTypeOK, NewPairFresh
    <3> QED BY <1>1, <1>5, <1>8, <3>1, <3>2, <3>3 DEF TabInv, NewPairFresh, ServerKeeps
  <2> QED BY <2>1, <2>2
<1>12. ASSUME NEW u \in Tabs PROVE TokenOnce(u)'
  <2>1. CASE u = t
    BY <1>4, <1>10, <2>1 DEF TokenOnce
  <2>2. CASE u # t
    BY <1>1, <1>7, <1>10, <2>2 DEF TabInv, TokenOnce
  <2> QED BY <2>1, <2>2
<1>13. StoredTokenIsGood'
  BY <1>1, <1>7, <1>8, <1>10, <1>r DEF TabInv, StoredTokenIsGood, accounts
<1>14. PageRedeemsOnce' /\ orphans' \subseteq history'.unsaved
  BY <1>7, <1>8 DEF TabInv, PageRedeemsOnce
<1> QED BY <1>10, <1>11, <1>12, <1>13, <1>14, InvMoves

LEMMA RefusedKeeps == ASSUME TabInv, NEW t \in Tabs, Refused(t) PROVE TabInv'
<1>r. PICK r : r = tab[t]
  OBVIOUS
<1>1. r \in TabState /\ stored \in Stored /\ UNCHANGED <<orphans, accounts, history>>
  BY <1>r, TabTypes DEF TabInv, Refused
<1>2. CASE Shares(t)
  <2>x. PICK x : x = [r EXCEPT !.waiting = TRUE]
    OBVIOUS
  <2>1. tab' = [tab EXCEPT ![t] = x] /\ UNCHANGED stored
    BY <1>2, <1>r, <2>x, TabTypes DEF Refused, TabInv
  <2>2. x \in TabState
    BY <1>1, <2>x DEF TabState
  <2>3. /\ x.access = r.access /\ x.token = r.token /\ x.got = r.got /\ x.kept = r.kept
        /\ x.spent = r.spent /\ x.answer = r.answer /\ x.waiting = TRUE
    BY <1>1, <2>x DEF TabState
  <2> QED BY <1>1, <1>r, <2>1, <2>2, <2>3, TabIdles
<1>3. CASE ~Shares(t) /\ stored.refresh = 0
  BY <1>1, <1>3, SignOutKeeps, ServerIdle DEF Refused, TabInv
<1>4. CASE ~Shares(t) /\ stored.refresh # 0
  <2>n. PICK n : n = stored.refresh
    OBVIOUS
  <2>x. PICK x : x = [r EXCEPT !.waiting = TRUE, !.token = n, !.answer = "none"]
    OBVIOUS
  <2>1. tab' = [tab EXCEPT ![t] = x] /\ UNCHANGED stored /\ r.token = 0
    BY <1>4, <1>r, <2>n, <2>x, TabTypes DEF Refused, TabInv, Shares
  <2>2. n \in 0..Len(issued) /\ n # 0 /\ n \in Nat /\ Len(issued) \in Nat
    BY <1>4, <2>n, TabTypes DEF TabInv
  <2>3. x \in TabState
    BY <1>1, <2>2, <2>x DEF TabState
  <2>4. /\ x.access = r.access /\ x.token = n /\ x.got = r.got /\ x.kept = r.kept
        /\ x.spent = r.spent /\ x.answer = "none" /\ x.waiting = TRUE
    BY <1>1, <2>x DEF TabState
  <2>5. ServerKeeps({}) /\ Len(issued') = Len(issued)
    BY <1>1, ServerIdle DEF TabInv
  <2>6. /\ {x.access, x.token, x.got, x.kept, x.spent} \subseteq 0..Len(issued')
        /\ {stored'.access, stored'.refresh} \subseteq 0..Len(issued')
    BY <2>1, <2>2, <2>4, <2>5, <1>r, TabTypes DEF TabInv
  <2>7. orphans' \subseteq DOMAIN issued' /\ history' \in [twice : BOOLEAN, unsaved : SUBSET Nat]
        /\ stored' \in Stored
    BY <1>1, <2>1 DEF TabInv, TabTypeOK, accounts
  <2>8. TabTypeOK' /\ \A u \in Tabs : tab'[u] = IF u = t THEN x ELSE tab[u]
    BY <2>1, <2>3, <2>5, <2>6, <2>7, TabMoves DEF TabInv
  <2>9. ASSUME NEW u \in Tabs PROVE NewPairFresh(u)'
    <3>1. \A v \in Tabs : /\ tab'[v].token \in {n, tab[v].token} /\ tab'[v].spent = tab[v].spent
                          /\ tab'[v].kept = tab[v].kept /\ tab'[v].got = tab[v].got
                          /\ tab'[v].answer \in {"none", tab[v].answer}
      BY <1>r, <2>4, <2>8
    <3> QED BY <1>1, <2>1, <2>5, <2>n, <3>1 DEF TabInv, NewPairFresh, ServerKeeps
  <2>10. ASSUME NEW u \in Tabs PROVE TokenOnce(u)'
    <3>1. CASE u = t
      BY <1>1, <1>r, <2>1, <2>4, <2>8, <2>n, <2>2, <3>1 DEF TabInv, TokenOnce
    <3>2. CASE u # t
      BY <1>1, <2>1, <2>8, <3>2 DEF TabInv, TokenOnce
    <3> QED BY <3>1, <3>2
  <2>11. StoredTokenIsGood'
    BY <2>1, <2>4, <2>8, <2>n DEF StoredTokenIsGood
  <2>12. PageRedeemsOnce' /\ orphans' \subseteq history'.unsaved
    BY <1>1 DEF TabInv, PageRedeemsOnce
  <2> QED BY <2>8, <2>9, <2>10, <2>11, <2>12, InvMoves
<1> QED BY <1>2, <1>3, <1>4

\* The exchange of a token: what it brings is new, and the token is the one that the tab had.
LEMMA ExchangeKeeps == ASSUME TabInv, NEW t \in Tabs, Exchange(t) PROVE TabInv'
<1>r. PICK r : r = tab[t]
  OBVIOUS
<1>n. PICK n : n = r.token
  OBVIOUS
<1>a. PICK a : a = IF n \in good THEN "new" ELSE "failed"
  OBVIOUS
<1>g. PICK g : g = IF n \in good THEN Latest ELSE 0
  OBVIOUS
<1>x. PICK x : x = [r EXCEPT !.answer = a, !.got = g, !.spent = n]
  OBVIOUS
<1>1. /\ tab' = [tab EXCEPT ![t] = x] /\ UNCHANGED <<stored, orphans>>
      /\ n # 0 /\ r.answer = "none" /\ Redeem(n)
  BY <1>r, <1>n, <1>a, <1>g, <1>x, TabTypes DEF Exchange, TabInv
<1>2. /\ r \in TabState /\ n \in 0..Len(issued) /\ Len(issued) \in Nat
      /\ DOMAIN issued = 1..Len(issued) /\ n \in Nat
  BY <1>r, <1>n, TabTypes DEF TabInv
<1>3. n \in DOMAIN issued
  BY <1>1, <1>2
<1>4. /\ ServerKeeps({n})
      /\ n \in good => /\ Latest = Len(issued) + 1 /\ Len(issued') = Len(issued) + 1
                       /\ Latest \in good'
      /\ n \notin good => Len(issued') = Len(issued)
  BY <1>1, <1>3, ServerRedeems DEF TabInv
<1>5. /\ g \in Nat /\ g \in 0..Len(issued') /\ Len(issued') \in Nat /\ Len(issued) <= Len(issued')
      /\ a = "new" => g = Len(issued) + 1 /\ g \in good'
      /\ a \in {"new", "failed"}
  BY <1>2, <1>4, <1>a, <1>g
<1>6. x \in TabState
  BY <1>2, <1>5, <1>x DEF TabState
<1>7. /\ x.access = r.access /\ x.token = n /\ x.got = g /\ x.kept = r.kept
      /\ x.spent = n /\ x.answer = a /\ x.waiting = r.waiting
  BY <1>2, <1>n, <1>x DEF TabState
<1>8. /\ {x.access, x.token, x.got, x.kept, x.spent} \subseteq 0..Len(issued')
      /\ {stored'.access, stored'.refresh} \subseteq 0..Len(issued') /\ stored' \in Stored
  BY <1>1, <1>2, <1>5, <1>7, <1>r, TabTypes DEF TabInv
<1>9. orphans' \subseteq DOMAIN issued'
  BY <1>1, <1>2, <1>5 DEF TabInv, TabTypeOK, ServerKeeps
<1>10. n \notin history.unsaved => r.spent # n
  BY <1>1, <1>r, <1>n DEF TabInv, TokenOnce
<1>11. history' = history
  <2>1. history \in [twice : BOOLEAN, unsaved : SUBSET Nat] /\ ~history.twice
    BY DEF TabInv, TabTypeOK, PageRedeemsOnce
  <2>2. history' = [history EXCEPT !.twice = history.twice \/ (r.spent = n /\ n \notin history.unsaved)]
    BY <1>r, <1>n DEF Exchange
  <2>3. (history.twice \/ (r.spent = n /\ n \notin history.unsaved)) = FALSE
    BY <1>10, <2>1
  <2>4. history' = [history EXCEPT !.twice = FALSE]
    BY <2>2, <2>3
  <2>5. history.twice = FALSE
    BY <2>1
  <2> QED BY <2>1, <2>4, <2>5
<1>12. TabTypeOK' /\ \A u \in Tabs : tab'[u] = IF u = t THEN x ELSE tab[u]
  <2>1. history' \in [twice : BOOLEAN, unsaved : SUBSET Nat]
    BY <1>11 DEF TabInv, TabTypeOK
  <2> QED BY <1>1, <1>4, <1>6, <1>8, <1>9, <2>1, TabMoves DEF TabInv
<1>13. ASSUME NEW u \in Tabs PROVE NewPairFresh(u)'
  <2>1. \A v \in Tabs : /\ tab'[v].token = tab[v].token /\ tab'[v].spent \in {n, tab[v].spent}
                        /\ tab'[v].kept = tab[v].kept
                        /\ v # t => tab'[v].got = tab[v].got /\ tab'[v].answer = tab[v].answer
    BY <1>r, <1>n, <1>7, <1>12
  <2>2. \A v \in Tabs : /\ tab[v].token \in 0..Len(issued) /\ tab[v].spent \in 0..Len(issued)
                        /\ tab[v].kept \in 0..Len(issued) /\ tab[v].got \in 0..Len(issued)
    BY TabTypes DEF TabInv
  <2>3. CASE u = t
    <3> SUFFICES ASSUME a = "new" PROVE NewPairFresh(u)'
      BY <1>7, <1>12, <2>3 DEF NewPairFresh
    <3>1. tab'[u].got = g /\ g = Len(issued) + 1 /\ g \in good'
      BY <1>5, <1>7, <1>12, <2>3
    <3>2. g # stored'.refresh /\ g \notin orphans'
      BY <1>1, <1>2, <3>1, TabTypes DEF TabInv, TabTypeOK
    <3>3. \A v \in Tabs : /\ g \notin {tab'[v].token, tab'[v].kept, tab'[v].spent}
                          /\ v # t => tab'[v].got # g
      BY <1>2, <2>1, <2>2, <3>1
    <3> QED BY <2>3, <3>1, <3>2, <3>3 DEF NewPairFresh
  <2>4. CASE u # t
    <3> SUFFICES ASSUME tab[u].answer = "new" PROVE NewPairFresh(u)'
      BY <1>12, <2>4 DEF NewPairFresh
    <3>1. tab'[u] = tab[u] /\ tab[u].got # n
      BY <1>12, <1>r, <1>n, <2>4 DEF TabInv, NewPairFresh
    <3>2. /\ tab[u].got \in good' \cup ended'
          /\ tab[u].got # stored'.refresh /\ tab[u].got \notin orphans'
      BY <1>1, <1>4, <3>1 DEF TabInv, NewPairFresh, ServerKeeps
    <3>3. \A v \in Tabs : tab[u].got \notin {tab'[v].token, tab'[v].kept, tab'[v].spent}
      BY <2>1, <3>1 DEF TabInv, NewPairFresh
    <3>4. \A v \in Tabs : tab'[v].answer = "new" /\ v # u => tab'[v].got # tab[u].got
      <4>1. a = "new" => g # tab[u].got
        BY <1>2, <1>5, <2>2
      <4> QED BY <1>7, <1>12, <2>1, <4>1 DEF TabInv, NewPairFresh
    <3> QED BY <3>1, <3>2, <3>3, <3>4 DEF NewPairFresh
  <2> QED BY <2>3, <2>4
<1>14. ASSUME NEW u \in Tabs PROVE TokenOnce(u)'
  <2>1. CASE u = t
    BY <1>1, <1>5, <1>7, <1>11, <1>12, <1>r, <1>n, <2>1 DEF TabInv, TokenOnce
  <2>2. CASE u # t
    BY <1>1, <1>11, <1>12, <2>2 DEF TabInv, TokenOnce
  <2> QED BY <2>1, <2>2
<1>15. StoredTokenIsGood'
  <2>1. \A u \in Tabs : tab'[u].token = tab[u].token
    BY <1>7, <1>12, <1>n, <1>r
  <2>2. n = tab[t].token
    BY <1>n, <1>r
  <2> QED BY <1>1, <1>4, <1>11, <2>1, <2>2 DEF TabInv, StoredTokenIsGood, ServerKeeps
<1>16. PageRedeemsOnce' /\ orphans' \subseteq history'.unsaved
  BY <1>1, <1>11 DEF TabInv, PageRedeemsOnce
<1> QED BY <1>12, <1>13, <1>14, <1>15, <1>16, InvMoves

LEMMA OrphanKeeps == ASSUME TabInv, NEW n \in DOMAIN issued, ExchangeOrphan(n) PROVE TabInv'
<1>1. /\ n \in orphans /\ Redeem(n) /\ orphans' = orphans \ {n} /\ UNCHANGED <<stored, tab, history>>
  BY DEF ExchangeOrphan
<1>2. ServerKeeps({n})
  BY <1>1, ServerRedeems DEF TabInv
<1>3. {n} \in SUBSET history.unsaved
  BY <1>1 DEF TabInv
<1>4. \A u \in Tabs : tab[u].answer = "new" => tab[u].got \notin {n}
  BY <1>1 DEF TabInv, NewPairFresh
<1>5. stored.refresh \notin orphans' => stored.refresh \notin orphans \/ stored.refresh \in {n}
  BY <1>1
<1>6. orphans' \subseteq orphans
  BY <1>1
<1> QED BY <1>1, <1>2, <1>3, <1>4, <1>5, <1>6, TabsStay

LEMMA LoseKeeps == ASSUME TabInv, NEW t \in Tabs, LoseExchange(t) PROVE TabInv'
<1>r. PICK r : r = tab[t]
  OBVIOUS
<1>x. PICK x : x = [r EXCEPT !.answer = "failed"]
  OBVIOUS
<1>1. tab' = [tab EXCEPT ![t] = x] /\ UNCHANGED <<stored, orphans, accounts, history>>
  BY <1>r, <1>x, TabTypes DEF LoseExchange, TabInv
<1>2. r \in TabState
  BY <1>r, TabTypes DEF TabInv
<1>3. x \in TabState
  BY <1>2, <1>x DEF TabState
<1>4. /\ x.access = r.access /\ x.token = r.token /\ x.got = r.got /\ x.kept = r.kept
      /\ x.spent = r.spent /\ x.answer = "failed" /\ x.waiting = r.waiting
  BY <1>2, <1>x DEF TabState
<1> QED BY <1>r, <1>1, <1>3, <1>4, TabIdles

\* The pair that is stored is new, so that it is nobody else's and nothing that was spent.
LEMMA AnsweredKeeps == ASSUME TabInv, NEW t \in Tabs, Answered(t) PROVE TabInv'
<1>r. PICK r : r = tab[t]
  OBVIOUS
<1>g. PICK g : g = r.got
  OBVIOUS
<1>x. PICK x : x = [r EXCEPT !.access = g, !.token = 0, !.answer = "none", !.got = 0,
                             !.waiting = FALSE, !.again = r.waiting, !.spent = 0]
  OBVIOUS
<1>1. /\ r.answer = "new" /\ stored' = [stored EXCEPT !.access = g, !.refresh = g]
      /\ UNCHANGED <<orphans, accounts, history>>
  BY <1>r, <1>g DEF Answered, Saved
<1>2. /\ r \in TabState /\ g \in 0..Len(issued) /\ Len(issued) \in Nat /\ stored \in Stored
      /\ g \in Nat
  BY <1>r, <1>g, TabTypes DEF TabInv
<1>3. stored' \in Stored /\ stored'.refresh = g /\ stored'.access = g
  BY <1>1, <1>2 DEF Stored
<1>4. /\ g \in good \cup ended /\ g # stored.refresh /\ g \notin orphans
      /\ \A u \in Tabs : /\ g \notin {tab[u].token, tab[u].kept, tab[u].spent}
                         /\ tab[u].answer = "new" /\ u # t => tab[u].got # g
  BY <1>1, <1>r, <1>g DEF TabInv, NewPairFresh
<1>5. tab' = [tab EXCEPT ![t] = x]
  <2>1. r.spent # g
    BY <1>4, <1>r
  <2>2. tab' = [tab EXCEPT ![t] = [r EXCEPT !.access = g, !.token = 0, !.answer = "none", !.got = 0,
                             !.waiting = FALSE, !.again = r.waiting,
                             !.spent = IF stored'.refresh = r.spent THEN r.spent ELSE 0]]
    BY <1>r, <1>g, TabTypes DEF Answered, TabInv
  <2>3. (IF stored'.refresh = r.spent THEN r.spent ELSE 0) = 0
    BY <1>3, <2>1
  <2> QED BY <1>x, <2>2, <2>3
<1>6. x \in TabState
  BY <1>2, <1>x DEF TabState
<1>7. /\ x.access = g /\ x.token = 0 /\ x.got = 0 /\ x.kept = r.kept
      /\ x.spent = 0 /\ x.answer = "none"
  BY <1>2, <1>x DEF TabState
<1>8. ServerKeeps({}) /\ Len(issued') = Len(issued)
  BY <1>1, ServerIdle DEF TabInv
<1>9. /\ {x.access, x.token, x.got, x.kept, x.spent} \subseteq 0..Len(issued')
      /\ {stored'.access, stored'.refresh} \subseteq 0..Len(issued')
  BY <1>2, <1>3, <1>7, <1>8, <1>r, TabTypes DEF TabInv
<1>10. orphans' \subseteq DOMAIN issued' /\ history' \in [twice : BOOLEAN, unsaved : SUBSET Nat]
  BY <1>1 DEF TabInv, TabTypeOK, accounts
<1>11. TabTypeOK' /\ \A u \in Tabs : tab'[u] = IF u = t THEN x ELSE tab[u]
  BY <1>3, <1>5, <1>6, <1>8, <1>9, <1>10, TabMoves DEF TabInv
<1>12. ASSUME NEW u \in Tabs PROVE NewPairFresh(u)'
  <2>1. CASE u = t
    BY <1>7, <1>11, <2>1 DEF NewPairFresh
  <2>2. CASE u # t
    <3> SUFFICES ASSUME tab[u].answer = "new" PROVE NewPairFresh(u)'
      BY <1>11, <2>2 DEF NewPairFresh
    <3>1. tab'[u] = tab[u] /\ tab[u].got # g
      BY <1>4, <1>11, <2>2
    <3>2. tab[u].got # 0
      BY DEF TabInv, TabTypeOK, NewPairFresh
    <3>3. \A v \in Tabs : /\ tab'[v].token \in {0, tab[v].token} /\ tab'[v].spent \in {0, tab[v].spent}
                          /\ tab'[v].kept = tab[v].kept
                          /\ tab'[v].answer = "new" => tab[v].answer = "new" /\ tab'[v].got = tab[v].got
      BY <1>r, <1>7, <1>11
    <3> QED BY <1>1, <1>3, <1>8, <3>1, <3>2, <3>3 DEF TabInv, NewPairFresh, ServerKeeps
  <2> QED BY <2>1, <2>2
<1>13. ASSUME NEW u \in Tabs PROVE TokenOnce(u)'
  <2>1. CASE u = t
    BY <1>7, <1>11, <2>1 DEF TokenOnce
  <2>2. CASE u # t
    BY <1>1, <1>3, <1>4, <1>11, <2>2 DEF TabInv, TokenOnce
  <2> QED BY <2>1, <2>2
<1>14. PageRedeemsOnce' /\ orphans' \subseteq history'.unsaved /\ StoredTokenIsGood'
  BY <1>1, <1>3, <1>4 DEF TabInv, PageRedeemsOnce, StoredTokenIsGood, accounts
<1> QED BY <1>11, <1>12, <1>13, <1>14, InvMoves

\* Nothing waits for a token that is dropped without a word, so that it is not what is stored.
LEMMA FailedKeeps == ASSUME TabInv, NEW t \in Tabs, Failed(t) PROVE TabInv'
<1>r. PICK r : r = tab[t]
  OBVIOUS
<1>x. PICK x : x = IF r.waiting THEN NoTab ELSE [r EXCEPT !.token = 0, !.answer = "none", !.got = 0]
  OBVIOUS
<1>1. /\ tab' = [tab EXCEPT ![t] = x] /\ stored' = IF r.waiting THEN Empty ELSE stored
      /\ UNCHANGED <<orphans, accounts, history>>
  BY <1>r, <1>x, TabTypes DEF Failed, TabInv
<1>2. /\ r \in TabState /\ Len(issued) \in Nat /\ stored \in Stored
  BY <1>r, TabTypes DEF TabInv
<1>3. x \in TabState
  <2>1. CASE r.waiting
    BY <1>x, <2>1 DEF NoTab, TabState
  <2>2. CASE ~r.waiting
    BY <1>2, <1>x, <2>2 DEF TabState
  <2> QED BY <2>1, <2>2
<1>4. /\ x.token = 0 /\ x.got = 0 /\ x.answer = "none" /\ x.access \in {0, r.access}
      /\ x.kept \in {0, r.kept} /\ x.spent \in {0, r.spent}
  <2>1. CASE r.waiting
    BY <1>x, <2>1 DEF NoTab
  <2>2. CASE ~r.waiting
    BY <1>2, <1>x, <2>2 DEF TabState
  <2> QED BY <2>1, <2>2
<1>5. /\ stored' \in Stored /\ stored'.refresh \in {0, stored.refresh}
      /\ stored'.access \in {0, stored.access}
      /\ stored'.refresh # 0 => ~r.waiting /\ stored'.refresh = stored.refresh
  <2>1. CASE r.waiting
    BY <1>1, <2>1 DEF Empty, Stored
  <2>2. CASE ~r.waiting
    BY <1>1, <1>2, <2>2
  <2> QED BY <2>1, <2>2
<1>6. ServerKeeps({}) /\ Len(issued') = Len(issued)
  BY <1>1, ServerIdle DEF TabInv
<1>7. /\ {x.access, x.token, x.got, x.kept, x.spent} \subseteq 0..Len(issued')
      /\ {stored'.access, stored'.refresh} \subseteq 0..Len(issued')
  BY <1>2, <1>4, <1>5, <1>6, <1>r, TabTypes DEF TabInv
<1>8. orphans' \subseteq DOMAIN issued' /\ history' \in [twice : BOOLEAN, unsaved : SUBSET Nat]
  BY <1>1 DEF TabInv, TabTypeOK, accounts
<1>9. TabTypeOK' /\ \A u \in Tabs : tab'[u] = IF u = t THEN x ELSE tab[u]
  BY <1>1, <1>3, <1>5, <1>6, <1>7, <1>8, TabMoves DEF TabInv
<1>10. ASSUME NEW u \in Tabs PROVE NewPairFresh(u)'
  <2>1. CASE u = t
    BY <1>4, <1>9, <2>1 DEF NewPairFresh
  <2>2. CASE u # t
    <3> SUFFICES ASSUME tab[u].answer = "new" PROVE NewPairFresh(u)'
      BY <1>9, <2>2 DEF NewPairFresh
    <3>1. tab'[u] = tab[u] /\ tab[u].got # 0
      <4>1. tab[u].got # 0
        BY DEF TabInv, TabTypeOK, NewPairFresh
      <4> QED BY <1>9, <2>2, <4>1
    <3>2. \A v \in Tabs : /\ tab'[v].token \in {0, tab[v].token} /\ tab'[v].spent \in {0, tab[v].spent}
                          /\ tab'[v].kept \in {0, tab[v].kept}
                          /\ tab'[v].answer = "new" => tab[v].answer = "new" /\ tab'[v].got = tab[v].got
      BY <1>r, <1>4, <1>9
    <3> QED BY <1>1, <1>5, <1>6, <3>1, <3>2 DEF TabInv, NewPairFresh, ServerKeeps
  <2> QED BY <2>1, <2>2
<1>11. r.token # 0 /\ ~r.waiting => stored.refresh # r.token \/ r.token \in history.unsaved
  BY <1>r DEF TabInv, TokenOnce
<1>12. ASSUME NEW u \in Tabs PROVE TokenOnce(u)'
  <2>1. CASE u = t
    BY <1>1, <1>4, <1>5, <1>9, <1>11, <1>r, <2>1 DEF TabInv, TokenOnce
  <2>2. CASE u # t
    BY <1>1, <1>5, <1>9, <2>2 DEF TabInv, TokenOnce
  <2> QED BY <2>1, <2>2
<1>13. StoredTokenIsGood'
  BY <1>1, <1>5, <1>9, <1>11, <1>r DEF TabInv, StoredTokenIsGood, accounts
<1>14. PageRedeemsOnce' /\ orphans' \subseteq history'.unsaved
  BY <1>1 DEF TabInv, PageRedeemsOnce
<1> QED BY <1>9, <1>10, <1>12, <1>13, <1>14, InvMoves

LEMMA SentAgainKeeps == ASSUME TabInv, NEW t \in Tabs, SentAgain(t) PROVE TabInv'
<1>1. CASE tab[t].access \notin valid
  BY <1>1, SignOutKeeps, ServerIdle DEF SentAgain, TabInv
<1>2. CASE tab[t].access \in valid /\ tab[t].restoring
  BY <1>2, RestoreKeeps DEF SentAgain
<1>3. CASE tab[t].access \in valid /\ ~tab[t].restoring
  <2>r. PICK r : r = tab[t]
    OBVIOUS
  <2>x. PICK x : x = [r EXCEPT !.again = FALSE]
    OBVIOUS
  <2>1. tab' = [tab EXCEPT ![t] = x] /\ UNCHANGED <<stored, orphans, accounts, history>>
    BY <1>3, <2>r, <2>x, TabTypes DEF SentAgain, TabInv
  <2>2. r \in TabState
    BY <2>r, TabTypes DEF TabInv
  <2>3. x \in TabState
    BY <2>2, <2>x DEF TabState
  <2>4. /\ x.access = r.access /\ x.token = r.token /\ x.got = r.got /\ x.kept = r.kept
        /\ x.spent = r.spent /\ x.answer = r.answer /\ x.waiting = r.waiting
    BY <2>2, <2>x DEF TabState
  <2> QED BY <2>r, <2>1, <2>3, <2>4, TabIdles
<1> QED BY <1>1, <1>2, <1>3

LEMMA LogOutKeeps == ASSUME TabInv, NEW t \in Tabs, LogOut(t) PROVE TabInv'
<1>1. ServerKeeps({})
  BY ServerIdle, ServerEnds DEF LogOut, TabInv
<1> QED BY <1>1, SignOutKeeps DEF LogOut

LEMMA AccessEndsKeeps == ASSUME TabInv, NEW n, AccessEnds(n) PROVE TabInv'
<1>1. ServerKeeps({})
  BY DEF AccessEnds, ServerKeeps, TabInv, TabTypeOK
<1>2. /\ UNCHANGED <<stored, tab, history>> /\ orphans' = orphans
  BY DEF AccessEnds
<1> QED BY <1>1, <1>2, TabsStay

LEMMA TabNextInv == TabInv /\ [TabNext]_tabVars => TabInv'
<1> SUFFICES ASSUME TabInv, [TabNext]_tabVars PROVE TabInv'
  OBVIOUS
<1>1. CASE UNCHANGED tabVars
  BY <1>1, TabsStay, ServerIdle DEF tabVars, TabInv
<1>2. ASSUME NEW t \in Tabs, NEW u \in Accounts, SignIn(t, u) PROVE TabInv'
  BY <1>2, SignInKeeps
<1>3. ASSUME NEW t \in Tabs,
             Load(t) \/ Exchange(t) \/ LoseExchange(t) \/ Answered(t) \/ Failed(t) \/ SentAgain(t)
      PROVE  TabInv'
  BY <1>3, LoadKeeps, ExchangeKeeps, LoseKeeps, AnsweredKeeps, FailedKeeps, SentAgainKeeps
<1>4. ASSUME NEW t \in Tabs, RestoreFails(t) \/ IdleOut(t) PROVE TabInv'
  BY <1>4, SignOutKeeps, ServerIdle DEF RestoreFails, IdleOut, TabInv
<1>5. ASSUME NEW t \in Tabs, LogOut(t) \/ Refused(t) PROVE TabInv'
  BY <1>5, LogOutKeeps, RefusedKeeps
<1>6. ASSUME NEW t \in Tabs, Accepted(t) PROVE TabInv'
  BY <1>6, RestoreKeeps DEF Accepted
<1>7. ASSUME NEW n \in DOMAIN issued, AccessEnds(n) \/ ExchangeOrphan(n) PROVE TabInv'
  BY <1>7, AccessEndsKeeps, OrphanKeeps
<1> QED BY <1>1, <1>2, <1>3, <1>4, <1>5, <1>6, <1>7 DEF TabNext

LEMMA TabInvAlways == TabSpec => []TabInv
BY TabInitInv, TabNextInv, PTL DEF TabSpec

\* Every token that a tab, the storage or the server holds is one that was issued.
THEOREM TabsTyped == TabSpec => []TabTypeOK
<1>1. TabInv => TabTypeOK
  BY DEF TabInv
<1> QED BY <1>1, TabInvAlways, PTL

\* Parallel refusals share one exchange: a page redeems no refresh token twice, whatever the
\* other tabs do with the storage (api.ts, refreshOnce).
THEOREM RedeemedOnce == TabSpec => []PageRedeemsOnce
<1>1. TabInv => PageRedeemsOnce
  BY DEF TabInv
<1> QED BY <1>1, TabInvAlways, PTL

\* However many tabs sign in, exchange, fail and sign out, the refresh token that is stored is
\* good, ended with its session, being exchanged, or of the two named exceptions.
THEOREM StoredIsGood == TabSpec => []StoredTokenIsGood
<1>1. TabInv => StoredTokenIsGood
  BY DEF TabInv
<1> QED BY <1>1, TabInvAlways, PTL

-----------------------------------------------------------------------------
(* The group page *)

\* What is shown is the selected group as it is, or an answer is still to come.
PageInv ==
  /\ PageTypeOK
  /\ ~missed /\ selected # NoGroup => hub = Fresh(selected) \/ asks # {}

-----------------------------------------------------------------------------
LEMMA HubsAre ==
  /\ NoHub \in Hubs
  /\ \A g \in Groups : /\ PageTypeOK => Fresh(g) \in Hubs
                       /\ Unanswered(g) \in [of : Groups, at : {"server", "page"}, answer : Hubs]
<1>1. NoHub \in Hubs
  BY DEF NoHub, Hubs
<1>2. ASSUME PageTypeOK, NEW g \in Groups
      PROVE  Fresh(g) \in Hubs
  <2>1. group[g].changes \in Nat /\ group[g].posts \in Nat /\ 1..group[g].posts \subseteq Nat
    BY <1>2 DEF PageTypeOK
  <2> QED BY <2>1 DEF Fresh, Hubs
<1> QED BY <1>1, <1>2 DEF Unanswered

LEMMA PageInitInv == PageInit => PageInv
<1> SUFFICES ASSUME PageInit PROVE PageTypeOK
  BY DEF PageInit, PageInv
<1>1. group \in [Groups -> [changes : Nat, posts : Nat]] /\ hub \in Hubs
  BY HubsAre DEF PageInit
<1>2. link \in BOOLEAN /\ missed \in BOOLEAN
  BY DEF PageInit
<1> QED BY <1>1, <1>2 DEF PageInit, PageTypeOK

LEMMA AskGives ==
  ASSUME PageTypeOK, NEW gs \in SUBSET Groups, Ask(gs)
  PROVE  /\ asks \subseteq asks' /\ (gs # {} => asks' # {})
         /\ asks' \subseteq [of : Groups, at : {"server", "page"}, answer : Hubs]
BY HubsAre DEF Ask, PageTypeOK

\* A message that is heard completes what is shown.
LEMMA PostShows ==
  ASSUME PageInv, NEW g \in Groups, Post(g), ~missed', selected # NoGroup, hub = Fresh(selected)
  PROVE  hub' = Fresh(selected)'
<1>1. /\ group' = [group EXCEPT ![g].posts = @ + 1] /\ selected' = selected
      /\ group \in [Groups -> [changes : Nat, posts : Nat]] /\ selected \in Groups
  BY DEF Post, PageInv, PageTypeOK
<1>2. CASE g = selected
  <2>1. link /\ hub.of = g /\ hub # NoHub
    BY <1>1, <1>2, PageAssumption DEF Post, Fresh, NoHub
  <2>2. hub' = [hub EXCEPT !.posts = @ \cup {group[g].posts + 1}]
    BY <1>2, <2>1 DEF Post
  <2>3. group'[g].changes = group[g].changes /\ group'[g].posts = group[g].posts + 1 /\ group[g].posts \in Nat
    BY <1>1
  <2>4. (1..group[g].posts) \cup {group[g].posts + 1} = 1..(group[g].posts + 1)
    BY <2>3
  <2>5. hub' = [of |-> g, changes |-> group[g].changes, foreign |-> FALSE,
                posts |-> (1..group[g].posts) \cup {group[g].posts + 1}]
    BY <1>2, <2>2 DEF Fresh
  <2> QED BY <1>1, <1>2, <2>3, <2>4, <2>5 DEF Fresh
<1>3. CASE g # selected
  <2>1. hub' = hub /\ group'[selected] = group[selected]
    BY <1>1, <1>3 DEF Post
  <2> QED BY <1>1, <2>1 DEF Fresh
<1> QED BY <1>2, <1>3

LEMMA PageNextInv == PageInv /\ [PageNext]_pageVars => PageInv'
<1> SUFFICES ASSUME PageInv, [PageNext]_pageVars PROVE PageInv'
  OBVIOUS
<1> USE DEF PageInv
<1>1. ASSUME NEW g \in Groups \cup {NoGroup}, Select(g) PROVE PageInv'
  <2>1. /\ selected' = g /\ hub' \in Hubs /\ UNCHANGED <<group, acts, missed, opened, lookups, page>>
    BY <1>1, HubsAre DEF Select, PageTypeOK, navVars
  <2>2. /\ g # NoGroup => asks' # {}
        /\ asks' \subseteq [of : Groups, at : {"server", "page"}, answer : Hubs]
    BY <1>1, AskGives DEF Select
  <2>3. link' \in BOOLEAN
    BY <1>1 DEF Select
  <2> QED BY <2>1, <2>2, <2>3 DEF PageTypeOK
<1>2. ASSUME NEW g \in Groups, ChangeUntold(g) PROVE PageInv'
  <2>1. /\ group' = [group EXCEPT ![g].changes = @ + 1]
        /\ UNCHANGED <<selected, hub, asks, acts, link, opened, lookups, page>>
    BY <1>2 DEF ChangeUntold, Changed, navVars
  <2>2. group' \in [Groups -> [changes : Nat, posts : Nat]]
    BY <2>1 DEF PageTypeOK
  <2>3. missed' \in BOOLEAN /\ (missed => missed') /\ (g = selected => missed')
    BY <1>2 DEF ChangeUntold, PageTypeOK
  <2>4. g # selected /\ selected # NoGroup => group'[selected] = group[selected]
    BY <2>1 DEF PageTypeOK
  <2> QED BY <2>1, <2>2, <2>3, <2>4 DEF Fresh, PageTypeOK
<1>3. CASE RunsOut
  <2>1. UNCHANGED <<group, selected, hub, acts, link, missed, opened, lookups, page>>
    BY <1>3 DEF RunsOut, navVars
  <2>2. asks \subseteq asks' /\ asks' \subseteq [of : Groups, at : {"server", "page"}, answer : Hubs]
    BY <1>3, AskGives DEF RunsOut, PageTypeOK
  <2> QED BY <2>1, <2>2 DEF Fresh, PageTypeOK
<1>4. CASE Connect \/ LoseConnection \/ Act
  <2>1. UNCHANGED <<group, selected, hub, asks, missed, opened, lookups, page>>
    BY <1>4 DEF Connect, LoseConnection, Act, navVars
  <2>2. acts' \subseteq Groups /\ link' \in BOOLEAN
    BY <1>4 DEF Connect, LoseConnection, Act, PageTypeOK
  <2> QED BY <2>1, <2>2 DEF PageTypeOK, Fresh
<1>5. CASE Removed
  <2>1. UNCHANGED <<group, asks, acts, missed, opened, lookups, page>> /\ selected' = NoGroup /\ hub' \in Hubs
    BY <1>5, HubsAre DEF Removed, navVars
  <2>2. link' \in BOOLEAN
    BY <1>5 DEF Removed
  <2> QED BY <2>1, <2>2 DEF PageTypeOK
<1>6. ASSUME NEW r \in asks, AnswerAsk(r) PROVE PageInv'
  <2>1. r \in [of : Groups, at : {"server", "page"}, answer : Hubs]
    BY DEF PageTypeOK
  <2>2. [r EXCEPT !.at = "page", !.answer = Fresh(r.of)] \in [of : Groups, at : {"server", "page"}, answer : Hubs]
    BY <2>1, HubsAre
  <2>3. UNCHANGED <<group, selected, hub, acts, link, missed, opened, lookups, page>> /\ asks' # {}
    BY <1>6 DEF AnswerAsk, navVars
  <2>4. asks' \subseteq [of : Groups, at : {"server", "page"}, answer : Hubs]
    BY <1>6, <2>2 DEF AnswerAsk, PageTypeOK
  <2> QED BY <2>3, <2>4 DEF PageTypeOK
<1>7. ASSUME NEW r \in asks, ShowAnswer(r) PROVE PageInv'
  <2>1. /\ hub' \in Hubs /\ asks' \subseteq asks
        /\ UNCHANGED <<group, selected, acts, link, opened, lookups, page>>
    BY <1>7 DEF ShowAnswer, navVars, PageTypeOK
  <2>2. missed' \in BOOLEAN /\ (~missed' => hub' = Fresh(selected))
    BY <1>7 DEF ShowAnswer
  <2> QED BY <2>1, <2>2 DEF PageTypeOK, Fresh
<1>8. ASSUME NEW r \in asks, FailAsk(r) PROVE PageInv'
  <2>1. missed' = TRUE /\ missed' \in BOOLEAN
    BY <1>8 DEF FailAsk
  <2> QED BY <1>8, <2>1 DEF FailAsk, PageTypeOK, navVars
<1>9. ASSUME NEW g \in Groups, Change(g) PROVE PageInv'
  <2>1. /\ group' = [group EXCEPT ![g].changes = @ + 1]
        /\ UNCHANGED <<selected, hub, acts, link, opened, lookups, page>>
    BY <1>9 DEF Change, Changed, navVars
  <2>2. group' \in [Groups -> [changes : Nat, posts : Nat]]
    BY <2>1 DEF PageTypeOK
  <2>3. missed' \in BOOLEAN /\ (missed => missed') /\ (g = selected /\ ~link => missed')
    BY <1>9 DEF Change, PageTypeOK
  <2>4. /\ asks \subseteq asks' /\ (g = selected /\ link => asks' # {})
        /\ asks' \subseteq [of : Groups, at : {"server", "page"}, answer : Hubs]
    BY <1>9, AskGives DEF Change, Hears
  <2>5. g # selected /\ selected # NoGroup => group'[selected] = group[selected]
    BY <2>1 DEF PageTypeOK
  <2> QED BY <2>1, <2>2, <2>3, <2>4, <2>5 DEF Fresh, PageTypeOK
<1>10. ASSUME NEW g \in Groups, Post(g) PROVE PageInv'
  <2>1. /\ group' = [group EXCEPT ![g].posts = @ + 1]
        /\ UNCHANGED <<selected, asks, acts, link, opened, lookups, page>>
    BY <1>10 DEF Post, navVars
  <2>2. hub' \in Hubs
    <3>1. hub \in Hubs /\ group[g].posts + 1 \in Nat
      BY DEF PageTypeOK
    <3>2. \/ hub' = hub
          \/ hub' = [hub EXCEPT !.posts = @ \cup {group[g].posts + 1}]
          \/ hub' = [hub EXCEPT !.foreign = TRUE]
      BY <1>10 DEF Post
    <3>3. [hub EXCEPT !.posts = @ \cup {group[g].posts + 1}] \in Hubs
      BY <3>1 DEF Hubs
    <3>4. [hub EXCEPT !.foreign = TRUE] \in Hubs
      BY <3>1 DEF Hubs
    <3> QED BY <3>1, <3>2, <3>3, <3>4
  <2>3. missed' \in BOOLEAN /\ (missed => missed')
    BY <1>10 DEF Post, PageTypeOK
  <2>4. group' \in [Groups -> [changes : Nat, posts : Nat]]
    BY <2>1 DEF PageTypeOK
  <2> QED BY <1>10, <2>1, <2>2, <2>3, <2>4, PostShows DEF PageTypeOK
<1>11. ASSUME NEW g \in Groups, ActDone(g) PROVE PageInv'
  <2>1. /\ asks' # {}
        /\ asks' \subseteq [of : Groups, at : {"server", "page"}, answer : Hubs]
    BY <1>11, AskGives DEF ActDone
  <2>2. /\ group' \in [Groups -> [changes : Nat, posts : Nat]] /\ acts' \subseteq Groups
        /\ UNCHANGED <<selected, hub, link, opened, lookups, page>>
    BY <1>11 DEF ActDone, Changed, PageTypeOK, navVars
  <2>3. missed' \in BOOLEAN
    BY <1>11 DEF ActDone, PageTypeOK, navVars
  <2> QED BY <2>1, <2>2, <2>3 DEF PageTypeOK
<1>12. ASSUME NEW g \in Groups, ActFails(g, TRUE) \/ ActFails(g, FALSE) PROVE PageInv'
  <2>1. PICK gs \in SUBSET Groups : Ask(gs)
    BY <1>12 DEF ActFails
  <2>2. asks \subseteq asks' /\ asks' \subseteq [of : Groups, at : {"server", "page"}, answer : Hubs]
    BY <2>1, AskGives
  <2>3. /\ UNCHANGED <<group, selected, hub, link, missed, opened, lookups, page>>
        /\ acts' \subseteq acts
    BY <1>12 DEF ActFails, navVars
  <2> QED BY <2>2, <2>3 DEF Fresh, PageTypeOK
<1>13. CASE NavNext
  <2>1. UNCHANGED hubVars
    BY <1>13 DEF NavNext, OpenNotification, AnswerLookup, Menu
  <2>2. lookups' \subseteq 1..opened' /\ page' \in 0..opened' /\ opened' \in Nat
    <3>1. ASSUME NEW task \in BOOLEAN, OpenNotification(task)
          PROVE  lookups' \subseteq 1..opened' /\ page' \in 0..opened' /\ opened' \in Nat
      <4>1. opened' = opened + 1 /\ lookups' \subseteq lookups \cup {opened + 1} /\ page' \in {page, opened + 1}
        BY <3>1 DEF OpenNotification
      <4> QED BY <4>1 DEF PageTypeOK
    <3>2. ASSUME NEW n \in lookups, NEW failed \in BOOLEAN, AnswerLookup(n, failed)
          PROVE  lookups' \subseteq 1..opened' /\ page' \in 0..opened' /\ opened' \in Nat
      <4>1. opened' = opened /\ lookups' \subseteq lookups /\ page' \in {page, n}
        BY <3>2 DEF AnswerLookup
      <4> QED BY <4>1 DEF PageTypeOK
    <3>3. CASE Menu
      BY <3>3 DEF Menu, PageTypeOK
    <3> QED BY <1>13, <3>1, <3>2, <3>3 DEF NavNext
  <2> QED BY <2>1, <2>2 DEF PageTypeOK, hubVars, Fresh
<1>14. CASE UNCHANGED pageVars
  BY <1>14 DEF pageVars, hubVars, navVars, PageTypeOK, Fresh
<1> QED BY <1>1, <1>2, <1>3, <1>4, <1>5, <1>6, <1>7, <1>8, <1>9, <1>10, <1>11, <1>12, <1>13, <1>14
   DEF PageNext, HubNext

LEMMA PageInvAlways == PageSpec => []PageInv
BY PageInitInv, PageNextInv, PTL DEF PageSpec

-----------------------------------------------------------------------------
\* GroupChatPage, Workspace: the groups, the requests and the notifications hold what the program
\* could store.
THEOREM PagesTyped == PageSpec => []PageTypeOK
<1>1. PageInv => PageTypeOK
  BY DEF PageInv
<1> QED BY <1>1, PageInvAlways, PTL

\* refreshHub, the socket and the acts of the user (GroupChatPage, IdeasPage): for any groups, any
\* number of changes, messages and requests in flight, the page that has nothing to wait for shows
\* the selected group as the server has it, with the exceptions that the property names: among
\* them the changes of somebody else's that no room is told of.
THEOREM PageIsTrue == PageSpec => []PageShowsGroup
<1>1. PageInv => PageShowsGroup
  BY DEF PageInv, PageShowsGroup
<1> QED BY <1>1, PageInvAlways, PTL

\* openNotification: for any number of notifications and any order of the answers.
THEOREM LaterNotificationWins == PageSpec => LaterNotificationStays
<1>1. [PageNext]_pageVars => [opened' = opened => page' \in {0, page, opened}]_pageVars
  <2> SUFFICES ASSUME PageNext, opened' = opened PROVE page' \in {0, page, opened} \/ UNCHANGED pageVars
    BY DEF pageVars
  <2>1. CASE HubNext
    <3>1. page' = page
      BY <2>1 DEF HubNext, Select, Connect, LoseConnection, Act, Removed, AnswerAsk, ShowAnswer,
         FailAsk, Change, ChangeUntold, RunsOut, Post, ActDone, ActFails, navVars
    <3> QED BY <3>1
  <2>2. CASE NavNext
    BY <2>2 DEF NavNext, OpenNotification, AnswerLookup, Menu, Heeds
  <2> QED BY <2>1, <2>2 DEF PageNext
<1> QED BY <1>1, PTL DEF PageSpec, LaterNotificationStays

-----------------------------------------------------------------------------
(* Push of a browser *)

SwitchPage == [in : Browsers, by : Owners, on : BOOLEAN, about : 0..MaxMade,
               at : {"idle", "clear", "create", "delete", "unsubscribe", "wants"}]
Row == [id : 1..MaxMade, user : Owners, endpoint : 1..MaxMade]
Switches == [Browsers -> [by : Owners \cup {NoOwner}, torn : BOOLEAN, muted : BOOLEAN]]
PushTyped ==
  /\ PushTypeOK /\ wants \in [Owners -> BOOLEAN]
  /\ switched \in Switches

\* The pages that change the switch of a browser.
Changing(b) == {p \in Pages : settings[p].in = b /\ settings[p].at # "idle"}
RowsOf(e) == {r \in rows : r.endpoint = e}
Settled(b) == \E r \in rows : r.user = switched[b].by /\ RowsOf(sub[b]) = {r}

\* Rows and endpoints have numbers of their own, also those that a delivery has read.
NumbersKnown ==
  /\ \A r \in rows \cup sends : r.id <= numbers /\ r.endpoint <= numbers
  /\ \A r, s \in rows \cup sends : r.id = s.id => r = s
  /\ \A b \in Browsers : sub[b] <= numbers
  /\ \A p \in Pages : settings[p].about <= numbers

\* No two browsers have one subscription, and a page changes that of its own.
SubsApart ==
  /\ \A b, c \in Browsers : sub[b] = sub[c] /\ sub[b] # 0 => b = c
  /\ \A p \in Pages, c \in Browsers : Has(c, settings[p].about) => settings[p].in = c
  /\ \A p \in Pages : settings[p].at \in {"clear", "create", "delete", "unsubscribe"} =>
       settings[p].about # 0

\* At most one page changes the switch; the rows of the subscription are there until the page
\* clears or deletes them, and again from the moment that it has made one.
BrowserKnown(b) ==
  ~switched[b].torn =>
    /\ \A p, q \in Changing(b) : p = q
    /\ \A p \in Changing(b) : sub[b] \in {0, settings[p].about}
    /\ sub[b] # 0 =>
        /\ (\A p \in Changing(b) : settings[p].at \in {"delete", "wants"}) => Settled(b)
        /\ \A p \in Changing(b) : settings[p].at = "create" => RowsOf(sub[b]) = {}

PushInv == PushTyped /\ NumbersKnown /\ SubsApart /\ \A b \in Browsers : BrowserKnown(b)

-----------------------------------------------------------------------------
LEMMA PushTypes ==
  ASSUME PushTyped
  PROVE  /\ settings \in [Pages -> SwitchPage] /\ MaxMade \in Nat /\ numbers \in Nat
         /\ sub \in [Browsers -> Nat] /\ \A p \in Pages : settings[p].in \in Browsers
         /\ \A r \in rows \cup sends : r \in Row
BY PushAssumption DEF PushTyped, PushTypeOK, SwitchPage, Row

LEMMA PushInitInv == PushInit => PushInv
<1> SUFFICES ASSUME PushInit PROVE PushInv
  OBVIOUS
<1>1. PushTyped
  <2>1. settings \in [Pages -> SwitchPage]
    <3>1. ASSUME NEW p \in Pages PROVE settings[p] \in SwitchPage
      <4>1. PICK x \in Browsers, u \in Owners :
              settings[p] = [in |-> x, by |-> u, on |-> FALSE, at |-> "idle", about |-> 0]
        BY DEF PushInit
      <4>2. FALSE \in BOOLEAN
        OBVIOUS
      <4> QED BY <4>1, <4>2, PushAssumption DEF SwitchPage
    <3> QED BY <3>1 DEF PushInit
  <2>2. switched \in Switches
    BY DEF PushInit, Switches
  <2>3. wants \in [Owners -> BOOLEAN]
    BY DEF PushInit
  <2> QED BY <2>1, <2>2, <2>3, PushAssumption DEF PushInit, PushTyped, PushTypeOK, SwitchPage
<1>2. \A p \in Pages : settings[p].at = "idle" /\ settings[p].about = 0
  BY DEF PushInit
<1>3. \A b \in Browsers : Changing(b) = {}
  BY <1>2 DEF Changing
<1> QED BY <1>1, <1>2, <1>3 DEF PushInit, PushInv, NumbersKnown, SubsApart, BrowserKnown, Has

\* A page of a browser goes on.
LEMMA PageMoves ==
  ASSUME PushTyped, NEW p \in Pages, NEW x \in SwitchPage, settings' = [settings EXCEPT ![p] = x],
         x.in = settings[p].in
  PROVE  /\ settings' \in [Pages -> SwitchPage]
         /\ \A q \in Pages : settings'[q] = IF q = p THEN x ELSE settings[q]
         /\ \A b \in Browsers \ {x.in} : Changing(b)' = Changing(b)
         /\ Changing(x.in)' = IF x.at = "idle" THEN Changing(x.in) \ {p} ELSE Changing(x.in) \cup {p}
<1>1. /\ settings' \in [Pages -> SwitchPage]
      /\ \A q \in Pages : settings'[q] = IF q = p THEN x ELSE settings[q]
  BY PushTypes
<1> QED BY <1>1 DEF Changing

\* What one page does leaves the other browsers as they are.
LEMMA BrowserStays ==
  ASSUME NEW b \in Browsers, BrowserKnown(b), sub'[b] = sub[b],
         switched'[b].by = switched[b].by, switched'[b].torn = switched[b].torn,
         Changing(b)' = Changing(b),
         \A p \in Changing(b) : settings'[p].at = settings[p].at /\ settings'[p].about = settings[p].about,
         sub[b] # 0 => RowsOf(sub[b])' = RowsOf(sub[b])
  PROVE  BrowserKnown(b)'
<1>1. sub[b] # 0 /\ Settled(b) => Settled(b)'
  BY DEF Settled, RowsOf
<1> QED BY <1>1 DEF BrowserKnown, RowsOf
LEMMA OpenKeeps == ASSUME PushInv, NEW p \in Pages, NEW u \in Owners, OpenSettings(p, u) PROVE PushInv'
<1> PICK x : x = [settings[p] EXCEPT !.by = u, !.on = sub[settings[p].in] # 0]
  OBVIOUS
<1>1. /\ settings' = [settings EXCEPT ![p] = x] /\ settings[p].at = "idle"
      /\ UNCHANGED <<sub, rows, numbers, wants, sends, switched>>
  BY DEF OpenSettings
<1>2. x \in SwitchPage /\ x.in = settings[p].in /\ x.at = "idle" /\ x.about = settings[p].about
  <2>1. settings[p] \in SwitchPage
    BY PushTypes DEF PushInv
  <2>2. (sub[settings[p].in] # 0) \in BOOLEAN
    OBVIOUS
  <2> QED BY <1>1, <2>1, <2>2 DEF SwitchPage
<1>3. /\ settings' \in [Pages -> SwitchPage]
      /\ \A q \in Pages : settings'[q] = IF q = p THEN x ELSE settings[q]
      /\ \A b \in Browsers : Changing(b)' = Changing(b)
  <2>1. PushTyped /\ Changing(x.in) \ {p} = Changing(x.in)
    BY <1>1 DEF Changing, PushInv
  <2>2. /\ settings' \in [Pages -> SwitchPage]
        /\ \A q \in Pages : settings'[q] = IF q = p THEN x ELSE settings[q]
        /\ \A b \in Browsers \ {x.in} : Changing(b)' = Changing(b)
        /\ Changing(x.in)' = Changing(x.in)
    BY <1>1, <1>2, <2>1, PageMoves
  <2> QED BY <2>2
<1>4. PushTyped'
  BY <1>1, <1>3 DEF PushInv, PushTyped, PushTypeOK, SwitchPage
<1>5. NumbersKnown' /\ SubsApart'
  BY <1>1, <1>2, <1>3 DEF PushInv, NumbersKnown, SubsApart, Has
<1>6. ASSUME NEW b \in Browsers PROVE BrowserKnown(b)'
  BY <1>1, <1>2, <1>3, BrowserStays DEF PushInv, RowsOf
<1> QED BY <1>4, <1>5, <1>6 DEF PushInv

LEMMA SwitchKeeps == ASSUME PushInv, NEW p \in Pages, Switch(p) PROVE PushInv'
<1>0. settings[p].in \in Browsers /\ settings[p] \in SwitchPage
  BY PushTypes DEF PushInv, SwitchPage
<1>b. PICK b \in Browsers : b = settings[p].in
  BY <1>0
<1>e. PICK e : e = IF ~settings[p].on /\ sub[b] = 0 THEN numbers + 1 ELSE sub[b]
  OBVIOUS
<1>at. PICK at : at = CASE ~settings[p].on -> "clear" [] e = 0 -> "wants" [] OTHER -> "delete"
  OBVIOUS
<1>x. PICK x : x = [settings[p] EXCEPT !.about = e, !.at = at]
  OBVIOUS
<1>1. /\ settings[p].at = "idle"
      /\ settings' = [settings EXCEPT ![p] = x]
      /\ sub' = [sub EXCEPT ![b] = e]
      /\ UNCHANGED <<rows, wants, sends>>
      /\ switched' = [switched EXCEPT ![b].torn =
                       (@ /\ ~(Others(p) = {} /\ ~settings[p].on)) \/ Others(p) # {}]
  BY <1>b, <1>e, <1>at, <1>x DEF Switch
<1>2. /\ e \in 0..numbers' /\ numbers' \in 0..MaxMade /\ numbers <= numbers'
      /\ e = sub[b] \/ (sub[b] = 0 /\ e = numbers + 1 /\ numbers' = e)
      /\ ~settings[p].on => e # 0
      /\ e \in 0..MaxMade
  <2>1. numbers \in Nat /\ MaxMade \in Nat /\ sub[b] \in Nat /\ sub[b] <= numbers /\ numbers <= MaxMade
    BY <1>0, PushTypes DEF PushInv, NumbersKnown, PushTyped, PushTypeOK
  <2>2. CASE ~settings[p].on /\ sub[b] = 0
    <3>1. e = numbers + 1 /\ numbers' = e /\ numbers + 2 <= MaxMade
      BY <1>b, <1>e, <2>2 DEF Switch
    <3> QED BY <2>1, <2>2, <3>1
  <2>3. CASE ~(~settings[p].on /\ sub[b] = 0)
    <3>1. e = sub[b] /\ numbers' = numbers
      BY <1>b, <1>e, <2>3 DEF Switch
    <3> QED BY <2>1, <2>3, <3>1
  <2> QED BY <2>2, <2>3
<1>3. \/ at = "clear" /\ e # 0 /\ ~settings[p].on
      \/ at = "wants" /\ e = 0 /\ settings[p].on
      \/ at = "delete" /\ e # 0 /\ settings[p].on /\ e = sub[b]
  <2>1. CASE ~settings[p].on
    BY <1>2, <1>at, <2>1
  <2>2. CASE settings[p].on /\ e = 0
    BY <1>at, <2>2
  <2>3. CASE settings[p].on /\ e # 0
    BY <1>at, <1>e, <2>3
  <2> QED BY <2>1, <2>2, <2>3
<1>4. x \in SwitchPage /\ x.in = b /\ x.at = at /\ x.about = e
  BY <1>0, <1>2, <1>3, <1>b, <1>x DEF SwitchPage
<1>5. /\ settings' \in [Pages -> SwitchPage]
      /\ \A q \in Pages : settings'[q] = IF q = p THEN x ELSE settings[q]
      /\ \A c \in Browsers \ {b} : Changing(c)' = Changing(c)
      /\ Changing(b)' = Changing(b) \cup {p}
  <2>1. PushTyped /\ at # "idle"
    BY <1>3 DEF PushInv
  <2> QED BY <1>1, <1>4, <1>b, <2>1, PageMoves
<1>6. /\ sub' \in [Browsers -> 0..MaxMade]
      /\ \A c \in Browsers : sub'[c] = IF c = b THEN e ELSE sub[c]
  BY <1>1, <1>2 DEF PushInv, PushTyped, PushTypeOK
<1>7. /\ switched' \in Switches
      /\ \A c \in Browsers \ {b} : switched'[c] = switched[c]
      /\ switched'[b].by = switched[b].by
      /\ ~switched'[b].torn => /\ Others(p) = {}
                               /\ switched[b].torn => ~settings[p].on
  <2>1. PICK t \in BOOLEAN : t = ((switched[b].torn /\ ~(Others(p) = {} /\ ~settings[p].on)) \/ Others(p) # {})
    OBVIOUS
  <2>2. switched' = [switched EXCEPT ![b].torn = t]
    BY <1>1, <2>1
  <2>3. switched \in Switches
    BY DEF PushInv, PushTyped
  <2>4. ~t => Others(p) = {} /\ (switched[b].torn => ~settings[p].on)
    BY <2>1
  <2> HIDE <2>1
  <2> QED BY <2>2, <2>3, <2>4 DEF Switches
<1>8. PushTyped'
  BY <1>1, <1>2, <1>5, <1>6, <1>7 DEF PushInv, PushTyped, PushTypeOK, SwitchPage
<1>9. NumbersKnown'
  <2>1. \A r \in rows \cup sends : r.id \in Nat /\ r.endpoint \in Nat
    BY PushTypes DEF PushInv, Row
  <2>2. numbers \in Nat /\ \A q \in Pages : settings[q].about \in Nat
    BY PushTypes DEF PushInv, SwitchPage
  <2>3. \A c \in Browsers : sub[c] \in Nat
    BY PushTypes DEF PushInv
  <2> QED BY <1>1, <1>2, <1>4, <1>5, <1>6, <2>1, <2>2, <2>3 DEF PushInv, NumbersKnown
<1>10. SubsApart'
  <2>1. \A c \in Browsers : sub[c] \in Nat /\ sub[c] <= numbers
    BY PushTypes DEF PushInv, NumbersKnown
  <2>2. \A q \in Pages : settings[q].about \in Nat /\ settings[q].about <= numbers
    BY PushTypes DEF PushInv, NumbersKnown, SwitchPage
  <2>3. numbers \in Nat
    BY PushTypes DEF PushInv
  <2>4. \A c, d \in Browsers : sub'[c] = sub'[d] /\ sub'[c] # 0 => c = d
    BY <1>2, <1>6, <2>1, <2>3 DEF PushInv, SubsApart
  <2>5. \A q \in Pages, c \in Browsers : Has(c, settings[q].about)' => settings'[q].in = c
    <3> SUFFICES ASSUME NEW q \in Pages, NEW c \in Browsers, settings'[q].about # 0,
                        sub'[c] = settings'[q].about
                 PROVE  settings'[q].in = c
      BY DEF Has
    <3>1. CASE q = p
      <4>1. settings'[q].about = e /\ settings'[q].in = b /\ sub'[b] = e
        BY <1>4, <1>5, <1>6, <3>1
      <4> QED BY <2>4, <4>1
    <3>2. CASE q # p
      <4>1. settings'[q] = settings[q] /\ settings[q].about # numbers + 1
        BY <1>5, <2>2, <2>3, <3>2
      <4>2. sub'[c] = sub[c]
        BY <1>2, <1>6, <4>1
      <4> QED BY <4>1, <4>2 DEF PushInv, SubsApart, Has
    <3> QED BY <3>1, <3>2
  <2> QED BY <1>3, <1>4, <1>5, <2>4, <2>5 DEF PushInv, SubsApart
<1>11. ASSUME NEW c \in Browsers \ {b} PROVE BrowserKnown(c)'
  <2>1. \A q \in Changing(c) : settings'[q] = settings[q]
    BY <1>4, <1>5, <1>11 DEF Changing
  <2> QED BY <1>1, <1>5, <1>6, <1>7, <2>1, BrowserStays DEF PushInv, RowsOf
<1>12. BrowserKnown(b)'
  <2> SUFFICES ASSUME ~switched'[b].torn PROVE BrowserKnown(b)'
    BY DEF BrowserKnown
  <2>1. Changing(b) = {} /\ Changing(b)' = {p}
    BY <1>1, <1>5, <1>7, <1>b DEF Others, Changing
  <2>2. at # "create" /\ sub'[b] = e /\ settings'[p].about = e
    BY <1>3, <1>4, <1>5, <1>6
  <2>3. e # 0 /\ at \in {"delete", "wants"} => Settled(b)'
    <3> SUFFICES ASSUME e # 0, at = "delete" PROVE Settled(b)'
      BY <1>3
    <3>1. ~switched[b].torn /\ sub[b] = e
      BY <1>3, <1>7
    <3>2. Settled(b)
      BY <2>1, <3>1 DEF PushInv, BrowserKnown
    <3> QED BY <1>1, <1>7, <2>2, <3>1, <3>2 DEF Settled, RowsOf
  <2> QED BY <1>4, <1>5, <2>1, <2>2, <2>3 DEF BrowserKnown
<1> QED BY <1>8, <1>9, <1>10, <1>11, <1>12 DEF PushInv
\* A page that changes the switch: what it is about is known, and is no other browser's.
LEMMA PageKnown ==
  ASSUME PushInv, NEW p \in Pages, NEW b, b = settings[p].in, settings[p].at # "idle"
  PROVE  /\ b \in Browsers /\ settings[p] \in SwitchPage /\ p \in Changing(b)
         /\ settings[p].about \in Nat /\ settings[p].about <= numbers
         /\ settings[p].at \in {"clear", "create", "delete", "unsubscribe"} => settings[p].about # 0
         /\ \A c \in Browsers \ {b} : sub[c] # 0 => sub[c] # settings[p].about
         /\ ~switched[b].torn => Changing(b) = {p} /\ sub[b] \in {0, settings[p].about}
<1>1. b \in Browsers /\ settings[p] \in SwitchPage /\ p \in Changing(b) /\ settings[p].about \in Nat
  BY PushTypes DEF PushInv, SwitchPage, Changing
<1>2. /\ settings[p].about <= numbers
      /\ settings[p].at \in {"clear", "create", "delete", "unsubscribe"} => settings[p].about # 0
      /\ \A c \in Browsers \ {b} : sub[c] # 0 => sub[c] # settings[p].about
  BY DEF PushInv, NumbersKnown, SubsApart, Has
<1>3. ~switched[b].torn => Changing(b) = {p} /\ sub[b] \in {0, settings[p].about}
  BY <1>1 DEF PushInv, BrowserKnown
<1> QED BY <1>1, <1>2, <1>3

\* It goes on and keeps to its subscription: the other browsers do not notice.
LEMMA PageSteps ==
  ASSUME NEW p \in Pages, NEW x \in SwitchPage, NEW b, NEW e,
         PushInv, b = settings[p].in, e = settings[p].about, settings[p].at # "idle", settings' = [settings EXCEPT ![p] = x], x.in = b,
         x.about = settings[p].about \/ (x.at = "idle" /\ x.about = 0),
         x.at # "clear",
         x.at \in {"create", "delete", "unsubscribe"} =>
           settings[p].at \in {"clear", "create", "delete", "unsubscribe"},
         sub' = [sub EXCEPT ![b] = 0] \/ sub' = sub,
         \A c \in Browsers \ {b} : switched'[c].by = switched[c].by /\ switched'[c].torn = switched[c].torn,
         \A r \in rows \cup rows' : r.endpoint # e => r \in rows \cap rows'
  PROVE  /\ SubsApart'
         /\ \A c \in Browsers \ {b} : BrowserKnown(c)'
<1>0. b \in Browsers /\ p \in Changing(b) /\ PushTyped
  BY PageKnown DEF PushInv
<1>1. /\ settings' \in [Pages -> SwitchPage]
      /\ \A q \in Pages : settings'[q] = IF q = p THEN x ELSE settings[q]
      /\ \A c \in Browsers \ {b} : Changing(c)' = Changing(c)
      /\ Changing(b)' = IF x.at = "idle" THEN Changing(b) \ {p} ELSE Changing(b) \cup {p}
  BY <1>0, PageMoves
<1>2. /\ \A c \in Browsers : sub'[c] \in {0, sub[c]} /\ (c # b => sub'[c] = sub[c])
      /\ sub' \in [Browsers -> 0..MaxMade]
  BY PushAssumption DEF PushInv, PushTyped, PushTypeOK
<1>3. \A q \in Pages : settings'[q].about \in {0, settings[q].about} /\ settings'[q].in = settings[q].in
  BY <1>1
<1>4. SubsApart'
  <2>1. \A c, d \in Browsers : sub'[c] = sub'[d] /\ sub'[c] # 0 => c = d
    BY <1>2 DEF PushInv, SubsApart
  <2>2. \A q \in Pages, c \in Browsers : Has(c, settings[q].about)' => settings'[q].in = c
    <3> SUFFICES ASSUME NEW q \in Pages, NEW c \in Browsers, settings'[q].about # 0,
                        sub'[c] = settings'[q].about
                 PROVE  settings'[q].in = c
      BY DEF Has
    <3>1. settings[q].about # 0 /\ sub[c] = settings[q].about
      BY <1>2, <1>3
    <3> QED BY <1>3, <3>1 DEF PushInv, SubsApart, Has
  <2>3. \A q \in Pages : settings'[q].at \in {"clear", "create", "delete", "unsubscribe"} =>
          settings'[q].about # 0
    BY <1>1 DEF PushInv, SubsApart
  <2> QED BY <2>1, <2>2, <2>3 DEF SubsApart
<1>5. ASSUME NEW c \in Browsers \ {b} PROVE BrowserKnown(c)'
  <2>1. \A q \in Changing(c) : settings'[q] = settings[q]
    BY <1>1 DEF Changing
  <2>2. sub'[c] = sub[c] /\ BrowserKnown(c)
    BY <1>2, <1>5 DEF PushInv
  <2>3. sub[c] # 0 => sub[c] # e /\ sub[c] \in 1..MaxMade
    BY <1>5, PageKnown, PushTypes DEF PushInv, PushTyped, PushTypeOK
  <2>4. sub[c] # 0 => RowsOf(sub[c])' = RowsOf(sub[c])
    <3> SUFFICES ASSUME sub[c] # 0 PROVE RowsOf(sub[c])' = RowsOf(sub[c])
      OBVIOUS
    <3> QED BY <2>2, <2>3 DEF RowsOf
  <2> QED BY <1>1, <1>5, <2>1, <2>2, <2>4, BrowserStays
<1> QED BY <1>4, <1>5

LEMMA ClearKeeps == ASSUME PushInv, NEW p \in Pages, Clear(p) PROVE PushInv'
<1>b. PICK b : b = settings[p].in
  OBVIOUS
<1>e. PICK e : e = settings[p].about
  OBVIOUS
<1>x. PICK x : x = [settings[p] EXCEPT !.at = "create"]
  OBVIOUS
<1>1. /\ settings[p].at = "clear" /\ settings' = [settings EXCEPT ![p] = x]
      /\ rows' = rows \ RowsOf(e)
      /\ UNCHANGED <<sub, numbers, wants, sends, switched>>
  BY <1>e, <1>x DEF Clear, Step, Replaces, RowsOf
<1>2. x \in SwitchPage /\ x.in = b /\ x.about = e /\ x.at = "create"
  BY <1>1, <1>b, <1>e, <1>x, PageKnown DEF SwitchPage
<1>3. \A r \in rows \cup rows' : r.endpoint # e => r \in rows \cap rows'
  BY <1>1 DEF RowsOf
<1>4. /\ settings' \in [Pages -> SwitchPage] /\ settings'[p] = x
      /\ Changing(b)' = Changing(b)
      /\ SubsApart'
      /\ \A c \in Browsers \ {b} : BrowserKnown(c)'
      /\ \A q \in Pages : settings'[q].about \in {0, settings[q].about}
  <2>1. settings[p].at # "idle" /\ sub' = sub /\ \A c \in Browsers \ {b} : switched'[c] = switched[c]
    BY <1>1
  <2>2. settings \in [Pages -> SwitchPage]
    BY PushTypes DEF PushInv
  <2>3. SubsApart' /\ \A c \in Browsers \ {b} : BrowserKnown(c)'
    BY <1>1, <1>2, <1>3, <1>b, <1>e, <2>1, PageSteps
  <2>4. settings' \in [Pages -> SwitchPage] /\ \A q \in Pages : settings'[q] = IF q = p THEN x ELSE settings[q]
    BY <1>1, <1>2, <2>2
  <2>5. Changing(b)' = Changing(b)
    BY <1>1, <1>2, <1>b, <2>4 DEF Changing
  <2> QED BY <1>2, <1>e, <2>3, <2>4, <2>5
<1>5. PushTyped'
  BY <1>1, <1>4 DEF PushInv, PushTyped, PushTypeOK, SwitchPage
<1>6. NumbersKnown'
  BY <1>1, <1>4, PushTypes DEF PushInv, NumbersKnown
<1>7. BrowserKnown(b)'
  <2> SUFFICES ASSUME ~switched[b].torn PROVE BrowserKnown(b)'
    BY <1>1 DEF BrowserKnown
  <2>1. Changing(b) = {p} /\ sub[b] \in {0, e}
    BY <1>1, <1>b, <1>e, PageKnown
  <2>2. RowsOf(e)' = {}
    BY <1>1 DEF RowsOf
  <2> QED BY <1>1, <1>2, <1>4, <2>1, <2>2 DEF BrowserKnown, RowsOf
<1> QED BY <1>4, <1>5, <1>6, <1>7 DEF PushInv
LEMMA CreateKeeps == ASSUME PushInv, NEW p \in Pages, Create(p) PROVE PushInv'
<1>b. PICK b : b = settings[p].in
  OBVIOUS
<1>e. PICK e : e = settings[p].about
  OBVIOUS
<1>x. PICK x : x = [settings[p] EXCEPT !.at = "wants"]
  OBVIOUS
<1>r. PICK r : r = [id |-> numbers + 1, user |-> settings[p].by, endpoint |-> e]
  OBVIOUS
<1>1. /\ settings[p].at = "create" /\ settings' = [settings EXCEPT ![p] = x]
      /\ rows' = rows \cup {r} /\ numbers' = numbers + 1 /\ numbers < MaxMade
      /\ switched' = [switched EXCEPT ![b].by = settings[p].by]
      /\ UNCHANGED <<sub, wants, sends>>
  BY <1>b, <1>e, <1>x, <1>r DEF Create, Step
<1>2. /\ x \in SwitchPage /\ x.in = b /\ x.about = e /\ x.at = "wants"
      /\ b \in Browsers /\ e \in Nat /\ e <= numbers /\ e # 0 /\ settings[p].by \in Owners
  BY <1>1, <1>b, <1>e, <1>x, PageKnown DEF SwitchPage
<1>3. /\ r \in Row /\ r.endpoint = e /\ r.user = settings[p].by /\ r.id = numbers + 1
      /\ numbers \in Nat /\ MaxMade \in Nat
  BY <1>1, <1>2, <1>r, PushTypes DEF PushInv, Row
<1>4. \A s \in rows \cup rows' : s.endpoint # e => s \in rows \cap rows'
  BY <1>1, <1>3
<1>5. /\ switched' \in Switches
      /\ \A c \in Browsers \ {b} : switched'[c] = switched[c]
      /\ switched'[b].by = settings[p].by
      /\ switched'[b].torn = switched[b].torn
  BY <1>1, <1>2 DEF PushInv, PushTyped, Switches
<1>6. /\ settings' \in [Pages -> SwitchPage]
      /\ \A q \in Pages : settings'[q] = IF q = p THEN x ELSE settings[q]
      /\ SubsApart'
      /\ \A c \in Browsers \ {b} : BrowserKnown(c)'
  <2>1. /\ settings[p].at = "create" /\ sub' = sub /\ settings' = [settings EXCEPT ![p] = x]
        /\ \A c \in Browsers \ {b} : switched'[c] = switched[c]
    BY <1>1, <1>5
  <2>2. settings \in [Pages -> SwitchPage]
    BY PushTypes DEF PushInv
  <2>3. SubsApart' /\ \A c \in Browsers \ {b} : BrowserKnown(c)'
    BY <1>2, <1>4, <1>b, <1>e, <2>1, PageSteps
  <2> QED BY <1>1, <1>2, <2>2, <2>3
<1>7. PushTyped'
  BY <1>1, <1>3, <1>5, <1>6 DEF PushInv, PushTyped, PushTypeOK, SwitchPage, Row
<1>8. NumbersKnown'
  <2>1. \A s \in rows \cup sends : s.id \in Nat /\ s.endpoint \in Nat /\ s.id <= numbers /\ s.endpoint <= numbers
    BY PushTypes DEF PushInv, NumbersKnown, Row
  <2>2. \A s, t \in rows' \cup sends' : s.id = t.id => s = t
    BY <1>1, <1>3, <2>1 DEF PushInv, NumbersKnown
  <2>3. \A q \in Pages : settings[q].about \in Nat /\ settings[q].about <= numbers
    BY PushTypes DEF PushInv, NumbersKnown, SwitchPage
  <2>4. \A c \in Browsers : sub[c] \in Nat /\ sub[c] <= numbers
    BY PushTypes DEF PushInv, NumbersKnown
  <2> QED BY <1>1, <1>2, <1>3, <1>6, <2>1, <2>2, <2>3, <2>4 DEF NumbersKnown
<1>9. BrowserKnown(b)'
  <2> SUFFICES ASSUME ~switched[b].torn PROVE BrowserKnown(b)'
    BY <1>5 DEF BrowserKnown
  <2>1. Changing(b) = {p} /\ sub[b] \in {0, e}
    BY <1>1, <1>b, <1>e, PageKnown
  <2>2. Changing(b)' = Changing(b)
    BY <1>1, <1>2, <1>6, <1>b DEF Changing
  <2>3. sub[b] # 0 => Settled(b)'
    <3>1. sub[b] # 0 => \A s \in rows : s.endpoint # e
      BY <1>1, <1>2, <2>1 DEF PushInv, BrowserKnown, RowsOf
    <3> QED BY <1>1, <1>2, <1>3, <1>5, <2>1, <3>1 DEF Settled, RowsOf
  <2> QED BY <1>1, <1>2, <1>6, <2>1, <2>2, <2>3 DEF BrowserKnown
<1> QED BY <1>6, <1>7, <1>8, <1>9 DEF PushInv

LEMMA DeleteKeeps == ASSUME PushInv, NEW p \in Pages, Delete(p) PROVE PushInv'
<1>b. PICK b : b = settings[p].in
  OBVIOUS
<1>e. PICK e : e = settings[p].about
  OBVIOUS
<1>x. PICK x : x = [settings[p] EXCEPT !.at = "unsubscribe"]
  OBVIOUS
<1>1. /\ settings[p].at = "delete" /\ settings' = [settings EXCEPT ![p] = x]
      /\ rows' \subseteq rows /\ \A r \in rows : r.endpoint # e => r \in rows'
      /\ UNCHANGED <<sub, numbers, wants, sends, switched>>
  BY <1>e, <1>x DEF Delete, Step
<1>2. x \in SwitchPage /\ x.in = b /\ x.about = e /\ x.at = "unsubscribe"
  BY <1>1, <1>b, <1>e, <1>x, PageKnown DEF SwitchPage
<1>3. \A r \in rows \cup rows' : r.endpoint # e => r \in rows \cap rows'
  BY <1>1
<1>4. /\ settings' \in [Pages -> SwitchPage]
      /\ \A q \in Pages : settings'[q] = IF q = p THEN x ELSE settings[q]
      /\ SubsApart'
      /\ \A c \in Browsers \ {b} : BrowserKnown(c)'
  <2>1. settings[p].at # "idle" /\ sub' = sub /\ \A c \in Browsers \ {b} : switched'[c] = switched[c]
    BY <1>1
  <2>2. settings \in [Pages -> SwitchPage]
    BY PushTypes DEF PushInv
  <2>3. SubsApart' /\ \A c \in Browsers \ {b} : BrowserKnown(c)'
    BY <1>1, <1>2, <1>3, <1>b, <1>e, <2>1, PageSteps
  <2> QED BY <1>1, <1>2, <2>2, <2>3
<1>5. PushTyped'
  BY <1>1, <1>4 DEF PushInv, PushTyped, PushTypeOK, SwitchPage
<1>6. NumbersKnown'
  BY <1>1, <1>2, <1>4, <1>e, PushTypes DEF PushInv, NumbersKnown
<1>7. BrowserKnown(b)'
  <2> SUFFICES ASSUME ~switched[b].torn PROVE BrowserKnown(b)'
    BY <1>1 DEF BrowserKnown
  <2>1. Changing(b) = {p} /\ sub[b] \in {0, e}
    BY <1>1, <1>b, <1>e, PageKnown
  <2>2. Changing(b)' = Changing(b)
    BY <1>1, <1>2, <1>4, <1>b DEF Changing
  <2> QED BY <1>1, <1>2, <1>4, <2>1, <2>2 DEF BrowserKnown
<1> QED BY <1>4, <1>5, <1>6, <1>7 DEF PushInv

LEMMA UnsubscribeKeeps == ASSUME PushInv, NEW p \in Pages, Unsubscribe(p) PROVE PushInv'
<1>b. PICK b : b = settings[p].in
  OBVIOUS
<1>e. PICK e : e = settings[p].about
  OBVIOUS
<1>x. PICK x : x = [settings[p] EXCEPT !.at = "wants"]
  OBVIOUS
<1>1. /\ settings[p].at = "unsubscribe" /\ settings' = [settings EXCEPT ![p] = x]
      /\ sub' = [sub EXCEPT ![b] = IF @ = e THEN 0 ELSE @]
      /\ UNCHANGED <<rows, numbers, wants, sends, switched>>
  BY <1>b, <1>e, <1>x DEF Unsubscribe, Step
<1>2. /\ x \in SwitchPage /\ x.in = b /\ x.about = e /\ x.at = "wants" /\ b \in Browsers
  BY <1>1, <1>b, <1>e, <1>x, PageKnown DEF SwitchPage
<1>3. (sub' = [sub EXCEPT ![b] = 0] \/ sub' = sub) /\ (sub[b] = e => sub'[b] = 0) /\ sub'[b] \in {0, sub[b]}
  BY <1>1, <1>2, PushTypes DEF PushInv
<1>4. /\ settings' \in [Pages -> SwitchPage]
      /\ \A q \in Pages : settings'[q] = IF q = p THEN x ELSE settings[q]
      /\ sub' \in [Browsers -> 0..MaxMade]
      /\ \A c \in Browsers : sub'[c] \in {0, sub[c]}
      /\ SubsApart'
      /\ \A c \in Browsers \ {b} : BrowserKnown(c)'
  <2>1. /\ settings[p].at # "idle" /\ \A c \in Browsers \ {b} : switched'[c] = switched[c]
        /\ \A r \in rows \cup rows' : r.endpoint # e => r \in rows \cap rows'
    BY <1>1
  <2>2. settings \in [Pages -> SwitchPage]
    BY PushTypes DEF PushInv
  <2>3. SubsApart' /\ \A c \in Browsers \ {b} : BrowserKnown(c)'
    BY <1>1, <1>2, <1>3, <1>b, <1>e, <2>1, PageSteps
  <2>4. sub \in [Browsers -> 0..MaxMade] /\ MaxMade \in Nat
    BY PushTypes DEF PushInv, PushTyped, PushTypeOK
  <2>5. sub' \in [Browsers -> 0..MaxMade] /\ \A c \in Browsers : sub'[c] \in {0, sub[c]}
    BY <1>3, <2>4
  <2>6. settings' \in [Pages -> SwitchPage] /\ \A q \in Pages : settings'[q] = IF q = p THEN x ELSE settings[q]
    BY <1>1, <1>2, <2>2
  <2> QED BY <2>3, <2>5, <2>6
<1>5. PushTyped'
  BY <1>1, <1>4 DEF PushInv, PushTyped, PushTypeOK, SwitchPage
<1>6. NumbersKnown'
  BY <1>1, <1>2, <1>4, <1>e, PushTypes DEF PushInv, NumbersKnown
<1>7. BrowserKnown(b)'
  <2> SUFFICES ASSUME ~switched[b].torn PROVE BrowserKnown(b)'
    BY <1>1 DEF BrowserKnown
  <2>1. Changing(b) = {p} /\ sub'[b] = 0
    BY <1>1, <1>3, <1>b, <1>e, PageKnown
  <2>2. Changing(b)' = Changing(b)
    BY <1>1, <1>2, <1>4, <1>b DEF Changing
  <2> QED BY <1>1, <1>2, <1>4, <2>1, <2>2 DEF BrowserKnown
<1> QED BY <1>4, <1>5, <1>6, <1>7 DEF PushInv
\* The preference is saved: every browser of the account learns whether it is muted.
LEMMA WantsSaved ==
  ASSUME NEW p \in Pages, switched \in Switches, settings[p].on \in BOOLEAN, SaveWants(p)
  PROVE  /\ settings[p].at = "wants" /\ switched' \in Switches
         /\ \A c \in Browsers : /\ switched'[c].by = switched[c].by /\ switched'[c].torn = switched[c].torn
                                /\ c # settings[p].in /\ switched[c].by # settings[p].by =>
                                    switched'[c] = switched[c]
                                /\ c # settings[p].in /\ switched[c].by = settings[p].by =>
                                    switched'[c].muted = settings[p].on
<1>1. PICK m \in [Browsers -> BOOLEAN] : \A c \in Browsers : m[c] = (c # settings[p].in /\ settings[p].on)
  <2> WITNESS [c \in Browsers |-> c # settings[p].in /\ settings[p].on] \in [Browsers -> BOOLEAN]
  <2> QED OBVIOUS
<1>2. switched' = [c \in Browsers |->
        IF c # settings[p].in /\ switched[c].by # settings[p].by THEN switched[c]
        ELSE [switched[c] EXCEPT !.muted = m[c]]]
  BY <1>1 DEF SaveWants
<1>3. switched' \in Switches
  BY <1>2 DEF Switches
<1>4. ASSUME NEW c \in Browsers
      PROVE  /\ switched'[c].by = switched[c].by /\ switched'[c].torn = switched[c].torn
             /\ c # settings[p].in /\ switched[c].by # settings[p].by => switched'[c] = switched[c]
             /\ c # settings[p].in /\ switched[c].by = settings[p].by => switched'[c].muted = m[c]
  BY <1>2 DEF Switches
<1>5. settings[p].at = "wants"
  BY DEF SaveWants
<1>6. \A c \in Browsers : c # settings[p].in => m[c] = settings[p].on
  BY <1>1
<1> QED BY <1>3, <1>4, <1>5, <1>6

\* The change is done, or it stops: of the browsers only that of the page is concerned.
LEMMA EndsChange == ASSUME PushInv, NEW p \in Pages, SaveWants(p) \/ FailSwitch(p) PROVE PushInv'
<1>b. PICK b : b = settings[p].in
  OBVIOUS
<1>e. PICK e : e = settings[p].about
  OBVIOUS
<1>s. settings[p] \in SwitchPage /\ b \in Browsers
  <2>1. settings[p].at # "idle"
    BY DEF SaveWants, FailSwitch
  <2> QED BY <1>b, <2>1, PageKnown
<1>o. settings[p].on \in BOOLEAN
  BY <1>s DEF SwitchPage
<1>x. PICK x \in SwitchPage : /\ settings' = [settings EXCEPT ![p] = x]
                             /\ x.in = b /\ x.about = 0 /\ x.at = "idle"
  <2> DEFINE y(on) == [settings[p] EXCEPT !.at = "idle", !.about = 0, !.on = on]
  <2>1. PICK z : z = [settings[p] EXCEPT !.at = "idle", !.about = 0]
    OBVIOUS
  <2>5. z \in SwitchPage /\ z.in = b /\ z.about = 0 /\ z.at = "idle"
    <3>1. 0 \in 0..MaxMade
      BY PushAssumption
    <3>2. z \in SwitchPage
      BY <1>s, <2>1, <3>1 DEF SwitchPage
    <3>3. z.at = "idle"
      BY <1>s, <2>1 DEF SwitchPage
    <3>4. z.about = 0
      BY <1>s, <2>1 DEF SwitchPage
    <3>5. z.in = b
      BY <1>b, <1>s, <2>1 DEF SwitchPage
    <3> QED BY <3>2, <3>3, <3>4, <3>5
  <2>4. ASSUME NEW on \in BOOLEAN
        PROVE  y(on) \in SwitchPage /\ y(on).in = b /\ y(on).about = 0 /\ y(on).at = "idle"
    <3>1. y(on) = [z EXCEPT !.on = on]
      BY <2>1
    <3> HIDE DEF y
    <3> QED BY <2>5, <3>1 DEF SwitchPage
  <2>2. CASE SaveWants(p)
    <3>1. settings' = [settings EXCEPT ![p] = y(~settings[p].on)]
      BY <2>2 DEF SaveWants
    <3>2. (~settings[p].on) \in BOOLEAN
      OBVIOUS
    <3> HIDE DEF y
    <3> QED BY <2>4, <3>1, <3>2
  <2>3. CASE FailSwitch(p)
    <3>1. [settings[p] EXCEPT !.at = "idle", !.about = 0] = y(settings[p].on)
      BY <1>s DEF SwitchPage
    <3>2. settings' = [settings EXCEPT ![p] = [settings[p] EXCEPT !.at = "idle", !.about = 0]]
      BY <2>3 DEF FailSwitch
    <3> HIDE DEF y
    <3> QED BY <1>o, <2>4, <3>1, <3>2
  <2> QED BY <2>2, <2>3
<1>1. /\ settings[p].at # "idle" /\ UNCHANGED <<sub, rows, numbers, sends>>
      /\ wants' \in [Owners -> BOOLEAN]
  BY DEF SaveWants, FailSwitch, PushInv, PushTyped
<1>2. /\ x \in SwitchPage /\ x.in = b /\ x.about = 0 /\ x.at = "idle" /\ b \in Browsers
  BY <1>s, <1>x
<1>3. /\ switched' \in Switches
      /\ \A c \in Browsers \ {b} : switched'[c].by = switched[c].by /\ switched'[c].torn = switched[c].torn
      /\ switched'[b].by = switched[b].by
      /\ ~switched'[b].torn => /\ ~switched[b].torn
                               /\ settings[p].at \in {"delete", "wants"}
  <2>1. switched \in Switches
    BY DEF PushInv, PushTyped
  <2>2. CASE SaveWants(p)
    <3>1. /\ settings[p].at = "wants" /\ switched' \in Switches
          /\ \A c \in Browsers : switched'[c].by = switched[c].by /\ switched'[c].torn = switched[c].torn
      BY <1>o, <2>1, <2>2, WantsSaved
    <3> QED BY <1>2, <3>1
  <2>3. CASE FailSwitch(p)
    <3>1. PICK t \in BOOLEAN : t = (switched[b].torn \/ settings[p].at \in {"clear", "create", "unsubscribe"}
                                   \/ (settings[p].at = "wants" /\ ~settings[p].on))
      OBVIOUS
    <3>2. switched' = [switched EXCEPT ![b].torn = t]
      BY <1>b, <2>3, <3>1 DEF FailSwitch
    <3>3. settings[p].at \in {"clear", "create", "delete", "unsubscribe", "wants"}
      BY <1>1, <1>b, PageKnown DEF SwitchPage
    <3>4. ~t => ~switched[b].torn /\ settings[p].at \in {"delete", "wants"}
      BY <3>1, <3>3
    <3> QED BY <1>2, <2>1, <3>2, <3>4 DEF Switches
  <2> QED BY <2>2, <2>3
<1>4. /\ settings' \in [Pages -> SwitchPage]
      /\ \A q \in Pages : settings'[q] = IF q = p THEN x ELSE settings[q]
      /\ SubsApart'
      /\ \A c \in Browsers \ {b} : BrowserKnown(c)'
  <2>1. /\ settings[p].at # "idle" /\ sub' = sub
        /\ \A r \in rows \cup rows' : r.endpoint # e => r \in rows \cap rows'
    BY <1>1
  <2>2. settings \in [Pages -> SwitchPage]
    BY PushTypes DEF PushInv
  <2>3. SubsApart' /\ \A c \in Browsers \ {b} : BrowserKnown(c)'
    BY <1>2, <1>3, <1>b, <1>e, <1>x, <2>1, PageSteps
  <2> QED BY <1>x, <1>2, <2>2, <2>3
<1>5. PushTyped'
  BY <1>1, <1>3, <1>4 DEF PushInv, PushTyped, PushTypeOK, SwitchPage
<1>6. NumbersKnown'
  BY <1>1, <1>2, <1>4, PushTypes DEF PushInv, NumbersKnown
<1>7. BrowserKnown(b)'
  <2> SUFFICES ASSUME ~switched'[b].torn PROVE BrowserKnown(b)'
    BY DEF BrowserKnown
  <2>1. Changing(b) = {p} /\ settings[p].at \in {"delete", "wants"} /\ ~switched[b].torn
    BY <1>1, <1>3, <1>b, PageKnown
  <2>2. Changing(b)' = {}
    BY <1>1, <1>2, <1>4, <1>b, <2>1 DEF Changing
  <2>3. sub[b] # 0 => Settled(b)
    BY <1>2, <2>1 DEF PushInv, BrowserKnown
  <2>4. sub[b] # 0 => Settled(b)'
    BY <1>1, <1>3, <2>3 DEF Settled, RowsOf
  <2> QED BY <1>1, <2>2, <2>4 DEF BrowserKnown
<1> QED BY <1>4, <1>5, <1>6, <1>7 DEF PushInv

LEMMA SubscriptionKeeps == ASSUME PushInv, NEW b \in Browsers, SubscriptionEnds(b) PROVE PushInv'
<1>1. sub' = [sub EXCEPT ![b] = 0] /\ UNCHANGED <<settings, rows, numbers, wants, sends, switched>>
  BY DEF SubscriptionEnds
<1>2. /\ sub' \in [Browsers -> 0..MaxMade]
      /\ \A c \in Browsers : sub'[c] = IF c = b THEN 0 ELSE sub[c]
  BY <1>1, PushAssumption DEF PushInv, PushTyped, PushTypeOK
<1>3. PushTyped'
  BY <1>1, <1>2 DEF PushInv, PushTyped, PushTypeOK
<1>4. NumbersKnown' /\ SubsApart'
  BY <1>1, <1>2, PushTypes DEF PushInv, NumbersKnown, SubsApart, Has
<1>5. ASSUME NEW c \in Browsers PROVE BrowserKnown(c)'
  <2>1. Changing(c)' = Changing(c) /\ BrowserKnown(c)
    BY <1>1 DEF Changing, PushInv
  <2>2. CASE c = b
    BY <1>1, <1>2, <2>1, <2>2 DEF BrowserKnown
  <2>3. CASE c # b
    <3>1. sub'[c] = sub[c]
      BY <1>2, <2>3
    <3> QED BY <1>1, <2>1, <3>1, BrowserStays DEF RowsOf
  <2> QED BY <2>2, <2>3
<1> QED BY <1>3, <1>4, <1>5 DEF PushInv

LEMMA DeliverKeeps == ASSUME PushInv, NEW u \in Owners, Deliver(u) PROVE PushInv'
<1>1. sends' \subseteq sends \cup rows /\ UNCHANGED <<settings, sub, rows, numbers, wants, switched>>
  BY DEF Deliver
<1>2. PushTyped' /\ NumbersKnown' /\ SubsApart'
  BY <1>1 DEF PushInv, PushTyped, PushTypeOK, NumbersKnown, SubsApart, Has
<1>3. ASSUME NEW c \in Browsers PROVE BrowserKnown(c)'
  BY <1>1, BrowserStays DEF PushInv, Changing, RowsOf
<1> QED BY <1>2, <1>3 DEF PushInv

\* A row is pruned only when no browser has its endpoint.
LEMMA SendKeeps ==
  ASSUME PushInv, NEW r \in sends, NEW reached \in BOOLEAN, Send(r, reached)
  PROVE  PushInv'
<1>1. /\ sends' \subseteq sends /\ rows' \subseteq rows
      /\ UNCHANGED <<settings, sub, numbers, wants, switched>>
  BY DEF Send
<1>2. PushTyped' /\ NumbersKnown' /\ SubsApart'
  BY <1>1 DEF PushInv, PushTyped, PushTypeOK, NumbersKnown, SubsApart, Has
<1>3. ASSUME NEW c \in Browsers, sub[c] # 0 PROVE RowsOf(sub[c])' = RowsOf(sub[c])
  <2>1. \A s \in rows : s \notin rows' => s.id = r.id /\ ~Has(c, r.endpoint)
    BY DEF Send, Prunes
  <2>2. \A s \in rows : s \notin rows' => s.endpoint # sub[c]
    <3> SUFFICES ASSUME NEW s \in rows, s \notin rows' PROVE s.endpoint # sub[c]
      OBVIOUS
    <3>1. s = r
      BY <2>1 DEF PushInv, NumbersKnown
    <3> QED BY <1>3, <2>1, <3>1 DEF Has
  <2> QED BY <1>1, <2>2 DEF RowsOf
<1>4. ASSUME NEW c \in Browsers PROVE BrowserKnown(c)'
  BY <1>1, <1>3, BrowserStays DEF PushInv, Changing
<1> QED BY <1>2, <1>4 DEF PushInv

LEMMA PushNextInv == PushInv /\ [PushNext]_pushVars => PushInv'
<1> SUFFICES ASSUME PushInv, [PushNext]_pushVars PROVE PushInv'
  OBVIOUS
<1>1. CASE UNCHANGED pushVars
  <2>1. UNCHANGED <<settings, sub, rows, numbers, wants, sends, switched>>
    BY <1>1 DEF pushVars
  <2>2. PushTyped' /\ NumbersKnown' /\ SubsApart'
    BY <2>1 DEF PushInv, PushTyped, PushTypeOK, NumbersKnown, SubsApart, Has
  <2>3. ASSUME NEW c \in Browsers PROVE BrowserKnown(c)'
    BY <2>1, BrowserStays DEF PushInv, Changing, RowsOf
  <2> QED BY <2>2, <2>3 DEF PushInv
<1>2. CASE PushNext
  BY <1>2, OpenKeeps, SwitchKeeps, ClearKeeps, CreateKeeps, DeleteKeeps, UnsubscribeKeeps, EndsChange,
     SubscriptionKeeps, DeliverKeeps, SendKeeps DEF PushNext
<1> QED BY <1>1, <1>2

-----------------------------------------------------------------------------
\* The account is told, unless another browser of it has switched push off.
Wanted(b) == switched[b].by \in Owners /\ (wants[switched[b].by] \/ switched[b].muted)

\* An enabled browser's account is told until its page is about to save otherwise; what the page
\* is about to save while there is a subscription is that it is told.
BrowserWanted(b) ==
  ~switched[b].torn /\ sub[b] # 0 =>
    /\ (\A p \in Changing(b) : settings[p].at = "delete") => Wanted(b)
    /\ \A p \in Changing(b) : settings[p].at = "wants" =>
         ~settings[p].on /\ switched[b].by = settings[p].by

\* Only a page that shows push as disabled replaces rows.
Enabling == \A p \in Pages : settings[p].at \in {"clear", "create"} => ~settings[p].on

AllWanted == Enabling /\ \A b \in Browsers : BrowserWanted(b)
WantInv == PushInv /\ AllWanted

LEMMA WantedStays ==
  ASSUME NEW b \in Browsers, BrowserWanted(b), switched'[b] = switched[b], sub'[b] \in {0, sub[b]},
         wants' = wants, Changing(b)' = Changing(b),
         \A p \in Changing(b) : /\ settings'[p].at = settings[p].at /\ settings'[p].on = settings[p].on
                                /\ settings'[p].by = settings[p].by
  PROVE  BrowserWanted(b)'
BY DEF BrowserWanted, Wanted

\* A page goes on, and neither the preferences nor what is known of other browsers change.
LEMMA WantedElsewhere ==
  ASSUME PushInv, NEW p \in Pages, NEW x \in SwitchPage, settings' = [settings EXCEPT ![p] = x],
         x.in = settings[p].in, wants' = wants,
         \A c \in Browsers \ {settings[p].in} : /\ switched'[c] = switched[c] /\ sub'[c] \in {0, sub[c]}
                                                /\ BrowserWanted(c)
  PROVE  \A c \in Browsers \ {settings[p].in} : BrowserWanted(c)'
<1> SUFFICES ASSUME NEW c \in Browsers \ {settings[p].in} PROVE BrowserWanted(c)'
  OBVIOUS
<1>1. Changing(c)' = Changing(c) /\ \A q \in Pages : settings'[q] = IF q = p THEN x ELSE settings[q]
  BY PageMoves DEF PushInv
<1>2. \A q \in Changing(c) : settings'[q] = settings[q]
  BY <1>1 DEF Changing
<1> QED BY <1>1, <1>2, WantedStays

LEMMA OpenWants == ASSUME WantInv, NEW p \in Pages, NEW u \in Owners, OpenSettings(p, u) PROVE AllWanted'
<1>1. PICK o \in BOOLEAN : o = (sub[settings[p].in] # 0)
  OBVIOUS
<1>2. settings' = [settings EXCEPT ![p] = [@ EXCEPT !.by = u, !.on = o]]
  BY <1>1 DEF OpenSettings
<1>3. settings \in [Pages -> SwitchPage]
  BY PushTypes DEF WantInv, PushInv
<1>4. /\ settings[p].at = "idle" /\ settings'[p].at = "idle" /\ settings'[p].in = settings[p].in
      /\ \A q \in Pages \ {p} : settings'[q] = settings[q]
      /\ UNCHANGED <<sub, wants, switched>>
  BY <1>2, <1>3 DEF OpenSettings, SwitchPage
<1>5. \A b \in Browsers : Changing(b)' = Changing(b) /\ p \notin Changing(b)
  BY <1>4 DEF Changing
<1>6. Enabling'
  BY <1>4 DEF WantInv, AllWanted, Enabling
<1>7. ASSUME NEW b \in Browsers PROVE BrowserWanted(b)'
  <2>1. \A q \in Changing(b) : settings'[q] = settings[q]
    BY <1>4, <1>5 DEF Changing
  <2> QED BY <1>4, <1>5, <2>1, WantedStays DEF WantInv, AllWanted
<1> QED BY <1>6, <1>7 DEF AllWanted

LEMMA SwitchWants == ASSUME WantInv, NEW p \in Pages, Switch(p) PROVE AllWanted'
<1>0. settings[p].in \in Browsers /\ settings[p] \in SwitchPage
  BY PushTypes DEF WantInv, PushInv, SwitchPage
<1>b. PICK b \in Browsers : b = settings[p].in
  BY <1>0
<1>e. PICK e : e = IF ~settings[p].on /\ sub[b] = 0 THEN numbers + 1 ELSE sub[b]
  OBVIOUS
<1>at. PICK at : at = CASE ~settings[p].on -> "clear" [] e = 0 -> "wants" [] OTHER -> "delete"
  OBVIOUS
<1>x. PICK x : x = [settings[p] EXCEPT !.about = e, !.at = at]
  OBVIOUS
<1>t. PICK t \in BOOLEAN : t = ((switched[b].torn /\ ~(Others(p) = {} /\ ~settings[p].on)) \/ Others(p) # {})
  OBVIOUS
<1>1. /\ settings[p].at = "idle" /\ settings' = [settings EXCEPT ![p] = x]
      /\ sub' = [sub EXCEPT ![b] = e] /\ wants' = wants
      /\ switched' = [switched EXCEPT ![b].torn = t]
  BY <1>b, <1>e, <1>at, <1>x, <1>t DEF Switch
<1>2. /\ switched \in Switches /\ sub \in [Browsers -> Nat]
      /\ PushTyped' /\ settings' \in [Pages -> SwitchPage]
  BY SwitchKeeps, PushTypes DEF WantInv, PushInv, PushTyped, PushTypeOK, SwitchPage
<1>3. \/ at = "clear" /\ ~settings[p].on
      \/ at = "wants" /\ e = 0 /\ settings[p].on
      \/ at = "delete" /\ settings[p].on /\ e = sub[b]
  <2>1. CASE ~settings[p].on
    <3>1. e # 0
      BY <1>e, <2>1, PushTypes DEF WantInv, PushInv
    <3> QED BY <1>at, <2>1, <3>1
  <2>2. CASE settings[p].on /\ e = 0
    BY <1>e, <1>at, <2>2
  <2>3. CASE settings[p].on /\ e # 0
    BY <1>e, <1>at, <2>3
  <2> QED BY <2>1, <2>2, <2>3
<1>4. /\ x.at = at /\ x.in = b /\ x.on = settings[p].on
      /\ \A q \in Pages : settings'[q] = IF q = p THEN x ELSE settings[q]
  BY <1>0, <1>1, <1>b, <1>x, PushTypes DEF WantInv, PushInv, SwitchPage
<1>5. x \in SwitchPage
  BY <1>2, <1>4
<1>6. Enabling'
  BY <1>3, <1>4 DEF WantInv, AllWanted, Enabling
<1>7. /\ sub'[b] = e /\ switched'[b].by = switched[b].by /\ switched'[b].muted = switched[b].muted
      /\ switched'[b].torn = t
      /\ \A c \in Browsers \ {b} : switched'[c] = switched[c] /\ sub'[c] = sub[c]
  BY <1>1, <1>2 DEF Switches
<1>8. \A c \in Browsers \ {b} : BrowserWanted(c)'
  <2>1. \A c \in Browsers \ {settings[p].in} : /\ switched'[c] = switched[c] /\ sub'[c] \in {0, sub[c]}
                                               /\ BrowserWanted(c)
    BY <1>7, <1>b DEF WantInv, AllWanted
  <2>2. PushInv /\ x.in = settings[p].in
    BY <1>4, <1>b DEF WantInv
  <2> QED BY <1>1, <1>5, <1>b, <2>1, <2>2, WantedElsewhere
<1>9. BrowserWanted(b)'
  <2> SUFFICES ASSUME ~t, e # 0 PROVE BrowserWanted(b)'
    BY <1>7 DEF BrowserWanted
  <2>1. Others(p) = {} /\ (switched[b].torn => ~settings[p].on)
    BY <1>t
  <2>2. Changing(b) = {} /\ Changing(b)' = {p}
    BY <1>1, <1>3, <1>4, <1>b, <2>1 DEF Others, Changing
  <2>3. CASE ~settings[p].on
    BY <1>3, <1>4, <2>2, <2>3 DEF BrowserWanted
  <2>4. CASE settings[p].on
    <3>1. at = "delete" /\ sub[b] # 0 /\ ~switched[b].torn
      BY <1>3, <2>1, <2>4
    <3>2. Wanted(b)
      BY <2>2, <3>1 DEF WantInv, AllWanted, BrowserWanted
    <3>3. Wanted(b)'
      BY <1>1, <1>7, <3>2 DEF Wanted
    <3> QED BY <1>4, <2>2, <3>1, <3>3 DEF BrowserWanted
  <2> QED BY <2>3, <2>4
<1> QED BY <1>6, <1>8, <1>9 DEF AllWanted

\* A step within a change, but its last.
LEMMA StepWants ==
  ASSUME WantInv, NEW p \in Pages, Clear(p) \/ Create(p) \/ Delete(p) \/ Unsubscribe(p) PROVE AllWanted'
<1>at. PICK at \in {"create", "wants", "unsubscribe"} :
         /\ settings' = [settings EXCEPT ![p] = [@ EXCEPT !.at = at]]
         /\ at = "create" => settings[p].at = "clear"
         /\ at = "wants" => (Create(p) /\ settings[p].at = "create") \/ Unsubscribe(p)
  BY DEF Clear, Create, Delete, Unsubscribe, Step
<1>b. PICK b : b = settings[p].in
  OBVIOUS
<1>0. settings[p].at # "idle" /\ wants' = wants
  BY DEF Clear, Create, Delete, Unsubscribe, Step
<1>1. /\ b \in Browsers /\ settings[p] \in SwitchPage /\ p \in Changing(b)
      /\ ~switched[b].torn => Changing(b) = {p} /\ sub[b] \in {0, settings[p].about}
  BY <1>0, <1>b, PageKnown DEF WantInv
<1>x. PICK x : x = [settings[p] EXCEPT !.at = at]
  OBVIOUS
<1>2. /\ x \in SwitchPage /\ x.in = b /\ x.on = settings[p].on /\ x.by = settings[p].by /\ x.at = at
      /\ settings' = [settings EXCEPT ![p] = x]
  BY <1>1, <1>at, <1>b, <1>x DEF SwitchPage
<1>3. /\ \A q \in Pages : settings'[q] = IF q = p THEN x ELSE settings[q]
      /\ Changing(b)' = Changing(b)
  <2>1. /\ \A q \in Pages : settings'[q] = IF q = p THEN x ELSE settings[q]
        /\ Changing(x.in)' = IF x.at = "idle" THEN Changing(x.in) \ {p} ELSE Changing(x.in) \cup {p}
    BY <1>2, <1>b, PageMoves DEF WantInv, PushInv
  <2> QED BY <1>1, <1>2, <2>1
<1>4. /\ switched \in Switches /\ sub \in [Browsers -> Nat]
  BY PushTypes DEF WantInv, PushInv, PushTyped
<1>5. /\ \A c \in Browsers \ {b} : switched'[c] = switched[c] /\ sub'[c] = sub[c]
      /\ switched'[b].torn = switched[b].torn
      /\ Create(p) => switched'[b].by = settings[p].by
      /\ Unsubscribe(p) /\ sub[b] \in {0, settings[p].about} => sub'[b] = 0
  <2>1. CASE Clear(p) \/ Delete(p)
    <3>1. sub' = sub /\ switched' = switched /\ settings[p].at \in {"clear", "delete"}
      BY <2>1 DEF Clear, Delete, Step
    <3>2. ~Create(p) /\ ~Unsubscribe(p)
      BY <3>1 DEF Create, Unsubscribe, Step
    <3> QED BY <3>1, <3>2
  <2>2. CASE Create(p)
    <3>1. sub' = sub /\ settings[p].at = "create" /\ switched' = [switched EXCEPT ![b].by = settings[p].by]
      BY <1>b, <2>2 DEF Create, Step
    <3>2. ~Unsubscribe(p)
      BY <3>1 DEF Unsubscribe, Step
    <3> QED BY <1>1, <1>4, <3>1, <3>2 DEF Switches
  <2>3. CASE Unsubscribe(p)
    <3>1. switched' = switched /\ settings[p].at = "unsubscribe"
          /\ sub' = [sub EXCEPT ![b] = IF @ = settings[p].about THEN 0 ELSE @]
      BY <1>b, <2>3 DEF Unsubscribe, Step
    <3>2. ~Create(p)
      BY <3>1 DEF Create, Step
    <3> QED BY <1>1, <1>4, <3>1, <3>2
  <2> QED BY <2>1, <2>2, <2>3
<1>6. Enabling'
  BY <1>2, <1>3, <1>at DEF WantInv, AllWanted, Enabling
<1>7. \A c \in Browsers \ {b} : BrowserWanted(c)'
  <2>1. \A c \in Browsers \ {settings[p].in} : /\ switched'[c] = switched[c] /\ sub'[c] \in {0, sub[c]}
                                               /\ BrowserWanted(c)
    BY <1>5, <1>b DEF WantInv, AllWanted
  <2>2. PushInv /\ x.in = settings[p].in
    BY <1>2, <1>b DEF WantInv
  <2> QED BY <1>0, <1>2, <1>b, <2>1, <2>2, WantedElsewhere
<1>8. BrowserWanted(b)'
  <2> SUFFICES ASSUME ~switched[b].torn, sub'[b] # 0 PROVE BrowserWanted(b)'
    BY <1>5 DEF BrowserWanted
  <2>1. Changing(b)' = {p} /\ sub[b] \in {0, settings[p].about} /\ settings'[p] = x
    BY <1>1, <1>3
  <2>2. at = "wants" => Create(p) /\ settings[p].at = "create"
    BY <1>5, <1>at, <2>1
  <2>3. at = "wants" => ~x.on /\ switched'[b].by = x.by
    BY <1>2, <1>5, <2>2 DEF WantInv, AllWanted, Enabling
  <2> QED BY <1>2, <2>1, <2>3 DEF BrowserWanted
<1> QED BY <1>6, <1>7, <1>8 DEF AllWanted

LEMMA SaveWanted == ASSUME WantInv, NEW p \in Pages, SaveWants(p) PROVE AllWanted'
<1>b. PICK b : b = settings[p].in
  OBVIOUS
<1>o. settings[p].on \in BOOLEAN
  BY PushTypes DEF WantInv, PushInv, SwitchPage
<1>on. PICK on \in BOOLEAN : on = ~settings[p].on
  OBVIOUS
<1>x. PICK x : x = [settings[p] EXCEPT !.at = "idle", !.about = 0, !.on = on]
  OBVIOUS
<1>0. /\ settings[p].at = "wants" /\ settings' = [settings EXCEPT ![p] = x]
      /\ wants' = [wants EXCEPT ![settings[p].by] = on] /\ sub' = sub
  BY <1>on, <1>x DEF SaveWants
<1>1. /\ b \in Browsers /\ settings[p] \in SwitchPage /\ p \in Changing(b) /\ settings[p].by \in Owners
      /\ ~switched[b].torn => Changing(b) = {p}
  BY <1>0, <1>b, PageKnown DEF WantInv, SwitchPage
<1>2. x \in SwitchPage /\ x.in = b /\ x.at = "idle"
  <2>1. 0 \in 0..MaxMade
    BY PushAssumption
  <2>2. x \in SwitchPage
    BY <1>1, <1>x, <2>1 DEF SwitchPage
  <2>3. x.at = "idle"
    BY <1>1, <1>x DEF SwitchPage
  <2>4. x.in = b
    BY <1>1, <1>b, <1>x DEF SwitchPage
  <2> QED BY <2>2, <2>3, <2>4
<1>3. /\ \A q \in Pages : settings'[q] = IF q = p THEN x ELSE settings[q]
      /\ \A c \in Browsers \ {b} : Changing(c)' = Changing(c)
      /\ Changing(b)' = Changing(b) \ {p}
  BY <1>0, <1>2, <1>b, PageMoves DEF WantInv, PushInv
<1>4. /\ wants \in [Owners -> BOOLEAN] /\ switched \in Switches
      /\ \A c \in Browsers : /\ switched'[c].by = switched[c].by /\ switched'[c].torn = switched[c].torn
                             /\ c # b /\ switched[c].by # settings[p].by => switched'[c] = switched[c]
                             /\ c # b /\ switched[c].by = settings[p].by => switched'[c].muted = settings[p].on
  BY <1>b, <1>o, WantsSaved DEF WantInv, PushInv, PushTyped
<1>5. Enabling'
  BY <1>2, <1>3 DEF WantInv, AllWanted, Enabling
<1>6. ASSUME NEW c \in Browsers, Wanted(c), c # b PROVE Wanted(c)'
  <2>1. CASE switched[c].by = settings[p].by
    <3>1. wants'[switched'[c].by] = on /\ switched'[c].by \in Owners /\ switched'[c].muted = settings[p].on
      BY <1>0, <1>1, <1>4, <1>6, <2>1
    <3> QED BY <1>on, <3>1 DEF Wanted
  <2>2. CASE switched[c].by # settings[p].by
    <3>1. switched'[c] = switched[c] /\ switched[c].by \in Owners
      BY <1>4, <1>6, <2>2 DEF Wanted
    <3>2. wants'[switched[c].by] = wants[switched[c].by]
      BY <1>0, <1>4, <2>2, <3>1
    <3> QED BY <1>6, <3>1, <3>2 DEF Wanted
  <2> QED BY <2>1, <2>2
<1>7. ASSUME NEW c \in Browsers \ {b} PROVE BrowserWanted(c)'
  <2>1. \A q \in Changing(c) : settings'[q] = settings[q]
    BY <1>1, <1>3, <1>b DEF Changing
  <2> QED BY <1>0, <1>3, <1>4, <1>6, <2>1 DEF WantInv, AllWanted, BrowserWanted
<1>8. BrowserWanted(b)'
  <2> SUFFICES ASSUME ~switched[b].torn, sub[b] # 0 PROVE BrowserWanted(b)'
    BY <1>0, <1>1, <1>4 DEF BrowserWanted
  <2>1. ~settings[p].on /\ switched[b].by = settings[p].by
    BY <1>0, <1>1 DEF WantInv, AllWanted, BrowserWanted
  <2>2. Changing(b)' = {}
    BY <1>1, <1>3
  <2>3. switched'[b].by \in Owners /\ wants'[switched'[b].by]
    BY <1>0, <1>1, <1>4, <1>on, <2>1
  <2> QED BY <2>2, <2>3 DEF BrowserWanted, Wanted
<1> QED BY <1>5, <1>7, <1>8 DEF AllWanted

LEMMA FailWants == ASSUME WantInv, NEW p \in Pages, FailSwitch(p) PROVE AllWanted'
<1>b. PICK b : b = settings[p].in
  OBVIOUS
<1>x. PICK x : x = [settings[p] EXCEPT !.at = "idle", !.about = 0]
  OBVIOUS
<1>t. PICK t \in BOOLEAN : t = (switched[b].torn \/ settings[p].at \in {"clear", "create", "unsubscribe"}
                               \/ (settings[p].at = "wants" /\ ~settings[p].on))
  OBVIOUS
<1>0. /\ settings[p].at # "idle" /\ settings' = [settings EXCEPT ![p] = x]
      /\ wants' = wants /\ sub' = sub /\ switched' = [switched EXCEPT ![b].torn = t]
  BY <1>b, <1>x, <1>t DEF FailSwitch
<1>1. /\ b \in Browsers /\ settings[p] \in SwitchPage /\ p \in Changing(b)
      /\ ~switched[b].torn => Changing(b) = {p}
      /\ settings[p].at \in {"clear", "create", "delete", "unsubscribe", "wants"}
  BY <1>0, <1>b, PageKnown DEF WantInv, SwitchPage
<1>2. x \in SwitchPage /\ x.in = b /\ x.at = "idle"
  <2>1. 0 \in 0..MaxMade
    BY PushAssumption
  <2>2. x \in SwitchPage
    BY <1>1, <1>x, <2>1 DEF SwitchPage
  <2>3. x.at = "idle"
    BY <1>1, <1>x DEF SwitchPage
  <2>4. x.in = b
    BY <1>1, <1>b, <1>x DEF SwitchPage
  <2> QED BY <2>2, <2>3, <2>4
<1>3. /\ \A q \in Pages : settings'[q] = IF q = p THEN x ELSE settings[q]
      /\ Changing(b)' = Changing(b) \ {p}
  BY <1>0, <1>2, <1>b, PageMoves DEF WantInv, PushInv
<1>4. /\ \A c \in Browsers \ {b} : switched'[c] = switched[c]
      /\ switched'[b].by = switched[b].by /\ switched'[b].muted = switched[b].muted /\ switched'[b].torn = t
  BY <1>0, <1>1 DEF WantInv, PushInv, PushTyped, Switches
<1>5. Enabling'
  BY <1>2, <1>3 DEF WantInv, AllWanted, Enabling
<1>6. \A c \in Browsers \ {b} : BrowserWanted(c)'
  <2>1. \A c \in Browsers \ {settings[p].in} : /\ switched'[c] = switched[c] /\ sub'[c] \in {0, sub[c]}
                                               /\ BrowserWanted(c)
    BY <1>0, <1>4, <1>b DEF WantInv, AllWanted
  <2>2. PushInv /\ x.in = settings[p].in
    BY <1>2, <1>b DEF WantInv
  <2> QED BY <1>0, <1>2, <1>b, <2>1, <2>2, WantedElsewhere
<1>7. BrowserWanted(b)'
  <2> SUFFICES ASSUME ~t, sub[b] # 0 PROVE BrowserWanted(b)'
    BY <1>0, <1>4 DEF BrowserWanted
  <2>1. ~switched[b].torn /\ settings[p].at \in {"delete", "wants"} /\ (settings[p].at = "wants" => settings[p].on)
    BY <1>1, <1>t
  <2>2. Changing(b) = {p} /\ settings[p].at = "delete"
    BY <1>1, <2>1 DEF WantInv, AllWanted, BrowserWanted
  <2>3. Wanted(b)
    <3>1. BrowserWanted(b)
      BY <1>1 DEF WantInv, AllWanted
    <3>2. \A q \in Changing(b) : settings[q].at = "delete"
      BY <2>2
    <3> QED BY <2>1, <3>1, <3>2 DEF BrowserWanted
  <2>4. Changing(b)' = {} /\ Wanted(b)'
    BY <1>0, <1>3, <1>4, <2>2, <2>3 DEF Wanted
  <2> QED BY <2>4 DEF BrowserWanted
<1> QED BY <1>5, <1>6, <1>7 DEF AllWanted

LEMMA ServerWants ==
  ASSUME WantInv, UNCHANGED <<settings, wants, switched>>, \A b \in Browsers : sub'[b] \in {0, sub[b]}
  PROVE  AllWanted'
<1>1. \A b \in Browsers : Changing(b)' = Changing(b)
  BY DEF Changing
<1> QED BY <1>1, WantedStays DEF WantInv, AllWanted, Enabling

LEMMA WantInitInv == PushInit => WantInv
<1> SUFFICES ASSUME PushInit PROVE WantInv
  OBVIOUS
<1>1. \A p \in Pages : settings[p].at = "idle"
  BY DEF PushInit
<1> QED BY <1>1, PushInitInv DEF PushInit, WantInv, AllWanted, Enabling, BrowserWanted

LEMMA WantNextInv == WantInv /\ [PushNext]_pushVars => WantInv'
<1> SUFFICES ASSUME WantInv, [PushNext]_pushVars PROVE AllWanted'
  BY PushNextInv DEF WantInv
<1>1. CASE UNCHANGED pushVars
  <2>1. UNCHANGED <<settings, wants, switched, sub>>
    BY <1>1 DEF pushVars
  <2> QED BY <2>1, ServerWants
<1>2. ASSUME NEW b \in Browsers, SubscriptionEnds(b) PROVE AllWanted'
  <2>1. \A c \in Browsers : sub'[c] \in {0, sub[c]}
    BY <1>2, PushTypes DEF SubscriptionEnds, WantInv, PushInv
  <2> QED BY <1>2, <2>1, ServerWants DEF SubscriptionEnds
<1>3. ASSUME NEW u \in Owners, Deliver(u) PROVE AllWanted'
  <2>1. UNCHANGED <<settings, wants, switched, sub>>
    BY <1>3 DEF Deliver
  <2> QED BY <2>1, ServerWants
<1>4. ASSUME NEW r \in sends, NEW reached \in BOOLEAN, Send(r, reached) PROVE AllWanted'
  <2>1. UNCHANGED <<settings, wants, switched, sub>>
    BY <1>4 DEF Send
  <2> QED BY <2>1, ServerWants
<1>5. CASE PushNext
  BY <1>2, <1>3, <1>4, <1>5, OpenWants, SwitchWants, StepWants, SaveWanted, FailWants DEF PushNext
<1> QED BY <1>1, <1>5

LEMMA WantInvAlways == PushSpec => []WantInv
BY WantInitInv, WantNextInv, PTL DEF PushSpec

-----------------------------------------------------------------------------
\* push.ts, PushSubscription: pages, subscriptions and rows hold what the program could store.
THEOREM PushIsTyped == PushSpec => []PushTypeOK
<1>1. WantInv => PushTypeOK
  BY DEF WantInv, PushInv, PushTyped
<1> QED BY <1>1, WantInvAlways, PTL

\* subscribePush, deliver, deliverWeb: for any pages, browsers and accounts, and any number of
\* endpoints and deliveries in flight, the account of an enabled browser is told, and the browser
\* once, with the exceptions that the property names.
THEOREM BrowserToldOnce == PushSpec => []EnabledBrowserIsToldOnce
<1>1. WantInv => EnabledBrowserIsToldOnce
  <2> SUFFICES ASSUME WantInv, NEW b \in Browsers, sub[b] # 0, ~switched[b].torn,
                      \A p \in Pages : settings[p].in = b => settings[p].at = "idle"
               PROVE  Settled(b) /\ Wanted(b)
    BY DEF EnabledBrowserIsToldOnce, Settled, Wanted, RowsOf
  <2>1. Changing(b) = {}
    BY DEF Changing
  <2> QED BY <2>1 DEF WantInv, AllWanted, PushInv, BrowserKnown, BrowserWanted
<1> QED BY <1>1, WantInvAlways, PTL
=============================================================================
