-------------------------- MODULE AccountSessions --------------------------
(***************************************************************************)
(* The sessions and the status of one account                              *)
(* (apps/api/src/app.service.ts).                                          *)
(*                                                                         *)
(* The account row is in the database; refresh tokens, the activity of     *)
(* sessions, failed logins and reset mails are in Redis.  Every call to     *)
(* either is a step: a request's `todo` holds the calls it may make next,   *)
(* more than one where the code awaits a Promise.all.  A request is made    *)
(* once and issues at most one pair of tokens, so tokens, and the sessions  *)
(* a login opens, are named by the request that issued them.               *)
(***************************************************************************)
EXTENDS Integers

CONSTANTS Requests,    \* every request ever made for the account; also names tokens
          None,        \* no request
          Ops,         \* the operations that those requests ask for
          MaxAttempts  \* LOGIN_MAX_ATTEMPTS

AllOps == {"login", "refresh", "request", "logout", "changePassword", "deleteMyAccount",
           "forgot", "resetPassword", "adminUpdateUser", "adminArchiveUser",
           "adminRestoreUser"}

ASSUME SessionAssumption ==
  /\ None \notin Requests
  /\ Ops \subseteq AllOps
  /\ MaxAttempts \in Nat \ {0}

VARIABLES account,     \* the User row
          tokens,      \* tokens[r]: the tokens request r has signed
          records,     \* refresh tokens with a record in Redis (auth:refresh:...)
          used,        \* refresh tokens marked as used (auth:refresh:used:...)
          listed,      \* the account's set of refresh tokens (auth:refresh:user:...)
          active,      \* sessions used within the idle timeout (auth:session:...)
          failures,    \* failed logins in the current window
          resets,      \* reset tokens that may still be redeemed
          latestReset, \* the reset token the account remembers
          requests     \* the progress and the locals of every request

redisVars == <<records, used, listed, active, failures, resets, latestReset>>
vars == <<account, tokens, redisVars, requests>>

\* "suspended" stands for the three ways an administrator may bar an account without
\* archiving it.  An erased account has no address left to log in or ask for a mail with.
Statuses == {"active", "locked", "archived", "suspended"}
Account == [status : Statuses, version : Nat, password : Nat, erased : BOOLEAN]

\* The claims of a pair of tokens, with the password its session was opened with and the
\* refresh token it replaces.
Token   == [version : Nat, password : Nat, session : Requests, parent : Requests \cup {None}]
NoToken == [version |-> 0, password |-> 0, session |-> None, parent |-> None]

Steps == {"countFailure", "lock", "clearFailures",          \* login
          "checkUsed", "bump", "readUser", "use", "unlist", "drop", \* refreshToken
          "record", "activate", "list",                     \* issue
          "checkIdle", "endIdle", "touch",                  \* enforceSessionTimeout
          "readPassword", "readList", "revoke", "write",    \* logout, changePassword, ...
          "readReset", "dropReset", "storeReset", "storeLatest", "mail", "undoReset",
          "forget"}                                         \* forgot, resetPassword
Request == [op : AllOps \cup {"none"},       \* "none" until the request is made
            token : Requests \cup {None},    \* the token it presents
            user : [version : Nat, password : Nat],  \* what it remembers of the row
            seen : SUBSET Requests,          \* the tokens it has read
            todo : SUBSET Steps,             \* the calls it may make next
            failed : BOOLEAN]
Unmade == [op |-> "none", token |-> None, user |-> [version |-> 0, password |-> 0],
           seen |-> {}, todo |-> {}, failed |-> FALSE]

Init ==
  /\ account = [status |-> "active", version |-> 0, password |-> 0, erased |-> FALSE]
  /\ tokens = [r \in Requests |-> NoToken]
  /\ records = {} /\ used = {} /\ listed = {} /\ active = {}
  /\ failures = 0
  /\ resets = {} /\ latestReset = None
  /\ requests = [r \in Requests |-> Unmade]

Signed(r)  == tokens[r] # NoToken
\* The client has its tokens once the three writes of issue are done.
Delivered(r) == Signed(r) /\ requests[r].todo = {} /\ ~requests[r].failed
Session(r) == tokens[requests[r].token].session

Begin(r, op, token, todo) ==
  /\ op \in Ops
  /\ requests[r].op = "none"
  /\ requests' = [requests EXCEPT ![r] =
       [op |-> op, token |-> token,
        user |-> [version |-> account.version, password |-> account.password],
        seen |-> {}, todo |-> todo, failed |-> FALSE]]
\* Request r makes the call `step` and may then make those in `next`.
Make(r, step, next) ==
  /\ step \in requests[r].todo
  /\ requests' = [requests EXCEPT ![r].todo = (@ \ {step}) \cup next]

----------------------------------------------------------------------------
(* issue: sign a pair of tokens, then store the refresh token's record, the *)
(* activity of its session and its entry in the account's set, in any order. *)

Issuing == {"record", "activate", "list"}

Issue(r, version, password, session, parent) ==
  tokens' = [tokens EXCEPT ![r] = [version |-> version, password |-> password,
                                   session |-> session, parent |-> parent]]

Record(r) ==
  /\ Make(r, "record", {})
  /\ records' = records \cup {r}
  /\ UNCHANGED <<account, tokens, used, listed, active, failures, resets, latestReset>>

Activate(r) ==
  /\ Make(r, "activate", {})
  /\ active' = active \cup {tokens[r].session}
  /\ UNCHANGED <<account, tokens, records, used, listed, failures, resets, latestReset>>

List(r) ==
  /\ Make(r, "list", {})
  /\ listed' = listed \cup {r}
  /\ UNCHANGED <<account, tokens, records, used, active, failures, resets, latestReset>>

----------------------------------------------------------------------------
(* login: everything it decides on is the row it reads first.              *)

\* The row is found by its address and is neither archived nor locked; `right` says
\* whether the password is the one in the row.  A right password for a suspended account
\* is refused and changes nothing.
Login(r, right) ==
  /\ account.status \in {"active", "suspended"} /\ ~account.erased
  /\ right => account.status = "active"
  /\ Begin(r, "login", None, IF right THEN {"clearFailures"} ELSE {"countFailure"})
  /\ UNCHANGED <<account, tokens, redisVars>>

CountFailure(r) ==
  /\ Make(r, "countFailure", IF failures + 1 >= MaxAttempts THEN {"lock"} ELSE {})
  /\ failures' = failures + 1
  /\ UNCHANGED <<account, tokens, records, used, listed, active, resets, latestReset>>

Lock(r) ==
  /\ Make(r, "lock", {})
  /\ account' = [account EXCEPT !.status = "locked"]
  /\ UNCHANGED <<tokens, redisVars>>

OneFewer(n) == n - 1
Cleared(n) == 0

ClearFailures(r) ==
  /\ Make(r, "clearFailures", Issuing)
  /\ failures' = Cleared(failures)
  /\ Issue(r, requests[r].user.version, requests[r].user.password, r, None)
  /\ UNCHANGED <<account, records, used, listed, active, resets, latestReset>>

----------------------------------------------------------------------------
(* caller: the guard of every other operation, and of a plain request.      *)

Authenticated == {"request", "logout", "changePassword", "deleteMyAccount"}

AcceptsAnyVersion(statuses, t) == account.status \in statuses
Accepts(statuses, t) == account.status \in statuses /\ account.version = tokens[t].version

Authenticate(r, op, t) ==
  /\ op \in Authenticated
  /\ Delivered(t)
  /\ Accepts(IF op = "changePassword" THEN {"active", "locked"} ELSE {"active"}, t)
  /\ Begin(r, op, t, {"checkIdle"})
  /\ UNCHANGED <<account, tokens, redisVars>>

\* enforceSessionTimeout, of refreshToken too: a session with no activity on record counts
\* as idle for too long.
NeverIdle(s) == FALSE
IdleTooLong(s) == s \notin active

AfterIdleCheck(op) ==
  CASE op = "refresh"                               -> {"readUser"}
    [] op = "request"                               -> {}
    [] op = "logout"                                -> {"readList"}
    [] op \in {"changePassword", "deleteMyAccount"} -> {"readPassword"}
    [] OTHER                                        -> {}

CheckIdle(r) ==
  /\ Make(r, "checkIdle", IF IdleTooLong(Session(r)) THEN {"endIdle"} ELSE {"touch"})
  /\ UNCHANGED <<account, tokens, redisVars>>

EndIdle(r) ==
  /\ Make(r, "endIdle", {})
  /\ active' = active \ {Session(r)}
  /\ UNCHANGED <<account, tokens, records, used, listed, failures, resets, latestReset>>

Touch(r) ==
  /\ Make(r, "touch", AfterIdleCheck(requests[r].op))
  /\ active' = active \cup {Session(r)}
  /\ UNCHANGED <<account, tokens, records, used, listed, failures, resets, latestReset>>

\* The idle timeout of a session passes.
Lapse(s) ==
  /\ s \in active
  /\ active' = active \ {s}
  /\ UNCHANGED <<account, tokens, records, used, listed, failures, resets, latestReset,
                 requests>>

----------------------------------------------------------------------------
(* refreshToken: take the record (GETDEL), so only one request gets it; a    *)
(* token that has no record but is marked as used is a replay, and signs     *)
(* everybody out.                                                          *)

ReadRecord(t) == UNCHANGED records
TakeRecord(t) == records' = records \ {t}

Refresh(r, t) ==
  /\ Delivered(t)
  /\ Begin(r, "refresh", t, IF t \in records THEN {"checkIdle"} ELSE {"checkUsed"})
  /\ TakeRecord(t)
  /\ UNCHANGED <<account, tokens, used, listed, active, failures, resets, latestReset>>

AnyMissing(t) == TRUE
WasUsed(t) == t \in used

CheckUsed(r) ==
  /\ Make(r, "checkUsed", IF WasUsed(requests[r].token) THEN {"bump"} ELSE {})
  /\ UNCHANGED <<account, tokens, redisVars>>

ReadUser(r) ==
  /\ "readUser" \in requests[r].todo
  /\ requests' =
       [requests EXCEPT
          ![r].user = [version |-> account.version, password |-> account.password],
          ![r].todo = (@ \ {"readUser"}) \cup
                        IF Accepts({"active"}, requests[r].token) THEN {"use", "unlist"}
                                                                  ELSE {"drop"}]
  /\ UNCHANGED <<account, tokens, redisVars>>

\* A token that is refused after its record was taken leaves the account's set as well.
Drop(r) ==
  /\ Make(r, "drop", {})
  /\ listed' = listed \ {requests[r].token}
  /\ UNCHANGED <<account, tokens, records, used, active, failures, resets, latestReset>>

\* Promise.all of the mark and the removal; whichever is last goes on to issue.
Rotate(r, step) ==
  LET t == requests[r].token
      last == requests[r].todo = {step} /\ ~requests[r].failed
  IN  /\ Make(r, step, IF last THEN Issuing ELSE {})
      /\ IF last THEN Issue(r, requests[r].user.version, tokens[t].password,
                            tokens[t].session, t)
                 ELSE UNCHANGED tokens

Use(r) ==
  /\ Rotate(r, "use")
  /\ used' = used \cup {requests[r].token}
  /\ UNCHANGED <<account, records, listed, active, failures, resets, latestReset>>

Unlist(r) ==
  /\ Rotate(r, "unlist")
  /\ listed' = listed \ {requests[r].token}
  /\ UNCHANGED <<account, records, used, active, failures, resets, latestReset>>

----------------------------------------------------------------------------
(* removeRefreshSessions, then the row: logout, changePassword,              *)
(* deleteMyAccount and, in parallel, resetPassword.                         *)

\* changePassword and deleteMyAccount read the row for the password, and the former
\* refuses locked accounts; `right` says whether the user knows it.
ReadPassword(r, right) ==
  /\ Make(r, "readPassword",
          IF right /\ ~(requests[r].op = "changePassword" /\ account.status = "locked")
          THEN {"readList"} ELSE {})
  /\ UNCHANGED <<account, tokens, redisVars>>

ReadList(r) ==
  /\ "readList" \in requests[r].todo
  /\ requests' = [requests EXCEPT ![r].seen = listed,
                                  ![r].todo = (@ \ {"readList"}) \cup {"revoke"}]
  /\ UNCHANGED <<account, tokens, redisVars>>

Revoke(r) ==
  /\ Make(r, "revoke", CASE requests[r].op = "logout"        -> {"bump"}
                         [] requests[r].op = "resetPassword" -> {}
                         [] OTHER                            -> {"write"})
  /\ records' = records \ requests[r].seen
  /\ listed' = {}
  /\ UNCHANGED <<account, tokens, used, active, failures, resets, latestReset>>

\* tokenVersion + 1: of logout, and of a replay.
Bump(r) ==
  /\ Make(r, "bump", {})
  /\ account' = [account EXCEPT !.version = @ + 1]
  /\ UNCHANGED <<tokens, redisVars>>

\* A new password (a random one when the account is erased) and tokenVersion + 1.
NewPassword(status, erased) ==
  account' = [status |-> status, version |-> account.version + 1,
              password |-> account.password + 1, erased |-> erased]

Write(r) ==
  /\ requests[r].op \in {"changePassword", "deleteMyAccount", "resetPassword"}
  /\ Make(r, "write", {})
  /\ CASE requests[r].op = "changePassword"  -> NewPassword(account.status, account.erased)
       [] requests[r].op = "deleteMyAccount" -> NewPassword("suspended", TRUE)
       [] requests[r].op = "resetPassword"   -> NewPassword("active", account.erased)
  /\ UNCHANGED <<tokens, redisVars>>

----------------------------------------------------------------------------
(* forgot and resetPassword: only a locked account is sent a reset token.   *)

Forgot(r) ==
  /\ account.status = "locked" /\ ~account.erased
  /\ Begin(r, "forgot", None, {"readReset"})
  /\ UNCHANGED <<account, tokens, redisVars>>

ReadReset(r) ==
  /\ "readReset" \in requests[r].todo
  /\ requests' = [requests EXCEPT
       ![r].seen = {latestReset} \ {None},
       ![r].todo = (@ \ {"readReset"}) \cup
                     IF latestReset = None THEN {"storeReset", "storeLatest"}
                                           ELSE {"dropReset"}]
  /\ UNCHANGED <<account, tokens, redisVars>>

DropReset(r) ==
  /\ Make(r, "dropReset", {"storeReset", "storeLatest"})
  /\ resets' = resets \ requests[r].seen
  /\ UNCHANGED <<account, tokens, records, used, listed, active, failures, latestReset>>

\* Once both are stored the mail is sent.
ThenMail(r, step) ==
  Make(r, step, IF requests[r].todo = {step} /\ ~requests[r].failed THEN {"mail"} ELSE {})

StoreReset(r) ==
  /\ ThenMail(r, "storeReset")
  /\ resets' = resets \cup {r}
  /\ UNCHANGED <<account, tokens, records, used, listed, active, failures, latestReset>>

StoreLatest(r) ==
  /\ ThenMail(r, "storeLatest")
  /\ latestReset' = r
  /\ UNCHANGED <<account, tokens, records, used, listed, active, failures, resets>>

Mail(r, delivered) ==
  /\ Make(r, "mail", IF delivered THEN {} ELSE {"undoReset"})
  /\ UNCHANGED <<account, tokens, redisVars>>

UndoReset(r) ==
  /\ Make(r, "undoReset", {})
  /\ resets' = resets \ {r}
  /\ latestReset' = None
  /\ UNCHANGED <<account, tokens, records, used, listed, active, failures>>

\* The reset token is taken (GETDEL); the rest is one Promise.all.
ResetPassword(r, t) ==
  /\ t \in resets
  /\ requests[t].op = "forgot" /\ requests[t].todo = {} /\ ~requests[t].failed
  /\ Begin(r, "resetPassword", None, {"readList", "forget", "write"})
  /\ resets' = resets \ {t}
  /\ UNCHANGED <<account, tokens, records, used, listed, active, failures, latestReset>>

Forget(r) ==
  /\ Make(r, "forget", {})
  /\ failures' = 0
  /\ latestReset' = None
  /\ UNCHANGED <<account, tokens, records, used, listed, active, resets>>

----------------------------------------------------------------------------
(* Administrators.                                                         *)

\* adminUpdateUser: one write, that depends on nothing it has read.
AdminUpdateUser(r, status) ==
  /\ status # "archived"
  /\ Begin(r, "adminUpdateUser", None, {})
  /\ account' = [account EXCEPT !.status = status,
                                !.version = IF status = "active" THEN @ ELSE @ + 1]
  /\ UNCHANGED <<tokens, redisVars>>

\* adminArchiveUser refuses an archived account, adminRestoreUser any other.
AdminSetsOut(r, op) ==
  /\ op = (IF account.status = "archived" THEN "adminRestoreUser" ELSE "adminArchiveUser")
  /\ Begin(r, op, None, {"write"})
  /\ UNCHANGED <<account, tokens, redisVars>>

ArchiveOnly(r) == account' = [account EXCEPT !.status = "archived"]
ArchiveAccount(r) == account' = [account EXCEPT !.status = "archived", !.version = @ + 1]

AdminWrites(r) ==
  /\ requests[r].op \in {"adminArchiveUser", "adminRestoreUser"}
  /\ Make(r, "write", {})
  /\ IF requests[r].op = "adminArchiveUser"
     THEN ArchiveAccount(r)
     ELSE account' = [account EXCEPT !.status = "active"]
  /\ UNCHANGED <<tokens, redisVars>>

----------------------------------------------------------------------------
\* The window of failed logins passes.
WindowEnds ==
  /\ failures # 0
  /\ failures' = 0
  /\ UNCHANGED <<account, tokens, records, used, listed, active, resets, latestReset,
                 requests>>

\* A call fails, or the process ends: of the calls that r may make, those in `rest` are
\* still made, and nothing follows them.
Fail(r, rest) ==
  /\ rest # requests[r].todo
  /\ requests' = [requests EXCEPT ![r].todo = rest, ![r].failed = TRUE]
  /\ UNCHANGED <<account, tokens, redisVars>>

Begins(r) ==
  \/ \E right \in BOOLEAN : Login(r, right)
  \/ \E t \in Requests : \/ Refresh(r, t) \/ ResetPassword(r, t)
                         \/ \E op \in Authenticated : Authenticate(r, op, t)
  \/ Forgot(r)
  \/ \E status \in Statuses : AdminUpdateUser(r, status)
  \/ \E op \in AllOps : AdminSetsOut(r, op)

Proceeds(r) ==
  \/ CountFailure(r) \/ Lock(r) \/ ClearFailures(r)
  \/ Record(r) \/ Activate(r) \/ List(r)
  \/ CheckIdle(r) \/ EndIdle(r) \/ Touch(r)
  \/ CheckUsed(r) \/ ReadUser(r) \/ Drop(r) \/ Use(r) \/ Unlist(r)
  \/ \E right \in BOOLEAN : ReadPassword(r, right)
  \/ ReadList(r) \/ Revoke(r) \/ Bump(r) \/ Write(r) \/ AdminWrites(r)
  \/ ReadReset(r) \/ DropReset(r) \/ StoreReset(r) \/ StoreLatest(r)
  \/ \E delivered \in BOOLEAN : Mail(r, delivered)
  \/ UndoReset(r) \/ Forget(r)

Next ==
  \/ \E r \in Requests : Begins(r) \/ Proceeds(r)
                         \/ \E rest \in SUBSET requests[r].todo : Fail(r, rest)
  \/ \E s \in Requests : Lapse(s)
  \/ WindowEnds

Spec == Init /\ [][Next]_vars

----------------------------------------------------------------------------
TypeOK ==
  /\ account \in Account
  /\ tokens \in [Requests -> Token \cup {NoToken}]
  /\ records \subseteq Requests /\ used \subseteq Requests /\ listed \subseteq Requests
  /\ active \subseteq Requests /\ resets \subseteq Requests
  /\ failures \in Nat
  /\ latestReset \in Requests \cup {None}
  /\ requests \in [Requests -> Request]

\* Whoever holds tokens that the account still accepts opened the session with the password
\* the account has now: not even a login or a refresh that overlaps the change of the
\* password (and issues its tokens after it) leaves a session of the old one.
NoSessionOutlivesItsPassword ==
  \A r \in Requests :
    Signed(r) /\ tokens[r].version = account.version
      => tokens[r].password = account.password

\* However the requests that present a refresh token overlap, it is exchanged once.
RedeemedOnce ==
  \A q, r \in Requests :
    Signed(q) /\ Signed(r) /\ tokens[q].parent # None /\ tokens[q].parent = tokens[r].parent
      => q = r

\* Only a token that two requests have presented signs everybody out: one that a logout or
\* the removal of an account's sessions revoked is not taken for a replay.  Presenting it
\* again counts whatever came of the first time: if that request failed after it had marked
\* the token (Use) and before its answer, the retry of an honest client is taken for one.
ReplaysAreReal ==
  \A r \in Requests :
    requests[r].op = "refresh" /\ "bump" \in requests[r].todo
      => \E q \in Requests \ {r} : /\ requests[q].op = "refresh"
                                   /\ requests[q].token = requests[r].token

\* No tokens are good for an archived account, those of a login or a refresh that overlaps
\* the archiving included, so restoring it brings no session back.
RestoringRevivesNothing ==
  account.status = "archived"
    => \A r \in Requests : Signed(r) => tokens[r].version # account.version

\* A session that ended for inactivity stays ended: only a request that had passed its idle
\* check before can still mark it as active.
MayRevive == {"touch", "readUser", "use", "unlist", "activate"}
Ended(s) ==
  /\ Signed(s) /\ s \notin active
  /\ \A r \in Requests :
       requests[r].todo \cap MayRevive # {}
         => r # s /\ (requests[r].token = None \/ Session(r) # s)
EndedStaysEnded == [][\A s \in Requests : Ended(s) => Ended(s)']_vars

\* app.service.ts:1595 and the refusal of app.service.ts:324, "Please contact our admin": an
\* archived account stays archived until an administrator changes that.
ArchivedUntilRestored ==
  [][account.status = "archived" /\ account'.status # "archived"
       => \E r \in Requests : \/ AdminWrites(r)
                              \/ \E status \in Statuses : AdminUpdateUser(r, status)]_vars
=============================================================================
